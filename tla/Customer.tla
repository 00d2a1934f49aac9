------------------------------- MODULE Customer -------------------------------
(***************************************************************************)
(* customers/me and customers/me/addresses: each request is one READ       *)
(* COMMITTED transaction that its endpoint commits once, one step for each *)
(* SQL statement.  A statement reads what is committed and waits for the   *)
(* rows another transaction has written; the unique indexes answer for the *)
(* rest.  What a profile, its preferences or an address say besides the    *)
(* owner and the two flags is left out.                                    *)
(***************************************************************************)
EXTENDS Naturals, FiniteSets, AcceptLanguage

CONSTANTS
  Users,      \* accounts; one that has a profile from its registration has it under its own name
  Requests,   \* calls of the endpoints; a profile a request creates has its name
  Addresses,  \* rows of saved_addresses there may be at the start; one a request creates has its name
  Inputs,     \* what a request may ask for
  NoRow, NoProfile

\* A field of the body: a flag, set to null, or left out.
Yes == "true"
No == "false"
Null == "null"
Absent == "absent"

Ops == {"register", "profile", "edit", "list", "create", "update", "delete"}
Input == [op: Ops, user: Users, address: Addresses,
          is_default: {Yes, No, Absent, Null},  \* of POST and PATCH .../addresses
          rest: {Absent, Null, "changed"},      \* the other columns that may not be NULL
          header: Header]                       \* Accept-Language, of a registration

ASSUME CustomerAssumption ==
  /\ Inputs \subseteq Input
  /\ \A i \in Inputs : /\ i.op = "create" => i.is_default \in {Yes, No}
                       /\ i.op # "register" => i.header = <<>>
  /\ Users \cap Requests = {} /\ Addresses \cap Requests = {}
  /\ NoProfile \notin Users \cup Requests

Ids == Users \cup Requests
Rows == Addresses \cup Requests
Row == [owner: Ids, is_default: BOOLEAN, is_active: BOOLEAN]
ASSUME NoRowAssumption == NoRow \notin Row

VARIABLES
  profiles,     \* committed rows of customer_profiles: [id, user]
  preferences,  \* committed rows of customer_preferences: [id, customer, language]
  addresses,    \* committed rows of saved_addresses
  req           \* each request: where it is, what it has read and written

vars == <<profiles, preferences, addresses, req>>

-----------------------------------------------------------------------------
(* Requests and what they wait for *)

Fresh == [pc |-> "idle", in |-> NoRow, profile |-> NoProfile, seen |-> NoRow,
          made |-> {}, todo |-> {}, new |-> [a \in {} |-> NoRow], outcome |-> ""]
Ended(why) == [Fresh EXCEPT !.pc = "done", !.outcome = why]

Running(r) == req[r].pc \notin {"idle", "done"}
In(r) == req[r].in
Others(r) == Requests \ {r}
Wrote(r) == DOMAIN req[r].new
Lock(a, r) == {s \in Others(r) : a \in Wrote(s)}

\* uq_saved_addresses_customer_default covers the row.
Default(row) == row # NoRow /\ row.is_default /\ row.is_active
DefaultOf(row, p) == Default(row) /\ row.owner = p

\* The row of saved_addresses this request writes for its caller, and what is
\* written; a field equal to what was read is not part of an UPDATE.
Asked(r) == In(r).is_default = Yes
Sets(r) == In(r).is_default \in {Yes, No} /\ Asked(r) # req[r].seen.is_default
Writes(r) == In(r).op = "delete" \/ Sets(r) \/ In(r).rest = "changed"
\* (slip: the whole row is written as it was read)
WrittenWhole(r) ==
  CASE In(r).op = "delete" -> [req[r].seen EXCEPT !.is_active = FALSE]
    [] OTHER -> [req[r].seen EXCEPT !.is_default = IF Sets(r) THEN Asked(r) ELSE @]
Written(r) ==
  LET row == addresses[In(r).address] IN
  CASE In(r).op = "delete" -> [row EXCEPT !.is_active = FALSE]
    [] OTHER -> [row EXCEPT !.is_default = IF Sets(r) THEN Asked(r) ELSE @]

\* Requests that have an uncommitted entry for this customer in the partial
\* unique index, or are changing the row that has the committed one.
IndexHolders(r) ==
  LET p == req[r].profile IN
  {s \in Others(r) : \E a \in Wrote(s) :
     \/ req[s].pc = "commit" /\ DefaultOf(req[s].new[a], p)
     \/ a \notin Wrote(r) /\ DefaultOf(addresses[a], p)}

\* (slip: there is no partial unique index)
NoDuplicate(r) == FALSE
Duplicate(r) ==
  \E a \in Rows \ Wrote(r) :
    DefaultOf(addresses[a], req[r].profile) /\ Lock(a, r) = {}

WaitsFor(r) ==
  CASE req[r].pc = "provision" -> {s \in Others(r) : \E p \in req[s].made : p.user = In(r).user}
    [] req[r].pc = "edit" /\ In(r).rest = "changed" ->
         {s \in Others(r) : req[s].pc = "commit" /\ In(s).op = "edit" /\ In(s).rest = "changed"
                            /\ req[s].profile = req[r].profile}
    [] req[r].pc = "write" /\ req[r].todo # {} -> UNION {Lock(a, r) : a \in req[r].todo}
    [] req[r].pc = "write" /\ req[r].todo = {} /\ In(r).op # "create" /\ Writes(r) ->
         Lock(In(r).address, r)
    [] req[r].pc = "index" /\ ~Duplicate(r) -> IndexHolders(r)
    [] OTHER -> {}

Keep == UNCHANGED <<profiles, preferences, addresses>>
To(r, pc) == req' = [req EXCEPT ![r].pc = pc]
\* (slip: the database session of a request that raises is never closed)
FailUnclosed(r, why) ==
  req' = [req EXCEPT ![r] = IF why \in {"lost", "deadlock"} THEN Ended(why)
                            ELSE [@ EXCEPT !.pc = "done", !.outcome = why]]
\* The session is closed without a commit.
Fail(r, why) == req' = [req EXCEPT ![r] = Ended(why)]

-----------------------------------------------------------------------------
(* get_my_profile *)

\* A registration is the first call of its account: nobody has its token yet.
Arrive(r) ==
  /\ req[r].pc = "idle"
  /\ \E i \in Inputs :
       /\ \A s \in Others(r) : Running(s) /\ In(s).user = i.user => "register" \notin {i.op, In(s).op}
       /\ i.op = "register" => \A p \in profiles : p.user # i.user
       /\ req' = [req EXCEPT ![r] = [Fresh EXCEPT !.pc = "start", !.in = i]]
  /\ Keep

\* Where the service goes on once the profile is known.
Then(i) == CASE i.op \in {"register", "profile", "list"} -> "commit"
             [] i.op = "edit"   -> "edit"
             [] i.op = "create" -> IF i.is_default = Yes THEN "unset" ELSE "write"
             [] OTHER           -> "find"

get_by_user_id(r) ==
  /\ req[r].pc = "start"
  /\ \/ /\ ~\E p \in profiles : p.user = In(r).user
        /\ To(r, "provision")
     \/ \E p \in profiles :
          /\ p.user = In(r).user
          /\ req' = [req EXCEPT ![r].profile = p.id,
                                ![r].pc = IF \E f \in preferences : f.customer = p.id
                                          THEN Then(In(r)) ELSE "provision"]
  /\ Keep

\* (slip: uq_customer_profiles_user_id is missing)
provision_twice(r) ==
  /\ req[r].pc = "provision"
  /\ req' = [req EXCEPT ![r].profile = r, ![r].pc = Then(In(r)),
                        ![r].made = {[id |-> r, user |-> In(r).user]}]
  /\ Keep

\* Insert what was not found, the preferences with the profile; a profile that
\* was committed since fails on uq_customer_profiles_user_id.
provision_default_profile(r) ==
  /\ req[r].pc = "provision" /\ WaitsFor(r) = {}
  /\ IF \E p \in profiles : p.user = In(r).user
     THEN Fail(r, "duplicate_profile")
     ELSE req' = [req EXCEPT ![r].profile = r, ![r].pc = Then(In(r)),
                             ![r].made = {[id |-> r, user |-> In(r).user]}]
  /\ Keep

\* update_my_profile: at most one UPDATE of the profile, then one of the
\* preferences.
update_my_profile(r) ==
  /\ req[r].pc = "edit" /\ WaitsFor(r) = {}
  /\ IF In(r).rest = Null THEN Fail(r, "null") ELSE To(r, "commit")
  /\ Keep

-----------------------------------------------------------------------------
(* SavedAddressService *)

\* (slip: the address is not compared with the caller)
Anyones(row, p) == row # NoRow /\ row.is_active
ensure_owner_or_not_found(row, p) == row # NoRow /\ row.is_active /\ row.owner = p

get_active_by_id(r) ==
  /\ req[r].pc = "find"
  /\ LET row == addresses[In(r).address] IN
     IF ensure_owner_or_not_found(row, req[r].profile)
     THEN req' = [req EXCEPT ![r].seen = row,
                             ![r].pc = IF In(r).op = "update" /\ Asked(r)
                                       THEN "unset" ELSE "write"]
     ELSE Fail(r, "not_found")
  /\ Keep

\* UPDATE ... SET is_default = false: the rows the statement finds.
unset_other_defaults(r) ==
  /\ req[r].pc = "unset"
  /\ req' = [req EXCEPT ![r].pc = "write",
       ![r].todo = {a \in Rows : /\ addresses[a] # NoRow
                                 /\ addresses[a].owner = req[r].profile
                                 /\ addresses[a].is_default
                                 /\ In(r).op = "update" => a # In(r).address}]
  /\ Keep

\* It waits for a row another transaction has written, and leaves it alone if
\* it is no longer a default.
UnsetRow(r, a) ==
  /\ req[r].pc = "write" /\ a \in req[r].todo /\ Lock(a, r) = {}
  /\ req' = [req EXCEPT ![r].todo = @ \ {a},
       ![r].new = IF addresses[a].is_default
                  THEN [b \in DOMAIN @ \cup {a} |->
                          IF b = a THEN [addresses[a] EXCEPT !.is_default = FALSE] ELSE @[b]]
                  ELSE @]
  /\ Keep

\* The row a is written; it enters the index when it becomes a default.
WriteRow(r, a, row) ==
  req' = [req EXCEPT ![r].new = [b \in DOMAIN @ \cup {a} |-> IF b = a THEN row ELSE @[b]],
                     ![r].pc = IF Default(row) /\ ~Default(addresses[a]) THEN "index" ELSE "commit"]

create(r) ==
  /\ req[r].pc = "write" /\ req[r].todo = {} /\ In(r).op = "create"
  /\ WriteRow(r, r, [owner |-> req[r].profile, is_default |-> Asked(r), is_active |-> TRUE])
  /\ Keep

\* update_address, soft_delete: the UPDATE of the row that was read.
update(r) ==
  /\ req[r].pc = "write" /\ req[r].todo = {} /\ In(r).op \in {"update", "delete"}
  /\ WaitsFor(r) = {}
  /\ IF In(r).op = "update" /\ Null \in {In(r).is_default, In(r).rest}
     THEN Fail(r, "null")
     ELSE IF Writes(r) THEN WriteRow(r, In(r).address, Written(r)) ELSE To(r, "commit")
  /\ Keep

EnterIndex(r) ==
  /\ req[r].pc = "index" /\ WaitsFor(r) = {}
  /\ IF Duplicate(r) THEN Fail(r, "duplicate_default") ELSE To(r, "commit")
  /\ Keep

-----------------------------------------------------------------------------
\* await db.commit()
Commit(r) ==
  /\ req[r].pc = "commit"
  /\ profiles' = profiles \cup req[r].made
  /\ preferences' = preferences \cup 
       {[id |-> r, customer |-> p.id, language |-> resolve_default_language(In(r).header)]
          : p \in req[r].made}
  /\ addresses' = [a \in Rows |-> IF a \in Wrote(r) THEN req[r].new[a] ELSE addresses[a]]
  /\ req' = [req EXCEPT ![r] = Ended("ok")]

\* The worker or its connection is lost: PostgreSQL rolls back.
Crash(r) == Running(r) /\ Fail(r, "lost") /\ Keep

\* r is on a cycle of waits: every set closed under WaitsFor around it has it.
Deadlocked(r) ==
  /\ WaitsFor(r) # {}
  /\ \A S \in SUBSET Requests :
       WaitsFor(r) \subseteq S /\ (\A s \in S : WaitsFor(s) \subseteq S) => r \in S
DeadlockVictim(r) == Deadlocked(r) /\ Fail(r, "deadlock") /\ Keep

Step(r) ==
  \/ get_by_user_id(r) \/ provision_default_profile(r) \/ update_my_profile(r)
  \/ get_active_by_id(r) \/ unset_other_defaults(r) \/ \E a \in Rows : UnsetRow(r, a)
  \/ create(r) \/ update(r) \/ EnterIndex(r) \/ Commit(r)

Next == \E r \in Requests : Arrive(r) \/ Step(r) \/ DeadlockVictim(r) \/ Crash(r)

OneDefault ==
  \A a, b \in Rows :
    Default(addresses[a]) /\ Default(addresses[b]) /\ addresses[a].owner = addresses[b].owner
      => a = b

\* Any accounts, some from before profiles existed, and any addresses of those
\* that have one.
Init ==
  /\ profiles \in SUBSET {[id |-> u, user |-> u] : u \in Users}
  /\ preferences = {[id |-> p.id, customer |-> p.id, language |-> "en"] : p \in profiles}
  /\ \E old \in [Addresses -> {NoRow} \cup [owner: {p.id : p \in profiles}, is_default: BOOLEAN,
                                             is_active: BOOLEAN]] :
       addresses = [a \in Rows |-> IF a \in Addresses THEN old[a] ELSE NoRow]
  /\ OneDefault
  /\ req = [r \in Requests |-> Fresh]

\* A worker goes on with its request; PostgreSQL looks for deadlocks.
Fairness == \A r \in Requests : WF_vars(Step(r)) /\ WF_vars(DeadlockVictim(r))
Spec == Init /\ [][Next]_vars /\ Fairness

-----------------------------------------------------------------------------
(* Properties *)

TypeOK ==
  /\ profiles \subseteq [id: Ids, user: Users]
  /\ preferences \subseteq [id: Ids, customer: Ids, language: LanguageCode]
  /\ addresses \in [Rows -> {NoRow} \cup Row]
  /\ \A r \in Requests :
       /\ Running(r) => In(r) \in Inputs
       /\ req[r].pc \in {"edit", "find", "unset", "write", "index", "commit"} => req[r].profile \in Ids
       /\ req[r].todo \subseteq Rows /\ Wrote(r) \subseteq Rows
       /\ \A a \in Wrote(r) : req[r].new[a] \in Row

\* An account has one profile and a profile one row of preferences, however
\* many first calls create what they did not find.
OneProfile ==
  /\ \A p, q \in profiles : p.user = q.user => p = q
  /\ \A p \in profiles : Cardinality({f \in preferences : f.customer = p.id}) = 1
  /\ \A a \in Rows : addresses[a] # NoRow => \E p \in profiles : p.id = addresses[a].owner

\* A new customer gets the language its registration asked for, and English
\* when a profile is made up later.
LanguageAsAsked ==
  [][\A f \in preferences' \ preferences :
       \E r \in Requests : req[r].pc = "commit" /\ Best(In(r).header, f.language)]_vars

\* Only a request of the account that owns an address changes its row, and an
\* address never changes hands.
OwnAddresses ==
  [][\A a \in Rows : addresses[a] # NoRow /\ addresses'[a] # addresses[a] =>
       /\ addresses'[a] # NoRow /\ addresses'[a].owner = addresses[a].owner
       /\ \E r \in Requests : /\ req[r].pc = "commit" /\ req'[r].outcome = "ok"
                              /\ [id |-> addresses[a].owner, user |-> In(r).user] \in profiles]_vars

\* A deleted address stays deleted, whatever was read before it was.
DeletedStays ==
  [][\A a \in Rows : addresses[a] # NoRow /\ ~addresses[a].is_active =>
       addresses'[a] # NoRow /\ ~addresses'[a].is_active]_vars

\* Every request ends, the ones that wait for each other too.
EveryRequestEnds == \A r \in Requests : Running(r) ~> ~Running(r)

\* docs/implementation/prompts/Prompt_S03_CUS-002.md:64: "Setting a new default
\* address always and only leaves exactly one default per customer": a customer
\* that has a default and sets another address, which is still there, has one.
SettingLeavesOneDefault ==
  [][\A r \in Requests :
       (/\ req[r].pc = "commit" /\ req'[r].outcome = "ok" /\ Asked(r)
        /\ \E a \in Rows : DefaultOf(addresses[a], req[r].profile)
        /\ In(r).op = "update" => addresses[In(r).address].is_active)
       => \E a \in Rows : DefaultOf(addresses'[a], req[r].profile)]_vars
===============================================================================
