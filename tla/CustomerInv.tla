----------------------------- MODULE CustomerInv ------------------------------
(***************************************************************************)
(* The inductive invariant of Customer: what a transaction may count on    *)
(* while others run.  The rows it has written are its own until it ends,   *)
(* the profile it made is of an account that has none, and an entry it got *)
(* in the partial unique index has no other beside it.                     *)
(***************************************************************************)
EXTENDS Customer

\* What a request wrote: some rows.
PartialRows == UNION {[D -> Row] : D \in SUBSET Rows}
Outcomes == {"", "ok", "null", "not_found", "lost", "deadlock", "duplicate_profile", "duplicate_default"}
Req == [pc: {"idle", "start", "provision", "edit", "find", "unset", "write", "index", "commit", "done"},
        in: Inputs \cup {NoRow}, profile: Ids \cup {NoProfile}, seen: Row \cup {NoRow},
        made: SUBSET [id: Ids, user: Users], todo: SUBSET Rows, new: PartialRows, outcome: Outcomes]

Typed ==
  /\ profiles \subseteq [id: Ids, user: Users]
  /\ preferences \subseteq [id: Ids, customer: Ids, language: LanguageCode]
  /\ addresses \in [Rows -> {NoRow} \cup Row]
  /\ req \in [Requests -> Req]

\* The row a request c of r is about, and its entries in the partial index.
Target(r, c) == IF c.in.op = "create" THEN r ELSE c.in.address
EntriesOf(c) == IF c.pc = "commit" THEN {a \in DOMAIN c.new : Default(c.new[a])} ELSE {}

\* What is known of a request c of r from its own progress ...
Local(r, c) ==
  /\ c.pc \notin {"idle", "done"} => c.in \in Inputs
  /\ c.pc \in {"idle", "start", "provision", "done"} => c.made = {}
  /\ c.pc \notin {"write", "index", "commit"} => DOMAIN c.new = {} /\ c.todo = {}
  /\ c.pc = "write" => \A a \in DOMAIN c.new : ~c.new[a].is_default
  /\ \A p \in c.made : p = [id |-> r, user |-> c.in.user]
  /\ \A a \in DOMAIN c.new : c.new[a].owner = c.profile /\ (c.new[a].is_default => a = Target(r, c))

\* ... and of what is committed while it runs.
Grounded(r, c) ==
  /\ c.pc # "done" => /\ addresses[r] = NoRow
                      /\ \A p \in profiles : p.id # r
                      /\ \A f \in preferences : f.customer # r
  /\ c.pc \in {"edit", "find", "unset", "write", "index", "commit"} =>
       c.profile \in Ids /\ [id |-> c.profile, user |-> c.in.user] \in profiles \cup c.made
  /\ \A a \in DOMAIN c.new :
       IF addresses[a] = NoRow THEN a = r
       ELSE addresses[a].owner = c.profile /\ (c.new[a].is_active => addresses[a].is_active)
  /\ \A a \in c.todo : addresses[a] # NoRow /\ addresses[a].owner = c.profile
  /\ c.pc \in {"unset", "write"} /\ c.in.op \in {"update", "delete"} =>
       addresses[c.in.address] # NoRow /\ addresses[c.in.address].owner = c.profile

\* An entry in the index is the only one of its customer but for the rows the
\* request has written itself.
Alone(c) == \A a \in EntriesOf(c), b \in Rows \ DOMAIN c.new : ~DefaultOf(addresses[b], c.new[a].owner)

\* Two requests do not write the same row, make the same profile or hold an
\* entry for the same customer.
Apart(c, d) ==
  /\ DOMAIN c.new \cap DOMAIN d.new = {}
  /\ \A p \in c.made, q \in d.made : p.user # q.user
  /\ \A a \in EntriesOf(c), b \in EntriesOf(d) : c.new[a].owner # d.new[b].owner

NewUsers(c) == \A p \in c.made, q \in profiles : q.user # p.user
PreferencesOfProfiles == \A f \in preferences : \E p \in profiles : p.id = f.customer

\* (inductive invariant)
IInv ==
  /\ Typed /\ OneDefault /\ OneProfile /\ PreferencesOfProfiles
  /\ \A r \in Requests : /\ Local(r, req[r]) /\ Grounded(r, req[r])
                         /\ Alone(req[r]) /\ NewUsers(req[r])
  /\ \A r, s \in Requests : r # s => Apart(req[r], req[s])
===============================================================================
