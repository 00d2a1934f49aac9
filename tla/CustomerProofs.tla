---------------------------- MODULE CustomerProofs ----------------------------
(***************************************************************************)
(* Proofs about Customer, for any accounts, requests, addresses and        *)
(* inputs.  IInv is inductive: a step of one request leaves what is        *)
(* committed alone and has to fit the others; a commit applies what the    *)
(* request wrote, which nobody else can have written meanwhile.            *)
(***************************************************************************)
EXTENDS CustomerInv, AcceptLanguageProofs

-----------------------------------------------------------------------------
(* Rows written *)

LEMMA PartialFacts ==
  ASSUME NEW f \in PartialRows
  PROVE  DOMAIN f \subseteq Rows /\ \A a \in DOMAIN f : f[a] \in Row
<1>1. PICK D \in SUBSET Rows : f \in [D -> Row] BY DEF PartialRows
<1> QED BY <1>1

LEMMA PartialExtend ==
  ASSUME NEW f \in PartialRows, NEW a \in Rows, NEW row \in Row,
         NEW g, g = [b \in DOMAIN f \cup {a} |-> IF b = a THEN row ELSE f[b]]
  PROVE  /\ g \in PartialRows /\ DOMAIN g = DOMAIN f \cup {a} /\ g[a] = row
         /\ \A b \in DOMAIN f : b # a => g[b] = f[b]
<1>1. DOMAIN f \subseteq Rows /\ \A b \in DOMAIN f : f[b] \in Row BY PartialFacts
<1>2. g \in [DOMAIN f \cup {a} -> Row] BY <1>1
<1>3. DOMAIN f \cup {a} \in SUBSET Rows BY <1>1
<1>4. g \in PartialRows BY <1>2, <1>3 DEF PartialRows
<1> QED BY <1>2, <1>4

LEMMA EmptyWrites == [a \in {} |-> NoRow] \in PartialRows /\ DOMAIN [a \in {} |-> NoRow] = {}
<1>1. [a \in {} |-> NoRow] \in [{} -> Row] OBVIOUS
<1>2. {} \in SUBSET Rows OBVIOUS
<1> QED BY <1>1, <1>2 DEF PartialRows

LEMMA EntriesFacts ==
  ASSUME NEW c \in Req, NEW a \in EntriesOf(c)
  PROVE  a \in DOMAIN c.new /\ c.pc = "commit" /\ c.new[a].is_default /\ c.new[a].is_active /\ c.new[a] \in Row
<1>1. c.pc = "commit" /\ a \in DOMAIN c.new /\ Default(c.new[a]) BY DEF EntriesOf
<1>2. c.new \in PartialRows BY DEF Req
<1> QED BY <1>1, <1>2, PartialFacts DEF Default

-----------------------------------------------------------------------------
(* Steps of one request that commit nothing *)

LEMMA OneStep ==
  ASSUME IInv, Keep, NEW r \in Requests, NEW d \in Req, req' = [req EXCEPT ![r] = d],
         Local(r, d), Grounded(r, d), Alone(d), NewUsers(d),
         \A s \in Requests \ {r} : Apart(d, req[s])
  PROVE  IInv'
<1>1. UNCHANGED <<profiles, preferences, addresses>> BY DEF Keep
<1>2. req \in [Requests -> Req] BY DEF IInv, Typed
<1>3. \A s \in Requests : req'[s] = IF s = r THEN d ELSE req[s] BY <1>2
<1>4. Typed' BY <1>1, <1>2 DEF IInv, Typed
<1>5. OneDefault' /\ OneProfile' /\ PreferencesOfProfiles'
  BY <1>1 DEF IInv, OneDefault, OneProfile, PreferencesOfProfiles
<1>6. ASSUME NEW s \in Requests, NEW c, Local(s, c), Grounded(s, c), Alone(c), NewUsers(c), req'[s] = c
      PROVE  Local(s, req[s])' /\ Grounded(s, req[s])' /\ Alone(req[s])' /\ NewUsers(req[s])'
  <2>1. Local(s, req[s])' BY <1>6 DEF Local, Target
  <2>2. Grounded(s, req[s])' BY <1>1, <1>6 DEF Grounded
  <2>3. Alone(req[s])' BY <1>1, <1>6 DEF Alone, EntriesOf, DefaultOf, Default
  <2>4. NewUsers(req[s])' BY <1>1, <1>6 DEF NewUsers
  <2> QED BY <2>1, <2>2, <2>3, <2>4
<1>7. ASSUME NEW s \in Requests
      PROVE  Local(s, req[s])' /\ Grounded(s, req[s])' /\ Alone(req[s])' /\ NewUsers(req[s])'
  <2>1. CASE s = r BY <2>1, <1>3, <1>6
  <2>2. CASE s # r
    <3>1. Local(s, req[s]) /\ Grounded(s, req[s]) /\ Alone(req[s]) /\ NewUsers(req[s]) BY DEF IInv
    <3>2. req'[s] = req[s] BY <2>2, <1>3
    <3> QED BY <3>1, <3>2, <1>6
  <2> QED BY <2>1, <2>2
<1>8. ASSUME NEW s \in Requests, NEW t \in Requests, s # t PROVE Apart(req[s], req[t])'
  <2>1. ASSUME NEW c, NEW e, Apart(c, e), req'[s] = c, req'[t] = e PROVE Apart(req[s], req[t])'
    BY <2>1 DEF Apart, EntriesOf, Default
  <2>2. ASSUME NEW c, NEW e, Apart(c, e) PROVE Apart(e, c) BY <2>2 DEF Apart
  <2>3. CASE s = r
    <3>1. Apart(d, req[t]) /\ req'[s] = d /\ req'[t] = req[t] BY <1>3, <1>8, <2>3
    <3> QED BY <3>1, <2>1
  <2>4. CASE t = r
    <3>1. Apart(req[s], d) /\ req'[t] = d /\ req'[s] = req[s] BY <1>3, <1>8, <2>2, <2>4
    <3> QED BY <3>1, <2>1
  <2>5. CASE s # r /\ t # r
    <3>1. Apart(req[s], req[t]) /\ req'[t] = req[t] /\ req'[s] = req[s] BY <1>3, <1>8, <2>5 DEF IInv
    <3> QED BY <3>1, <2>1
  <2> QED BY <2>3, <2>4, <2>5
<1>9. \A s \in Requests : Local(s, req[s])' /\ Grounded(s, req[s])' /\ Alone(req[s])' /\ NewUsers(req[s])'
  BY <1>7
<1>10. \A s, t \in Requests : s # t => Apart(req[s], req[t])' BY <1>8
<1> QED BY <1>4, <1>5, <1>9, <1>10 DEF IInv

\* The same without a new row, profile or entry.
LEMMA QuietStep ==
  ASSUME IInv, Keep, NEW r \in Requests, NEW d \in Req, req' = [req EXCEPT ![r] = d],
         Local(r, d), Grounded(r, d), d.new = req[r].new, d.made = req[r].made, EntriesOf(d) = {}
  PROVE  IInv'
<1>1. Alone(d) BY DEF Alone
<1>2. NewUsers(d) BY DEF IInv, NewUsers
<1>3. \A s \in Requests \ {r} : Apart(d, req[s])
  <2> TAKE s \in Requests \ {r}
  <2>1. Apart(req[r], req[s]) BY DEF IInv
  <2> QED BY <2>1 DEF Apart
<1> QED BY <1>1, <1>2, <1>3, OneStep

\* What a request is left with when it fails.
LEMMA FailInv ==
  ASSUME IInv, NEW r \in Requests, NEW why \in Outcomes, Fail(r, why), Keep
  PROVE  IInv'
<1>1. PICK d : d = Ended(why) OBVIOUS
<1>2. d = [pc |-> "done", in |-> NoRow, profile |-> NoProfile, seen |-> NoRow,
           made |-> {}, todo |-> {}, new |-> [a \in {} |-> NoRow], outcome |-> why]
  BY <1>1 DEF Ended, Fresh
<1>3. d \in Req BY <1>2, EmptyWrites DEF Req
<1>4. d.pc = "done" /\ d.made = {} /\ d.todo = {} /\ DOMAIN d.new = {} BY <1>2, EmptyWrites
<1>5. EntriesOf(d) = {} BY <1>4 DEF EntriesOf
<1>6. Local(r, d) /\ Grounded(r, d) /\ Alone(d) /\ NewUsers(d) BY <1>4, <1>5 DEF Local, Grounded, Alone, NewUsers
<1>7. \A s \in Requests \ {r} : Apart(d, req[s]) BY <1>4, <1>5 DEF Apart
<1>8. req' = [req EXCEPT ![r] = d] BY <1>1 DEF Fail
<1> QED BY <1>3, <1>6, <1>7, <1>8, OneStep

-----------------------------------------------------------------------------
(* get_my_profile *)

\* What a running request is known to be.
LEMMA Facts ==
  ASSUME IInv, NEW r \in Requests
  PROVE  /\ req[r] \in Req /\ Local(r, req[r]) /\ Grounded(r, req[r]) /\ Alone(req[r]) /\ NewUsers(req[r])
         /\ \A s \in Requests \ {r} : Apart(req[r], req[s])
         /\ req[r].pc \notin {"idle", "done"} => In(r) \in Inputs /\ In(r) \in Input
<1>1. req[r] \in Req /\ Local(r, req[r]) BY DEF IInv, Typed
<1>2. req[r].pc \notin {"idle", "done"} => In(r) \in Inputs /\ In(r) \in Input
  BY <1>1, CustomerAssumption DEF Local, In
<1> QED BY <1>1, <1>2 DEF IInv

LEMMA ArriveInv == ASSUME IInv, NEW r \in Requests, Arrive(r) PROVE IInv'
<1>1. PICK i \in Inputs : req' = [req EXCEPT ![r] = [Fresh EXCEPT !.pc = "start", !.in = i]] BY DEF Arrive
<1>2. PICK d : d = [Fresh EXCEPT !.pc = "start", !.in = i] OBVIOUS
<1>3. d = [pc |-> "start", in |-> i, profile |-> NoProfile, seen |-> NoRow,
           made |-> {}, todo |-> {}, new |-> [a \in {} |-> NoRow], outcome |-> ""]
  BY <1>2 DEF Fresh
<1>4. d \in Req BY <1>3, EmptyWrites DEF Req, Outcomes
<1>5. d.pc = "start" /\ d.in = i /\ d.made = {} /\ d.todo = {} /\ DOMAIN d.new = {} BY <1>3, EmptyWrites
<1>6. EntriesOf(d) = {} BY <1>5 DEF EntriesOf
<1>7. Local(r, d) BY <1>5 DEF Local
<1>8. Grounded(r, d)
  <2>1. Grounded(r, req[r]) /\ req[r].pc = "idle" BY Facts DEF Arrive
  <2> QED BY <2>1, <1>5 DEF Grounded
<1>9. Alone(d) /\ NewUsers(d) BY <1>5, <1>6 DEF Alone, NewUsers
<1>10. \A s \in Requests \ {r} : Apart(d, req[s]) BY <1>5, <1>6 DEF Apart
<1>11. req' = [req EXCEPT ![r] = d] /\ Keep BY <1>1, <1>2 DEF Arrive
<1> QED BY <1>4, <1>7, <1>8, <1>9, <1>10, <1>11, OneStep

\* The step that follows the profile, with nothing written yet.
LEMMA ThenFacts ==
  ASSUME NEW i \in Input
  PROVE  Then(i) \in {"commit", "edit", "unset", "write", "find"} /\
         (Then(i) \in {"unset", "write"} => i.op \notin {"update", "delete"})
<1>1. i.op \in Ops BY DEF Input
<1> QED BY <1>1 DEF Then, Ops

LEMMA GetInv == ASSUME IInv, NEW r \in Requests, get_by_user_id(r) PROVE IInv'
<1>1. PICK c : c = req[r] OBVIOUS
<1>2. c \in Req /\ Local(r, c) /\ Grounded(r, c) /\ c.pc = "start" /\ c.in \in Inputs /\ c.in \in Input
  BY <1>1, Facts DEF get_by_user_id, In
<1>3. c.made = {} /\ DOMAIN c.new = {} /\ c.todo = {} BY <1>2 DEF Local
<1>4. Keep BY DEF get_by_user_id
<1>5. CASE To(r, "provision")
  <2>1. PICK d : d = [c EXCEPT !.pc = "provision"] OBVIOUS
  <2>2. req' = [req EXCEPT ![r] = d] BY <1>1, <1>5, <2>1 DEF To
  <2>3. d \in Req BY <1>2, <2>1 DEF Req
  <2>4. d.pc = "provision" /\ d.in = c.in /\ d.made = {} /\ d.new = c.new /\ d.todo = {} /\ DOMAIN d.new = {}
    BY <1>2, <1>3, <2>1 DEF Req
  <2>5. Local(r, d) /\ EntriesOf(d) = {} BY <1>2, <2>4 DEF Local, EntriesOf
  <2>6. Grounded(r, d) BY <1>2, <2>4 DEF Grounded
  <2>7. d.new = req[r].new /\ d.made = req[r].made BY <1>1, <1>3, <2>4
  <2> QED BY <1>4, <2>2, <2>3, <2>5, <2>6, <2>7, QuietStep
<1>6. CASE \E p \in profiles :
             /\ p.user = In(r).user
             /\ req' = [req EXCEPT ![r].profile = p.id,
                                   ![r].pc = IF \E f \in preferences : f.customer = p.id
                                             THEN Then(In(r)) ELSE "provision"]
  <2>1. PICK p \in profiles, pc \in {Then(c.in), "provision"} :
           /\ p.user = c.in.user
           /\ req' = [req EXCEPT ![r].profile = p.id, ![r].pc = pc]
    BY <1>1, <1>6 DEF In
  <2>2. p \in [id: Ids, user: Users] BY DEF IInv, Typed
  <2>3. /\ pc \in {"provision", "commit", "edit", "unset", "write", "find"}
        /\ pc \in {"unset", "write"} => c.in.op \notin {"update", "delete"}
    BY <1>2, <2>1, ThenFacts
  <2>4. PICK d : d = [c EXCEPT !.profile = p.id, !.pc = pc] OBVIOUS
  <2>5. req' = [req EXCEPT ![r] = d] BY <1>1, <2>1, <2>4
  <2>6. d \in Req BY <1>2, <2>2, <2>3, <2>4 DEF Req
  <2>7. d.pc = pc /\ d.profile = p.id /\ d.in = c.in /\ d.made = {} /\ d.new = c.new /\ d.todo = {} /\ DOMAIN d.new = {}
    BY <1>2, <1>3, <2>4 DEF Req
  <2>8. Local(r, d) /\ EntriesOf(d) = {} BY <1>2, <2>7 DEF Local, EntriesOf
  <2>9. [id |-> d.profile, user |-> d.in.user] \in profiles BY <2>1, <2>2, <2>7
  <2>10. Grounded(r, d) BY <1>2, <2>2, <2>3, <2>7, <2>9 DEF Grounded
  <2>11. d.new = req[r].new /\ d.made = req[r].made BY <1>1, <1>3, <2>7
  <2> QED BY <1>4, <2>5, <2>6, <2>8, <2>10, <2>11, QuietStep
<1> QED BY <1>5, <1>6 DEF get_by_user_id

LEMMA ProvisionInv == ASSUME IInv, NEW r \in Requests, provision_default_profile(r) PROVE IInv'
<1>1. PICK c : c = req[r] OBVIOUS
<1>2. c \in Req /\ Local(r, c) /\ Grounded(r, c) /\ c.pc = "provision" /\ c.in \in Inputs /\ c.in \in Input
  BY <1>1, Facts DEF provision_default_profile, In
<1>3. DOMAIN c.new = {} /\ c.todo = {} BY <1>2 DEF Local
<1>4. Keep BY DEF provision_default_profile
<1>5. CASE Fail(r, "duplicate_profile") BY <1>4, <1>5, FailInv DEF Outcomes
<1>6. CASE /\ ~\E p \in profiles : p.user = In(r).user
           /\ req' = [req EXCEPT ![r].profile = r, ![r].pc = Then(In(r)),
                                 ![r].made = {[id |-> r, user |-> In(r).user]}]
  <2>1. PICK pc, m : pc = Then(c.in) /\ m = [id |-> r, user |-> c.in.user] OBVIOUS
  <2>2. /\ pc \in {"commit", "edit", "unset", "write", "find"}
        /\ pc \in {"unset", "write"} => c.in.op \notin {"update", "delete"}
    BY <1>2, <2>1, ThenFacts
  <2>3. m \in [id: Ids, user: Users] /\ r \in Ids
    <3>1. c.in.user \in Users BY <1>2 DEF Input
    <3> QED BY <2>1, <3>1 DEF Ids
  <2>4. PICK d : d = [c EXCEPT !.profile = r, !.pc = pc, !.made = {m}] OBVIOUS
  <2>5. req' = [req EXCEPT ![r] = d] BY <1>1, <1>6, <2>1, <2>4 DEF In
  <2>6. d \in Req BY <1>2, <2>2, <2>3, <2>4 DEF Req
  <2>7. d.pc = pc /\ d.profile = r /\ d.in = c.in /\ d.made = {m} /\ d.new = c.new /\ d.todo = {} /\ DOMAIN d.new = {}
    BY <1>2, <1>3, <2>4 DEF Req
  <2>8. EntriesOf(d) = {} BY <2>7 DEF EntriesOf
  <2>9. Local(r, d) BY <1>2, <2>1, <2>2, <2>7 DEF Local
  <2>10. [id |-> d.profile, user |-> d.in.user] \in d.made BY <2>1, <2>7
  <2>11. Grounded(r, d) BY <1>2, <2>2, <2>3, <2>7, <2>10 DEF Grounded
  <2>12. Alone(d) BY <2>8 DEF Alone
  <2>13. NewUsers(d) BY <1>1, <1>6, <2>1, <2>7 DEF NewUsers, In
  <2>14. ASSUME NEW s \in Requests \ {r} PROVE Apart(d, req[s])
    <3>1. \A p \in req[s].made : p.user # c.in.user
      <4>1. {t \in Others(r) : \E p \in req[t].made : p.user = In(r).user} = {}
        BY <1>1, <1>2 DEF provision_default_profile, WaitsFor
      <4> QED BY <1>1, <4>1 DEF Others, In
    <3> QED BY <2>1, <2>7, <2>8, <3>1 DEF Apart
  <2> QED BY <1>4, <2>5, <2>6, <2>9, <2>11, <2>12, <2>13, <2>14, OneStep
<1> QED BY <1>5, <1>6 DEF provision_default_profile

\* Moving on without a change.
LEMMA ToInv ==
  ASSUME IInv, Keep, NEW r \in Requests, NEW pc \in {"write", "commit"}, To(r, pc),
         \/ req[r].pc \in {"edit", "find", "unset"} /\ req[r].in.op \notin {"update", "delete"}
         \/ req[r].pc = "write" /\ pc = "commit"
         \/ req[r].pc = "edit" /\ pc = "commit"
  PROVE  IInv'
<1>1. PICK c, d : c = req[r] /\ d = [c EXCEPT !.pc = pc] OBVIOUS
<1>2. c \in Req /\ Local(r, c) /\ Grounded(r, c) BY <1>1, Facts
<1>3. req' = [req EXCEPT ![r] = d] BY <1>1 DEF To
<1>4. d \in Req BY <1>1, <1>2 DEF Req
<1>5. /\ d.pc = pc /\ d.profile = c.profile /\ d.in = c.in /\ d.made = c.made /\ d.new = c.new /\ d.todo = c.todo
  BY <1>1, <1>2 DEF Req
<1>6. c.pc \in {"edit", "find", "unset", "write"} /\ \A a \in DOMAIN c.new : ~c.new[a].is_default
  BY <1>1, <1>2 DEF Local
<1>7. EntriesOf(d) = {} BY <1>5, <1>6 DEF EntriesOf, Default
<1>8. Local(r, d) BY <1>2, <1>5, <1>6 DEF Local, Target
<1>9. Grounded(r, d) BY <1>1, <1>2, <1>5, <1>6 DEF Grounded
<1>10. d.new = req[r].new /\ d.made = req[r].made BY <1>1, <1>5
<1> QED BY <1>3, <1>4, <1>7, <1>8, <1>9, <1>10, QuietStep

LEMMA EditInv == ASSUME IInv, NEW r \in Requests, update_my_profile(r) PROVE IInv'
<1>1. Keep /\ req[r].pc = "edit" BY DEF update_my_profile
<1>2. CASE Fail(r, "null") BY <1>1, <1>2, FailInv DEF Outcomes
<1>3. CASE To(r, "commit")
  <2>1. "commit" \in {"write", "commit"} OBVIOUS
  <2> QED BY <1>1, <1>3, <2>1, ToInv
<1> QED BY <1>2, <1>3 DEF update_my_profile

-----------------------------------------------------------------------------
(* SavedAddressService *)

LEMMA FindInv == ASSUME IInv, NEW r \in Requests, get_active_by_id(r) PROVE IInv'
<1>1. PICK c, row : c = req[r] /\ row = addresses[c.in.address] OBVIOUS
<1>2. c \in Req /\ Local(r, c) /\ Grounded(r, c) /\ c.pc = "find" /\ c.in \in Inputs /\ c.in \in Input
  BY <1>1, Facts DEF get_active_by_id, In
<1>3. c.todo = {} /\ DOMAIN c.new = {} BY <1>2 DEF Local
<1>4. Keep BY DEF get_active_by_id
<1>5. CASE Fail(r, "not_found") BY <1>4, <1>5, FailInv DEF Outcomes
<1>6. CASE /\ ensure_owner_or_not_found(row, c.profile)
           /\ req' = [req EXCEPT ![r].seen = row,
                                 ![r].pc = IF In(r).op = "update" /\ Asked(r) THEN "unset" ELSE "write"]
  <2>1. PICK pc \in {"unset", "write"} : req' = [req EXCEPT ![r].seen = row, ![r].pc = pc] BY <1>6
  <2>2. PICK d : d = [c EXCEPT !.seen = row, !.pc = pc] OBVIOUS
  <2>3. req' = [req EXCEPT ![r] = d] BY <1>1, <2>1, <2>2
  <2>4. row # NoRow /\ row.owner = c.profile BY <1>6 DEF ensure_owner_or_not_found
  <2>5. row \in Row
    <3>1. c.in.address \in Rows BY <1>2 DEF Input, Rows
    <3> QED BY <1>1, <2>4, <3>1 DEF IInv, Typed
  <2>6. d \in Req BY <1>2, <2>2, <2>5 DEF Req
  <2>7. d.pc = pc /\ d.profile = c.profile /\ d.in = c.in /\ d.made = c.made /\ d.new = c.new /\ d.todo = c.todo
    BY <1>2, <2>2 DEF Req
  <2>8. Local(r, d) /\ EntriesOf(d) = {} BY <1>2, <1>3, <2>7 DEF Local, Target, EntriesOf
  <2>9. Grounded(r, d) BY <1>1, <1>2, <1>3, <2>4, <2>7 DEF Grounded
  <2>10. d.new = req[r].new /\ d.made = req[r].made BY <1>1, <2>7
  <2> QED BY <1>4, <2>3, <2>6, <2>8, <2>9, <2>10, QuietStep
<1> QED BY <1>1, <1>5, <1>6 DEF get_active_by_id, In

LEMMA UnsetInv == ASSUME IInv, NEW r \in Requests, unset_other_defaults(r) PROVE IInv'
<1>1. PICK c, todo : /\ c = req[r]
                     /\ todo = {a \in Rows : /\ addresses[a] # NoRow
                                             /\ addresses[a].owner = req[r].profile
                                             /\ addresses[a].is_default
                                             /\ In(r).op = "update" => a # In(r).address}
  OBVIOUS
<1>2. c \in Req /\ Local(r, c) /\ Grounded(r, c) /\ c.pc = "unset" BY <1>1, Facts DEF unset_other_defaults
<1>3. DOMAIN c.new = {} BY <1>2 DEF Local
<1>4. Keep /\ req' = [req EXCEPT ![r].pc = "write", ![r].todo = todo] BY <1>1 DEF unset_other_defaults
<1>5. PICK d : d = [c EXCEPT !.pc = "write", !.todo = todo] OBVIOUS
<1>6. req' = [req EXCEPT ![r] = d] BY <1>1, <1>4, <1>5
<1>7. todo \in SUBSET Rows /\ \A a \in todo : addresses[a] # NoRow /\ addresses[a].owner = c.profile BY <1>1
<1>8. d \in Req BY <1>2, <1>5, <1>7 DEF Req
<1>9. d.pc = "write" /\ d.profile = c.profile /\ d.in = c.in /\ d.made = c.made /\ d.new = c.new /\ d.todo = todo
  BY <1>2, <1>5 DEF Req
<1>10. Local(r, d) /\ EntriesOf(d) = {} BY <1>2, <1>3, <1>9 DEF Local, EntriesOf
<1>11. Grounded(r, d) BY <1>2, <1>3, <1>7, <1>9 DEF Grounded
<1>12. d.new = req[r].new /\ d.made = req[r].made BY <1>1, <1>9
<1> QED BY <1>4, <1>6, <1>8, <1>10, <1>11, <1>12, QuietStep

\* A row of the bulk UPDATE: taken only when nobody else holds it.
LEMMA UnsetRowInv == ASSUME IInv, NEW r \in Requests, NEW a \in Rows, UnsetRow(r, a) PROVE IInv'
<1>1. PICK c, f : c = req[r] /\ f = c.new OBVIOUS
<1>2. c \in Req /\ Local(r, c) /\ Grounded(r, c) /\ c.pc = "write" /\ a \in c.todo BY <1>1, Facts DEF UnsetRow
<1>3. f \in PartialRows /\ c.todo \subseteq Rows BY <1>1, <1>2 DEF Req
<1>4. Keep /\ Lock(a, r) = {} BY DEF UnsetRow
<1>5. addresses[a] # NoRow /\ addresses[a].owner = c.profile /\ addresses[a] \in Row
  BY <1>2 DEF Grounded, IInv, Typed
<1>6. CASE ~addresses[a].is_default
  <2>1. PICK d : d = [c EXCEPT !.todo = @ \ {a}] OBVIOUS
  <2>2. req' = [req EXCEPT ![r] = d]
    <3>1. req' = [req EXCEPT ![r].todo = @ \ {a}, ![r].new = @] BY <1>6 DEF UnsetRow
    <3>2. req \in [Requests -> Req] BY DEF IInv, Typed
    <3>3. [c EXCEPT !.todo = @ \ {a}, !.new = @] = d BY <1>2, <2>1 DEF Req
    <3> QED BY <1>1, <3>1, <3>2, <3>3
  <2>3. d \in Req BY <1>2, <2>1 DEF Req
  <2>4. d.pc = c.pc /\ d.profile = c.profile /\ d.in = c.in /\ d.made = c.made /\ d.new = c.new /\ d.todo \subseteq c.todo
    BY <1>2, <2>1 DEF Req
  <2>5. Local(r, d) /\ EntriesOf(d) = {} BY <1>2, <2>4 DEF Local, Target, EntriesOf
  <2>6. Grounded(r, d) BY <1>2, <2>4 DEF Grounded
  <2>7. d.new = req[r].new /\ d.made = req[r].made BY <1>1, <2>4
  <2> QED BY <1>4, <2>2, <2>3, <2>5, <2>6, <2>7, QuietStep
<1>7. CASE addresses[a].is_default
  <2>1. PICK row, g, todo : /\ row = [addresses[a] EXCEPT !.is_default = FALSE]
                            /\ g = [b \in DOMAIN f \cup {a} |-> IF b = a THEN row ELSE f[b]]
                            /\ todo = c.todo \ {a}
    OBVIOUS
  <2>2. row \in Row /\ row.owner = c.profile BY <1>5, <2>1 DEF Row
  <2>3. ~row.is_default /\ row.is_active = addresses[a].is_active BY <1>5, <2>1 DEF Row
  <2>4. /\ g \in PartialRows /\ DOMAIN g = DOMAIN f \cup {a} /\ g[a] = row
        /\ \A b \in DOMAIN f : b # a => g[b] = f[b]
    <3>1. g = [b \in DOMAIN f \cup {a} |-> IF b = a THEN row ELSE f[b]] BY <2>1
    <3>2. row \in Row BY <2>2
    <3> HIDE <2>1
    <3> QED BY <1>3, <3>1, <3>2, PartialExtend
  <2>5. PICK d : d = [c EXCEPT !.todo = todo, !.new = g] OBVIOUS
  <2>6. req' = [req EXCEPT ![r] = d]
    <3>1. req' = [req EXCEPT ![r].todo = todo, ![r].new = g]
      BY <1>1, <1>7, <2>1 DEF UnsetRow
    <3> QED BY <1>1, <2>5, <3>1
  <2>7. d \in Req BY <1>2, <2>1, <2>4, <2>5 DEF Req
  <2>8. d.pc = "write" /\ d.profile = c.profile /\ d.in = c.in /\ d.made = c.made /\ d.new = g /\ d.todo = todo
    BY <1>2, <2>5 DEF Req
  <2>9. ASSUME NEW b \in DOMAIN g
        PROVE  /\ g[b].owner = c.profile /\ ~g[b].is_default
               /\ IF addresses[b] = NoRow THEN b = r
                  ELSE addresses[b].owner = c.profile /\ (g[b].is_active => addresses[b].is_active)
    <3>1. CASE b = a BY <3>1, <1>5, <2>2, <2>3, <2>4
    <3>2. CASE b # a
      <4>1. b \in DOMAIN c.new /\ g[b] = c.new[b] BY <3>2, <1>1, <2>4
      <4>2. g[b].owner = c.profile BY <4>1, <1>2 DEF Local
      <4>3. ~g[b].is_default BY <4>1, <1>2 DEF Local
      <4>4. IF addresses[b] = NoRow THEN b = r
            ELSE addresses[b].owner = c.profile /\ (g[b].is_active => addresses[b].is_active)
        BY <4>1, <1>2 DEF Grounded
      <4> QED BY <4>2, <4>3, <4>4
    <3> QED BY <3>1, <3>2
  <2>10. EntriesOf(d) = {} BY <2>8 DEF EntriesOf
  <2>11. Local(r, d)
    <3>1. \A b \in DOMAIN g : g[b].owner = c.profile /\ ~g[b].is_default BY <2>9
    <3> QED BY <3>1, <1>2, <2>8 DEF Local
  <2>12. Grounded(r, d)
    <3>1. \A b \in DOMAIN g : IF addresses[b] = NoRow THEN b = r
                  ELSE addresses[b].owner = c.profile /\ (g[b].is_active => addresses[b].is_active)
      BY <2>9
    <3>2. \A b \in todo : addresses[b] # NoRow /\ addresses[b].owner = c.profile BY <1>2, <2>1 DEF Grounded
    <3> QED BY <3>1, <3>2, <1>2, <2>8 DEF Grounded
  <2>13. Alone(d) BY <2>10 DEF Alone
  <2>14. NewUsers(d) BY <1>1, <2>8, Facts DEF NewUsers
  <2>15. ASSUME NEW s \in Requests \ {r} PROVE Apart(d, req[s])
    <3>1. Apart(c, req[s]) BY <1>1, Facts
    <3>2. a \notin DOMAIN req[s].new BY <1>4 DEF Lock, Others, Wrote
    <3> QED BY <3>1, <3>2, <1>1, <2>4, <2>8, <2>10 DEF Apart
  <2> QED BY <1>4, <2>6, <2>7, <2>11, <2>12, <2>13, <2>14, <2>15, OneStep
<1> QED BY <1>6, <1>7

\* The row itself: nobody else has written it; it enters the index unless it is
\* a default already.
LEMMA WriteInv ==
  ASSUME IInv, Keep, NEW r \in Requests, req[r].pc = "write", req[r].todo = {},
         NEW a \in Rows, a = Target(r, req[r]), NEW row \in Row, row.owner = req[r].profile,
         IF addresses[a] = NoRow THEN a = r
         ELSE addresses[a].owner = req[r].profile /\ (row.is_active => addresses[a].is_active),
         Lock(a, r) = {}, WriteRow(r, a, row)
  PROVE  IInv'
<1>1. PICK c, f : c = req[r] /\ f = c.new OBVIOUS
<1>2. c \in Req /\ Local(r, c) /\ Grounded(r, c) /\ c.pc = "write" /\ c.todo = {} BY <1>1, Facts
<1>3. f \in PartialRows BY <1>1, <1>2 DEF Req
<1>4. PICK g, pc : /\ g = [b \in DOMAIN f \cup {a} |-> IF b = a THEN row ELSE f[b]]
                   /\ pc = IF Default(row) /\ ~Default(addresses[a]) THEN "index" ELSE "commit"
  OBVIOUS
<1>5. /\ g \in PartialRows /\ DOMAIN g = DOMAIN f \cup {a} /\ g[a] = row
      /\ \A b \in DOMAIN f : b # a => g[b] = f[b]
  BY <1>3, <1>4, PartialExtend
<1>6. PICK d : d = [c EXCEPT !.new = g, !.pc = pc] OBVIOUS
<1>7. req' = [req EXCEPT ![r] = d] BY <1>1, <1>4, <1>6 DEF WriteRow
<1>8. pc \in {"index", "commit"} BY <1>4
<1>9. d \in Req BY <1>2, <1>5, <1>6, <1>8 DEF Req
<1>10. d.pc = pc /\ d.profile = c.profile /\ d.in = c.in /\ d.made = c.made /\ d.new = g /\ d.todo = {}
  BY <1>2, <1>6 DEF Req
<1>11. ASSUME NEW b \in DOMAIN g
       PROVE  /\ g[b].owner = c.profile /\ (g[b].is_default => b = a)
              /\ IF addresses[b] = NoRow THEN b = r
                 ELSE addresses[b].owner = c.profile /\ (g[b].is_active => addresses[b].is_active)
  <2>1. CASE b = a BY <2>1, <1>1, <1>5
  <2>2. CASE b # a
    <3>1. b \in DOMAIN c.new /\ g[b] = c.new[b] BY <2>2, <1>1, <1>5
    <3>2. g[b].owner = c.profile BY <3>1, <1>2 DEF Local
    <3>3. ~g[b].is_default BY <3>1, <1>2 DEF Local
    <3>4. IF addresses[b] = NoRow THEN b = r
          ELSE addresses[b].owner = c.profile /\ (g[b].is_active => addresses[b].is_active)
      BY <3>1, <1>2 DEF Grounded
    <3> QED BY <3>2, <3>3, <3>4
  <2> QED BY <2>1, <2>2
<1>12. Local(r, d)
  <2>1. \A b \in DOMAIN g : g[b].owner = c.profile /\ (g[b].is_default => b = a) BY <1>11
  <2>2. a = Target(r, d) BY <1>1, <1>10 DEF Target
  <2> QED BY <2>1, <2>2, <1>2, <1>8, <1>10 DEF Local
<1>13. Grounded(r, d)
  <2>1. \A b \in DOMAIN g : IF addresses[b] = NoRow THEN b = r
                 ELSE addresses[b].owner = c.profile /\ (g[b].is_active => addresses[b].is_active)
    BY <1>11
  <2> QED BY <2>1, <1>2, <1>8, <1>10 DEF Grounded
\* An entry that did not have to wait replaces a committed one of the same row.
<1>14. ASSUME NEW b \in EntriesOf(d)
       PROVE  b = a /\ DefaultOf(addresses[a], row.owner) /\ row.owner = c.profile
  <2>1. b \in DOMAIN g /\ pc = "commit" /\ g[b].is_default /\ Default(g[b])
    BY <1>9, <1>10, EntriesFacts DEF EntriesOf
  <2>2. b = a BY <2>1, <1>11
  <2>3. Default(row) BY <2>1, <2>2, <1>5
  <2>4. Default(addresses[a]) BY <2>1, <2>3, <1>4
  <2>5. addresses[a] # NoRow BY <2>4 DEF Default
  <2> QED BY <2>2, <2>4, <2>5, <1>1 DEF DefaultOf
<1>15. Alone(d)
  <2> SUFFICES ASSUME NEW e \in EntriesOf(d), NEW b \in Rows \ DOMAIN g, DefaultOf(addresses[b], g[e].owner)
               PROVE FALSE
    BY <1>10 DEF Alone
  <2>1. e = a /\ DefaultOf(addresses[a], row.owner) /\ g[e] = row BY <1>14, <1>5
  <2>2. b # a BY <1>5
  <2> QED BY <2>1, <2>2 DEF IInv, OneDefault, DefaultOf
<1>16. NewUsers(d) BY <1>1, <1>10, Facts DEF NewUsers
<1>17. ASSUME NEW s \in Requests \ {r} PROVE Apart(d, req[s])
  <2>1. Apart(c, req[s]) /\ Alone(req[s]) BY <1>1, Facts
  <2>2. a \notin DOMAIN req[s].new BY DEF Lock, Others, Wrote
  <2>3. ASSUME NEW e \in EntriesOf(d), NEW b \in EntriesOf(req[s]), g[e].owner = req[s].new[b].owner PROVE FALSE
    <3>1. DefaultOf(addresses[a], row.owner) /\ g[e] = row BY <1>14, <1>5
    <3> QED BY <2>1, <2>2, <2>3, <3>1 DEF Alone
  <2> QED BY <2>1, <2>2, <2>3, <1>1, <1>5, <1>10 DEF Apart
<1> QED BY <1>7, <1>9, <1>12, <1>13, <1>15, <1>16, <1>17, OneStep

LEMMA CreateInv == ASSUME IInv, NEW r \in Requests, create(r) PROVE IInv'
<1>1. /\ Keep /\ req[r].pc = "write" /\ req[r].todo = {} /\ In(r).op = "create"
      /\ WriteRow(r, r, [owner |-> req[r].profile, is_default |-> Asked(r), is_active |-> TRUE])
  BY DEF create
<1>2. Local(r, req[r]) /\ Grounded(r, req[r]) BY Facts
<1>3. req[r].profile \in Ids /\ addresses[r] = NoRow BY <1>1, <1>2 DEF Grounded
<1>4. PICK row : row = [owner |-> req[r].profile, is_default |-> Asked(r), is_active |-> TRUE] OBVIOUS
<1>5. row \in Row BY <1>3, <1>4 DEF Row, Asked
<1>6. row.owner = req[r].profile BY <1>4
<1>7. r \in Rows /\ r = Target(r, req[r]) BY <1>1 DEF Rows, Target, In
<1>8. Lock(r, r) = {}
  <2> SUFFICES ASSUME NEW s \in Requests \ {r}, r \in DOMAIN req[s].new PROVE FALSE
    BY DEF Lock, Others, Wrote
  <2>1. Grounded(s, req[s]) BY Facts
  <2> QED BY <1>3, <2>1 DEF Grounded
<1>9. WriteRow(r, r, row) BY <1>1, <1>4
<1> QED BY <1>1, <1>3, <1>5, <1>6, <1>7, <1>8, <1>9, WriteInv

LEMMA UpdateInv == ASSUME IInv, NEW r \in Requests, update(r) PROVE IInv'
<1>1. Keep /\ req[r].pc = "write" /\ req[r].todo = {} /\ In(r).op \in {"update", "delete"} /\ WaitsFor(r) = {}
  BY DEF update
<1>2. CASE Fail(r, "null") BY <1>1, <1>2, FailInv DEF Outcomes
<1>3. CASE To(r, "commit")
  <2>1. "commit" \in {"write", "commit"} OBVIOUS
  <2> QED BY <1>1, <1>3, <2>1, ToInv
<1>4. CASE Writes(r) /\ WriteRow(r, In(r).address, Written(r))
  <2>1. PICK a, row : a = In(r).address /\ row = Written(r) OBVIOUS
  <2>2. Local(r, req[r]) /\ Grounded(r, req[r]) /\ In(r) \in Input BY <1>1, Facts
  <2>3. addresses[a] # NoRow /\ addresses[a].owner = req[r].profile BY <1>1, <2>1, <2>2 DEF Grounded, In
  <2>4. a \in Rows BY <2>1, <2>2 DEF Input, Rows
  <2>5. addresses[a] \in Row BY <2>3, <2>4 DEF IInv, Typed
  <2>6. row \in Row /\ row.owner = addresses[a].owner /\ (row.is_active => addresses[a].is_active)
    <3>1. CASE In(r).op = "delete"
      <4>1. row = [addresses[a] EXCEPT !.is_active = FALSE] BY <2>1, <3>1 DEF Written
      <4>2. row \in Row /\ row.owner = addresses[a].owner BY <2>5, <4>1 DEF Row
      <4>3. ~row.is_active BY <2>5, <4>1 DEF Row
      <4> QED BY <4>2, <4>3
    <3>2. CASE In(r).op # "delete"
      <4>1. PICK x \in BOOLEAN : row = [addresses[a] EXCEPT !.is_default = x]
        <5>1. addresses[a].is_default \in BOOLEAN BY <2>5 DEF Row
        <5>2. Asked(r) \in BOOLEAN BY DEF Asked
        <5> QED BY <2>1, <3>2, <5>1, <5>2 DEF Written
      <4>2. row \in Row /\ row.owner = addresses[a].owner BY <2>5, <4>1 DEF Row
      <4>3. row.is_active = addresses[a].is_active BY <2>5, <4>1 DEF Row
      <4> QED BY <4>2, <4>3
    <3> QED BY <3>1, <3>2
  <2>7. a = Target(r, req[r]) BY <1>1, <2>1 DEF Target, In
  <2>8. Lock(a, r) = {} BY <1>1, <1>4, <2>1 DEF WaitsFor
  <2>9. row.owner = req[r].profile BY <2>3, <2>6
  <2>10. IF addresses[a] = NoRow THEN a = r
         ELSE addresses[a].owner = req[r].profile /\ (row.is_active => addresses[a].is_active)
    BY <2>3, <2>6
  <2>11. WriteRow(r, a, row) /\ row \in Row BY <1>4, <2>1, <2>6
  <2> QED BY <1>1, <2>4, <2>7, <2>8, <2>9, <2>10, <2>11, WriteInv
<1> QED BY <1>2, <1>3, <1>4 DEF update

\* The index is entered when nobody else holds or had an entry of this customer.
LEMMA EnterInv == ASSUME IInv, NEW r \in Requests, EnterIndex(r) PROVE IInv'
<1>1. Keep /\ req[r].pc = "index" /\ WaitsFor(r) = {} BY DEF EnterIndex
<1>2. CASE Fail(r, "duplicate_default") BY <1>1, <1>2, FailInv DEF Outcomes
<1>3. CASE ~Duplicate(r) /\ To(r, "commit")
  <2>1. PICK c, d : c = req[r] /\ d = [c EXCEPT !.pc = "commit"] OBVIOUS
  <2>2. c \in Req /\ Local(r, c) /\ Grounded(r, c) /\ c.pc = "index" BY <1>1, <2>1, Facts
  <2>3. req' = [req EXCEPT ![r] = d] BY <1>3, <2>1 DEF To
  <2>4. d \in Req BY <2>1, <2>2 DEF Req
  <2>5. d.pc = "commit" /\ d.profile = c.profile /\ d.in = c.in /\ d.made = c.made /\ d.new = c.new /\ d.todo = c.todo
    BY <2>1, <2>2 DEF Req
  <2>6. Local(r, d)
    <3>1. c.todo = {} \/ c.todo # {} OBVIOUS
    <3> QED BY <2>2, <2>5 DEF Local, Target
  <2>7. Grounded(r, d) BY <2>2, <2>5 DEF Grounded
  <2>8. IndexHolders(r) = {} BY <1>1, <1>3 DEF WaitsFor
  <2>9. \A a \in EntriesOf(d) : d.new[a].owner = c.profile
    <3>1. \A a \in EntriesOf(d) : a \in DOMAIN c.new BY <2>4, <2>5, EntriesFacts
    <3> QED BY <3>1, <2>2, <2>5 DEF Local
  <2>10. \A b \in Rows \ DOMAIN c.new : ~DefaultOf(addresses[b], c.profile)
    <3> SUFFICES ASSUME NEW b \in Rows \ DOMAIN c.new, DefaultOf(addresses[b], c.profile) PROVE FALSE
      OBVIOUS
    <3>1. Lock(b, r) # {} BY <1>3, <2>1 DEF Duplicate, Wrote
    <3>2. PICK s \in Others(r) : b \in Wrote(s) BY <3>1 DEF Lock
    <3>3. s \in IndexHolders(r) BY <2>1, <3>2 DEF IndexHolders, Wrote
    <3> QED BY <2>8, <3>3
  <2>11. Alone(d) BY <2>5, <2>9, <2>10 DEF Alone
  <2>12. NewUsers(d) BY <2>1, <2>5, Facts DEF NewUsers
  <2>13. ASSUME NEW s \in Requests \ {r} PROVE Apart(d, req[s])
    <3>1. Apart(c, req[s]) /\ req[s] \in Req BY <2>1, Facts
    <3>2. ASSUME NEW a \in EntriesOf(d), NEW b \in EntriesOf(req[s]), d.new[a].owner = req[s].new[b].owner PROVE FALSE
      <4>1. b \in DOMAIN req[s].new /\ req[s].pc = "commit" /\ Default(req[s].new[b]) BY <3>1, EntriesFacts DEF EntriesOf
      <4>2. DefaultOf(req[s].new[b], req[r].profile) BY <2>1, <2>9, <3>2, <4>1 DEF DefaultOf
      <4>3. s \in IndexHolders(r) BY <4>1, <4>2 DEF IndexHolders, Wrote, Others
      <4> QED BY <2>8, <4>3
    <3> QED BY <3>1, <3>2, <2>5 DEF Apart
  <2> QED BY <1>1, <2>3, <2>4, <2>6, <2>7, <2>11, <2>12, <2>13, OneStep
<1> QED BY <1>2, <1>3 DEF EnterIndex

-----------------------------------------------------------------------------
(* Commit *)

\* The tables afterwards, in terms of the request c that commits.
LEMMA CommitFacts ==
  ASSUME IInv, NEW r \in Requests, Commit(r), NEW c, c = req[r]
  PROVE  /\ c \in Req /\ Local(r, c) /\ Grounded(r, c) /\ Alone(c) /\ NewUsers(c)
         /\ c.pc = "commit" /\ c.in \in Inputs /\ c.in \in Input
         /\ DOMAIN c.new \subseteq Rows /\ \A a \in DOMAIN c.new : c.new[a] \in Row
         /\ \A a \in Rows : addresses'[a] = IF a \in DOMAIN c.new THEN c.new[a] ELSE addresses[a]
         /\ profiles' = profiles \cup c.made
         /\ \A s \in Requests \ {r} : req'[s] = req[s] /\ Apart(c, req[s])
<1>1. c \in Req /\ Local(r, c) /\ Grounded(r, c) /\ Alone(c) /\ NewUsers(c)
      /\ \A s \in Requests \ {r} : Apart(c, req[s])
  BY Facts
<1>2. c.pc = "commit" BY DEF Commit
<1>3. c.in \in Inputs /\ c.in \in Input BY <1>2, Facts DEF In
<1>4. c.new \in PartialRows BY <1>1 DEF Req
<1>5. DOMAIN c.new \subseteq Rows /\ \A a \in DOMAIN c.new : c.new[a] \in Row BY <1>4, PartialFacts
<1>6. addresses' = [a \in Rows |-> IF a \in DOMAIN c.new THEN c.new[a] ELSE addresses[a]]
  BY DEF Commit, Wrote
<1>7. profiles' = profiles \cup c.made BY DEF Commit
<1>8. req \in [Requests -> Req] BY DEF IInv, Typed
<1>9. \A s \in Requests \ {r} : req'[s] = req[s] BY <1>8 DEF Commit
<1> QED BY <1>1, <1>2, <1>3, <1>5, <1>6, <1>7, <1>9

\* The preferences of a profile the request made, in the language resolved.
LEMMA CommitPreferences ==
  ASSUME IInv, NEW r \in Requests, Commit(r), NEW c, c = req[r]
  PROVE  \E f : /\ f = [id |-> r, customer |-> r, language |-> resolve_default_language(c.in.header)]
                /\ f \in [id: Ids, customer: Ids, language: LanguageCode]
                /\ Best(c.in.header, f.language)
                /\ preferences' = preferences \cup {g \in {f} : c.made # {}}
<1>1. c.in \in Input /\ Local(r, c) BY CommitFacts
<1>2. c.in.header \in Header BY <1>1 DEF Input
<1>3. PICK l : l = resolve_default_language(c.in.header) OBVIOUS
<1>4. l \in LanguageCode /\ Best(c.in.header, l) BY <1>2, <1>3, ResolvesAsAsked
<1>5. PICK f : f = [id |-> r, customer |-> r, language |-> l] OBVIOUS
<1>6. f \in [id: Ids, customer: Ids, language: LanguageCode] BY <1>4, <1>5 DEF Ids
<1>7. \A p \in c.made : p.id = r BY <1>1 DEF Local
<1>8. preferences' = preferences \cup {[id |-> r, customer |-> p.id, language |-> l] : p \in c.made}
  BY <1>3 DEF Commit, In
<1>9. {[id |-> r, customer |-> p.id, language |-> l] : p \in c.made} = {g \in {f} : c.made # {}}
  BY <1>5, <1>7
<1>10. f.language = l BY <1>5
<1> QED BY <1>3, <1>4, <1>5, <1>6, <1>8, <1>9, <1>10

\* A committed address stays, with its owner.
LEMMA CommitKeeps ==
  ASSUME IInv, NEW r \in Requests, Commit(r), NEW a \in Rows, addresses[a] # NoRow
  PROVE  /\ addresses'[a] # NoRow /\ addresses'[a].owner = addresses[a].owner
         /\ addresses'[a].is_active => addresses[a].is_active
<1>1. PICK c : c = req[r] OBVIOUS
<1>2. CASE a \in DOMAIN c.new
  <2>1. addresses'[a] = c.new[a] /\ c.new[a] \in Row BY <1>1, <1>2, CommitFacts
  <2>2. c.new[a].owner = c.profile BY <1>1, <1>2, CommitFacts DEF Local
  <2>3. addresses[a].owner = c.profile /\ (c.new[a].is_active => addresses[a].is_active)
    <3>1. Grounded(r, c) BY <1>1, CommitFacts
    <3> QED BY <1>2, <3>1 DEF Grounded
  <2> QED BY <2>1, <2>2, <2>3, NoRowAssumption
<1>3. CASE a \notin DOMAIN c.new
  <2>1. addresses'[a] = addresses[a] BY <1>1, <1>3, CommitFacts
  <2> QED BY <2>1
<1> QED BY <1>2, <1>3

LEMMA CommitDefaults == ASSUME IInv, NEW r \in Requests, Commit(r) PROVE OneDefault'
<1>1. PICK c : c = req[r] OBVIOUS
<1>2. Local(r, c) /\ Alone(c) /\ c.pc = "commit" BY <1>1, CommitFacts
<1>3. SUFFICES ASSUME NEW a \in Rows, NEW b \in Rows, Default(addresses'[a]), Default(addresses'[b]),
                      addresses'[a].owner = addresses'[b].owner
               PROVE  a = b
  BY DEF OneDefault, Default
<1>4. \A x \in Rows : addresses'[x] = IF x \in DOMAIN c.new THEN c.new[x] ELSE addresses[x]
  BY <1>1, CommitFacts
<1>5. ASSUME NEW x \in DOMAIN c.new, NEW y \in Rows \ DOMAIN c.new, x \in Rows,
             Default(addresses'[x]), Default(addresses'[y]), addresses'[x].owner = addresses'[y].owner
      PROVE  FALSE
  <2>1. addresses'[x] = c.new[x] /\ addresses'[y] = addresses[y] BY <1>4, <1>5
  <2>2. x \in EntriesOf(c) BY <1>2, <1>5, <2>1 DEF EntriesOf
  <2>3. DefaultOf(addresses[y], c.new[x].owner) BY <1>5, <2>1 DEF DefaultOf
  <2> QED BY <1>2, <2>2, <2>3 DEF Alone
<1>6. CASE a \in DOMAIN c.new /\ b \in DOMAIN c.new
  <2>1. c.new[a].is_default /\ c.new[b].is_default BY <1>3, <1>4, <1>6 DEF Default
  <2> QED BY <1>2, <1>6, <2>1 DEF Local
<1>7. CASE a \in DOMAIN c.new /\ b \notin DOMAIN c.new BY <1>3, <1>5, <1>7
<1>8. CASE a \notin DOMAIN c.new /\ b \in DOMAIN c.new BY <1>3, <1>5, <1>8
<1>9. CASE a \notin DOMAIN c.new /\ b \notin DOMAIN c.new
  <2>1. addresses'[a] = addresses[a] /\ addresses'[b] = addresses[b] BY <1>4, <1>9
  <2> QED BY <1>3, <2>1 DEF IInv, OneDefault
<1> QED BY <1>6, <1>7, <1>8, <1>9

LEMMA CommitProfiles == ASSUME IInv, NEW r \in Requests, Commit(r) PROVE OneProfile' /\ PreferencesOfProfiles'
<1>1. PICK c : c = req[r] OBVIOUS
<1>2. Local(r, c) /\ c.pc = "commit" BY <1>1, CommitFacts
<1>3. Grounded(r, c) BY <1>1, CommitFacts
<1>4. NewUsers(c) BY <1>1, CommitFacts
<1>5. \A p \in c.made : p = [id |-> r, user |-> c.in.user] BY <1>2 DEF Local
<1>6. profiles' = profiles \cup c.made BY <1>1, CommitFacts
<1>7. PICK f : /\ f.customer = r
               /\ preferences' = preferences \cup {g \in {f} : c.made # {}}
  BY <1>1, CommitPreferences
<1>8. (\A p \in profiles : p.id # r) /\ (\A g \in preferences : g.customer # r) BY <1>2, <1>3 DEF Grounded
<1>9. ASSUME NEW p \in profiles', NEW q \in profiles', p.user = q.user PROVE p = q
  <2>1. CASE p \in profiles /\ q \in profiles BY <2>1, <1>9 DEF IInv, OneProfile
  <2>2. CASE p \in c.made /\ q \in c.made BY <2>2, <1>5
  <2>3. CASE p \in c.made /\ q \in profiles BY <2>3, <1>4, <1>9 DEF NewUsers
  <2>4. CASE p \in profiles /\ q \in c.made BY <2>4, <1>4, <1>9 DEF NewUsers
  <2> QED BY <1>6, <2>1, <2>2, <2>3, <2>4
<1>10. ASSUME NEW p \in profiles' PROVE Cardinality({g \in preferences' : g.customer = p.id}) = 1
  <2>1. CASE p \in profiles
    <3>1. {g \in preferences' : g.customer = p.id} = {g \in preferences : g.customer = p.id}
      BY <2>1, <1>7, <1>8
    <3> QED BY <2>1, <3>1 DEF IInv, OneProfile
  <2>2. CASE p \in c.made
    <3>1. p.id = r BY <2>2, <1>5
    <3>2. {g \in preferences' : g.customer = p.id} = {f} BY <2>2, <3>1, <1>7, <1>8
    <3> QED BY <3>2, FS_Singleton
  <2> QED BY <1>6, <2>1, <2>2
<1>11. ASSUME NEW a \in Rows, addresses'[a] # NoRow PROVE \E p \in profiles' : p.id = addresses'[a].owner
  <2>1. CASE a \in DOMAIN c.new
    <3>1. addresses'[a] = c.new[a] BY <2>1, <1>1, CommitFacts
    <3>2. c.new[a].owner = c.profile BY <2>1, <1>2 DEF Local
    <3>3. [id |-> c.profile, user |-> c.in.user] \in profiles' BY <1>2, <1>3, <1>6 DEF Grounded
    <3> QED BY <3>1, <3>2, <3>3
  <2>2. CASE a \notin DOMAIN c.new
    <3>1. addresses'[a] = addresses[a] BY <2>2, <1>1, CommitFacts
    <3> QED BY <3>1, <1>6, <1>11 DEF IInv, OneProfile
  <2> QED BY <2>1, <2>2
<1>12. OneProfile' BY <1>9, <1>10, <1>11 DEF OneProfile
<1>13. PreferencesOfProfiles'
  <2> SUFFICES ASSUME NEW g \in preferences' PROVE \E p \in profiles' : p.id = g.customer
    BY DEF PreferencesOfProfiles
  <2>1. CASE g \in preferences BY <2>1, <1>6 DEF IInv, PreferencesOfProfiles
  <2>2. CASE g = f /\ c.made # {}
    <3>1. PICK p \in c.made : TRUE BY <2>2
    <3>2. p.id = r BY <1>5
    <3> QED BY <2>2, <3>1, <3>2, <1>6, <1>7
  <2> QED BY <1>7, <2>1, <2>2
<1> QED BY <1>12, <1>13

LEMMA CommitTyped == ASSUME IInv, NEW r \in Requests, Commit(r) PROVE Typed'
<1>1. PICK c : c = req[r] OBVIOUS
<1>2. c \in Req BY <1>1, CommitFacts
<1>3. profiles' \subseteq [id: Ids, user: Users]
  <2>1. profiles' = profiles \cup c.made BY <1>1, CommitFacts
  <2>2. c.made \subseteq [id: Ids, user: Users] BY <1>2 DEF Req
  <2> QED BY <2>1, <2>2 DEF IInv, Typed
<1>4. preferences' \subseteq [id: Ids, customer: Ids, language: LanguageCode]
  <2>1. PICK f \in [id: Ids, customer: Ids, language: LanguageCode] :
          preferences' = preferences \cup {g \in {f} : c.made # {}}
    BY <1>1, CommitPreferences
  <2> QED BY <2>1 DEF IInv, Typed
<1>5. addresses' \in [Rows -> {NoRow} \cup Row]
  <2>1. DOMAIN c.new \subseteq Rows /\ \A a \in DOMAIN c.new : c.new[a] \in Row BY <1>1, CommitFacts
  <2>2. addresses' = [a \in Rows |-> IF a \in DOMAIN c.new THEN c.new[a] ELSE addresses[a]]
    BY <1>1 DEF Commit, Wrote
  <2>3. \A a \in Rows : addresses[a] \in {NoRow} \cup Row BY DEF IInv, Typed
  <2> QED BY <2>1, <2>2, <2>3
<1>6. req' \in [Requests -> Req]
  <2>1. Ended("ok") \in Req BY EmptyWrites DEF Ended, Fresh, Req, Outcomes
  <2>2. req \in [Requests -> Req] BY DEF IInv, Typed
  <2> QED BY <2>1, <2>2 DEF Commit
<1> QED BY <1>3, <1>4, <1>5, <1>6 DEF Typed

\* What a request that goes on counts on is still so.
LEMMA CommitOthers ==
  ASSUME IInv, NEW r \in Requests, Commit(r), NEW s \in Requests \ {r}, NEW e, e = req[s]
  PROVE  (Local(s, e) /\ Grounded(s, e) /\ Alone(e) /\ NewUsers(e))'
<1>1. PICK c : c = req[r] OBVIOUS
<1>2. Local(s, e) /\ Alone(e) /\ NewUsers(e) /\ e \in Req BY Facts
<1>3. Grounded(s, e) BY Facts
<1>4. Apart(c, e) BY <1>1, CommitFacts
<1>5. \A p \in c.made : p.id = r
  <2>1. Local(r, c) BY <1>1, CommitFacts
  <2> QED BY <2>1 DEF Local
<1>6. \A a \in Rows : addresses'[a] = IF a \in DOMAIN c.new THEN c.new[a] ELSE addresses[a]
  BY <1>1, CommitFacts
<1>7. profiles' = profiles \cup c.made BY <1>1, CommitFacts
<1>8. Local(s, e)' BY <1>2 DEF Local, Target
<1>9. DOMAIN e.new \subseteq Rows /\ e.todo \subseteq Rows
  <2>1. e.new \in PartialRows /\ e.todo \subseteq Rows BY <1>2 DEF Req
  <2> QED BY <2>1, PartialFacts
<1>10. \A a \in DOMAIN e.new : addresses'[a] = addresses[a]
  <2>1. DOMAIN c.new \cap DOMAIN e.new = {} BY <1>4 DEF Apart
  <2> QED BY <2>1, <1>6, <1>9
<1>11. \A a \in Rows : addresses[a] # NoRow =>
         addresses'[a] # NoRow /\ addresses'[a].owner = addresses[a].owner
  BY CommitKeeps
<1>12. Grounded(s, e)'
  <2>1. e.pc # "done" => /\ addresses'[s] = NoRow
                         /\ \A p \in profiles' : p.id # s
                         /\ \A f \in preferences' : f.customer # s
    <3> SUFFICES ASSUME e.pc # "done"
                 PROVE  addresses'[s] = NoRow /\ (\A p \in profiles' : p.id # s)
                        /\ \A f \in preferences' : f.customer # s
      OBVIOUS
    <3>1. addresses[s] = NoRow /\ (\A p \in profiles : p.id # s) /\ (\A f \in preferences : f.customer # s)
      BY <1>3 DEF Grounded
    <3>2. s \notin DOMAIN c.new
      <4>1. Grounded(r, c) BY <1>1, CommitFacts
      <4> QED BY <4>1, <3>1 DEF Grounded
    <3>3. s \in Rows BY DEF Rows
    <3>4. PICK f : f.customer = r /\ preferences' = preferences \cup {g \in {f} : c.made # {}}
      BY <1>1, CommitPreferences
    <3> QED BY <3>1, <3>2, <3>3, <3>4, <1>5, <1>6, <1>7
  <2>2. e.pc \in {"edit", "find", "unset", "write", "index", "commit"} =>
          e.profile \in Ids /\ [id |-> e.profile, user |-> e.in.user] \in profiles' \cup e.made
    BY <1>3, <1>7 DEF Grounded
  <2>3. \A a \in DOMAIN e.new :
          IF addresses'[a] = NoRow THEN a = s
          ELSE addresses'[a].owner = e.profile /\ (e.new[a].is_active => addresses'[a].is_active)
    BY <1>3, <1>10 DEF Grounded
  <2>4. \A a \in e.todo : addresses'[a] # NoRow /\ addresses'[a].owner = e.profile
    BY <1>3, <1>9, <1>11 DEF Grounded
  <2>5. e.pc \in {"unset", "write"} /\ e.in.op \in {"update", "delete"} =>
          addresses'[e.in.address] # NoRow /\ addresses'[e.in.address].owner = e.profile
    <3> SUFFICES ASSUME e.pc \in {"unset", "write"}, e.in.op \in {"update", "delete"}
                 PROVE  addresses'[e.in.address] # NoRow /\ addresses'[e.in.address].owner = e.profile
      OBVIOUS
    <3>1. addresses[e.in.address] # NoRow /\ addresses[e.in.address].owner = e.profile BY <1>3 DEF Grounded
    <3>2. e.in \in Input BY <1>2, CustomerAssumption DEF Local
    <3>3. e.in.address \in Rows BY <3>2 DEF Input, Rows
    <3> QED BY <3>1, <3>3, <1>11
  <2> QED BY <2>1, <2>2, <2>3, <2>4, <2>5 DEF Grounded
<1>13. Alone(e)'
  <2> SUFFICES ASSUME NEW a \in EntriesOf(e), NEW b \in Rows \ DOMAIN e.new,
                      DefaultOf(addresses'[b], e.new[a].owner)
               PROVE  FALSE
    BY DEF Alone, EntriesOf, DefaultOf, Default
  <2>1. CASE b \in DOMAIN c.new
    <3>1. c.pc = "commit" BY <1>1, CommitFacts
    <3>2. addresses'[b] = c.new[b] BY <2>1, <1>6
    <3>3. b \in EntriesOf(c) BY <2>1, <3>1, <3>2 DEF EntriesOf, DefaultOf
    <3>4. c.new[b].owner = e.new[a].owner BY <3>2 DEF DefaultOf
    <3> QED BY <3>3, <3>4, <1>4 DEF Apart
  <2>2. CASE b \notin DOMAIN c.new
    <3>1. addresses'[b] = addresses[b] BY <2>2, <1>6
    <3> QED BY <3>1, <1>2 DEF Alone
  <2> QED BY <2>1, <2>2
<1>14. NewUsers(e)'
  <2>1. \A p \in e.made, q \in profiles : q.user # p.user BY <1>2 DEF NewUsers
  <2>2. \A p \in e.made, q \in c.made : q.user # p.user BY <1>4 DEF Apart
  <2>3. \A p \in e.made, q \in profiles' : q.user # p.user BY <2>1, <2>2, <1>7
  <2> QED BY <2>3 DEF NewUsers
<1> QED BY <1>8, <1>12, <1>13, <1>14

LEMMA CommitInv == ASSUME IInv, NEW r \in Requests, Commit(r) PROVE IInv'
<1>1. Typed' /\ OneDefault' /\ OneProfile' /\ PreferencesOfProfiles'
  BY CommitTyped, CommitDefaults, CommitProfiles
<1>2. PICK d : d = Ended("ok") OBVIOUS
<1>3. d = [pc |-> "done", in |-> NoRow, profile |-> NoProfile, seen |-> NoRow,
           made |-> {}, todo |-> {}, new |-> [a \in {} |-> NoRow], outcome |-> "ok"]
  BY <1>2 DEF Ended, Fresh
<1>4. d.pc = "done" /\ d.made = {} /\ d.todo = {} /\ DOMAIN d.new = {} /\ EntriesOf(d) = {}
  BY <1>3, EmptyWrites DEF EntriesOf
<1>5. req'[r] = d BY <1>2 DEF Commit, IInv, Typed
<1>6. ASSUME NEW s \in Requests, NEW e, req'[s] = e,
             (Local(s, e) /\ Grounded(s, e) /\ Alone(e) /\ NewUsers(e))'
      PROVE  Local(s, req[s])' /\ Grounded(s, req[s])' /\ Alone(req[s])' /\ NewUsers(req[s])'
  <2>1. Local(s, req[s])' BY <1>6 DEF Local, Target
  <2>2. Grounded(s, req[s])' BY <1>6 DEF Grounded
  <2>3. Alone(req[s])' BY <1>6 DEF Alone, EntriesOf, DefaultOf, Default
  <2>4. NewUsers(req[s])' BY <1>6 DEF NewUsers
  <2> QED BY <2>1, <2>2, <2>3, <2>4
<1>7. (Local(r, d) /\ Grounded(r, d) /\ Alone(d) /\ NewUsers(d))'
  BY <1>4 DEF Local, Grounded, Alone, NewUsers, EntriesOf, DefaultOf, Default
<1>8. ASSUME NEW s \in Requests
      PROVE  Local(s, req[s])' /\ Grounded(s, req[s])' /\ Alone(req[s])' /\ NewUsers(req[s])'
  <2>1. CASE s = r BY <2>1, <1>5, <1>6, <1>7
  <2>2. CASE s # r
    <3>1. PICK e : e = req[s] OBVIOUS
    <3>2. (Local(s, e) /\ Grounded(s, e) /\ Alone(e) /\ NewUsers(e))' BY <2>2, <3>1, CommitOthers
    <3>3. req'[s] = e BY <2>2, <3>1, CommitFacts
    <3> QED BY <3>2, <3>3, <1>6
  <2> QED BY <2>1, <2>2
<1>9. ASSUME NEW s \in Requests, NEW t \in Requests, s # t PROVE Apart(req[s], req[t])'
  <2>1. ASSUME NEW c, NEW e, Apart(c, e), req'[s] = c, req'[t] = e PROVE Apart(req[s], req[t])'
    BY <2>1 DEF Apart, EntriesOf, Default
  <2>2. \A e : Apart(d, e) /\ Apart(e, d) BY <1>4 DEF Apart
  <2>3. CASE s = r
    <3>1. PICK e : e = req'[t] OBVIOUS
    <3> QED BY <3>1, <2>1, <2>2, <2>3, <1>5
  <2>4. CASE t = r
    <3>1. PICK e : e = req'[s] OBVIOUS
    <3> QED BY <3>1, <2>1, <2>2, <2>4, <1>5
  <2>5. CASE s # r /\ t # r
    <3>1. PICK c, e : c = req[s] /\ e = req[t] OBVIOUS
    <3>2. Apart(c, e) BY <3>1, <1>9 DEF IInv
    <3>3. req'[s] = c /\ req'[t] = e BY <2>5, <3>1, CommitFacts
    <3> QED BY <3>2, <3>3, <2>1
  <2> QED BY <2>3, <2>4, <2>5
<1>10. \A s \in Requests : Local(s, req[s])' /\ Grounded(s, req[s])' /\ Alone(req[s])' /\ NewUsers(req[s])'
  BY <1>8
<1>11. \A s, t \in Requests : s # t => Apart(req[s], req[t])' BY <1>9
<1> QED BY <1>1, <1>10, <1>11 DEF IInv

-----------------------------------------------------------------------------
(* The inductive invariant and what follows from it *)

LEMMA InitInv == Init => IInv
<1> SUFFICES ASSUME Init PROVE IInv
  OBVIOUS
<1>1. /\ profiles \subseteq {[id |-> u, user |-> u] : u \in Users}
      /\ preferences = {[id |-> p.id, customer |-> p.id, language |-> "en"] : p \in profiles}
      /\ OneDefault /\ req = [r \in Requests |-> Fresh]
  BY DEF Init
<1>2. \A p \in profiles : p \in [id: Ids, user: Users] /\ p.id = p.user /\ p.id \in Users BY <1>1 DEF Ids
<1>3. PICK old \in [Addresses -> {NoRow} \cup [owner: {p.id : p \in profiles}, is_default: BOOLEAN,
                                              is_active: BOOLEAN]] :
        addresses = [a \in Rows |-> IF a \in Addresses THEN old[a] ELSE NoRow]
  BY DEF Init
<1>4. \A a \in Rows : addresses[a] # NoRow =>
        addresses[a] \in Row /\ a \in Addresses /\ \E p \in profiles : p.id = addresses[a].owner
  <2> SUFFICES ASSUME NEW a \in Rows, addresses[a] # NoRow
               PROVE  addresses[a] \in Row /\ a \in Addresses /\ \E p \in profiles : p.id = addresses[a].owner
    OBVIOUS
  <2>1. a \in Addresses /\ addresses[a] = old[a] BY <1>3
  <2>2. old[a] \in [owner: {p.id : p \in profiles}, is_default: BOOLEAN, is_active: BOOLEAN]
    BY <1>3, <2>1
  <2>3. {p.id : p \in profiles} \subseteq Ids BY <1>2
  <2>4. old[a].owner \in {p.id : p \in profiles} BY <2>2
  <2>5. old[a] \in Row BY <2>2, <2>3 DEF Row
  <2> QED BY <2>1, <2>4, <2>5
<1>5. Fresh \in Req BY EmptyWrites DEF Fresh, Req, Outcomes
<1>6. \A f \in preferences : f \in [id: Ids, customer: Ids, language: LanguageCode]
                             /\ \E p \in profiles : p.id = f.customer
  <2>1. "en" \in LanguageCode BY DEF LanguageCode
  <2> QED BY <1>1, <1>2, <2>1
<1>7. Typed
  <2>1. addresses \in [Rows -> {NoRow} \cup Row] BY <1>3, <1>4
  <2>2. req \in [Requests -> Req] BY <1>1, <1>5
  <2>3. profiles \subseteq [id: Ids, user: Users] BY <1>2
  <2>4. preferences \subseteq [id: Ids, customer: Ids, language: LanguageCode] BY <1>6
  <2> QED BY <2>1, <2>2, <2>3, <2>4 DEF Typed
<1>8. PreferencesOfProfiles BY <1>6 DEF PreferencesOfProfiles
<1>9. OneProfile
  <2>1. \A p, q \in profiles : p.user = q.user => p = q BY <1>1
  <2>2. ASSUME NEW p \in profiles PROVE Cardinality({f \in preferences : f.customer = p.id}) = 1
    <3>1. PICK g : g = [id |-> p.id, customer |-> p.id, language |-> "en"] OBVIOUS
    <3>2. {f \in preferences : f.customer = p.id} = {g} BY <1>1, <3>1
    <3> QED BY <3>2, FS_Singleton
  <2>3. \A a \in Rows : addresses[a] # NoRow => \E p \in profiles : p.id = addresses[a].owner BY <1>4
  <2> QED BY <2>1, <2>2, <2>3 DEF OneProfile
<1>10. ASSUME NEW r \in Requests
       PROVE  Local(r, req[r]) /\ Grounded(r, req[r]) /\ Alone(req[r]) /\ NewUsers(req[r])
  <2>1. PICK d : d = Fresh OBVIOUS
  <2>2. d.pc = "idle" /\ d.made = {} /\ d.todo = {} /\ DOMAIN d.new = {} /\ req[r] = d
    BY <2>1, <1>1, EmptyWrites DEF Fresh
  <2>3. EntriesOf(d) = {} BY <2>2 DEF EntriesOf
  <2>4. r \notin Users /\ r \notin Addresses BY CustomerAssumption
  <2>5. addresses[r] = NoRow BY <1>3, <2>4 DEF Rows
  <2>6. \A f \in preferences : f.customer # r BY <1>2, <1>6, <2>4
  <2>7. Grounded(r, d) BY <1>2, <2>2, <2>4, <2>5, <2>6 DEF Grounded
  <2>8. Local(r, d) /\ Alone(d) /\ NewUsers(d) BY <2>2, <2>3 DEF Local, Alone, NewUsers
  <2> QED BY <2>2, <2>7, <2>8
<1>11. ASSUME NEW r \in Requests, NEW s \in Requests, r # s PROVE Apart(req[r], req[s])
  <2>1. PICK d : d = Fresh OBVIOUS
  <2>2. d.made = {} /\ DOMAIN d.new = {} /\ d.pc = "idle" BY <2>1, EmptyWrites DEF Fresh
  <2>3. Apart(d, d) BY <2>2 DEF Apart, EntriesOf
  <2>4. req[r] = d /\ req[s] = d BY <2>1, <1>1
  <2> QED BY <2>3, <2>4
<1> QED BY <1>1, <1>7, <1>8, <1>9, <1>10, <1>11 DEF IInv

\* A step that is not a commit leaves the tables alone.
LEMMA Quiet ==
  ASSUME Next PROVE Keep \/ \E r \in Requests : Commit(r)
<1>1. PICK r \in Requests : Arrive(r) \/ Step(r) \/ DeadlockVictim(r) \/ Crash(r) BY DEF Next
<1>2. CASE Arrive(r) BY <1>2 DEF Arrive
<1>3. CASE DeadlockVictim(r) \/ Crash(r) BY <1>3 DEF DeadlockVictim, Crash
<1>4. CASE Step(r)
  BY <1>4 DEF Step, get_by_user_id, provision_default_profile, update_my_profile, get_active_by_id,
              unset_other_defaults, UnsetRow, create, update, EnterIndex
<1> QED BY <1>1, <1>2, <1>3, <1>4

LEMMA StepInv == ASSUME IInv, [Next]_vars PROVE IInv'
<1>1. CASE UNCHANGED vars
  <2>1. UNCHANGED <<profiles, preferences, addresses, req>> BY <1>1 DEF vars
  <2>2. Typed' BY <2>1 DEF IInv, Typed
  <2>3. OneDefault' /\ OneProfile' /\ PreferencesOfProfiles'
    BY <2>1 DEF IInv, OneDefault, OneProfile, PreferencesOfProfiles
  <2>4. \A r \in Requests : Local(r, req[r])' /\ Grounded(r, req[r])' /\ Alone(req[r])' /\ NewUsers(req[r])'
    BY <2>1 DEF IInv, Local, Target, Grounded, Alone, EntriesOf, DefaultOf, Default, NewUsers
  <2>5. \A r, s \in Requests : r # s => Apart(req[r], req[s])'
    BY <2>1 DEF IInv, Apart, EntriesOf, Default
  <2> QED BY <2>2, <2>3, <2>4, <2>5 DEF IInv
<1>2. CASE Next
  <2>1. PICK r \in Requests : Arrive(r) \/ Step(r) \/ DeadlockVictim(r) \/ Crash(r) BY <1>2 DEF Next
  <2>2. CASE Arrive(r) BY <2>2, ArriveInv
  <2>3. CASE DeadlockVictim(r) BY <2>3, FailInv DEF DeadlockVictim, Outcomes
  <2>4. CASE Crash(r) BY <2>4, FailInv DEF Crash, Outcomes
  <2>5. CASE Step(r)
    <3>1. CASE get_by_user_id(r) BY <3>1, GetInv
    <3>2. CASE provision_default_profile(r) BY <3>2, ProvisionInv
    <3>3. CASE update_my_profile(r) BY <3>3, EditInv
    <3>4. CASE get_active_by_id(r) BY <3>4, FindInv
    <3>5. CASE unset_other_defaults(r) BY <3>5, UnsetInv
    <3>6. CASE \E a \in Rows : UnsetRow(r, a) BY <3>6, UnsetRowInv
    <3>7. CASE create(r) BY <3>7, CreateInv
    <3>8. CASE update(r) BY <3>8, UpdateInv
    <3>9. CASE EnterIndex(r) BY <3>9, EnterInv
    <3>10. CASE Commit(r) BY <3>10, CommitInv
    <3> QED BY <2>5, <3>1, <3>2, <3>3, <3>4, <3>5, <3>6, <3>7, <3>8, <3>9, <3>10 DEF Step
  <2> QED BY <2>1, <2>2, <2>3, <2>4, <2>5
<1> QED BY <1>1, <1>2

\* Whatever the requests do and wherever they fail, rows, locks and index
\* entries fit together.
THEOREM InvariantHolds == Spec => []IInv
<1>1. IInv /\ [Next]_vars => IInv' BY StepInv
<1> QED BY <1>1, InitInv, PTL DEF Spec

\* The tables and what a request has read and written are of their types.
THEOREM TypeCorrect == Spec => []TypeOK
<1>1. ASSUME IInv PROVE TypeOK
  <2>1. ASSUME NEW r \in Requests
        PROVE  /\ Running(r) => In(r) \in Inputs
               /\ req[r].pc \in {"edit", "find", "unset", "write", "index", "commit"} => req[r].profile \in Ids
               /\ req[r].todo \subseteq Rows /\ Wrote(r) \subseteq Rows
               /\ \A a \in Wrote(r) : req[r].new[a] \in Row
    <3>1. PICK c : c = req[r] OBVIOUS
    <3>2. c \in Req /\ Local(r, c) /\ Grounded(r, c) BY <1>1, <3>1, Facts
    <3>3. c.new \in PartialRows /\ c.todo \subseteq Rows BY <3>2 DEF Req
    <3>4. DOMAIN c.new \subseteq Rows /\ \A a \in DOMAIN c.new : c.new[a] \in Row BY <3>3, PartialFacts
    <3>5. c.pc \in {"edit", "find", "unset", "write", "index", "commit"} => c.profile \in Ids
      BY <3>2 DEF Grounded
    <3>6. Running(r) => In(r) \in Inputs BY <1>1, Facts DEF Running
    <3> QED BY <3>1, <3>3, <3>4, <3>5, <3>6 DEF Wrote
  <2>2. profiles \subseteq [id: Ids, user: Users]
        /\ preferences \subseteq [id: Ids, customer: Ids, language: LanguageCode]
        /\ addresses \in [Rows -> {NoRow} \cup Row]
    BY <1>1 DEF IInv, Typed
  <2> QED BY <2>1, <2>2 DEF TypeOK
<1> QED BY <1>1, InvariantHolds, PTL

\* A customer never has two default addresses, whichever of its requests race
\* and whichever of their statements fail (models.py's partial unique index and
\* unset_other_defaults together).
THEOREM AtMostOneDefault == Spec => []OneDefault
<1>1. IInv => OneDefault BY DEF IInv
<1> QED BY <1>1, InvariantHolds, PTL

\* First calls that race leave one profile, with one row of preferences, and an
\* address belongs to a profile.
THEOREM ProfileOnce == Spec => []OneProfile
<1>1. IInv => OneProfile BY DEF IInv
<1> QED BY <1>1, InvariantHolds, PTL

\* A deleted address stays deleted.
THEOREM DeletedForGood == Spec => DeletedStays
<1>1. ASSUME IInv, [Next]_vars
      PROVE  \A a \in Rows : addresses[a] # NoRow /\ ~addresses[a].is_active =>
               addresses'[a] # NoRow /\ ~addresses'[a].is_active
  <2>1. CASE UNCHANGED addresses BY <2>1
  <2>2. CASE \E r \in Requests : Commit(r) BY <2>2, <1>1, CommitKeeps
  <2> QED BY <1>1, <2>1, <2>2, Quiet DEF vars, Keep
<1> QED BY <1>1, InvariantHolds, PTL DEF Spec, DeletedStays

\* Only requests of its owner's account change an address.
THEOREM AddressesAreTheirOwners == Spec => OwnAddresses
<1>1. ASSUME IInv, [Next]_vars, NEW a \in Rows, addresses[a] # NoRow, addresses'[a] # addresses[a]
      PROVE  /\ addresses'[a] # NoRow /\ addresses'[a].owner = addresses[a].owner
             /\ \E r \in Requests : /\ req[r].pc = "commit" /\ req'[r].outcome = "ok"
                                    /\ [id |-> addresses[a].owner, user |-> In(r).user] \in profiles
  <2>1. PICK r \in Requests : Commit(r) BY <1>1, Quiet DEF vars, Keep
  <2>2. PICK c : c = req[r] OBVIOUS
  <2>3. a \in DOMAIN c.new BY <1>1, <2>1, <2>2, CommitFacts
  <2>4. Grounded(r, c) BY <1>1, <2>1, <2>2, CommitFacts
  <2>5. Local(r, c) /\ c.pc = "commit" BY <1>1, <2>1, <2>2, CommitFacts
  <2>6. addresses[a].owner = c.profile BY <1>1, <2>3, <2>4 DEF Grounded
  <2>7. PICK p \in profiles : p.id = c.profile BY <1>1, <2>6 DEF IInv, OneProfile
  <2>8. c.profile # r BY <2>4, <2>5, <2>7 DEF Grounded
  <2>9. [id |-> c.profile, user |-> c.in.user] \notin c.made BY <2>5, <2>8 DEF Local
  <2>10. [id |-> c.profile, user |-> c.in.user] \in profiles BY <2>4, <2>5, <2>9 DEF Grounded
  <2>11. req'[r].outcome = "ok"
    <3>1. req'[r] = Ended("ok") BY <1>1, <2>1 DEF Commit, IInv, Typed
    <3> QED BY <3>1 DEF Ended, Fresh
  <2>12. addresses'[a] # NoRow /\ addresses'[a].owner = addresses[a].owner BY <1>1, <2>1, CommitKeeps
  <2> QED BY <2>2, <2>5, <2>6, <2>10, <2>11, <2>12 DEF In
<1>2. ASSUME IInv, [Next]_vars
      PROVE  \A a \in Rows : addresses[a] # NoRow /\ addresses'[a] # addresses[a] =>
               /\ addresses'[a] # NoRow /\ addresses'[a].owner = addresses[a].owner
               /\ \E r \in Requests : /\ req[r].pc = "commit" /\ req'[r].outcome = "ok"
                                      /\ [id |-> addresses[a].owner, user |-> In(r).user] \in profiles
  BY <1>1, <1>2
<1> QED BY <1>2, InvariantHolds, PTL DEF Spec, OwnAddresses

\* A preference is only ever made in the language resolved from the header of
\* the request that makes the profile, and that is the one it asked for.
THEOREM NewCustomerLanguage == Spec => LanguageAsAsked
<1>1. ASSUME IInv, [Next]_vars, NEW f \in preferences' \ preferences
      PROVE  \E r \in Requests : req[r].pc = "commit" /\ Best(In(r).header, f.language)
  <2>1. PICK r \in Requests : Commit(r) BY <1>1, Quiet DEF vars, Keep
  <2>2. PICK c : c = req[r] OBVIOUS
  <2>3. PICK g : /\ Best(c.in.header, g.language)
                 /\ preferences' = preferences \cup {h \in {g} : c.made # {}}
    BY <1>1, <2>1, <2>2, CommitPreferences
  <2>4. f = g BY <1>1, <2>3
  <2>5. req[r].pc = "commit" BY <2>1 DEF Commit
  <2> QED BY <2>2, <2>3, <2>4, <2>5 DEF In
<1>2. ASSUME IInv, [Next]_vars
      PROVE  \A f \in preferences' \ preferences :
               \E r \in Requests : req[r].pc = "commit" /\ Best(In(r).header, f.language)
  BY <1>1, <1>2
<1> QED BY <1>2, InvariantHolds, PTL DEF Spec, LanguageAsAsked
===============================================================================
