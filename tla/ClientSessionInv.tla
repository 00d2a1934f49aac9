--------------------------- MODULE ClientSessionInv ---------------------------
(***************************************************************************)
(* The inductive invariant of ClientSession: whose writes are pending, and  *)
(* where a pair can be before its task has kept it.                         *)
(***************************************************************************)
EXTENDS ClientSession

\* The writes not yet carried out are those of the tasks that wait for one,
\* one of each.
Writes == {"saving", "clearing", "leaving"}

WritesMatch ==
  /\ \A i \in DOMAIN pending :
       /\ pc[pending[i].by] \in Writes
       /\ pending[i].pair = IF pc[pending[i].by] = "saving" THEN pending[i].by ELSE None
  /\ \A i, j \in DOMAIN pending : pending[i].by = pending[j].by => i = j
  /\ \A q \in Tasks : pc[q] \in Writes => \E i \in DOMAIN pending : pending[i].by = q

\* A pair its task has not kept yet is nowhere in the client; once issued,
\* its refresh token has not been used.
Unkept(q) == memory # q /\ storage # q /\ \A p \in Tasks : presented[p] # q

PairsAreNew == \A q \in Tasks :
  pc[q] \in {"idle", "sent", "signing", "asking", "rotating", "answered"} =>
    Unkept(q) /\ (q \in live <=> pc[q] = "answered")

\* Every pair the client has or had was issued in some session, and a logout
\* is about one of them.
InSession(p) == p # None => session[p] # None

Issued ==
  /\ InSession(memory) /\ InSession(storage)
  /\ \A q \in Tasks :
       /\ InSession(sent[q]) /\ InSession(presented[q])
       /\ pc[q] \in {"answered", "saving"} => session[q] # None
       /\ kind[q] = "logout" => sent[q] # None \/ pc[q] \in {"out", "leaving"} \cup Ended

\* Tasks that present nothing, and those that have.
Presents == \A q \in Tasks :
  /\ pc[q] \in {"idle", "sent", "signing"} \/ kind[q] = "signIn" => presented[q] = None
  /\ pc[q] = "idle" <=> kind[q] = "none"
  /\ pc[q] = "signing" => kind[q] = "signIn"
  /\ pc[q] = "sent" => kind[q] \in {"request", "logout"}
  /\ pc[q] \in {"asking", "rotating"} => kind[q] # "signIn" /\ presented[q] # None

\* A pair whose refresh token is good, or whose replacement went missing or
\* has arrived.
Sound(p) == p \in live \cup lost \/ UnderWay(p, {"answered"})

\* Fresh, said of every place a pair is on its way to: the one whose turn is
\* later overwrites the one whose refresh token it has used.
FreshAt(p, i) == p # None =>
  \/ Sound(p)
  \/ \E j \in DOMAIN pending :
       i < j /\ pc[pending[j].by] = "saving" /\ presented[pending[j].by] = p

AllFresh ==
  /\ memory # None => Sound(memory)
  /\ FreshAt(storage, 0)
  /\ \A i \in DOMAIN pending : FreshAt(pending[i].pair, i)

\* The last write is what memory holds; without one, storage is, except on
\* the splash screen, where nothing has been restored yet and nothing but
\* restores goes on.
Synced ==
  /\ pending # <<>> => pending[Len(pending)].pair = memory
  /\ pending = <<>> => memory = IF screen = "splash" THEN None ELSE storage
  /\ screen = "splash" => \A q \in Tasks : pc[q] \in Waiting => kind[q] = "restore"

\* A task no other task overlaps is the only one, and asks with a pair that
\* is good or has gone missing.
Alone == \A q \in Tasks : pc[q] \in Waiting /\ q \notin crossed =>
  /\ \A p \in Tasks : pc[p] \in Waiting => p = q
  /\ pc[q] = "asking" => presented[q] \in live \cup lost

ForCause == \A q \in Tasks : pc[q] = "clearing" =>
  \/ q \in failed \cup crossed
  \/ presented[q] # None /\ (session[presented[q]] \in over \/ presented[q] \in lost)

IInv ==
  /\ TypeOK
  /\ WritesMatch
  /\ PairsAreNew
  /\ Issued
  /\ Presents
  /\ AllFresh
  /\ Synced
  /\ Alone
  /\ ForCause

\* Only a logout goes on to clear the session for good.
LogoutsLeave == \A q \in Tasks : pc[q] \in {"out", "leaving"} => kind[q] = "logout"

\* Once logged out without an overlap, nothing of the session is left, and no
\* task under way could bring one back.
LoggedOut == out =>
  \/ \E q \in crossed : kind[q] = "logout"
  \/ /\ memory = None /\ storage = None
     /\ \A q \in Tasks : pc[q] \in Waiting => pc[q] \in {"sent", "out", "leaving"}
===============================================================================
