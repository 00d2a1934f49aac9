-------------------------- MODULE ClientSessionProofs --------------------------
(***************************************************************************)
(* Theorems about ClientSession, for any number of tasks of any kind and    *)
(* any faults.  Types and the pending writes first, then where pairs can    *)
(* be, then who may be signed out.                                          *)
(***************************************************************************)
EXTENDS ClientSessionInv, SequenceTheorems, TLAPS

-----------------------------------------------------------------------------
(* The pending writes *)

\* A write that begins is the last one.
LEMMA KeepAppends ==
  ASSUME TypeOK, NEW q \in Tasks, NEW p \in Pair, Keep(q, p)
  PROVE  /\ pending' \in Seq(Write)
         /\ Len(pending) \in Nat
         /\ Len(pending') = Len(pending) + 1
         /\ DOMAIN pending = 1 .. Len(pending)
         /\ DOMAIN pending' = 1 .. Len(pending) + 1
         /\ \A i \in 1 .. Len(pending) : pending'[i] = pending[i]
         /\ pending'[Len(pending) + 1] = [by |-> q, pair |-> p]
<1>1. [by |-> q, pair |-> p] \in Write
  BY DEF Write
<1>2. pending \in Seq(Write) /\ pending' = Append(pending, [by |-> q, pair |-> p])
  BY DEF TypeOK, Keep
<1> QED BY <1>1, <1>2, AppendProperties

LEMMA PendingFacts ==
  ASSUME TypeOK
  PROVE  /\ DOMAIN pending = 1 .. Len(pending)
         /\ Len(pending) \in Nat
         /\ \A i \in DOMAIN pending : pending[i].by \in Tasks /\ pending[i].pair \in Pair
<1>1. pending \in Seq(Write)
  BY DEF TypeOK
<1>2. \A i \in DOMAIN pending : pending[i] \in Write
  BY <1>1, ElementOfSeq
<1> QED BY <1>1, <1>2, LenProperties DEF Write

\* The storage carries out the first one.
LEMMA StoredRemoves ==
  ASSUME TypeOK, Stored
  PROVE  /\ Len(pending) \in Nat \ {0}
         /\ Head(pending) = pending[1]
         /\ pending[1] \in Write
         /\ pending' \in Seq(Write)
         /\ Len(pending') = Len(pending) - 1
         /\ DOMAIN pending = 1 .. Len(pending)
         /\ DOMAIN pending' = 1 .. Len(pending) - 1
         /\ \A i \in 1 .. Len(pending) - 1 : pending'[i] = pending[i + 1]
<1>1. pending \in Seq(Write) /\ pending # <<>> /\ pending' = Tail(pending)
  BY DEF TypeOK, Stored
<1>2. Len(pending) \in Nat \ {0}
  BY <1>1, EmptySeq
<1> QED BY <1>1, <1>2, HeadTailProperties

-----------------------------------------------------------------------------
(* Types *)

LEMMA InitTyped == Init => TypeOK
<1>1. <<>> \in Seq(Write)
  BY EmptySeq
<1> QED BY <1>1 DEF Init, TypeOK, Pair

LEMMA BeginTyped == ASSUME TypeOK, NEW q \in Tasks, Begin(q) PROVE TypeOK'
<1>1. CASE Restore(q)
  BY <1>1 DEF TypeOK, Restore, Start, Go, Busy, serverVars, Pair, Waiting, Ended
<1>2. CASE SignIn(q)
  BY <1>2 DEF TypeOK, SignIn, Start, Go, Busy, serverVars, Pair, Waiting, Ended
<1>3. CASE Request(q)
  BY <1>3 DEF TypeOK, Request, Start, Go, Busy, serverVars, Pair, Waiting, Ended
<1>4. CASE Logout(q)
  BY <1>4 DEF TypeOK, Logout, Start, Go, Busy, serverVars, Pair, Waiting, Ended
<1> QED BY <1>1, <1>2, <1>3, <1>4 DEF Begin

LEMMA KeepTyped ==
  ASSUME TypeOK, NEW q \in Tasks, NEW p \in Pair, NEW next \in Waiting,
         Keep(q, p), Go(q, next), failed' \subseteq Tasks, lost' \subseteq Tasks,
         UNCHANGED <<serverVars, kind, sent, presented, crossed, out>>
  PROVE  TypeOK'
BY KeepAppends DEF TypeOK, Keep, Go, serverVars

\* A logout that is served was sent with a pair that is in a session.
LEMMA ServeTyped == ASSUME IInv, NEW q \in Tasks, Serve(q) PROVE TypeOK'
<1>1. kind[q] = "logout" => session[sent[q]] \in Tasks
  <2>1. SUFFICES ASSUME kind[q] = "logout" PROVE session[sent[q]] \in Tasks
    OBVIOUS
  <2>2. sent[q] # None
    BY <2>1 DEF Serve, IInv, Issued, Ended
  <2>3. sent[q] \in Tasks /\ session[sent[q]] # None
    BY <2>2 DEF IInv, Issued, InSession, TypeOK, Pair
  <2> QED BY <2>3 DEF IInv, TypeOK, Pair
<1> QED BY <1>1 DEF IInv, TypeOK, Serve, Go, clientVars, historyVars, Waiting, Ended

LEMMA ServerTyped ==
  ASSUME IInv, NEW q \in Tasks,
         Serve(q) \/ Admit(q) \/ Accept(q) \/ Rotate(q) \/ Lapse(q) \/ EndElsewhere(q)
  PROVE  TypeOK'
<1> USE DEF IInv, TypeOK, Go, clientVars, historyVars, serverVars, taskVars, Pair, Waiting
<1>1. CASE Serve(q)
  BY <1>1, ServeTyped
<1>2. CASE Admit(q)
  BY <1>2 DEF Admit
<1>3. CASE Accept(q)
  BY <1>3 DEF Accept
<1>4. CASE Rotate(q)
  <2>1. presented[q] \in Tasks
    BY <1>4 DEF Rotate, Presents
  <2> QED BY <1>4, <2>1 DEF Rotate
<1>5. CASE Lapse(q)
  BY <1>5 DEF Lapse
<1>6. CASE EndElsewhere(q)
  BY <1>6 DEF EndElsewhere
<1> QED BY <1>1, <1>2, <1>3, <1>4, <1>5, <1>6

LEMMA ClientTyped ==
  ASSUME TypeOK, NEW q \in Tasks,
         \/ Unauthorized(q) \/ SetSession(q) \/ Unmounted(q) \/ Refused(q)
         \/ Fails(q) \/ ClearOnLogout(q) \/ Leave(q)
  PROVE  TypeOK'
<1>0. None \in Pair /\ q \in Pair /\ {"saving", "clearing", "leaving"} \subseteq Waiting
  BY DEF Pair, Waiting
<1>1. CASE Unauthorized(q)
  BY <1>1 DEF TypeOK, Unauthorized, GiveUp, Go, serverVars, clientVars, historyVars,
              Waiting, Ended
<1>2. CASE SetSession(q)
  BY <1>0, <1>2, KeepTyped DEF SetSession, historyVars, TypeOK
<1>3. CASE Unmounted(q)
  BY <1>3 DEF TypeOK, Unmounted, GiveUp, Go, serverVars, clientVars, historyVars,
              Waiting, Ended
<1>4. CASE Refused(q)
  BY <1>0, <1>4, KeepTyped DEF Refused, historyVars, TypeOK
<1>5. CASE Fails(q)
  <2>1. failed' \subseteq Tasks /\ lost' \subseteq Tasks
    BY <1>5 DEF Fails, TypeOK, Pair
  <2>2. CASE Keep(q, None) /\ Go(q, "clearing")
    BY <1>0, <1>5, <2>1, <2>2, KeepTyped DEF Fails
  <2>3. CASE GiveUp(q) /\ UNCHANGED clientVars
    BY <1>5, <2>1, <2>3 DEF Fails, TypeOK, GiveUp, Go, serverVars, clientVars, Waiting, Ended
  <2> QED BY <1>5, <2>2, <2>3 DEF Fails
<1>6. CASE ClearOnLogout(q)
  BY <1>0, <1>6, KeepTyped DEF ClearOnLogout, historyVars, TypeOK
<1>7. CASE Leave(q)
  BY <1>7 DEF TypeOK, Leave, serverVars, taskVars, historyVars
<1> QED BY <1>1, <1>2, <1>3, <1>4, <1>5, <1>6, <1>7

LEMMA StoredTyped == ASSUME TypeOK, Stored PROVE TypeOK'
<1> DEFINE q == pending[1].by
<1>1. q \in Tasks /\ pending[1].pair \in Pair /\ Head(pending) = pending[1]
  BY StoredRemoves DEF Write
<1>2. After(q) \in Waiting \cup Ended
  BY DEF After, Waiting, Ended
<1>3. Leads(q) \in {"splash", "auth", "home"}
  BY DEF Leads, TypeOK
<1>4. pc' \in [Tasks -> {"idle"} \cup Waiting \cup Ended]
  BY <1>1, <1>2 DEF Stored, Go, TypeOK
<1>5. out' \in BOOLEAN
  BY <1>1 DEF Stored, TypeOK
<1> QED BY <1>1, <1>3, <1>4, <1>5, StoredRemoves DEF Stored, TypeOK, serverVars

LEMMA KillTyped == ASSUME IInv, Kill PROVE TypeOK'
<1>1. <<>> \in Seq(Write)
  BY EmptySeq
<1>2. PICK S \in SUBSET {presented[q] : q \in {p \in Tasks : pc[p] \in {"asking", "rotating"}}} :
        /\ live' = live \ S
        /\ lost' = lost \cup S \cup
             ({presented[q] : q \in {p \in Tasks : pc[p] \in {"answered", "saving"}}} \ {None})
  BY DEF Kill
<1>3. \A q \in Tasks : presented[q] \in Tasks \cup {None}
  BY DEF IInv, TypeOK, Pair
<1>4. S \subseteq Tasks
  BY <1>3 DEF IInv, Presents
<1>5. live' \subseteq Tasks /\ lost' \subseteq Tasks
  BY <1>2, <1>3, <1>4 DEF IInv, TypeOK
<1> QED BY <1>1, <1>5 DEF Kill, IInv, TypeOK, Pair, Ended

LEMMA TypeStep == ASSUME IInv, Next PROVE TypeOK'
<1>0. TypeOK
  BY DEF IInv
<1>1. ASSUME NEW q \in Tasks, Begin(q) PROVE TypeOK'
  BY <1>0, <1>1, BeginTyped
<1>2. ASSUME NEW q \in Tasks, Step(q) \/ Fails(q) \/ Leave(q) \/ Lapse(q) \/ EndElsewhere(q)
      PROVE  TypeOK'
  BY <1>0, <1>2, ServerTyped, ClientTyped DEF Step
<1> QED BY <1>0, <1>1, <1>2, StoredTyped, KillTyped DEF Next

-----------------------------------------------------------------------------
(* Steps by what they do to the writes *)

\* A step of a task that begins no write.
Quiet(q) ==
  /\ Begin(q) \/ Serve(q) \/ Admit(q) \/ Accept(q) \/ Rotate(q) \/ Unauthorized(q)
     \/ Unmounted(q) \/ Leave(q) \/ Lapse(q) \/ EndElsewhere(q) \/ Fails(q)
  /\ UNCHANGED pending

\* One that begins a write.
Writing(q) ==
  \/ SetSession(q)
  \/ Refused(q) \/ ClearOnLogout(q)
  \/ Fails(q) /\ Keep(q, None)

LEMMA StepKinds ==
  ASSUME IInv, Next
  PROVE  (\E q \in Tasks : Quiet(q) \/ Writing(q)) \/ Stored \/ Kill
<1>1. ASSUME NEW q \in Tasks, Begin(q) \/ Leave(q) \/ Lapse(q) \/ EndElsewhere(q) PROVE Quiet(q)
  BY <1>1 DEF Quiet, Begin, Restore, SignIn, Request, Logout, Leave, Lapse, EndElsewhere, clientVars
<1>2. ASSUME NEW q \in Tasks, Step(q) PROVE Quiet(q) \/ Writing(q)
  BY <1>2 DEF Quiet, Writing, Step, Serve, Admit, Accept, Rotate, Unauthorized, Unmounted,
              clientVars
<1>3. ASSUME NEW q \in Tasks, Fails(q) PROVE Quiet(q) \/ Writing(q)
  BY <1>3 DEF Quiet, Writing, Fails, clientVars
<1> QED BY <1>1, <1>2, <1>3 DEF Next

\* What a step without a write does to the task, and to nothing else of the client.
LEMMA QuietSteps ==
  ASSUME IInv, NEW q \in Tasks, Quiet(q)
  PROVE  /\ UNCHANGED <<memory, storage, pending>>
         /\ pc[q] \notin Writes \/ pc'[q] = pc[q]
         /\ pc'[q] \notin Writes \/ pc'[q] = pc[q]
         /\ pc[q] \in Writes => presented'[q] = presented[q]
         /\ \A p \in Tasks \ {q} : /\ pc'[p] = pc[p] /\ kind'[p] = kind[p]
                                   /\ presented'[p] = presented[p] /\ sent'[p] = sent[p]
<1> USE DEF IInv, TypeOK, Go, GiveUp, Writes, serverVars, clientVars, taskVars
<1>1. CASE Begin(q)
  BY <1>1 DEF Begin, Restore, SignIn, Request, Logout, Start
<1>2. CASE Serve(q) \/ Admit(q) \/ Accept(q) \/ Rotate(q)
  BY <1>2 DEF Serve, Admit, Accept, Rotate
<1>3. CASE Unauthorized(q) \/ Unmounted(q)
  BY <1>3 DEF Unauthorized, Unmounted
<1>4. CASE Leave(q) \/ Lapse(q) \/ EndElsewhere(q)
  BY <1>4 DEF Leave, Lapse, EndElsewhere
<1>5. CASE Fails(q)
  <2>1. pending' # Append(pending, [by |-> q, pair |-> None])
    <3>1. Len(Append(pending, [by |-> q, pair |-> None])) = Len(pending) + 1 /\ Len(pending) \in Nat
      BY AppendProperties DEF Write, Pair
    <3> QED BY <3>1 DEF Quiet
  <2>2. UNCHANGED clientVars /\ GiveUp(q)
    BY <1>5, <2>1 DEF Fails, Keep
  <2> QED BY <1>5, <2>2 DEF Fails
<1> QED BY <1>1, <1>2, <1>3, <1>4, <1>5 DEF Quiet

\* What a step with a write does.
LEMMA WritingSteps ==
  ASSUME IInv, NEW q \in Tasks, Writing(q)
  PROVE  \E p \in {q, None}, next \in Writes :
           /\ Keep(q, p) /\ Go(q, next)
           /\ p = IF next = "saving" THEN q ELSE None
           /\ next = "saving" => pc[q] = "answered"
           /\ next = "leaving" => pc[q] = "out"
           /\ next = "clearing" => pc[q] \in {"asking", "rotating", "answered", "retrying"}
           /\ pc[q] \notin Writes
           /\ UNCHANGED <<serverVars, kind, sent, presented>>
<1>1. CASE SetSession(q)
  BY <1>1 DEF SetSession, Writes
<1>2. CASE Refused(q)
  BY <1>2 DEF Refused, Writes
<1>3. CASE ClearOnLogout(q)
  BY <1>3 DEF ClearOnLogout, Writes
<1>4. CASE Fails(q) /\ Keep(q, None)
  <2>1. pending' # pending
    <3>1. Len(Append(pending, [by |-> q, pair |-> None])) = Len(pending) + 1 /\ Len(pending) \in Nat
      BY AppendProperties DEF IInv, TypeOK, Write, Pair
    <3> QED BY <1>4, <3>1 DEF Keep
  <2>2. Go(q, "clearing") /\ ~(pc[q] = "sent" \/ kind[q] = "signIn")
    BY <1>4, <2>1 DEF Fails, clientVars
  <2>3. pc[q] # "signing"
    BY <2>2 DEF IInv, Presents
  <2>4. pc[q] \in {"asking", "rotating", "answered", "retrying"}
    BY <1>4, <2>2, <2>3 DEF Fails
  <2> QED BY <1>4, <2>2, <2>4 DEF Fails, Writes
<1> QED BY <1>1, <1>2, <1>3, <1>4 DEF Writing

LEMMA WritesKept ==
  ASSUME IInv, Next
  PROVE  WritesMatch'
<1> USE DEF IInv
<1>0. DOMAIN pending = 1 .. Len(pending) /\ Len(pending) \in Nat
      /\ \A i \in DOMAIN pending : pending[i].by \in Tasks
  BY PendingFacts
<1>1. ASSUME NEW q \in Tasks, Quiet(q) PROVE WritesMatch'
  <2>1. \A p \in Tasks : pc'[p] = pc[p] \/ (pc[p] \notin Writes /\ pc'[p] \notin Writes)
    BY <1>1, QuietSteps
  <2>2. pending' = pending
    BY <1>1, QuietSteps
  <2>3. "saving" \in Writes
    BY DEF Writes
  <2> QED BY <1>0, <2>1, <2>2, <2>3 DEF WritesMatch
<1>2. ASSUME NEW q \in Tasks, Writing(q) PROVE WritesMatch'
  <2>1. PICK p \in {q, None}, next \in Writes :
          /\ Keep(q, p) /\ Go(q, next)
          /\ p = IF next = "saving" THEN q ELSE None
          /\ pc[q] \notin Writes
    BY <1>2, WritingSteps
  <2>2. p \in Pair
    BY DEF Pair
  <2>3. pc'[q] = next /\ \A o \in Tasks \ {q} : pc'[o] = pc[o]
    BY <2>1 DEF Go, TypeOK
  <2>4. \A i \in DOMAIN pending : pending[i].by # q /\ pending'[i] = pending[i]
    BY <2>1, <2>2, KeepAppends DEF WritesMatch
  <2>5. /\ DOMAIN pending' = DOMAIN pending \cup {Len(pending) + 1}
        /\ pending'[Len(pending) + 1].by = q /\ pending'[Len(pending) + 1].pair = p
    <3>1. 1 .. Len(pending) + 1 = (1 .. Len(pending)) \cup {Len(pending) + 1}
      BY <1>0
    <3>2. DOMAIN pending' = 1 .. Len(pending) + 1
          /\ pending'[Len(pending) + 1] = [by |-> q, pair |-> p]
      BY <2>1, <2>2, KeepAppends
    <3> QED BY <1>0, <3>1, <3>2
  <2> QED BY <1>0, <2>1, <2>3, <2>4, <2>5 DEF WritesMatch
<1>3. ASSUME Stored PROVE WritesMatch'
  <2> DEFINE q == pending[1].by
  <2>1. /\ q \in Tasks /\ Head(pending).by = q
        /\ DOMAIN pending' = 1 .. Len(pending) - 1
        /\ \A i \in DOMAIN pending' : pending'[i] = pending[i + 1]
        /\ 1 \in DOMAIN pending
    BY <1>0, <1>3, StoredRemoves
  <2>2. pc'[q] \notin Writes /\ \A p \in Tasks \ {q} : pc'[p] = pc[p]
    BY <1>3, <2>1 DEF Stored, Go, After, TypeOK, Writes
  <2>3. \A i \in DOMAIN pending' : i + 1 \in DOMAIN pending /\ pending[i + 1].by # q
    BY <1>0, <2>1 DEF WritesMatch
  <2>4. \A i \in DOMAIN pending \ {1} : i - 1 \in DOMAIN pending' /\ pending'[i - 1] = pending[i]
    BY <1>0, <2>1
  <2>5. \A i \in DOMAIN pending' :
          /\ pc'[pending'[i].by] \in Writes
          /\ pending'[i].pair = IF pc'[pending'[i].by] = "saving" THEN pending'[i].by ELSE None
    BY <1>0, <2>1, <2>2, <2>3 DEF WritesMatch
  <2>6. \A i, j \in DOMAIN pending' : pending'[i].by = pending'[j].by => i = j
    BY <1>0, <2>1, <2>3 DEF WritesMatch
  <2>7. \A p \in Tasks : pc'[p] \in Writes => \E i \in DOMAIN pending' : pending'[i].by = p
    BY <1>0, <2>1, <2>2, <2>4 DEF WritesMatch
  <2> QED BY <2>5, <2>6, <2>7 DEF WritesMatch
<1>4. ASSUME Kill PROVE WritesMatch'
  <2>1. \A q \in Tasks : pc'[q] \notin Writes
    BY <1>4 DEF Kill, Busy, Waiting, Writes
  <2>2. DOMAIN pending' = {}
    BY <1>4 DEF Kill
  <2> QED BY <2>1, <2>2 DEF WritesMatch
<1> QED BY <1>1, <1>2, <1>3, <1>4, StepKinds

\* The write that is carried out, and what becomes of its task.
LEMMA StoredStep ==
  ASSUME IInv, Stored
  PROVE  \E q \in Tasks :
           /\ pending[1].by = q /\ 1 \in DOMAIN pending
           /\ pc[q] \in Writes
           /\ pc'[q] \in {"retrying", "out", "failed", "done"}
           /\ pc'[q] = "retrying" => pc[q] = "saving" /\ kind[q] \in {"request", "logout"}
           /\ pc'[q] = "out" => pc[q] = "clearing" /\ kind[q] = "logout"
           /\ \A p \in Tasks \ {q} : pc'[p] = pc[p]
           /\ storage' = IF pc[q] = "saving" THEN q ELSE None
           /\ UNCHANGED <<live, session, over, memory, kind, sent, presented,
                          lost, crossed, failed>>
<1> DEFINE q == pending[1].by
<1>1. 1 \in DOMAIN pending /\ Head(pending) = pending[1]
  BY StoredRemoves DEF IInv
<1>2. q \in Tasks /\ pc[q] \in Writes
      /\ pending[1].pair = IF pc[q] = "saving" THEN q ELSE None
  BY <1>1, PendingFacts DEF IInv, WritesMatch
<1>3. storage' = pending[1].pair /\ Go(q, After(q))
  BY <1>1 DEF Stored
<1>4. pc'[q] = After(q) /\ \A p \in Tasks \ {q} : pc'[p] = pc[p]
  BY <1>2, <1>3 DEF Go, IInv, TypeOK
<1>5. /\ After(q) \in {"retrying", "out", "failed", "done"}
      /\ After(q) = "retrying" => pc[q] = "saving" /\ kind[q] \in {"request", "logout"}
      /\ After(q) = "out" => pc[q] = "clearing" /\ kind[q] = "logout"
  BY DEF After
<1>6. UNCHANGED <<live, session, over, memory, kind, sent, presented, lost, crossed, failed>>
  BY DEF Stored, serverVars
<1> QED BY <1>1, <1>2, <1>3, <1>4, <1>5, <1>6

-----------------------------------------------------------------------------
(* What tasks present *)

LEMMA PresentsKept == ASSUME IInv, Next PROVE Presents'
<1> USE DEF IInv, TypeOK, Go, GiveUp, serverVars, clientVars, taskVars
<1>1. ASSUME NEW q \in Tasks, Quiet(q) PROVE Presents'
  <2>1. CASE Begin(q)
    BY <2>1 DEF Begin, Restore, SignIn, Request, Logout, Start, Presents, Ended, Waiting
  <2>2. CASE Serve(q)
    BY <2>2 DEF Serve, Presents
  <2>3. CASE Admit(q) \/ Accept(q) \/ Rotate(q)
    BY <2>3 DEF Admit, Accept, Rotate, Presents
  <2>4. CASE Unauthorized(q)
    BY <2>4 DEF Unauthorized, Presents
  <2>5. CASE Unmounted(q)
    BY <2>5 DEF Unmounted, Presents
  <2>6. CASE Leave(q) \/ Lapse(q) \/ EndElsewhere(q)
    BY <2>6 DEF Leave, Lapse, EndElsewhere, Presents
  <2>7. CASE Fails(q)
    BY <2>7 DEF Fails, Presents
  <2> QED BY <1>1, <2>1, <2>2, <2>3, <2>4, <2>5, <2>6, <2>7 DEF Quiet
<1>2. ASSUME NEW q \in Tasks, Writing(q) PROVE Presents'
  BY <1>2, WritingSteps DEF Writes, Presents, Writing, SetSession, Refused, ClearOnLogout, Fails
<1>3. ASSUME Stored PROVE Presents'
  BY <1>3, StoredStep DEF Writes, Presents
<1>4. ASSUME Kill PROVE Presents'
  BY <1>4 DEF Kill, Presents, Busy, Waiting
<1> QED BY <1>1, <1>2, <1>3, <1>4, StepKinds

LEMMA IssuedKept == ASSUME IInv, Next PROVE Issued'
<1> USE DEF IInv, TypeOK, Go, GiveUp, serverVars, clientVars, taskVars, InSession, Pair
<1>1. ASSUME NEW q \in Tasks, Quiet(q) PROVE Issued'
  <2>1. CASE Begin(q)
    BY <2>1 DEF Begin, Restore, SignIn, Request, Logout, Start, Issued, Ended
  <2>2. CASE Serve(q)
    BY <2>2 DEF Serve, Issued
  <2>3. CASE Accept(q)
    BY <2>3 DEF Accept, Issued, Ended
  <2>4. CASE Admit(q) \/ Rotate(q)
    <3>1. PICK s \in Tasks : session' = [session EXCEPT ![q] = s]
      <4>1. CASE Admit(q)
        BY <4>1 DEF Admit
      <4>2. CASE Rotate(q)
        <5>1. presented[q] \in Tasks /\ session[presented[q]] # None
          BY <4>2 DEF Rotate, Presents, Issued
        <5> QED BY <4>2, <5>1 DEF Rotate
      <4> QED BY <2>4, <4>1, <4>2
    <3>2. \A p \in Pair : InSession(p) => InSession(p)'
      BY <3>1, NoneAssumption
    <3>3. pc'[q] = "answered" /\ session'[q] # None
          /\ \A p \in Tasks \ {q} : pc'[p] = pc[p] /\ session'[p] = session[p]
      BY <2>4, <3>1, NoneAssumption DEF Admit, Rotate
    <3>4. UNCHANGED <<memory, storage, kind, sent, presented>>
      BY <2>4 DEF Admit, Rotate
    <3>5. kind[q] = "logout" => sent[q] # None
      BY <2>4 DEF Admit, Rotate, Issued, Presents, Ended
    <3> QED BY <3>2, <3>3, <3>4, <3>5 DEF Issued
  <2>5. CASE Unauthorized(q)
    BY <2>5 DEF Unauthorized, Issued, Ended
  <2>6. CASE Unmounted(q)
    BY <2>6 DEF Unmounted, Issued
  <2>7. CASE Leave(q) \/ Lapse(q) \/ EndElsewhere(q)
    BY <2>7 DEF Leave, Lapse, EndElsewhere, Issued
  <2>8. CASE Fails(q)
    BY <1>1, <2>8, QuietSteps DEF Fails, Issued, Ended
  <2> QED BY <1>1, <2>1, <2>2, <2>3, <2>4, <2>5, <2>6, <2>7, <2>8 DEF Quiet
<1>2. ASSUME NEW q \in Tasks, Writing(q) PROVE Issued'
  <2>1. PICK p \in {q, None}, next \in Writes :
          /\ Keep(q, p) /\ Go(q, next)
          /\ p = IF next = "saving" THEN q ELSE None
          /\ next = "saving" => pc[q] = "answered"
          /\ next = "leaving" => pc[q] = "out"
          /\ next = "clearing" => pc[q] \in {"asking", "rotating", "answered", "retrying"}
          /\ UNCHANGED <<serverVars, kind, sent, presented>>
    BY <1>2, WritingSteps
  <2>2. p # None => session[p] # None
    BY <2>1 DEF Issued
  <2>3. kind[q] = "logout" => sent[q] # None \/ next = "leaving"
    BY <2>1 DEF Issued, Ended, Writes
  <2>4. pc'[q] = next /\ \A o \in Tasks \ {q} : pc'[o] = pc[o]
    BY <2>1
  <2>5. memory' = p /\ storage' = storage
    BY <2>1 DEF Keep
  <2>6. next = "saving" => session[q] # None
    BY <2>1 DEF Issued
  <2> QED BY <2>1, <2>2, <2>3, <2>4, <2>5, <2>6 DEF Issued, Writes
<1>3. ASSUME Stored PROVE Issued'
  BY <1>3, StoredStep DEF Writes, Issued, Ended
<1>4. ASSUME Kill PROVE Issued'
  BY <1>4 DEF Kill, Issued, Ended
<1> QED BY <1>1, <1>2, <1>3, <1>4, StepKinds

-----------------------------------------------------------------------------
(* Where pairs can be *)

LEMMA NewKept == ASSUME IInv, Next PROVE PairsAreNew'
<1> USE NoneAssumption DEF IInv, TypeOK, Go, GiveUp, serverVars, clientVars, taskVars, Unkept, Pair
<1>1. ASSUME NEW q \in Tasks, Quiet(q) PROVE PairsAreNew'
  <2>1. CASE Begin(q)
    BY <2>1 DEF Begin, Restore, SignIn, Request, Logout, Start, PairsAreNew
  <2>2. CASE Serve(q)
    BY <2>2 DEF Serve, PairsAreNew
  <2>3. CASE Admit(q)
    BY <2>3 DEF Admit, PairsAreNew
  <2>4. CASE Accept(q)
    BY <2>4 DEF Accept, PairsAreNew
  <2>5. CASE Rotate(q)
    <3>1. \A u \in Tasks \ {q} : u # presented[q] => (u \in live' <=> u \in live)
      BY <2>5 DEF Rotate
    <3>2. q \in live' /\ pc'[q] = "answered" /\ \A u \in Tasks \ {q} : pc'[u] = pc[u]
      BY <2>5 DEF Rotate, PairsAreNew
    <3>3. UNCHANGED <<memory, storage, presented>>
      BY <2>5 DEF Rotate
    <3>4. Unkept(q)
      BY <2>5 DEF Rotate, PairsAreNew
    <3> QED BY <3>1, <3>2, <3>3, <3>4 DEF PairsAreNew
  <2>6. CASE Unauthorized(q)
    BY <2>6 DEF Unauthorized, PairsAreNew
  <2>7. CASE Unmounted(q)
    BY <2>7 DEF Unmounted, PairsAreNew
  <2>8. CASE Leave(q) \/ Lapse(q) \/ EndElsewhere(q)
    BY <2>8 DEF Leave, Lapse, EndElsewhere, PairsAreNew
  <2>9. CASE Fails(q)
    <3>1. UNCHANGED <<memory, storage, presented, live>>
      BY <1>1, <2>9, QuietSteps DEF Fails
    <3>2. pc'[q] \in {"out", "failed", "clearing"} /\ \A u \in Tasks \ {q} : pc'[u] = pc[u]
      BY <2>9 DEF Fails
    <3> QED BY <3>1, <3>2 DEF PairsAreNew
  <2> QED BY <1>1, <2>1, <2>2, <2>3, <2>4, <2>5, <2>6, <2>7, <2>8, <2>9 DEF Quiet
<1>2. ASSUME NEW q \in Tasks, Writing(q) PROVE PairsAreNew'
  <2>1. PICK p \in {q, None}, next \in Writes :
          /\ Keep(q, p) /\ Go(q, next)
          /\ UNCHANGED <<serverVars, kind, sent, presented>>
    BY <1>2, WritingSteps
  <2>2. pc'[q] \in Writes /\ \A u \in Tasks \ {q} : pc'[u] = pc[u]
    BY <2>1
  <2>3. memory' \in {q, None} /\ UNCHANGED <<live, storage, presented>>
    BY <2>1 DEF Keep
  <2> QED BY <2>2, <2>3 DEF PairsAreNew, Writes
<1>3. ASSUME Stored PROVE PairsAreNew'
  BY <1>3, StoredStep DEF Writes, PairsAreNew
<1>4. ASSUME Kill PROVE PairsAreNew'
  <2>1. \A q \in Tasks : pc'[q] \in {"idle", "sent", "signing", "asking", "rotating", "answered"}
          => pc'[q] = "idle" /\ pc[q] = "idle"
    BY <1>4 DEF Kill, Busy, Waiting, Ended
  <2>2. memory' = None /\ UNCHANGED <<storage, presented>> /\ live' \subseteq live
    BY <1>4 DEF Kill
  <2> QED BY <2>1, <2>2 DEF PairsAreNew
<1> QED BY <1>1, <1>2, <1>3, <1>4, StepKinds

\* What is sound stays so, whatever is under way.
LEMMA QuietSound ==
  ASSUME IInv, NEW q \in Tasks, Quiet(q), NEW p \in Tasks, Sound(p)
  PROVE  Sound(p)'
<1> USE NoneAssumption DEF IInv, TypeOK, Go, GiveUp, serverVars, clientVars, taskVars, historyVars,
        Pair, Sound, UnderWay
<1>1. CASE Begin(q)
  BY <1>1 DEF Begin, Restore, SignIn, Request, Logout, Start
<1>2. CASE Serve(q) \/ Admit(q) \/ Accept(q)
  BY <1>2 DEF Serve, Admit, Accept
<1>3. CASE Rotate(q)
  <2>1. p \in live => p \in live' \/ (presented'[q] = p /\ pc'[q] = "answered")
    BY <1>3 DEF Rotate
  <2> QED BY <1>3, <2>1 DEF Rotate
<1>4. CASE Unauthorized(q)
  BY <1>4 DEF Unauthorized
<1>5. CASE Unmounted(q)
  <2>1. presented[q] # p
    BY <1>5 DEF Unmounted, Presents
  <2> QED BY <1>5, <2>1 DEF Unmounted
<1>6. CASE Leave(q) \/ Lapse(q) \/ EndElsewhere(q)
  BY <1>6 DEF Leave, Lapse, EndElsewhere
<1>7. CASE Fails(q)
  <2>1. presented[q] = p /\ pc[q] = "answered" => p \in lost'
    BY <1>7 DEF Fails
  <2> QED BY <1>7, <2>1 DEF Fails
<1> QED BY <1>1, <1>2, <1>3, <1>4, <1>5, <1>6, <1>7 DEF Quiet

LEMMA FreshKept == ASSUME IInv, Next PROVE AllFresh'
<1> USE NoneAssumption
<1>0. TypeOK /\ WritesMatch /\ AllFresh /\ PairsAreNew
  BY DEF IInv
<1>1. ASSUME NEW q \in Tasks, Quiet(q) PROVE AllFresh'
  <2>1. UNCHANGED <<memory, storage, pending>>
    BY <1>1, QuietSteps
  <2>2. \A p \in Pair : p # None /\ Sound(p) => Sound(p)'
    BY <1>1, QuietSound DEF Pair
  <2>3. \A o \in Tasks : pc[o] \in Writes => pc'[o] = pc[o] /\ presented'[o] = presented[o]
    BY <1>1, QuietSteps
  <2>4. \A p \in Pair, i \in Nat : FreshAt(p, i) => FreshAt(p, i)'
    BY <1>0, <2>1, <2>2, <2>3, PendingFacts DEF FreshAt, Writes
  <2> QED BY <1>0, <2>1, <2>2, <2>4, PendingFacts DEF AllFresh, TypeOK
<1>2. ASSUME NEW q \in Tasks, Writing(q) PROVE AllFresh'
  <2>1. PICK p \in {q, None}, next \in Writes :
          /\ Keep(q, p) /\ Go(q, next)
          /\ p = IF next = "saving" THEN q ELSE None
          /\ next = "saving" => pc[q] = "answered"
          /\ next = "clearing" => pc[q] \in {"asking", "rotating", "answered", "retrying"}
          /\ next = "leaving" => pc[q] = "out"
          /\ pc[q] \notin Writes
          /\ UNCHANGED <<serverVars, kind, sent, presented>>
    BY <1>2, WritingSteps
  <2>2. memory' = p /\ storage' = storage /\ live' = live /\ presented' = presented
    BY <2>1 DEF Keep, serverVars
  <2>3. pc'[q] = next /\ \A o \in Tasks \ {q} : pc'[o] = pc[o]
    BY <1>0, <2>1 DEF Go, TypeOK
  <2>4. p # None => Sound(p)'
    BY <1>0, <2>1, <2>2 DEF PairsAreNew, Sound
  <2>5. \A x \in Tasks : Sound(x) => Sound(x)' \/ (next = "saving" /\ presented[q] = x)
    <3>1. lost \subseteq lost'
      BY <1>2 DEF Writing, SetSession, Refused, ClearOnLogout, Fails, historyVars
    <3>2. next = "clearing" /\ pc[q] = "answered" => lost' = lost \cup ({presented[q]} \ {None})
      BY <1>0, <1>2, <2>3 DEF Writing, SetSession, Refused, ClearOnLogout, Fails, Go, TypeOK
    <3> QED BY <2>1, <2>2, <2>3, <3>1, <3>2 DEF Sound, UnderWay, Writes
  <2>6. p \in Pair
    BY DEF Pair
  <2>7. /\ Len(pending) \in Nat /\ DOMAIN pending = 1 .. Len(pending)
        /\ DOMAIN pending' = 1 .. Len(pending) + 1
        /\ \A i \in DOMAIN pending : pending'[i] = pending[i] /\ pending[i].by \in Tasks \ {q}
                                     /\ pending[i].pair \in Pair
        /\ pending'[Len(pending) + 1].by = q /\ pending'[Len(pending) + 1].pair = p
    <3>1. \A i \in DOMAIN pending : pending[i].by # q
      BY <1>0, <2>1 DEF WritesMatch
    <3>2. pending'[Len(pending) + 1] = [by |-> q, pair |-> p]
      BY <1>0, <2>1, <2>6, KeepAppends
    <3> QED BY <1>0, <2>1, <2>6, <3>1, <3>2, KeepAppends, PendingFacts
  <2>8. ASSUME NEW x \in Pair, NEW i \in 0 .. Len(pending), FreshAt(x, i) PROVE FreshAt(x, i)'
    <3>1. SUFFICES ASSUME x # None PROVE FreshAt(x, i)'
      BY DEF FreshAt
    <3>2. CASE Sound(x)
      <4>1. Len(pending) + 1 \in DOMAIN pending' /\ i < Len(pending) + 1
        BY <2>7
      <4> QED BY <2>2, <2>3, <2>5, <2>7, <3>1, <3>2, <4>1 DEF FreshAt, Pair
    <3>3. CASE \E j \in DOMAIN pending :
                 i < j /\ pc[pending[j].by] = "saving" /\ presented[pending[j].by] = x
      BY <2>2, <2>3, <2>7, <3>3 DEF FreshAt
    <3> QED BY <2>8, <3>1, <3>2, <3>3 DEF FreshAt
  <2>9. ASSUME NEW i \in DOMAIN pending', NEW x \in Pair, x = pending'[i].pair
        PROVE  FreshAt(x, i)'
    <3>1. CASE i \in DOMAIN pending
      <4>1. FreshAt(x, i) /\ i \in 0 .. Len(pending)
        BY <1>0, <2>7, <2>9, <3>1 DEF AllFresh
      <4> QED BY <2>8, <4>1
    <3>2. CASE i = Len(pending) + 1
      BY <2>4, <2>7, <2>9, <3>2 DEF FreshAt, Sound, UnderWay
    <3> QED BY <2>7, <3>1, <3>2
  <2>10. ASSUME NEW x \in Pair, x = storage PROVE FreshAt(x, 0)'
    <3>1. FreshAt(x, 0) /\ 0 \in 0 .. Len(pending)
      BY <1>0, <2>7, <2>10 DEF AllFresh
    <3> QED BY <2>8, <3>1
  <2>11. storage' \in Pair /\ \A i \in DOMAIN pending' : pending'[i].pair \in Pair
    BY <1>0, <2>2, <2>6, <2>7 DEF TypeOK
  <2> QED BY <2>2, <2>4, <2>9, <2>10, <2>11 DEF AllFresh, FreshAt, Sound, UnderWay
<1>3. ASSUME Stored PROVE AllFresh'
  <2>1. PICK q \in Tasks :
          /\ pending[1].by = q /\ 1 \in DOMAIN pending
          /\ pc[q] \in Writes
          /\ pc'[q] \in {"retrying", "out", "failed", "done"}
          /\ \A p \in Tasks \ {q} : pc'[p] = pc[p]
          /\ storage' = IF pc[q] = "saving" THEN q ELSE None
          /\ UNCHANGED <<live, memory, presented, lost>>
    BY <1>3, StoredStep
  <2>2. \A x \in Tasks : Sound(x) => Sound(x)'
    BY <2>1 DEF Sound, UnderWay, Writes
  <2>3. /\ Len(pending) \in Nat /\ DOMAIN pending = 1 .. Len(pending)
        /\ DOMAIN pending' = 1 .. Len(pending) - 1
        /\ \A i \in DOMAIN pending' : pending'[i] = pending[i + 1]
        /\ \A i \in DOMAIN pending : pending[i].by \in Tasks /\ pending[i].pair \in Pair
    BY <1>0, <1>3, StoredRemoves, PendingFacts
  <2>4. \A j \in DOMAIN pending : j # 1 => pending[j].by # q
    BY <1>0, <2>1 DEF WritesMatch
  <2>5. ASSUME NEW x \in Pair, NEW i \in DOMAIN pending, FreshAt(x, i) PROVE FreshAt(x, i - 1)'
    <3>1. SUFFICES ASSUME x # None PROVE FreshAt(x, i - 1)'
      BY DEF FreshAt
    <3>2. CASE Sound(x)
      BY <2>2, <3>1, <3>2 DEF FreshAt, Pair
    <3>3. CASE \E j \in DOMAIN pending :
                 i < j /\ pc[pending[j].by] = "saving" /\ presented[pending[j].by] = x
      <4>1. PICK j \in DOMAIN pending :
              i < j /\ pc[pending[j].by] = "saving" /\ presented[pending[j].by] = x
        BY <3>3
      <4>2. j - 1 \in DOMAIN pending' /\ pending'[j - 1] = pending[j] /\ i - 1 < j - 1
        BY <2>3, <4>1
      <4>3. pending[j].by \in Tasks \ {q}
        BY <2>3, <2>4, <4>1
      <4> QED BY <2>1, <4>1, <4>2, <4>3 DEF FreshAt
    <3> QED BY <2>5, <3>1, <3>2, <3>3 DEF FreshAt
  <2>6. storage' = pending[1].pair
    BY <1>0, <2>1 DEF WritesMatch
  <2>7. ASSUME NEW x \in Pair, x = storage' PROVE FreshAt(x, 0)'
    <3>1. FreshAt(x, 1) /\ 1 - 1 = 0
      BY <1>0, <2>1, <2>6, <2>7 DEF AllFresh
    <3> QED BY <2>1, <2>5, <3>1
  <2>8. ASSUME NEW i \in DOMAIN pending', NEW x \in Pair, x = pending'[i].pair
        PROVE  FreshAt(x, i)'
    <3>1. i + 1 \in DOMAIN pending /\ pending'[i] = pending[i + 1] /\ (i + 1) - 1 = i
      BY <2>3
    <3>2. FreshAt(x, i + 1)
      BY <1>0, <2>8, <3>1 DEF AllFresh
    <3>3. FreshAt(x, (i + 1) - 1)'
      BY <2>5, <3>1, <3>2
    <3> QED BY <3>1, <3>3
  <2>9. memory # None => memory \in Tasks /\ Sound(memory)
    BY <1>0 DEF AllFresh, TypeOK, Pair
  <2>10. storage' \in Pair /\ \A i \in DOMAIN pending' : pending'[i].pair \in Pair
    BY <2>1, <2>3, <2>6
  <2> QED BY <2>1, <2>2, <2>7, <2>8, <2>9, <2>10 DEF AllFresh, FreshAt, Sound, UnderWay
<1>4. ASSUME Kill PROVE AllFresh'
  <2>1. storage # None => storage \in live' \cup lost'
    BY <1>0, <1>4, PendingFacts DEF AllFresh, FreshAt, Sound, UnderWay, Kill
  <2>2. memory' = None /\ DOMAIN pending' = {} /\ storage' = storage
    BY <1>4 DEF Kill
  <2> QED BY <2>1, <2>2 DEF AllFresh, FreshAt, Sound
<1> QED BY <1>1, <1>2, <1>3, <1>4, StepKinds

-----------------------------------------------------------------------------
(* Memory and storage *)

\* Only a task that begins joins those that wait, and only Kill leads back to
\* the splash screen.
LEMMA QuietBusy ==
  ASSUME IInv, NEW q \in Tasks, Quiet(q)
  PROVE  /\ screen' = "splash" => screen = "splash"
         /\ ~Begin(q) => crossed' = crossed /\ (pc'[q] \in Waiting => pc[q] \in Waiting)
                         /\ kind' = kind /\ screen' = screen
         /\ Begin(q) => pc[q] = "idle"
<1> USE DEF IInv, TypeOK, Go, GiveUp, Waiting, Ended, serverVars, clientVars, taskVars, historyVars
<1>1. CASE Begin(q)
  BY <1>1 DEF Begin, Restore, SignIn, Request, Logout, Start
<1>2. CASE ~Begin(q) /\ (Serve(q) \/ Admit(q) \/ Accept(q) \/ Rotate(q))
  BY <1>2 DEF Serve, Admit, Accept, Rotate
<1>3. CASE ~Begin(q) /\ (Unauthorized(q) \/ Unmounted(q))
  BY <1>3 DEF Unauthorized, Unmounted
<1>4. CASE ~Begin(q) /\ (Leave(q) \/ Lapse(q) \/ EndElsewhere(q))
  BY <1>4 DEF Leave, Lapse, EndElsewhere
<1>5. CASE ~Begin(q) /\ Fails(q)
  BY <1>5 DEF Fails, Keep
<1> QED BY <1>1, <1>2, <1>3, <1>4, <1>5 DEF Quiet

LEMMA SyncedKept == ASSUME IInv, Next PROVE Synced'
<1>0. TypeOK /\ Synced /\ WritesMatch
  BY DEF IInv
<1>1. ASSUME NEW q \in Tasks, Quiet(q) PROVE Synced'
  <2>1. UNCHANGED <<memory, storage, pending>>
    BY <1>1, QuietSteps
  <2>2. CASE Begin(q)
    <3>1. pending = <<>> => memory = IF screen' = "splash" THEN None ELSE storage
      BY <1>0, <2>2 DEF Synced, Begin, Restore, SignIn, Request, Logout
    <3>2. screen' = "splash" => \A p \in Tasks : pc'[p] \in Waiting => kind'[p] = "restore"
      BY <1>0, <2>2 DEF Synced, TypeOK, Begin, Restore, SignIn, Request, Logout, Start, Go
    <3> QED BY <1>0, <2>1, <3>1, <3>2 DEF Synced
  <2>3. CASE ~Begin(q)
    <3>1. \A p \in Tasks : pc'[p] \in Waiting => pc[p] \in Waiting
      BY <1>1, <2>3, QuietBusy, QuietSteps
    <3>2. kind' = kind /\ screen' = screen
      BY <1>1, <2>3, QuietBusy
    <3> QED BY <1>0, <2>1, <3>1, <3>2 DEF Synced
  <2> QED BY <2>2, <2>3
<1>2. ASSUME NEW q \in Tasks, Writing(q) PROVE Synced'
  <2>1. PICK p \in {q, None}, next \in Writes :
          /\ Keep(q, p) /\ Go(q, next)
          /\ next = "saving" => pc[q] = "answered"
          /\ next = "clearing" => pc[q] \in {"asking", "rotating", "answered", "retrying"}
          /\ next = "leaving" => pc[q] = "out"
          /\ UNCHANGED <<serverVars, kind, sent, presented>>
    BY <1>2, WritingSteps
  <2>2. p \in Pair
    BY DEF Pair
  <2>3. /\ pending'[Len(pending')].pair = p
        /\ pending' # <<>>
    <3>1. pending'[Len(pending) + 1] = [by |-> q, pair |-> p]
          /\ Len(pending') = Len(pending) + 1 /\ Len(pending) \in Nat
      BY <1>0, <2>1, <2>2, KeepAppends
    <3>2. Len(pending') # 0
      BY <3>1
    <3> QED BY <3>1, <3>2, EmptySeq
  <2>4. memory' = p /\ screen' = screen /\ kind' = kind
    BY <2>1 DEF Keep
  <2>5. \A o \in Tasks : pc'[o] \in Waiting => pc[o] \in Waiting
    BY <1>0, <2>1 DEF Go, TypeOK, Waiting, Writes
  <2> QED BY <1>0, <2>3, <2>4, <2>5 DEF Synced
<1>3. ASSUME Stored PROVE Synced'
  <2>1. PICK q \in Tasks :
          /\ pending[1].by = q /\ 1 \in DOMAIN pending
          /\ pc[q] \in Writes
          /\ pc'[q] \in {"retrying", "out", "failed", "done"}
          /\ \A p \in Tasks \ {q} : pc'[p] = pc[p]
          /\ storage' = IF pc[q] = "saving" THEN q ELSE None
          /\ UNCHANGED <<memory, kind>>
    BY <1>3, StoredStep
  <2>2. /\ Len(pending) \in Nat \ {0} /\ Len(pending') = Len(pending) - 1
        /\ \A i \in 1 .. Len(pending) - 1 : pending'[i] = pending[i + 1]
        /\ Head(pending) = pending[1]
        /\ pending' \in Seq(Write)
    BY <1>0, <1>3, StoredRemoves
  <2>3. pending[Len(pending)].pair = memory
    BY <1>0, <1>3 DEF Synced, Stored
  <2>4. pending' # <<>> => pending'[Len(pending')].pair = memory
    <3>1. SUFFICES ASSUME pending' # <<>> PROVE pending'[Len(pending')].pair = memory
      OBVIOUS
    <3>2. Len(pending') \in Nat \ {0}
      BY <2>2, <3>1, EmptySeq
    <3>3. Len(pending') \in 1 .. Len(pending) - 1 /\ Len(pending') + 1 = Len(pending)
      BY <2>2, <3>2
    <3> QED BY <2>2, <2>3, <3>3
  <2>5. pending' = <<>> => storage' = memory
    <3>1. SUFFICES ASSUME pending' = <<>> PROVE storage' = memory
      OBVIOUS
    <3>2. Len(pending) = 1
      BY <2>2, <3>1, EmptySeq
    <3> QED BY <1>0, <2>1, <2>3, <3>2 DEF WritesMatch
  <2>6. screen' # "splash"
    <3>1. SUFFICES ASSUME screen' = "splash" PROVE FALSE
      OBVIOUS
    <3>2. Leads(q) = "splash"
      BY <1>3, <2>1, <2>2, <3>1 DEF Stored
    <3>3. kind[q] # "restore" /\ screen = "splash"
      BY <3>2 DEF Leads
    <3>4. pc[q] \in Waiting
      BY <2>1 DEF Writes, Waiting
    <3> QED BY <1>0, <3>3, <3>4 DEF Synced
  <2> QED BY <2>1, <2>4, <2>5, <2>6 DEF Synced
<1>4. ASSUME Kill PROVE Synced'
  BY <1>4 DEF Kill, Synced, Busy, Waiting
<1> QED BY <1>1, <1>2, <1>3, <1>4, StepKinds

-----------------------------------------------------------------------------
(* Who may be signed out *)

LEMMA AloneKept == ASSUME IInv, Next PROVE Alone'
<1>0. TypeOK /\ Alone /\ WritesMatch /\ AllFresh
  BY DEF IInv
<1>1. ASSUME NEW q \in Tasks, Quiet(q), Begin(q) PROVE Alone'
  <2>1. /\ crossed' = IF Busy = {} THEN crossed ELSE crossed \cup Busy \cup {q}
        /\ pc[q] = "idle" /\ live' = live /\ lost' = lost
        /\ pc'[q] = "asking" => presented'[q] = storage /\ storage # None
    BY <1>0, <1>1 DEF Begin, Restore, SignIn, Request, Logout, Start, serverVars, Go, TypeOK
  <2>2. \A p \in Tasks \ {q} : pc'[p] = pc[p] /\ presented'[p] = presented[p]
    BY <1>1, QuietSteps
  <2>3. CASE Busy = {}
    <3>1. \A p \in Tasks \ {q} : pc'[p] \notin Waiting
      BY <2>2, <2>3 DEF Busy
    <3>2. storage # None => storage \in live \cup lost
      <4>1. \A p \in Tasks : pc[p] \notin {"answered", "saving"}
        BY <2>3 DEF Busy, Waiting
      <4> QED BY <1>0, <4>1, PendingFacts DEF AllFresh, FreshAt, Sound, UnderWay
    <3> QED BY <2>1, <3>1, <3>2 DEF Alone
  <2>4. CASE Busy # {}
    BY <2>1, <2>2, <2>4 DEF Busy, Alone
  <2> QED BY <2>3, <2>4
<1>2. ASSUME NEW q \in Tasks, Quiet(q), ~Begin(q) PROVE Alone'
  <2>1. crossed' = crossed /\ \A p \in Tasks : pc'[p] \in Waiting => pc[p] \in Waiting
    BY <1>2, QuietBusy, QuietSteps
  <2>2. \A p \in Tasks \ {q} : pc'[p] = pc[p] /\ presented'[p] = presented[p]
    BY <1>2, QuietSteps
  <2>3. lost \subseteq lost' /\ (live \subseteq live' \/ pc[q] \in Waiting)
    BY <1>2 DEF Quiet, Serve, Admit, Accept, Rotate, Unauthorized, Unmounted, Leave, Lapse,
                EndElsewhere, Fails, serverVars, historyVars, Waiting
  <2>4. ASSUME q \notin crossed, pc'[q] = "asking" PROVE presented'[q] \in live' \cup lost'
    <3>1. pc[q] \in Waiting /\ \A p \in Tasks : pc[p] \in Waiting => p = q
      BY <1>0, <2>1, <2>4 DEF Alone, Waiting
    <3>2. \/ pc[q] = "asking" /\ UNCHANGED <<live, presented>>
          \/ Unauthorized(q) /\ memory # None /\ presented'[q] = memory
      BY <1>0, <1>2, <2>4 DEF Quiet, Serve, Admit, Accept, Rotate, Unauthorized, Unmounted, Leave, Lapse,
                EndElsewhere, Fails, serverVars, taskVars, Go, GiveUp, TypeOK
    <3>3. CASE pc[q] = "asking" /\ UNCHANGED <<live, presented>>
      BY <1>0, <2>3, <2>4, <3>1, <3>3 DEF Alone
    <3>4. CASE Unauthorized(q) /\ memory # None /\ presented'[q] = memory
      <4>1. \A p \in Tasks : pc[p] # "answered"
        BY <3>1, <3>4 DEF Unauthorized, Waiting
      <4>2. memory \in live \cup lost
        BY <1>0, <3>4, <4>1 DEF AllFresh, Sound, UnderWay
      <4> QED BY <3>4, <4>2 DEF Unauthorized, serverVars, historyVars
    <3> QED BY <3>2, <3>3, <3>4
  <2>5. ASSUME NEW p \in Tasks \ {q}, p \notin crossed, pc'[p] = "asking"
        PROVE  presented'[p] \in live' \cup lost'
    <3>1. pc[p] = "asking" /\ presented[p] \in live \cup lost /\ pc[q] \notin Waiting
      BY <1>0, <2>2, <2>5 DEF Alone, Waiting
    <3> QED BY <2>2, <2>3, <3>1
  <2> QED BY <1>0, <2>1, <2>4, <2>5 DEF Alone
<1>3. ASSUME NEW q \in Tasks, Writing(q) PROVE Alone'
  <2>1. PICK p \in {q, None}, next \in Writes :
          /\ Keep(q, p) /\ Go(q, next)
          /\ next = "saving" => pc[q] = "answered"
          /\ next = "clearing" => pc[q] \in {"asking", "rotating", "answered", "retrying"}
          /\ next = "leaving" => pc[q] = "out"
          /\ UNCHANGED <<serverVars, kind, sent, presented>>
    BY <1>3, WritingSteps
  <2>2. pc[q] \in Waiting /\ pc'[q] = next /\ \A o \in Tasks \ {q} : pc'[o] = pc[o]
    BY <1>0, <2>1 DEF Go, TypeOK, Waiting, Writes
  <2>3. crossed' = crossed
    BY <1>3 DEF Writing, SetSession, Refused, ClearOnLogout, Fails, historyVars
  <2>4. \A o \in Tasks : pc'[o] \in Waiting => pc[o] \in Waiting
    BY <2>2
  <2>5. \A o \in Tasks : o \notin crossed /\ pc'[o] \in Waiting => o = q
    BY <1>0, <2>2, <2>4 DEF Alone
  <2> QED BY <1>0, <2>2, <2>3, <2>4, <2>5 DEF Alone, Writes
<1>4. ASSUME Stored PROVE Alone'
  BY <1>0, <1>4, StoredStep DEF Alone, Waiting, Writes
<1>5. ASSUME Kill PROVE Alone'
  BY <1>5 DEF Kill, Alone, Busy, Waiting
<1> QED BY <1>1, <1>2, <1>3, <1>4, <1>5, StepKinds

LEMMA CauseKept == ASSUME IInv, Next PROVE ForCause'
<1> USE NoneAssumption
<1>0. TypeOK /\ Alone /\ PairsAreNew /\ Presents /\ ForCause
  BY DEF IInv
<1>1. ASSUME NEW q \in Tasks, Quiet(q) PROVE ForCause'
  <2>1. \A p \in Tasks : pc'[p] = "clearing" => pc[p] = "clearing" /\ presented'[p] = presented[p]
    BY <1>1, QuietSteps DEF Writes
  <2>2. failed \subseteq failed' /\ crossed \subseteq crossed' /\ over \subseteq over'
        /\ lost \subseteq lost'
    BY <1>1 DEF Quiet, Begin, Restore, SignIn, Request, Logout, Start, Serve, Admit, Accept,
                Rotate, Unauthorized, Unmounted, Leave, Lapse, EndElsewhere, Fails, serverVars, historyVars
  <2>3. \A p \in Tasks : presented[p] # None => session'[presented[p]] = session[presented[p]]
    <3>1. \/ session' = session
          \/ /\ \A p \in Tasks \ {q} : session'[p] = session[p]
             /\ \A p \in Tasks : presented[p] # q
      BY <1>0, <1>1 DEF Quiet, Begin, Restore, SignIn, Request, Logout, Start, Serve, Admit, Accept,
                Rotate, Unauthorized, Unmounted, Leave, Lapse, EndElsewhere, Fails, serverVars,
                TypeOK, PairsAreNew, Unkept
    <3> QED BY <1>0, <3>1 DEF TypeOK, Pair
  <2> QED BY <1>0, <2>1, <2>2, <2>3 DEF ForCause
<1>2. ASSUME NEW q \in Tasks, Writing(q) PROVE ForCause'
  <2>1. /\ UNCHANGED <<session, over, presented, crossed>>
        /\ failed \subseteq failed' /\ lost \subseteq lost'
    BY <1>2 DEF Writing, SetSession, Refused, ClearOnLogout, Fails, serverVars, historyVars
  <2>2. \A p \in Tasks \ {q} : pc'[p] = pc[p]
    BY <1>0, <1>2, WritingSteps DEF Go, TypeOK
  <2>3. pc'[q] = "clearing" => q \in failed' \/ Refused(q)
    BY <1>0, <1>2 DEF Writing, SetSession, ClearOnLogout, Fails, Go, TypeOK
  <2>4. Refused(q) => \/ q \in crossed
                      \/ /\ presented[q] # None
                         /\ session[presented[q]] \in over \/ presented[q] \in lost
    BY <1>0 DEF Refused, Usable, Alone, Presents, Waiting
  <2> QED BY <1>0, <2>1, <2>2, <2>3, <2>4 DEF ForCause
<1>3. ASSUME Stored PROVE ForCause'
  BY <1>0, <1>3, StoredStep DEF ForCause
<1>4. ASSUME Kill PROVE ForCause'
  BY <1>4 DEF Kill, ForCause, Busy, Waiting
<1> QED BY <1>1, <1>2, <1>3, <1>4, StepKinds

-----------------------------------------------------------------------------
(* Logging out *)

LEMMA LogoutsLeaveKept == ASSUME IInv, LogoutsLeave, Next PROVE LogoutsLeave'
<1>0. TypeOK /\ Presents
  BY DEF IInv
<1>1. ASSUME NEW q \in Tasks, Quiet(q) PROVE LogoutsLeave'
  <2>1. \A p \in Tasks \ {q} : pc'[p] = pc[p] /\ kind'[p] = kind[p]
    BY <1>1, QuietSteps
  <2>2. pc'[q] \in {"out", "leaving"} => kind'[q] = "logout"
    BY <1>0, <1>1 DEF Quiet, Begin, Restore, SignIn, Request, Logout, Start, Serve, Admit, Accept,
              Rotate, Unauthorized, Unmounted, Leave, Lapse, EndElsewhere, Fails, Go, GiveUp,
              taskVars, clientVars, TypeOK, LogoutsLeave
  <2> QED BY <2>1, <2>2 DEF LogoutsLeave
<1>2. ASSUME NEW q \in Tasks, Writing(q) PROVE LogoutsLeave'
  <2>1. PICK next \in Writes : /\ Go(q, next) /\ kind' = kind
                               /\ next = "leaving" => pc[q] = "out"
    BY <1>2, WritingSteps
  <2>2. pc'[q] = next /\ \A p \in Tasks \ {q} : pc'[p] = pc[p]
    BY <1>0, <2>1 DEF Go, TypeOK
  <2>3. next # "out"
    BY DEF Writes
  <2> QED BY <2>1, <2>2, <2>3 DEF LogoutsLeave
<1>3. ASSUME Stored PROVE LogoutsLeave'
  BY <1>0, <1>3, StoredStep DEF LogoutsLeave
<1>4. ASSUME Kill PROVE LogoutsLeave'
  BY <1>4 DEF Kill, LogoutsLeave, Busy
<1> QED BY <1>1, <1>2, <1>3, <1>4, StepKinds

\* A logout that crossed another task is remembered.
LEMMA CrossedLogoutKept ==
  ASSUME IInv, Next, NEW c \in crossed, kind[c] = "logout"
  PROVE  \E q \in crossed' : kind'[q] = "logout"
<1>0. TypeOK /\ Presents /\ c \in Tasks
  BY DEF IInv, TypeOK
<1>1. pc[c] # "idle"
  BY <1>0 DEF Presents
<1>2. ASSUME NEW q \in Tasks, Quiet(q) PROVE c \in crossed' /\ kind'[c] = kind[c]
  BY <1>0, <1>1, <1>2, QuietSteps, QuietBusy
     DEF Begin, Restore, SignIn, Request, Logout, Start
<1>3. ASSUME NEW q \in Tasks, Writing(q) PROVE c \in crossed' /\ kind'[c] = kind[c]
  BY <1>3 DEF Writing, SetSession, Refused, ClearOnLogout, Fails, historyVars
<1>4. ASSUME Stored \/ Kill PROVE c \in crossed' /\ kind'[c] = kind[c]
  BY <1>4 DEF Stored, Kill
<1> QED BY <1>2, <1>3, <1>4, StepKinds

LEMMA LoggedOutKept == ASSUME IInv, LogoutsLeave, LoggedOut, Next PROVE LoggedOut'
<1>0. TypeOK /\ WritesMatch /\ Presents /\ Synced /\ Alone
  BY DEF IInv
<1>1. CASE \E c \in crossed : kind[c] = "logout"
  BY <1>1, CrossedLogoutKept DEF LoggedOut
<1> DEFINE Calm == /\ memory = None /\ storage = None
                   /\ \A q \in Tasks : pc[q] \in Waiting => pc[q] \in {"sent", "out", "leaving"}
<1>2. ASSUME out, Calm, NEW q \in Tasks, Quiet(q), out' PROVE Calm'
  <2>1. UNCHANGED <<memory, storage>> /\ \A p \in Tasks \ {q} : pc'[p] = pc[p]
    BY <1>2, QuietSteps
  <2>2. pc'[q] \in Waiting => pc'[q] \in {"sent", "out", "leaving"}
    <3>1. CASE Begin(q)
      BY <1>0, <1>2, <3>1 DEF Begin, Restore, SignIn, Request, Logout, Start, Go, TypeOK, Waiting
    <3>2. CASE ~Begin(q)
      <4>1. pc[q] \in {"sent", "out", "leaving"} \/ pc[q] \notin Waiting
        BY <1>2
      <4> QED BY <1>0, <1>2, <3>2, <4>1 DEF Quiet, Serve, Admit, Accept, Rotate, Unauthorized,
              Unmounted, Leave, Lapse, EndElsewhere, Fails, Go, GiveUp, Waiting, TypeOK, taskVars
    <3> QED BY <3>1, <3>2
  <2> QED BY <1>2, <2>1, <2>2
<1>3. ASSUME Calm, NEW q \in Tasks, Writing(q) PROVE Calm'
  <2>1. pc[q] \in {"sent", "out", "leaving"} \/ pc[q] \notin Waiting
    BY <1>3
  <2>2. PICK p \in {q, None}, next \in Writes :
          /\ Keep(q, p) /\ Go(q, next)
          /\ p = IF next = "saving" THEN q ELSE None
          /\ next = "saving" => pc[q] = "answered"
          /\ next = "clearing" => pc[q] \in {"asking", "rotating", "answered", "retrying"}
    BY <1>3, WritingSteps
  <2>3. next = "leaving"
    BY <2>1, <2>2 DEF Writes, Waiting
  <2>4. memory' = None /\ storage' = storage
    BY <2>2, <2>3 DEF Keep
  <2>5. pc'[q] = "leaving" /\ \A o \in Tasks \ {q} : pc'[o] = pc[o]
    BY <1>0, <2>2, <2>3 DEF Go, TypeOK
  <2> QED BY <1>3, <2>4, <2>5
<1>4. ASSUME Calm \/ ~out, Stored, out' PROVE Calm' \/ \E c \in crossed' : kind'[c] = "logout"
  <2>1. PICK q \in Tasks :
           /\ pending[1].by = q /\ 1 \in DOMAIN pending
           /\ pc[q] \in Writes
           /\ pc'[q] \in {"retrying", "out", "failed", "done"}
           /\ pc'[q] = "retrying" => pc[q] = "saving"
           /\ pc'[q] = "out" => pc[q] = "clearing"
           /\ \A p \in Tasks \ {q} : pc'[p] = pc[p]
           /\ storage' = IF pc[q] = "saving" THEN q ELSE None
           /\ UNCHANGED <<memory, kind, crossed>>
    BY <1>4, StoredStep
  <2>2. Head(pending) = pending[1]
    BY <1>0, <1>4, StoredRemoves
  <2>3. pc[q] = "leaving"
    <3>1. CASE out
      BY <1>4, <2>1, <3>1 DEF Writes, Waiting
    <3>2. CASE ~out
      BY <1>4, <2>1, <2>2, <3>2 DEF Stored
    <3> QED BY <3>1, <3>2
  <2>4. pc'[q] \in {"failed", "done"} /\ storage' = None
    BY <2>1, <2>3
  <2>5. kind[q] = "logout" /\ pc[q] \in Waiting
    BY <2>3 DEF LogoutsLeave, Waiting
  <2>6. CASE q \in crossed
    BY <2>1, <2>5, <2>6
  <2>7. CASE q \notin crossed
    <3>1. \A p \in Tasks : pc[p] \in Waiting => p = q
      BY <1>0, <2>5, <2>7 DEF Alone
    <3>2. memory = None
      <4>1. /\ DOMAIN pending = 1 .. Len(pending) /\ Len(pending) \in Nat
            /\ \A i \in DOMAIN pending : pending[i].by \in Tasks
        BY <1>0, PendingFacts
      <4>2. \A i \in DOMAIN pending : pending[i].by = q
        BY <1>0, <3>1, <4>1 DEF WritesMatch, Writes, Waiting
      <4>3. Len(pending) \in DOMAIN pending /\ pending # <<>>
        BY <2>1, <4>1, <1>4 DEF Stored
      <4>4. pending[Len(pending)].pair = None
        BY <1>0, <2>3, <4>2, <4>3 DEF WritesMatch
      <4> QED BY <1>0, <4>3, <4>4 DEF Synced
    <3>3. \A p \in Tasks : pc'[p] \notin Waiting
      BY <2>1, <2>4, <3>1 DEF Waiting
    <3> QED BY <2>1, <2>4, <3>2, <3>3
  <2> QED BY <2>6, <2>7
<1>5. ASSUME Calm, Kill PROVE Calm'
  BY <1>5 DEF Kill, Busy, Waiting
<1>6. ASSUME ~out, ~Stored PROVE ~out'
  BY <1>0, <1>6 DEF Next, Begin, Restore, SignIn, Request, Logout, Start, Step, Serve, Admit,
        Accept, Rotate, Unauthorized, SetSession, Unmounted, Refused, ClearOnLogout, Fails, Leave,
        Lapse, EndElsewhere, Kill, historyVars
<1>7. CASE ~out
  BY <1>4, <1>6, <1>7 DEF LoggedOut
<1>8. CASE out /\ Calm
  BY <1>2, <1>3, <1>4, <1>5, <1>8, StepKinds DEF LoggedOut
<1> QED BY <1>1, <1>7, <1>8 DEF LoggedOut

-----------------------------------------------------------------------------
(* Theorems *)

LEMMA InitHolds == Init => IInv
<1> SUFFICES ASSUME Init PROVE IInv
  OBVIOUS
<1>1. TypeOK
  BY InitTyped
<1>2. DOMAIN pending = {}
  BY DEF Init
<1> QED BY <1>1, <1>2, NoneAssumption
        DEF Init, IInv, WritesMatch, PairsAreNew, Unkept, Issued, InSession, Presents, AllFresh,
            FreshAt, Sound, Synced, Alone, ForCause, Writes, Waiting

LEMMA StutterHolds == ASSUME IInv, UNCHANGED vars PROVE IInv'
BY DEF vars, IInv, TypeOK, WritesMatch, PairsAreNew, Unkept, Issued, InSession, Presents, AllFresh,
       FreshAt, Sound, UnderWay, Synced, Alone, ForCause

\* The inductive invariant: whose writes are pending, where pairs can be, and
\* what the tasks under way know of them.
THEOREM InvariantHolds == Spec => []IInv
<1>1. Init => IInv
  BY InitHolds
<1>2. IInv /\ [Next]_vars => IInv'
  <2>1. ASSUME IInv, Next PROVE IInv'
    BY <2>1, TypeStep, WritesKept, NewKept, IssuedKept, PresentsKept, FreshKept, SyncedKept,
       AloneKept, CauseKept DEF IInv
  <2>2. ASSUME IInv, UNCHANGED vars PROVE IInv'
    BY <2>2, StutterHolds
  <2> QED BY <2>1, <2>2
<1> QED BY <1>1, <1>2, PTL DEF Spec

\* Every variable keeps its type, for any tasks and faults.
THEOREM TypeCorrect == Spec => []TypeOK
<1>1. IInv => TypeOK
  BY DEF IInv
<1> QED BY <1>1, InvariantHolds, PTL

\* Memory and storage agree once the writes are carried out: setSession and
\* clear change the memory and begin the write in one step.
THEOREM MemoryAndStorageAgree == Spec => []InSync
<1>1. IInv => InSync
  BY DEF IInv, Synced, InSync, Settled
<1> QED BY <1>1, InvariantHolds, PTL

\* The client never keeps a refresh token it has spent itself and whose
\* replacement it received, neither in memory nor, after its write, in storage.
THEOREM KeptPairsAreFresh == Spec => []Fresh
<1>1. IInv => Fresh
  <2>1. SUFFICES ASSUME IInv PROVE Fresh
    OBVIOUS
  <2>2. memory # None => memory \in live \cup lost \/ UnderWay(memory, {"answered"})
    BY <2>1 DEF IInv, AllFresh, Sound
  <2>3. ASSUME storage # None
        PROVE  storage \in live \cup lost \/ UnderWay(storage, {"answered", "saving"})
    <3>1. CASE Sound(storage)
      BY <3>1 DEF Sound, UnderWay
    <3>2. CASE \E j \in DOMAIN pending :
                 0 < j /\ pc[pending[j].by] = "saving" /\ presented[pending[j].by] = storage
      BY <2>1, <3>2, PendingFacts DEF IInv, UnderWay
    <3> QED BY <2>1, <2>3, <3>1, <3>2 DEF IInv, AllFresh, FreshAt
  <2> QED BY <2>2, <2>3 DEF Fresh
<1> QED BY <1>1, InvariantHolds, PTL

\* A task that runs alone and meets no failure clears the session only if it
\* has ended on the server or an answer was lost before.
THEOREM SignedOutOnlyForCause == Spec => []SignedOutForCause
<1>1. IInv => SignedOutForCause
  BY DEF IInv, ForCause, SignedOutForCause
<1> QED BY <1>1, InvariantHolds, PTL

\* A logout that no other task overlaps leaves nothing of the session behind,
\* in the client or under way, and nothing but a sign-in brings one back.
THEOREM LogoutIsFinal == Spec => []LoggedOutStays
<1>1. Init => LogoutsLeave /\ LoggedOut
  BY DEF Init, LogoutsLeave, LoggedOut
<1>2. ASSUME IInv, LogoutsLeave, LoggedOut, [Next]_vars PROVE LogoutsLeave' /\ LoggedOut'
  <2>1. CASE Next
    BY <1>2, <2>1, LogoutsLeaveKept, LoggedOutKept
  <2>2. CASE UNCHANGED vars
    BY <1>2, <2>2 DEF vars, LogoutsLeave, LoggedOut
  <2> QED BY <1>2, <2>1, <2>2
<1>3. LoggedOut => LoggedOutStays
  BY DEF LoggedOut, LoggedOutStays
<1> QED BY <1>1, <1>2, <1>3, InvariantHolds, PTL DEF Spec
=============================================================================
