------------------------- MODULE SessionTokensProofs -------------------------
(***************************************************************************)
(* Theorems about SessionTokens, for any sets of users, sessions, tokens    *)
(* and requests.  Types first, then the parts of IInv in the order in which *)
(* they rest on each other; the theorems about the properties come last.    *)
(***************************************************************************)
EXTENDS SessionTokensInv, TLAPS

Typed == TypeOK /\ CallerKnown

\* A request that a step of another one does not touch.
Same(q) ==
  /\ pc'[q] = pc[q] /\ kind'[q] = kind[q] /\ caller'[q] = caller[q]
  /\ sid'[q] = sid[q] /\ tid'[q] = tid[q] /\ fresh'[q] = fresh[q]
  /\ held'[q] = held[q] /\ todo'[q] = todo[q] /\ before'[q] = before[q]

\* The committed rows only grow, and only towards revoked.
Grows ==
  /\ \A x \in Rows : /\ status[x] = "revoked" => status'[x] = "revoked"
                     /\ status[x] # "absent" => status'[x] # "absent"
  /\ \A t \in Tokens : status[t] # "absent" => chain'[t] = chain[t]

-----------------------------------------------------------------------------
(* Types *)

LEMMA InitTyped == Init => Typed
BY IdAssumption DEF Init, Typed, TypeOK, CallerKnown, RowStatus, Kinds, Rows

\* Finish and Advance leave the committed rows and the arguments alone.
LEMMA FinishTyped ==
  ASSUME Typed, NEW r \in Requests, NEW o \in Outcomes, Finish(r, o)
  PROVE  Typed'
BY DEF Typed, TypeOK, CallerKnown, Finish, dbVars, argVars, Outcomes

\* A statement that takes a request on changes some of its own state.
LEMMA AdvanceTyped ==
  ASSUME Typed, NEW r \in Requests, NEW next \in Running, Advance(r, next),
         sid' = sid \/ \E s \in Sessions \cup {None} : sid' = [sid EXCEPT ![r] = s],
         todo' = todo \/ \E T \in SUBSET Rows : todo' = [todo EXCEPT ![r] = T],
         held' = held \/ \E H \in SUBSET Rows : held' = [held EXCEPT ![r] = H],
         fresh' = fresh
  PROVE  Typed'
<1>1. sid' \in [Requests -> Sessions \cup {None}]
  BY DEF Typed, TypeOK
<1>2. todo' \in [Requests -> SUBSET Rows]
  BY DEF Typed, TypeOK
<1>3. held' \in [Requests -> SUBSET Rows]
  BY DEF Typed, TypeOK
<1> QED BY <1>1, <1>2, <1>3 DEF Typed, TypeOK, CallerKnown, Advance, dbVars, argVars

LEMMA ArriveTyped ==
  ASSUME Typed, NEW r \in Requests, NEW k \in Kinds,
         NEW c \in Sessions \cup {None}, NEW s \in Sessions \cup {None},
         NEW t \in Tokens \cup {None}, NEW n \in Tokens \cup {None},
         NEW first \in Running, Arrive(r, k, c, s, t, n, first),
         k \in {"revoke", "logoutAll"} => c \in Sessions
  PROVE  Typed'
BY DEF Typed, TypeOK, CallerKnown, Arrive, dbVars

LEMMA BeginTyped == ASSUME Typed, NEW r \in Requests, Begin(r) PROVE Typed'
<1>1. CASE BeginLogin(r)
  BY <1>1, ArriveTyped DEF BeginLogin, Kinds, Running
<1>2. CASE BeginRefresh(r)
  BY <1>2, ArriveTyped DEF BeginRefresh, Kinds, Running, Known
<1>3. CASE BeginRevoke(r)
  BY <1>3, ArriveTyped DEF BeginRevoke, Kinds, Running, Known
<1>4. CASE BeginLogoutAll(r)
  <2>1. PICK c \in Known(Sessions), keepCurrent \in BOOLEAN :
          Arrive(r, "logoutAll", c, IF keepCurrent THEN c ELSE None, None, None, "scan")
    BY <1>4 DEF BeginLogoutAll
  <2>2. (IF keepCurrent THEN c ELSE None) \in Sessions \cup {None} /\ c \in Sessions
    BY DEF Known
  <2> QED BY <2>1, <2>2, ArriveTyped DEF Kinds, Running
<1> QED BY <1>1, <1>2, <1>3, <1>4 DEF Begin

LEMMA CommitTyped == ASSUME Typed, NEW r \in Requests, Phase(r), Commit(r) PROVE Typed'
<1>1. status' \in [Rows -> RowStatus]
  BY DEF Commit, Revoked, Typed, TypeOK, RowStatus
<1>2. chain' \in [Tokens -> Sessions \cup {None}]
  BY DEF Commit, Revoked, Typed, TypeOK
<1>3. replacedBy' \in [Tokens -> Tokens \cup {None}]
  BY DEF Commit, Revoked, Typed, TypeOK
<1>4. auditLog' \subseteq AuditRow
  <2>1. ASSUME pc[r] = "tokens" PROVE AuditOf(r) \in AuditRow
    <3>1. kind[r] \in {"revoke", "logoutAll"}
      BY <2>1 DEF Commit, Revoked, Phase
    <3>2. caller[r] \in Sessions /\ sid[r] \in Sessions \cup {None}
      BY <3>1 DEF Typed, TypeOK, CallerKnown
    <3> QED BY <3>2, OwnerAssumption DEF AuditOf, AuditRow
  <2> QED BY <2>1 DEF Commit, Revoked, Typed, TypeOK
<1> QED BY <1>1, <1>2, <1>3, <1>4 DEF Commit, Revoked, Typed, TypeOK, argVars, CallerKnown, Outcomes

LEMMA StepTyped == ASSUME Typed, Shape, NEW r \in Requests, Step(r) PROVE Typed'
<1>1. Phase(r) /\ TokensHaveSessions
  BY DEF Shape
<1>2. /\ sid[r] \in Sessions \cup {None} /\ tid[r] \in Tokens \cup {None}
      /\ todo[r] \in SUBSET Rows /\ held[r] \in SUBSET Rows
  BY DEF Typed, TypeOK
<1>3. CASE Lookup(r)
  <2>1. tid[r] # None => chain[tid[r]] \in Sessions
    BY <1>1, <1>2, <1>3 DEF Lookup, TokensHaveSessions, Phase
  <2> QED BY <1>3, <2>1, FinishTyped, AdvanceTyped DEF Lookup, Outcomes, Running, Rows
<1>4. CASE CheckSession(r)
  <2>1. {tid[r]} \in SUBSET Rows
    BY <1>1, <1>4 DEF CheckSession, Phase, Rows
  <2> QED BY <1>4, <2>1, FinishTyped, AdvanceTyped DEF CheckSession, Outcomes, Running
<1>5. CASE ReadSession(r)
  BY <1>2, <1>5, FinishTyped, AdvanceTyped DEF ReadSession, Outcomes, Running, Rows
<1>6. CASE ScanSessions(r)
  <2>1. {s \in Sessions : status[s] = "live" /\ SessionInScope(r, s)} \in SUBSET Rows
    BY DEF Rows
  <2> QED BY <1>6, <2>1, AdvanceTyped DEF ScanSessions, Running
<1>7. CASE LockRow(r)
  <2>1. PICK x \in todo[r] :
          /\ todo' = [todo EXCEPT ![r] = @ \ {x}]
          /\ held' = [held EXCEPT ![r] = IF StillMatches(r, x) THEN @ \cup {x} ELSE @]
          /\ Advance(r, pc[r]) /\ UNCHANGED <<sid, fresh>>
    BY <1>7 DEF LockRow
  <2>2. pc[r] \in Running
    BY <1>1, <2>1 DEF Phase, Idle, Typed, TypeOK
  <2>3. todo[r] \ {x} \in SUBSET Rows /\ (IF StillMatches(r, x) THEN held[r] \cup {x} ELSE held[r]) \in SUBSET Rows
    BY <1>2, <2>1
  <2>4. /\ todo' = [todo EXCEPT ![r] = todo[r] \ {x}]
        /\ held' = [held EXCEPT ![r] = IF StillMatches(r, x) THEN held[r] \cup {x} ELSE held[r]]
    BY <2>1 DEF Typed, TypeOK
  <2> QED BY <2>1, <2>2, <2>3, <2>4, AdvanceTyped
<1>8. CASE ScanTokens(r)
  <2>1. {t \in Tokens : status[t] = "live" /\ TokenInScope(r, t)} \in SUBSET Rows
    BY DEF Rows
  <2> QED BY <1>8, <2>1, AdvanceTyped DEF ScanTokens, Running
<1>9. CASE RaiseReuse(r)
  BY <1>9, FinishTyped DEF RaiseReuse, Outcomes
<1>10. CASE Commit(r)
  BY <1>1, <1>10, CommitTyped
<1> QED BY <1>3, <1>4, <1>5, <1>6, <1>7, <1>8, <1>9, <1>10 DEF Step

LEMMA NextTyped == ASSUME Typed, Shape, [Next]_vars PROVE Typed'
<1>1. ASSUME NEW r \in Requests, Begin(r) PROVE Typed'
  BY <1>1, BeginTyped
<1>2. ASSUME NEW r \in Requests, Step(r) PROVE Typed'
  BY <1>2, StepTyped
<1>3. ASSUME NEW r \in Requests, Abort(r) \/ DeadlockVictim(r) PROVE Typed'
  BY <1>3, FinishTyped DEF Abort, DeadlockVictim, Outcomes
<1>4. ASSUME NEW t \in Tokens, Expire(t) PROVE Typed'
  BY <1>4 DEF Expire, Typed, TypeOK, CallerKnown, dbVars, argVars, txnVars, Known
<1>5. CASE UNCHANGED vars
  BY <1>5 DEF vars, Typed, TypeOK, CallerKnown
<1> QED BY <1>1, <1>2, <1>3, <1>4, <1>5 DEF Next

-----------------------------------------------------------------------------
(* What a step leaves alone *)

\* Everything a request does or suffers changes no variable of another one.
Serves(r) == Begin(r) \/ Step(r) \/ Abort(r) \/ DeadlockVictim(r)

LEMMA OthersSame ==
  ASSUME Typed, NEW r \in Requests, Serves(r), NEW q \in Requests, q # r
  PROVE  Same(q)
<1>1. ASSUME NEW o, Finish(r, o) PROVE Same(q)
  BY <1>1 DEF Finish, Same, Typed, TypeOK, argVars
<1>2. ASSUME NEW k, NEW c, NEW s, NEW t, NEW n, NEW first, Arrive(r, k, c, s, t, n, first)
      PROVE  Same(q)
  BY <1>2 DEF Arrive, Same, Typed, TypeOK
<1>3. ASSUME Begin(r) PROVE Same(q)
  BY <1>2, <1>3 DEF Begin, BeginLogin, BeginRefresh, BeginRevoke, BeginLogoutAll
<1>4. ASSUME NEW next, Advance(r, next)
      PROVE  /\ pc'[q] = pc[q] /\ kind'[q] = kind[q] /\ caller'[q] = caller[q]
             /\ tid'[q] = tid[q] /\ before'[q] = before[q]
  BY <1>4 DEF Advance, Typed, TypeOK, argVars
<1>5. CASE Lookup(r)
  BY <1>1, <1>4, <1>5 DEF Lookup, Same, Typed, TypeOK
<1>6. CASE CheckSession(r)
  BY <1>1, <1>4, <1>6 DEF CheckSession, Same, Typed, TypeOK
<1>7. CASE ReadSession(r)
  BY <1>1, <1>4, <1>7 DEF ReadSession, Same, Typed, TypeOK
<1>8. CASE ScanSessions(r) \/ ScanTokens(r)
  BY <1>4, <1>8 DEF ScanSessions, ScanTokens, Same, Typed, TypeOK
<1>9. CASE LockRow(r)
  BY <1>4, <1>9 DEF LockRow, Same, Typed, TypeOK
<1>10. CASE RaiseReuse(r) \/ Abort(r) \/ DeadlockVictim(r)
  BY <1>1, <1>10 DEF RaiseReuse, Abort, DeadlockVictim
<1>11. CASE Commit(r)
  BY <1>11 DEF Commit, Revoked, Same, Typed, TypeOK, argVars
<1> QED BY <1>3, <1>5, <1>6, <1>7, <1>8, <1>9, <1>10, <1>11 DEF Serves, Step

\* Only Commit touches the committed rows.
LEMMA OnlyCommitWrites ==
  ASSUME NEW r \in Requests, Serves(r), ~Commit(r)
  PROVE  UNCHANGED dbVars
<1>1. ASSUME NEW o, Finish(r, o) PROVE UNCHANGED dbVars
  BY <1>1 DEF Finish
<1>2. ASSUME NEW next, Advance(r, next) PROVE UNCHANGED dbVars
  BY <1>2 DEF Advance
<1>3. ASSUME Begin(r) PROVE UNCHANGED dbVars
  BY <1>3 DEF Begin, BeginLogin, BeginRefresh, BeginRevoke, BeginLogoutAll, Arrive
<1>4. ASSUME Lookup(r) \/ CheckSession(r) \/ ReadSession(r) PROVE UNCHANGED dbVars
  BY <1>1, <1>2, <1>4 DEF Lookup, CheckSession, ReadSession
<1>5. ASSUME ScanSessions(r) \/ LockRow(r) \/ ScanTokens(r) PROVE UNCHANGED dbVars
  BY <1>2, <1>5 DEF ScanSessions, LockRow, ScanTokens
<1>6. ASSUME RaiseReuse(r) \/ Abort(r) \/ DeadlockVictim(r) PROVE UNCHANGED dbVars
  BY <1>1, <1>6 DEF RaiseReuse, Abort, DeadlockVictim
<1> QED BY <1>3, <1>4, <1>5, <1>6 DEF Serves, Step

\* The rows a commit inserts are new, so what is in the tables stays there.
LEMMA CommitInserts ==
  ASSUME Typed, Shape, NEW r \in Requests, Commit(r)
  PROVE  /\ pc[r] \in Running
         /\ \A x \in Rows : status[x] # "absent" => x \notin Inserted(r) /\ x # fresh[r]
<1>1. pc[r] \in Running
  BY DEF Commit, Revoked, Running
<1>2. fresh[r] # None => status[fresh[r]] = "absent"
  BY <1>1 DEF Shape, KeysAreFresh
<1>3. kind[r] = "login" => status[sid[r]] = "absent"
  BY <1>1 DEF Shape, KeysAreFresh
<1> QED BY <1>1, <1>2, <1>3, IdAssumption DEF Inserted, Rows

LEMMA CommitGrows ==
  ASSUME Typed, Shape, NEW r \in Requests, Commit(r)
  PROVE  Grows
<1>1. \A x \in Rows : status[x] # "absent" => x \notin Inserted(r) /\ x # fresh[r]
  BY CommitInserts
<1>2. ASSUME NEW x \in Rows
      PROVE  /\ status[x] = "revoked" => status'[x] = "revoked"
             /\ status[x] # "absent" => status'[x] # "absent"
  BY <1>1, <1>2 DEF Commit, Revoked
<1>3. ASSUME NEW t \in Tokens, status[t] # "absent" PROVE chain'[t] = chain[t]
  BY <1>1, <1>3 DEF Commit, Revoked, Rows
<1> QED BY <1>2, <1>3 DEF Grows

LEMMA NextGrows == ASSUME Typed, Shape, [Next]_vars PROVE Grows
<1>1. ASSUME UNCHANGED <<status, chain>> PROVE Grows
  BY <1>1 DEF Grows
<1>2. ASSUME NEW r \in Requests, Serves(r) PROVE Grows
  BY <1>1, <1>2, CommitGrows, OnlyCommitWrites DEF dbVars
<1>3. CASE UNCHANGED vars \/ \E t \in Tokens : Expire(t)
  BY <1>1, <1>3 DEF vars, Expire, dbVars
<1> QED BY <1>2, <1>3 DEF Next, Serves

-----------------------------------------------------------------------------
(* Shape: what a request may have gathered at each of its statements *)

LEMMA PhaseSame ==
  ASSUME Typed, TokensHaveSessions, Grows, NEW q \in Requests, Same(q), Phase(q)
  PROVE  Phase(q)'
<1>1. Idle(q) => Idle(q)'
  BY DEF Idle, Same
<1>2. RowsOf(q)' = RowsOf(q) /\ held'[q] = held[q] /\ todo'[q] = todo[q]
  BY DEF RowsOf, Same
<1>3. ASSUME NEW s PROVE SessionInScope(q, s)' <=> SessionInScope(q, s)
  BY DEF SessionInScope, Same
<1>4. ASSUME NEW s \in Sessions, status[s] # "absent" PROVE status'[s] # "absent"
  BY <1>4 DEF Grows, Rows
<1>5. ASSUME NEW t \in Tokens, status[t] # "absent"
      PROVE  status'[t] # "absent" /\ chain'[t] = chain[t]
  BY <1>5 DEF Grows, Rows
<1>6. ASSUME NEW t \in Tokens, status[t] # "absent", TokenInScope(q, t)
      PROVE  TokenInScope(q, t)'
  BY <1>3, <1>5, <1>6 DEF TokenInScope
<1>7. tid[q] # None => tid[q] \in Tokens
  BY DEF Typed, TypeOK
<1>8. pc[q] = "sessions" =>
        RowsOf(q)' \subseteq {s \in Sessions : status'[s] # "absent" /\ SessionInScope(q, s)'}
  BY <1>2, <1>3, <1>4 DEF Phase
<1>9. pc[q] = "tokens" =>
        /\ held'[q] \cap Sessions \subseteq {s \in Sessions : status'[s] # "absent" /\ SessionInScope(q, s)'}
        /\ RowsOf(q)' \cap Tokens \subseteq {t \in Tokens : status'[t] # "absent" /\ TokenInScope(q, t)'}
        /\ todo'[q] \subseteq Tokens
  BY <1>2, <1>3, <1>4, <1>5, <1>6 DEF Phase
<1> QED BY <1>1, <1>2, <1>5, <1>7, <1>8, <1>9 DEF Phase, Same

\* A request that ends holds nothing.
LEMMA PhaseFinish ==
  ASSUME Typed, NEW r \in Requests, Phase(r), NEW o \in Outcomes, Finish(r, o)
  PROVE  Phase(r)'
<1>1. /\ pc'[r] = o /\ held'[r] = {} /\ todo'[r] = {} /\ fresh'[r] = None /\ kind'[r] = kind[r]
  BY DEF Finish, Typed, TypeOK, argVars
<1> QED BY <1>1 DEF Phase, Idle, Outcomes

LEMMA PhaseBegin ==
  ASSUME Typed, NEW r \in Requests, Phase(r), Begin(r)
  PROVE  Phase(r)'
<1>1. ASSUME NEW k, NEW c, NEW s, NEW t, NEW n, NEW first, Arrive(r, k, c, s, t, n, first)
      PROVE  /\ pc'[r] = first /\ kind'[r] = k /\ tid'[r] = t /\ fresh'[r] = n
             /\ held'[r] = {} /\ todo'[r] = {} /\ status' = status
  BY <1>1 DEF Arrive, Typed, TypeOK, dbVars, Phase, Idle
<1>2. CASE BeginLogin(r)
  BY <1>1, <1>2 DEF BeginLogin, Phase, Idle, Outcomes
<1>3. CASE BeginRefresh(r)
  BY <1>1, <1>3 DEF BeginRefresh, Phase, Idle, Outcomes, Known
<1>4. CASE BeginRevoke(r) \/ BeginLogoutAll(r)
  BY <1>1, <1>4 DEF BeginRevoke, BeginLogoutAll, Phase, Idle, Outcomes
<1> QED BY <1>2, <1>3, <1>4 DEF Begin

LEMMA PhaseStep ==
  ASSUME Typed, TokensHaveSessions, NEW r \in Requests, Phase(r), Step(r)
  PROVE  Phase(r)'
<1>1. ASSUME NEW o \in Outcomes, Finish(r, o) PROVE Phase(r)'
  BY <1>1, PhaseFinish
<1>2. ASSUME NEW next, Advance(r, next)
      PROVE  /\ pc'[r] = next /\ kind'[r] = kind[r] /\ caller'[r] = caller[r] /\ tid'[r] = tid[r]
             /\ status' = status /\ chain' = chain
  BY <1>2 DEF Advance, Typed, TypeOK, argVars, dbVars
<1>3. /\ sid[r] \in Sessions \cup {None} /\ tid[r] \in Tokens \cup {None}
      /\ todo \in [Requests -> SUBSET Rows] /\ held \in [Requests -> SUBSET Rows]
      /\ sid \in [Requests -> Sessions \cup {None}]
  BY DEF Typed, TypeOK
<1>4. CASE Lookup(r)
  <2>1. /\ kind[r] = "refresh" /\ fresh[r] \in Tokens /\ held[r] = {} /\ todo[r] = {}
        /\ tid[r] # None => /\ tid[r] \in Tokens /\ status[tid[r]] # "absent"
                            /\ chain[tid[r]] \in Sessions /\ status[chain[tid[r]]] # "absent"
    BY <1>3, <1>4 DEF Lookup, Phase, Idle, TokensHaveSessions
  <2>2. CASE sid' = [sid EXCEPT ![r] = chain[tid[r]]] /\ tid[r] # None
             /\ todo' = [todo EXCEPT ![r] = {chain[tid[r]]}] /\ Advance(r, "sessions")
             /\ UNCHANGED <<fresh, held>>
    BY <1>2, <1>3, <2>1, <2>2 DEF Phase, Idle, RowsOf, SessionInScope, Outcomes
  <2>3. CASE sid' = [sid EXCEPT ![r] = chain[tid[r]]] /\ tid[r] # None
             /\ Advance(r, "check") /\ UNCHANGED <<fresh, held, todo>>
    BY <1>2, <1>3, <2>1, <2>3 DEF Phase, Idle, Outcomes
  <2> QED BY <1>1, <1>4, <2>2, <2>3 DEF Lookup, Outcomes
<1>5. CASE CheckSession(r)
  <2>1. CASE todo' = [todo EXCEPT ![r] = {tid[r]}] /\ Advance(r, "mark")
             /\ UNCHANGED <<sid, fresh, held>>
    BY <1>2, <1>3, <1>5, <2>1 DEF CheckSession, Phase, Idle, RowsOf, Outcomes
  <2> QED BY <1>1, <1>5, <2>1 DEF CheckSession, Outcomes
<1>6. CASE ReadSession(r)
  <2>1. CASE /\ sid[r] # None /\ status[sid[r]] = "live" /\ Owner[sid[r]] = Owner[caller[r]]
             /\ todo' = [todo EXCEPT ![r] = {sid[r]}] /\ Advance(r, "sessions")
             /\ UNCHANGED <<sid, fresh, held>>
    BY <1>2, <1>3, <1>6, <2>1 DEF ReadSession, Phase, Idle, RowsOf, SessionInScope, Outcomes
  <2> QED BY <1>1, <1>6, <2>1 DEF ReadSession, Outcomes
<1>7. CASE ScanSessions(r)
  <2>1. /\ kind[r] = "logoutAll" /\ held[r] = {} /\ fresh[r] = None /\ pc'[r] = "sessions"
        /\ sid' = sid /\ fresh' = fresh /\ held' = held
    BY <1>2, <1>7 DEF ScanSessions, Phase, Idle
  <2>2. todo'[r] = {s \in Sessions : status[s] = "live" /\ SessionInScope(r, s)}
    BY <1>3, <1>7 DEF ScanSessions
  <2>3. ASSUME NEW s \in Sessions PROVE SessionInScope(r, s)' <=> SessionInScope(r, s)
    BY <1>2, <1>7, <2>1 DEF SessionInScope, ScanSessions
  <2> QED BY <1>2, <1>7, <2>1, <2>2, <2>3 DEF ScanSessions, Phase, RowsOf, Idle, Outcomes
<1>8. CASE LockRow(r)
  <2>1. PICK x \in todo[r] :
          /\ todo' = [todo EXCEPT ![r] = @ \ {x}]
          /\ held' = [held EXCEPT ![r] = IF StillMatches(r, x) THEN @ \cup {x} ELSE @]
          /\ Advance(r, pc[r]) /\ sid' = sid /\ fresh' = fresh
    BY <1>8 DEF LockRow
  <2>2. /\ pc'[r] = pc[r] /\ sid'[r] = sid[r] /\ fresh'[r] = fresh[r] /\ kind'[r] = kind[r]
        /\ caller'[r] = caller[r] /\ tid'[r] = tid[r] /\ status' = status /\ chain' = chain
    BY <1>2, <2>1
  <2>3. /\ todo'[r] = todo[r] \ {x}
        /\ held'[r] \subseteq held[r] \cup {x}
        /\ RowsOf(r)' \subseteq RowsOf(r)
        /\ StillMatches(r, x) => RowsOf(r)' = RowsOf(r)
    BY <1>3, <2>1 DEF RowsOf
  <2>4. pc[r] \in {"mark", "sessions", "tokens"}
    BY <2>1 DEF Phase, Idle, Typed, TypeOK, Running
  <2>5. ASSUME NEW s \in Sessions PROVE SessionInScope(r, s)' <=> SessionInScope(r, s)
    BY <2>2 DEF SessionInScope
  <2>6. ASSUME NEW t \in Tokens, chain[t] \in Sessions PROVE TokenInScope(r, t)' <=> TokenInScope(r, t)
    BY <2>2, <2>5, <2>6 DEF TokenInScope
  <2>7. CASE pc[r] = "mark"
    BY <2>2, <2>3, <2>7 DEF Phase, Idle, StillMatches, Outcomes
  <2>8. CASE pc[r] = "sessions"
    BY <2>2, <2>3, <2>5, <2>8 DEF Phase, Idle, StillMatches, Outcomes
  <2>9. CASE pc[r] = "tokens"
    <3>1. x \in Tokens
      BY <2>1, <2>9 DEF Phase
    <3>2. held'[r] \cap Sessions \subseteq {s \in Sessions : status'[s] # "absent" /\ SessionInScope(r, s)'}
      BY <2>2, <2>3, <2>5, <2>9, <3>1, IdAssumption DEF Phase
    <3>3. RowsOf(r)' \cap Tokens \subseteq {t \in Tokens : status'[t] # "absent" /\ TokenInScope(r, t)'}
      BY <2>2, <2>3, <2>6, <2>9 DEF Phase, TokensHaveSessions
    <3>4. kind[r] = "revoke" => sid[r] \in RowsOf(r)' \cap Sessions
      <4>1. kind[r] = "revoke" => sid[r] \in RowsOf(r) \cap Sessions /\ sid[r] \notin Tokens
        BY <2>9, IdAssumption DEF Phase
      <4> QED BY <1>3, <2>1, <3>1, <4>1 DEF RowsOf
    <3> QED BY <2>2, <2>3, <2>9, <3>2, <3>3, <3>4 DEF Phase, Idle, Outcomes
  <2> QED BY <2>4, <2>7, <2>8, <2>9
<1>9. CASE ScanTokens(r)
  <2>1. /\ pc'[r] = "tokens" /\ sid' = sid /\ fresh' = fresh /\ held' = held /\ todo[r] = {}
        /\ pc[r] = "sessions"
    BY <1>2, <1>9 DEF ScanTokens
  <2>2. todo'[r] = {t \in Tokens : status[t] = "live" /\ TokenInScope(r, t)}
    BY <1>3, <1>9 DEF ScanTokens
  <2>3. ASSUME NEW s \in Sessions PROVE SessionInScope(r, s)' <=> SessionInScope(r, s)
    BY <1>2, <1>9, <2>1 DEF SessionInScope, ScanTokens
  <2>4. ASSUME NEW t \in Tokens, status[t] = "live" PROVE TokenInScope(r, t)' <=> TokenInScope(r, t)
    BY <1>2, <1>9, <2>3, <2>4 DEF TokenInScope, TokensHaveSessions, ScanTokens
  <2>5. held[r] \subseteq {s \in Sessions : status[s] # "absent" /\ SessionInScope(r, s)}
    BY <2>1 DEF Phase, RowsOf
  <2>6. held[r] \cap Tokens = {}
    BY <2>5, IdAssumption
  <2>7. held'[r] \cap Sessions \subseteq {s \in Sessions : status'[s] # "absent" /\ SessionInScope(r, s)'}
    BY <1>2, <1>9, <2>1, <2>3, <2>5 DEF ScanTokens
  <2>8. RowsOf(r)' \cap Tokens \subseteq {t \in Tokens : status'[t] # "absent" /\ TokenInScope(r, t)'}
    BY <1>2, <1>9, <2>1, <2>2, <2>4, <2>6 DEF ScanTokens, RowsOf
  <2> QED BY <1>2, <1>9, <2>1, <2>2, <2>7, <2>8 DEF ScanTokens, Phase, RowsOf, Idle, Outcomes
<1>10. CASE RaiseReuse(r)
  BY <1>1, <1>10 DEF RaiseReuse, Outcomes
<1>11. CASE Commit(r)
  <2>1. pc'[r] = "ok" /\ held'[r] = {} /\ todo'[r] = {} /\ kind'[r] = kind[r] /\ fresh'[r] = fresh[r]
    BY <1>3, <1>11 DEF Commit, Revoked, argVars, Typed, TypeOK
  <2> QED BY <2>1 DEF Phase, Idle, Outcomes
<1> QED BY <1>4, <1>5, <1>6, <1>7, <1>8, <1>9, <1>10, <1>11 DEF Step

\* Every row a request updates is a committed one.
LEMMA CommitHeld ==
  ASSUME Typed, NEW r \in Requests, Phase(r), Commit(r)
  PROVE  /\ \A x \in held[r] : status[x] # "absent"
         /\ pc[r] = "opened" => held[r] = {} /\ kind[r] = "login" /\ fresh[r] \in Tokens
         /\ pc[r] = "mark" => held[r] = {tid[r]} /\ kind[r] = "refresh" /\ fresh[r] \in Tokens
         /\ pc[r] = "tokens" => fresh[r] = None /\ kind[r] \in {"revoke", "logoutAll"}
<1>1. CASE pc[r] = "opened"
  BY <1>1 DEF Phase, Idle
<1>2. CASE pc[r] = "mark"
  BY <1>2 DEF Phase, Commit, Revoked, RowsOf
<1>3. CASE pc[r] = "tokens"
  <2>1. kind[r] \in {"revoke", "logoutAll"} /\ fresh[r] = None
    BY <1>3 DEF Phase, Commit, Revoked
  <2>2. held[r] \subseteq Rows
    BY DEF Typed, TypeOK
  <2>3. \A x \in held[r] : status[x] # "absent"
    BY <1>3, <2>2 DEF Phase, RowsOf, Rows
  <2> QED BY <1>3, <2>1, <2>3
<1> QED BY <1>1, <1>2, <1>3 DEF Commit, Revoked

LEMMA TokensHaveSessionsStep ==
  ASSUME Typed, Shape, [Next]_vars
  PROVE  TokensHaveSessions'
<1>1. ASSUME UNCHANGED <<status, chain>> PROVE TokensHaveSessions'
  BY <1>1 DEF Shape, TokensHaveSessions
<1>2. ASSUME NEW r \in Requests, Commit(r) PROVE TokensHaveSessions'
  <2>1. SUFFICES ASSUME NEW t \in Tokens, status'[t] # "absent"
        PROVE  chain'[t] \in Sessions /\ status'[chain'[t]] # "absent"
    BY DEF TokensHaveSessions
  <2>2. Grows /\ Phase(r)
    BY <1>2, CommitGrows DEF Shape
  <2>3. CASE status[t] # "absent"
    <3>1. chain[t] \in Sessions /\ status[chain[t]] # "absent"
      BY <2>3 DEF Shape, TokensHaveSessions
    <3> QED BY <2>2, <2>3, <3>1 DEF Grows, Rows
  <2>4. CASE status[t] = "absent"
    <3>1. t = fresh[r] /\ chain'[t] = sid[r]
      <4>1. t \in Rows /\ t \notin held[r]
        BY <1>2, <2>2, <2>4, CommitHeld DEF Rows
      <4>2. t \in Inserted(r)
        BY <1>2, <2>1, <2>4, <4>1 DEF Commit, Revoked
      <4>3. kind[r] = "login" => sid[r] \in Sessions /\ sid[r] \notin Tokens
        BY <1>2, CommitInserts, IdAssumption DEF Shape, KeysAreFresh
      <4> QED BY <1>2, <4>2, <4>3 DEF Inserted, Commit, Revoked
    <3>2. fresh[r] # None
      BY <3>1, IdAssumption
    <3>3. CASE pc[r] = "mark"
      <4>1. sid[r] = chain[tid[r]] /\ tid[r] \in Tokens /\ status[tid[r]] # "absent"
        BY <2>2, <3>3 DEF Phase
      <4>2. sid[r] \in Sessions /\ status[sid[r]] # "absent"
        BY <4>1 DEF Shape, TokensHaveSessions
      <4> QED BY <2>2, <3>1, <4>2 DEF Grows, Rows
    <3>4. CASE pc[r] = "opened"
      <4>1. kind[r] = "login" /\ held[r] = {}
        BY <1>2, <2>2, <3>4, CommitHeld
      <4>2. sid[r] \in Sessions
        BY <1>2, <4>1, CommitInserts DEF Shape, KeysAreFresh
      <4>3. status'[sid[r]] = "live"
        BY <1>2, <4>1, <4>2 DEF Commit, Revoked, Inserted, Rows
      <4> QED BY <3>1, <4>2, <4>3
    <3> QED BY <1>2, <2>2, <3>2, <3>3, <3>4, CommitHeld DEF Commit, Revoked
  <2> QED BY <2>3, <2>4
<1>3. ASSUME NEW r \in Requests, Serves(r) PROVE TokensHaveSessions'
  BY <1>1, <1>2, <1>3, OnlyCommitWrites DEF dbVars
<1>4. CASE UNCHANGED vars \/ \E t \in Tokens : Expire(t)
  BY <1>1, <1>4 DEF vars, Expire, dbVars
<1> QED BY <1>3, <1>4 DEF Next, Serves

\* How the keys of a request that goes on change.
LEMMA OwnKeys ==
  ASSUME Typed, Shape, NEW r \in Requests, Step(r) \/ Abort(r) \/ DeadlockVictim(r),
         pc'[r] \in Running
  PROVE  /\ pc[r] \in Running /\ kind'[r] = kind[r] /\ fresh'[r] = fresh[r]
         /\ kind[r] # "login"
         /\ sid'[r] = sid[r] \/ (sid'[r] \in Sessions /\ status[sid'[r]] # "absent")
         /\ status' = status
<1>1. ASSUME NEW o \in Outcomes, Finish(r, o) PROVE FALSE
  BY <1>1 DEF Finish, Typed, TypeOK, Outcomes, Running
<1>2. ASSUME NEW next, Advance(r, next) PROVE kind'[r] = kind[r] /\ status' = status
  BY <1>2 DEF Advance, argVars, dbVars
<1>3. Phase(r) /\ TokensHaveSessions /\ sid \in [Requests -> Sessions \cup {None}]
      /\ tid[r] \in Tokens \cup {None}
  BY DEF Shape, Typed, TypeOK
<1>4. CASE Lookup(r)
  <2>1. tid[r] # None => chain[tid[r]] \in Sessions /\ status[chain[tid[r]]] # "absent"
    BY <1>3, <1>4 DEF Lookup, Phase, TokensHaveSessions
  <2> QED BY <1>1, <1>2, <1>3, <1>4, <2>1 DEF Lookup, Phase, Outcomes, Running
<1>5. CASE CheckSession(r)
  BY <1>1, <1>2, <1>3, <1>5 DEF CheckSession, Phase, Outcomes, Running
<1>6. CASE ReadSession(r)
  BY <1>1, <1>2, <1>3, <1>6 DEF ReadSession, Phase, Outcomes, Running
<1>7. CASE ScanSessions(r)
  BY <1>2, <1>3, <1>7 DEF ScanSessions, Phase, Running
<1>8. CASE LockRow(r)
  <2>1. pc[r] \in Running /\ kind[r] # "login"
    BY <1>3, <1>8 DEF LockRow, Phase, Idle, Typed, TypeOK, Running
  <2> QED BY <1>2, <1>8, <2>1 DEF LockRow
<1>9. CASE ScanTokens(r)
  BY <1>2, <1>3, <1>9 DEF ScanTokens, Phase, Running
<1>10. CASE RaiseReuse(r) \/ Abort(r) \/ DeadlockVictim(r)
  BY <1>1, <1>10 DEF RaiseReuse, Abort, DeadlockVictim, Outcomes
<1>11. CASE Commit(r)
  BY <1>11 DEF Commit, Revoked, Typed, TypeOK, Running
<1> QED BY <1>4, <1>5, <1>6, <1>7, <1>8, <1>9, <1>10, <1>11 DEF Step

\* The keys a request draws when it arrives.
LEMMA NewKeys ==
  ASSUME Typed, NEW r \in Requests, Begin(r)
  PROVE  /\ fresh'[r] # None => fresh'[r] \in Tokens /\ Unused(fresh'[r])
         /\ kind'[r] = "login" => sid'[r] \in Sessions /\ Unused(sid'[r])
         /\ kind'[r] # "login" => sid'[r] = None \/ (sid'[r] \in Sessions /\ status[sid'[r]] # "absent")
         /\ pc[r] \notin Running
<1>1. ASSUME NEW k, NEW c, NEW s, NEW t, NEW n, NEW first, Arrive(r, k, c, s, t, n, first)
      PROVE  kind'[r] = k /\ sid'[r] = s /\ fresh'[r] = n /\ pc[r] \notin Running
  BY <1>1 DEF Arrive, Typed, TypeOK, Running
<1>2. CASE BeginLogin(r)
  BY <1>1, <1>2 DEF BeginLogin
<1>3. CASE BeginRefresh(r)
  BY <1>1, <1>3 DEF BeginRefresh
<1>4. CASE BeginRevoke(r)
  BY <1>1, <1>4 DEF BeginRevoke, Known
<1>5. CASE BeginLogoutAll(r)
  BY <1>1, <1>5 DEF BeginLogoutAll, Known
<1> QED BY <1>2, <1>3, <1>4, <1>5 DEF Begin

LEMMA KeysAreFreshStep ==
  ASSUME Typed, Shape, [Next]_vars
  PROVE  KeysAreFresh'
<1>1. CASE UNCHANGED vars \/ \E t \in Tokens : Expire(t)
  <2>1. UNCHANGED <<status, pc, kind, sid, fresh>>
    BY <1>1 DEF vars, Expire, dbVars, argVars, txnVars
  <2> QED BY <2>1 DEF Shape, KeysAreFresh
<1>2. ASSUME NEW p \in Requests, Serves(p) PROVE KeysAreFresh'
  <2> DEFINE Old(r) == /\ pc[r] \in Running /\ fresh'[r] = fresh[r] /\ kind'[r] = kind[r]
                       /\ \/ sid'[r] = sid[r]
                          \/ kind[r] # "login" /\ sid'[r] \in Sessions /\ status[sid'[r]] # "absent"
             New(r) == /\ r = p
                       /\ fresh'[r] # None => fresh'[r] \in Tokens /\ Unused(fresh'[r])
                       /\ kind'[r] = "login" => sid'[r] \in Sessions /\ Unused(sid'[r])
                       /\ kind'[r] # "login" =>
                            sid'[r] = None \/ (sid'[r] \in Sessions /\ status[sid'[r]] # "absent")
  <2>1. ASSUME NEW r \in Requests, pc'[r] \in Running PROVE Old(r) \/ (New(r) /\ Begin(p))
    <3>1. CASE r # p
      BY <1>2, <2>1, <3>1, OthersSame DEF Same
    <3>2. CASE r = p /\ Begin(p)
      BY <3>2, NewKeys
    <3>3. CASE r = p /\ ~Begin(p)
      BY <1>2, <2>1, <3>3, OwnKeys DEF Serves
    <3> QED BY <3>1, <3>2, <3>3
  <2>2. ASSUME NEW r \in Requests, pc[r] \in Running
        PROVE  /\ fresh[r] # None => /\ fresh[r] \in Tokens /\ status[fresh[r]] = "absent"
                                     /\ \A q \in Requests \ {r} : pc[q] \in Running => fresh[q] # fresh[r]
               /\ kind[r] = "login" => /\ sid[r] \in Sessions /\ status[sid[r]] = "absent"
                                       /\ \A q \in Requests \ {r} : pc[q] \in Running => sid[q] # sid[r]
    BY <2>2 DEF Shape, KeysAreFresh, Typed, TypeOK
  <2>3. ASSUME NEW r \in Requests, pc'[r] \in Running
        PROVE  /\ fresh'[r] # None => status'[fresh'[r]] = "absent"
               /\ kind'[r] = "login" => sid'[r] \in Sessions /\ status'[sid'[r]] = "absent"
    <3>1. CASE ~Commit(p)
      <4>1. status' = status
        BY <1>2, <3>1, OnlyCommitWrites DEF dbVars
      <4>2. CASE Old(r)
        BY <2>2, <4>1, <4>2
      <4>3. CASE New(r)
        BY <4>1, <4>3 DEF Unused
      <4> QED BY <2>1, <2>3, <4>2, <4>3
    <3>2. CASE Commit(p)
      <4>1. r # p /\ Phase(p) /\ pc[p] \in Running
        BY <2>3, <3>2, CommitInserts DEF Commit, Revoked, Typed, TypeOK, Running, Shape
      <4>2. Same(r)
        BY <1>2, <4>1, OthersSame
      <4>3. pc[r] \in Running
        BY <2>3, <4>2 DEF Same
      <4>4. ASSUME fresh[r] # None PROVE status'[fresh[r]] = "absent"
        <5>1. fresh[r] \in Tokens /\ status[fresh[r]] = "absent" /\ fresh[p] # fresh[r]
          BY <2>2, <4>1, <4>3, <4>4
        <5>2. fresh[r] \notin held[p]
          BY <3>2, <4>1, <5>1, CommitHeld
        <5>3. kind[p] = "login" => sid[p] # fresh[r]
          BY <2>2, <4>1, <5>1, IdAssumption
        <5> QED BY <3>2, <5>1, <5>2, <5>3 DEF Commit, Revoked, Inserted, Rows
      <4>5. ASSUME kind[r] = "login" PROVE sid[r] \in Sessions /\ status'[sid[r]] = "absent"
        <5>1. sid[r] \in Sessions /\ status[sid[r]] = "absent" /\ sid[p] # sid[r]
          BY <2>2, <4>1, <4>3, <4>5
        <5>2. sid[r] \notin held[p]
          BY <3>2, <4>1, <5>1, CommitHeld
        <5>3. fresh[p] # sid[r]
          BY <2>2, <4>1, <5>1, IdAssumption
        <5> QED BY <3>2, <5>1, <5>2, <5>3 DEF Commit, Revoked, Inserted, Rows
      <4> QED BY <4>2, <4>4, <4>5 DEF Same
    <3> QED BY <3>1, <3>2
  <2>4. ASSUME NEW r \in Requests, pc'[r] \in Running,
               NEW q \in Requests \ {r}, pc'[q] \in Running
        PROVE  /\ fresh'[r] # None => fresh'[q] # fresh'[r]
               /\ kind'[r] = "login" => sid'[q] # sid'[r]
    <3>1. CASE Old(r) /\ Old(q)
      BY <2>2, <3>1
    <3>2. CASE New(r) /\ Old(q)
      BY <2>2, <3>2 DEF Unused
    <3>3. CASE Old(r) /\ New(q)
      BY <2>2, <3>3, IdAssumption DEF Unused
    <3> QED BY <2>1, <2>4, <3>1, <3>2, <3>3
  <2> QED BY <2>3, <2>4 DEF KeysAreFresh
<1> QED BY <1>1, <1>2 DEF Next, Serves

LEMMA PhaseNext ==
  ASSUME Typed, Shape, [Next]_vars, NEW q \in Requests
  PROVE  Phase(q)'
<1>1. Grows /\ Phase(q) /\ TokensHaveSessions
  BY NextGrows DEF Shape
<1>2. CASE UNCHANGED vars \/ \E t \in Tokens : Expire(t)
  <2>1. Same(q)
    BY <1>2 DEF vars, Expire, dbVars, argVars, txnVars, Same
  <2> QED BY <1>1, <2>1, PhaseSame
<1>3. ASSUME NEW r \in Requests, Serves(r) PROVE Phase(q)'
  <2>1. CASE q # r
    BY <1>1, <1>3, <2>1, OthersSame, PhaseSame
  <2>2. CASE q = r /\ (Abort(r) \/ DeadlockVictim(r))
    BY <1>1, <2>2, PhaseFinish DEF Abort, DeadlockVictim, Outcomes
  <2> QED BY <1>1, <1>3, <2>1, <2>2, PhaseBegin, PhaseStep DEF Serves
<1> QED BY <1>2, <1>3 DEF Next, Serves

LEMMA InitShape == Init => Shape
BY DEF Init, Shape, TokensHaveSessions, KeysAreFresh, Phase, Idle, Running, Outcomes, Rows, RowsOf

LEMMA NextShape == ASSUME Typed, Shape, [Next]_vars PROVE Shape'
<1>1. \A r \in Requests : Phase(r)'
  BY PhaseNext
<1> QED BY <1>1, TokensHaveSessionsStep, KeysAreFreshStep DEF Shape

Base == Typed /\ Shape

THEOREM BaseInvariant == Spec => []Base
<1>1. Init => Base
  BY InitTyped, InitShape DEF Base
<1>2. Base /\ [Next]_vars => Base'
  BY NextTyped, NextShape DEF Base
<1> QED BY <1>1, <1>2, PTL DEF Spec

\* Every variable keeps its type.
THEOREM TypeCorrect == Spec => []TypeOK
<1>1. Base => TypeOK
  BY DEF Base, Typed
<1> QED BY <1>1, BaseInvariant, PTL

\* Nothing committed is ever undone.
THEOREM CommittedStaysFinal == Spec => CommittedIsFinal
<1> DEFINE Kept == /\ \A x \in Rows : /\ status[x] = "revoked" => status'[x] = "revoked"
                                      /\ status[x] # "absent" => status'[x] # "absent"
                   /\ \A t \in Tokens : status[t] # "absent" => chain'[t] = chain[t]
                   /\ auditLog \subseteq auditLog'
<1>1. ASSUME Base, [Next]_vars PROVE Kept
  <2>1. Grows
    BY <1>1, NextGrows DEF Base
  <2>2. auditLog \subseteq auditLog'
    <3>1. ASSUME NEW r \in Requests, Serves(r) PROVE auditLog \subseteq auditLog'
      <4>1. CASE Commit(r)
        BY <4>1 DEF Commit, Revoked
      <4>2. CASE ~Commit(r)
        BY <3>1, <4>2, OnlyCommitWrites DEF dbVars
      <4> QED BY <4>1, <4>2
    <3>2. CASE UNCHANGED vars \/ \E t \in Tokens : Expire(t)
      BY <3>2 DEF vars, Expire, dbVars
    <3> QED BY <1>1, <3>1, <3>2 DEF Next, Serves
  <2> QED BY <2>1, <2>2 DEF Grows
<1>2. Base /\ [Next]_vars => [Kept]_vars
  BY <1>1
<1> QED BY <1>2, BaseInvariant, PTL DEF Spec, CommittedIsFinal

-----------------------------------------------------------------------------
(* ChainSound *)

LEMMA ChainSoundStep ==
  ASSUME Base, ChainSound, [Next]_vars
  PROVE  ChainSound'
<1>1. ASSUME UNCHANGED dbVars PROVE ChainSound'
  BY <1>1 DEF dbVars, ChainSound
<1>2. ASSUME NEW r \in Requests, Commit(r) PROVE ChainSound'
  <2> SUFFICES ASSUME NEW t \in Tokens, replacedBy'[t] # None
      PROVE  /\ status'[t] = "revoked"
             /\ status'[replacedBy'[t]] # "absent"
             /\ chain'[replacedBy'[t]] = chain'[t]
    BY DEF ChainSound
  <2>1. Grows /\ Phase(r) /\ Typed
    BY <1>2, CommitGrows DEF Base, Shape
  <2>2. CASE pc[r] = "mark" /\ t \in held[r]
    <3>1. /\ fresh[r] \in Tokens /\ held[r] = {t} /\ kind[r] = "refresh"
          /\ sid[r] = chain[t] /\ status[t] # "absent"
      BY <1>2, <2>1, <2>2, CommitHeld DEF Phase
    <3>2. status[fresh[r]] = "absent"
      BY <1>2, <3>1, IdAssumption, CommitInserts DEF Base, Shape, KeysAreFresh
    <3>3. replacedBy'[t] = fresh[r] /\ chain'[fresh[r]] = sid[r] /\ chain'[t] = chain[t]
      BY <1>2, <2>2, <3>1, <3>2 DEF Commit, Revoked
    <3>4. status'[t] = "revoked" /\ status'[fresh[r]] = "live"
      BY <1>2, <3>1, <3>2 DEF Commit, Revoked, Inserted, Rows
    <3> QED BY <3>1, <3>3, <3>4
  <2>3. CASE ~(pc[r] = "mark" /\ t \in held[r])
    <3>1. replacedBy'[t] = replacedBy[t]
      BY <1>2, <2>3 DEF Commit, Revoked
    <3>2. /\ status[t] = "revoked" /\ status[replacedBy[t]] # "absent"
          /\ chain[replacedBy[t]] = chain[t] /\ replacedBy[t] \in Tokens
      BY <2>1, <3>1 DEF ChainSound, Typed, TypeOK
    <3> QED BY <2>1, <3>1, <3>2 DEF Grows, Rows
  <2> QED BY <2>2, <2>3
<1>3. ASSUME NEW r \in Requests, Serves(r) PROVE ChainSound'
  BY <1>1, <1>2, <1>3, OnlyCommitWrites
<1>4. CASE UNCHANGED vars \/ \E t \in Tokens : Expire(t)
  BY <1>1, <1>4 DEF vars, Expire, dbVars
<1> QED BY <1>3, <1>4 DEF Next, Serves

\* The rotation chain never points from a usable token, to a missing one, or
\* into another session.
THEOREM ChainStaysSound == Spec => []ChainSound
<1>1. Init => ChainSound
  BY DEF Init, ChainSound
<1>2. Base /\ ChainSound /\ [Next]_vars => ChainSound'
  BY ChainSoundStep
<1> QED BY <1>1, <1>2, BaseInvariant, PTL DEF Spec

-----------------------------------------------------------------------------
(* AuditExact *)

LEMMA AuditExactStep ==
  ASSUME Base, AuditExact, [Next]_vars
  PROVE  AuditExact'
<1>1. ASSUME UNCHANGED dbVars PROVE AuditExact'
  BY <1>1 DEF dbVars, AuditExact
<1>2. ASSUME NEW r \in Requests, Commit(r) PROVE AuditExact'
  <2>1. Grows /\ Phase(r) /\ Typed
    BY <1>2, CommitGrows DEF Base, Shape
  <2>2. /\ pc[r] = "opened" => held[r] = {}
        /\ pc[r] = "mark" => held[r] = {tid[r]} /\ tid[r] \notin Sessions
        /\ pc[r] = "tokens" => kind[r] \in {"revoke", "logoutAll"} /\ todo[r] = {}
    <3>1. pc[r] = "mark" => tid[r] \in Tokens
      BY <2>1 DEF Phase
    <3> QED BY <1>2, <2>1, <3>1, CommitHeld, IdAssumption DEF Commit, Revoked
  <2>3. ASSUME NEW s \in Sessions, status'[s] = "revoked"
        PROVE  \E e \in auditLog' : e.actor = Owner[s] /\ e.session \in {s, None}
    <3>1. CASE status[s] = "revoked"
      BY <1>2, <3>1 DEF AuditExact, Commit, Revoked
    <3>2. CASE status[s] # "revoked"
      <4>1. s \in held[r]
        BY <1>2, <2>3, <3>2 DEF Commit, Revoked, Rows
      <4>2. pc[r] = "tokens"
        BY <1>2, <2>2, <4>1 DEF Commit, Revoked
      <4>3. SessionInScope(r, s)
        BY <2>1, <4>1, <4>2 DEF Phase
      <4>4. CASE kind[r] = "revoke"
        <5>1. s = sid[r] /\ Owner[sid[r]] = Owner[caller[r]]
          BY <2>1, <4>2, <4>3, <4>4 DEF SessionInScope, Phase
        <5>2. AuditOf(r).actor = Owner[s] /\ AuditOf(r).session = s
          BY <4>4, <5>1 DEF AuditOf
        <5> QED BY <1>2, <4>2, <5>2 DEF Commit, Revoked
      <4>5. CASE kind[r] = "logoutAll"
        <5>1. Owner[s] = Owner[caller[r]]
          BY <4>3, <4>5 DEF SessionInScope
        <5>2. AuditOf(r).actor = Owner[s] /\ AuditOf(r).session = None
          BY <4>5, <5>1 DEF AuditOf
        <5> QED BY <1>2, <4>2, <5>2 DEF Commit, Revoked
      <4> QED BY <2>2, <4>2, <4>4, <4>5
    <3> QED BY <3>1, <3>2
  <2>4. ASSUME NEW e \in auditLog', e.session # None
        PROVE  status'[e.session] = "revoked" /\ Owner[e.session] = e.actor
    <3>1. CASE e \in auditLog
      <4>1. status[e.session] = "revoked" /\ Owner[e.session] = e.actor
        BY <2>4, <3>1 DEF AuditExact
      <4>2. e.session \in Sessions
        BY <2>1, <2>4, <3>1 DEF Typed, TypeOK, AuditRow
      <4> QED BY <2>1, <4>1, <4>2 DEF Grows, Rows
    <3>2. CASE e \notin auditLog
      <4>1. e = AuditOf(r) /\ pc[r] = "tokens" /\ todo[r] = {}
        BY <1>2, <2>4, <3>2 DEF Commit, Revoked
      <4>2. kind[r] = "revoke" /\ e.session = sid[r] /\ e.actor = Owner[caller[r]]
        BY <2>4, <4>1 DEF AuditOf
      <4>3. sid[r] \in held[r] /\ sid[r] \in Sessions /\ Owner[sid[r]] = Owner[caller[r]]
        BY <2>1, <4>1, <4>2 DEF Phase, RowsOf
      <4>4. status'[sid[r]] = "revoked"
        BY <1>2, <4>3 DEF Commit, Revoked, Rows
      <4> QED BY <4>2, <4>3, <4>4
    <3> QED BY <3>1, <3>2
  <2> QED BY <2>3, <2>4 DEF AuditExact
<1>3. ASSUME NEW r \in Requests, Serves(r) PROVE AuditExact'
  BY <1>1, <1>2, <1>3, OnlyCommitWrites
<1>4. CASE UNCHANGED vars \/ \E t \in Tokens : Expire(t)
  BY <1>1, <1>4 DEF vars, Expire, dbVars
<1> QED BY <1>3, <1>4 DEF Next, Serves

\* A session is revoked exactly when its owner's revocation is on record.
THEOREM AuditStaysExact == Spec => []AuditExact
<1>1. Init => AuditExact
  BY DEF Init, AuditExact, Rows
<1>2. Base /\ AuditExact /\ [Next]_vars => AuditExact'
  BY AuditExactStep
<1> QED BY <1>1, <1>2, BaseInvariant, PTL DEF Spec

-----------------------------------------------------------------------------
(* RevokedIsUseless *)

LEMMA HistoryKeptStep ==
  ASSUME Base, HistoryKept, [Next]_vars
  PROVE  HistoryKept'
<1>1. Grows /\ Typed
  BY NextGrows DEF Base
<1> SUFFICES ASSUME NEW q \in Requests, NEW x \in Rows
    PROVE  /\ before'[q][x] = "revoked" => status'[x] = "revoked"
           /\ before'[q][x] = "live" => status'[x] \in {"live", "revoked"}
  BY DEF HistoryKept
<1>2. status'[x] \in RowStatus
  BY NextTyped DEF Base, Typed, TypeOK
<1>3. ASSUME before'[q] = before[q] \/ before'[q] = status
      PROVE  /\ before'[q][x] = "revoked" => status'[x] = "revoked"
             /\ before'[q][x] = "live" => status'[x] \in {"live", "revoked"}
  BY <1>1, <1>2, <1>3 DEF HistoryKept, Grows, RowStatus
<1>4. ASSUME NEW r \in Requests, Serves(r) PROVE before'[q] = before[q] \/ before'[q] = status
  <2>1. CASE q # r
    BY <1>1, <1>4, <2>1, OthersSame DEF Same
  <2>2. ASSUME NEW k, NEW c, NEW s, NEW t, NEW n, NEW first, Arrive(r, k, c, s, t, n, first)
        PROVE  before'[r] = status
    BY <1>1, <2>2 DEF Arrive, Typed, TypeOK
  <2>3. CASE q = r /\ Begin(r)
    BY <2>2, <2>3 DEF Begin, BeginLogin, BeginRefresh, BeginRevoke, BeginLogoutAll
  <2>4. CASE q = r /\ ~Begin(r)
    <3>1. ASSUME NEW o, Finish(r, o) PROVE before' = before
      BY <3>1 DEF Finish, argVars
    <3>2. ASSUME NEW next, Advance(r, next) PROVE before' = before
      BY <3>2 DEF Advance, argVars
    <3>3. before' = before
      BY <1>4, <2>4, <3>1, <3>2 DEF Serves, Step, Abort, DeadlockVictim, Lookup, CheckSession,
         ReadSession, ScanSessions, LockRow, ScanTokens, RaiseReuse, Commit, argVars
    <3> QED BY <2>4, <3>3
  <2> QED BY <2>1, <2>3, <2>4
<1>5. CASE UNCHANGED vars \/ \E t \in Tokens : Expire(t)
  BY <1>3, <1>5 DEF vars, Expire, argVars
<1> QED BY <1>3, <1>4, <1>5 DEF Next, Serves

\* A request another one's step does not touch stays usable.
LEMMA UsableSame ==
  ASSUME Typed, TokensHaveSessions, Grows, NEW q \in Requests, Same(q), Usable(q)
  PROVE  Usable(q)'
<1>1. ASSUME NEW t \in Tokens, status[t] # "absent" PROVE status'[t] # "absent" /\ chain'[t] = chain[t]
  BY <1>1 DEF Grows, Rows
<1> QED BY <1>1 DEF Usable, Same

LEMMA UsableStep ==
  ASSUME Base, HistoryKept, [Next]_vars, NEW q \in Requests, Usable(q)
  PROVE  Usable(q)'
<1>1. Typed /\ Grows /\ TokensHaveSessions /\ Phase(q)
  BY NextGrows DEF Base, Shape
<1>2. CASE UNCHANGED vars \/ \E t \in Tokens : Expire(t)
  <2>1. Same(q)
    BY <1>2 DEF vars, Expire, dbVars, argVars, txnVars, Same
  <2> QED BY <1>1, <2>1, UsableSame
<1>3. ASSUME NEW r \in Requests, Serves(r), q # r PROVE Usable(q)'
  BY <1>1, <1>3, OthersSame, UsableSame
<1>4. ASSUME NEW o \in {"refused", "reused", "aborted"}, Finish(q, o) PROVE Usable(q)'
  BY <1>1, <1>4 DEF Finish, Usable, Typed, TypeOK
<1>5. ASSUME NEW next, Advance(q, next)
      PROVE  /\ pc'[q] = next /\ kind'[q] = kind[q] /\ tid'[q] = tid[q] /\ before'[q] = before[q]
             /\ status' = status /\ chain' = chain
  BY <1>1, <1>5 DEF Advance, argVars, dbVars, Typed, TypeOK
<1>6. CASE Begin(q)
  <2>1. ASSUME NEW k, NEW c, NEW s, NEW t, NEW n,
               NEW first \in {"opened", "lookup", "read", "scan"}, Arrive(q, k, c, s, t, n, first)
        PROVE  Usable(q)'
    BY <1>1, <2>1 DEF Arrive, Usable, Typed, TypeOK
  <2> QED BY <1>6, <2>1 DEF Begin, BeginLogin, BeginRefresh, BeginRevoke, BeginLogoutAll
<1>7. CASE Lookup(q)
  <2>1. CASE tid[q] # None /\ status[tid[q]] # "revoked" /\ Advance(q, "check")
    <3>1. kind[q] = "refresh" /\ tid[q] \in Tokens /\ status[tid[q]] # "absent"
      BY <1>1, <1>7, <2>1 DEF Lookup, Phase, Typed, TypeOK
    <3>2. before[q][tid[q]] # "revoked"
      BY <2>1, <3>1 DEF HistoryKept, Rows
    <3> QED BY <1>5, <2>1, <3>1, <3>2 DEF Usable
  <2>2. CASE Advance(q, "sessions")
    BY <1>1, <1>5, <1>7, <2>2 DEF Lookup, Usable, Phase
  <2> QED BY <1>4, <1>7, <2>1, <2>2 DEF Lookup
<1>8. CASE CheckSession(q)
  <2>1. CASE status[sid[q]] = "live" /\ Advance(q, "mark")
    <3>1. kind[q] = "refresh" /\ sid[q] = chain[tid[q]] /\ tid[q] \in Tokens /\ sid[q] \in Sessions
      BY <1>1, <1>8, <2>1 DEF CheckSession, Phase, TokensHaveSessions
    <3>2. before[q][sid[q]] # "revoked"
      BY <2>1, <3>1 DEF HistoryKept, Rows
    <3> QED BY <1>5, <1>8, <2>1, <3>1, <3>2 DEF Usable, CheckSession
  <2> QED BY <1>4, <1>8, <2>1 DEF CheckSession
<1>9. CASE ReadSession(q)
  <2>1. CASE sid[q] # None /\ status[sid[q]] = "live" /\ Advance(q, "sessions") /\ sid' = sid
    <3>1. kind[q] = "revoke" /\ sid[q] \in Sessions
      BY <1>1, <1>9, <2>1 DEF ReadSession, Phase, Typed, TypeOK
    <3>2. before[q][sid[q]] # "revoked"
      BY <2>1, <3>1 DEF HistoryKept, Rows
    <3> QED BY <1>5, <1>9, <2>1, <3>1, <3>2 DEF Usable
  <2> QED BY <1>4, <1>9, <2>1 DEF ReadSession
<1>10. CASE ScanSessions(q)
  BY <1>1, <1>5, <1>10 DEF ScanSessions, Usable, Phase
<1>11. CASE LockRow(q)
  BY <1>1, <1>5, <1>11 DEF LockRow, Usable
<1>12. CASE ScanTokens(q)
  BY <1>1, <1>5, <1>12 DEF ScanTokens, Usable
<1>13. CASE RaiseReuse(q) \/ Abort(q) \/ DeadlockVictim(q)
  BY <1>4, <1>13 DEF RaiseReuse, Abort, DeadlockVictim
<1>14. CASE Commit(q)
  <2>1. /\ kind'[q] = kind[q] /\ tid'[q] = tid[q] /\ before'[q] = before[q] /\ sid'[q] = sid[q]
        /\ pc'[q] = "ok"
    BY <1>1, <1>14 DEF Commit, Revoked, argVars, Typed, TypeOK
  <2>2. CASE kind[q] = "refresh"
    <3>1. pc[q] = "mark"
      BY <1>1, <1>14, <2>2 DEF Commit, Revoked, Phase
    <3> QED BY <1>1, <2>1, <2>2, <3>1 DEF Usable, Grows, Rows
  <2>3. CASE kind[q] = "revoke"
    <3>1. pc[q] = "tokens"
      BY <1>1, <1>14, <2>3 DEF Commit, Revoked, Phase
    <3> QED BY <2>1, <2>3, <3>1 DEF Usable
  <2> QED BY <2>1, <2>2, <2>3 DEF Usable
<1> QED BY <1>2, <1>3, <1>6, <1>7, <1>8, <1>9, <1>10, <1>11, <1>12, <1>13, <1>14
        DEF Next, Serves, Step

\* What was revoked before a request arrived is of no use to it.
THEOREM RevokedStaysUseless == Spec => []RevokedIsUseless
<1> DEFINE Inv == HistoryKept /\ \A r \in Requests : Usable(r)
<1>1. Init => Inv
  BY DEF Init, HistoryKept, Usable
<1>2. Base /\ Inv /\ [Next]_vars => Inv'
  <2> SUFFICES ASSUME Base, Inv, [Next]_vars PROVE Inv'
    OBVIOUS
  <2>1. HistoryKept'
    BY HistoryKeptStep
  <2>2. \A r \in Requests : Usable(r)'
    BY UsableStep
  <2> QED BY <2>1, <2>2
<1>3. Inv => RevokedIsUseless
  BY DEF Usable, RevokedIsUseless, Succeeded
<1> QED BY <1>1, <1>2, <1>3, BaseInvariant, PTL DEF Spec

-----------------------------------------------------------------------------
(* RevocationComplete *)

\* The scope of a request whose arguments stay does not change either, on the
\* rows that were committed when it arrived.
LEMMA ScopeKept ==
  ASSUME Typed, HistoryKept, TokensHaveSessions, Grows, NEW q \in Requests,
         kind'[q] = kind[q], caller'[q] = caller[q], sid'[q] = sid[q], before'[q] = before[q]
  PROVE  /\ \A s \in Sessions : SessionInScope(q, s)' <=> SessionInScope(q, s)
         /\ \A t \in Tokens : before[q][t] = "live" => (TokenInScope(q, t)' <=> TokenInScope(q, t))
<1>1. ASSUME NEW s PROVE SessionInScope(q, s)' <=> SessionInScope(q, s)
  BY DEF SessionInScope
<1>2. ASSUME NEW t \in Tokens, before[q][t] = "live" PROVE TokenInScope(q, t)' <=> TokenInScope(q, t)
  <2>1. chain'[t] = chain[t]
    BY <1>2 DEF HistoryKept, Grows, Rows
  <2> QED BY <1>1, <2>1 DEF TokenInScope
<1> QED BY <1>1, <1>2

\* Coverage survives whatever is committed, as long as every row it counts on
\* is still counted on or is revoked by now.
LEMMA CoveredKept ==
  ASSUME Typed, HistoryKept, TokensHaveSessions, Grows, NEW q \in Requests,
         kind'[q] = kind[q], caller'[q] = caller[q], sid'[q] = sid[q], before'[q] = before[q],
         NEW S, NEW T, \A x \in S : x \in T \/ status'[x] = "revoked"
  PROVE  /\ SessionsCovered(q, S) => \A s \in Sessions :
              SessionInScope(q, s)' /\ before'[q][s] = "live" => status'[s] = "revoked" \/ s \in T
         /\ TokensCovered(q, S) => \A t \in Tokens :
              TokenInScope(q, t)' /\ before'[q][t] = "live" => status'[t] = "revoked" \/ t \in T
<1>1. \A x \in Rows : status[x] = "revoked" => status'[x] = "revoked"
  BY DEF Grows
<1> QED BY <1>1, ScopeKept DEF SessionsCovered, TokensCovered, Rows

LEMMA CoveredSame ==
  ASSUME Typed, HistoryKept, TokensHaveSessions, Grows, NEW q \in Requests, Same(q), Covered(q)
  PROVE  Covered(q)'
<1>1. /\ SessionsCovered(q, RowsOf(q)) => SessionsCovered(q, RowsOf(q))'
      /\ SessionsCovered(q, held[q]) => SessionsCovered(q, held[q])'
      /\ SessionsCovered(q, {}) => SessionsCovered(q, {})'
      /\ TokensCovered(q, RowsOf(q)) => TokensCovered(q, RowsOf(q))'
      /\ TokensCovered(q, {}) => TokensCovered(q, {})'
  BY ScopeKept DEF Same, Grows, Rows, SessionsCovered, TokensCovered, RowsOf
<1> QED BY <1>1 DEF Covered, Same

LEMMA CoveredStep ==
  ASSUME Base, HistoryKept, [Next]_vars, NEW q \in Requests, Covered(q)
  PROVE  Covered(q)'
<1>1. Typed /\ Grows /\ TokensHaveSessions /\ Phase(q)
  BY NextGrows DEF Base, Shape
<1>2. CASE UNCHANGED vars \/ \E t \in Tokens : Expire(t)
  <2>1. Same(q)
    BY <1>2 DEF vars, Expire, dbVars, argVars, txnVars, Same
  <2> QED BY <1>1, <2>1, CoveredSame
<1>3. ASSUME NEW r \in Requests, Serves(r), q # r PROVE Covered(q)'
  BY <1>1, <1>3, OthersSame, CoveredSame
<1>4. ASSUME NEW o \in {"refused", "reused", "aborted"}, Finish(q, o) PROVE Covered(q)'
  BY <1>1, <1>4 DEF Finish, Covered, Typed, TypeOK
<1>5. ASSUME NEW next, Advance(q, next)
      PROVE  /\ pc'[q] = next /\ kind'[q] = kind[q] /\ caller'[q] = caller[q]
             /\ before'[q] = before[q] /\ status' = status /\ chain' = chain
  BY <1>1, <1>5 DEF Advance, argVars, dbVars, Typed, TypeOK
<1>6. CASE Begin(q)
  <2>1. ASSUME NEW k, NEW c, NEW s, NEW t, NEW n,
               NEW first \in {"opened", "lookup", "read", "scan"}, Arrive(q, k, c, s, t, n, first)
        PROVE  Covered(q)'
    BY <1>1, <2>1 DEF Arrive, Covered, Typed, TypeOK
  <2> QED BY <1>6, <2>1 DEF Begin, BeginLogin, BeginRefresh, BeginRevoke, BeginLogoutAll
<1>7. CASE Lookup(q)
  BY <1>1, <1>4, <1>5, <1>7 DEF Lookup, Covered, Phase
<1>8. CASE CheckSession(q)
  BY <1>1, <1>4, <1>5, <1>8 DEF CheckSession, Covered, Phase
<1>9. CASE ReadSession(q)
  <2>1. CASE /\ todo' = [todo EXCEPT ![q] = {sid[q]}]
             /\ Advance(q, "sessions") /\ UNCHANGED <<sid, fresh, held>>
    <3>1. kind[q] = "revoke" /\ pc'[q] = "sessions" /\ sid'[q] \in RowsOf(q)' /\ kind'[q] = kind[q]
      BY <1>1, <1>5, <1>9, <2>1 DEF ReadSession, Phase, RowsOf, Typed, TypeOK
    <3>2. SessionsCovered(q, RowsOf(q))'
      BY <3>1 DEF SessionsCovered, SessionInScope
    <3> QED BY <3>1, <3>2 DEF Covered
  <2> QED BY <1>4, <1>9, <2>1 DEF ReadSession
<1>10. CASE ScanSessions(q)
  <2>1. /\ kind[q] = "logoutAll" /\ pc'[q] = "sessions" /\ sid' = sid
        /\ kind'[q] = kind[q] /\ caller'[q] = caller[q] /\ before'[q] = before[q]
        /\ status' = status
    BY <1>1, <1>5, <1>10 DEF ScanSessions, Phase
  <2>2. \A s \in Sessions : status[s] = "live" /\ SessionInScope(q, s) => s \in RowsOf(q)'
    BY <1>1, <1>10 DEF ScanSessions, RowsOf, Typed, TypeOK
  <2>3. \A s \in Sessions : before[q][s] = "live" => status[s] \in {"live", "revoked"}
    BY DEF HistoryKept, Rows
  <2>4. \A s \in Sessions : SessionInScope(q, s)' <=> SessionInScope(q, s)
    BY <1>1, <2>1, ScopeKept
  <2>5. SessionsCovered(q, RowsOf(q))'
    BY <2>1, <2>2, <2>3, <2>4 DEF SessionsCovered
  <2> QED BY <2>1, <2>5 DEF Covered
<1>11. CASE LockRow(q)
  <2>1. PICK x \in todo[q] :
          /\ todo' = [todo EXCEPT ![q] = @ \ {x}]
          /\ held' = [held EXCEPT ![q] = IF StillMatches(q, x) THEN @ \cup {x} ELSE @]
          /\ Advance(q, pc[q]) /\ sid' = sid
    BY <1>11 DEF LockRow
  <2>2. /\ pc'[q] = pc[q] /\ sid'[q] = sid[q] /\ kind'[q] = kind[q] /\ caller'[q] = caller[q]
        /\ before'[q] = before[q] /\ status' = status
    BY <1>5, <2>1
  <2>3. held[q] \subseteq held'[q] /\ (RowsOf(q) \ {x}) \subseteq RowsOf(q)'
        /\ (StillMatches(q, x) => x \in RowsOf(q)')
    BY <1>1, <2>1 DEF RowsOf, Typed, TypeOK
  <2>4. ASSUME pc[q] \in {"sessions", "tokens"}, ~StillMatches(q, x) PROVE status'[x] = "revoked"
    <3>1. status[x] # "absent" /\ x \in Rows
      BY <1>1, <2>1, <2>4 DEF Phase, RowsOf, Rows
    <3> QED BY <1>1, <2>2, <2>4, <3>1 DEF StillMatches, Typed, TypeOK, RowStatus
  <2>5. \A y \in held[q] : y \in held'[q] \/ status'[y] = "revoked"
    BY <2>3
  <2>6. pc[q] \in {"sessions", "tokens"} =>
          \A y \in RowsOf(q) : y \in RowsOf(q)' \/ status'[y] = "revoked"
    BY <2>3, <2>4
  <2>7. SessionsCovered(q, held[q]) => SessionsCovered(q, held[q])'
    BY <1>1, <2>2, <2>5, CoveredKept DEF SessionsCovered
  <2>8. pc[q] \in {"sessions", "tokens"} =>
          /\ SessionsCovered(q, RowsOf(q)) => SessionsCovered(q, RowsOf(q))'
          /\ TokensCovered(q, RowsOf(q)) => TokensCovered(q, RowsOf(q))'
    BY <1>1, <2>2, <2>6, CoveredKept DEF SessionsCovered, TokensCovered
  <2>9. pc[q] # "ok"
    BY <1>1, <2>1 DEF Phase, Idle, Outcomes
  <2> QED BY <2>2, <2>7, <2>8, <2>9 DEF Covered
<1>12. CASE ScanTokens(q)
  <2>1. /\ pc[q] = "sessions" /\ pc'[q] = "tokens" /\ todo[q] = {} /\ held' = held /\ sid' = sid
        /\ kind'[q] = kind[q] /\ caller'[q] = caller[q] /\ before'[q] = before[q]
        /\ status' = status
    BY <1>5, <1>12 DEF ScanTokens
  <2>2. \A t \in Tokens : status[t] = "live" /\ TokenInScope(q, t) => t \in RowsOf(q)'
    BY <1>1, <1>12 DEF ScanTokens, RowsOf, Typed, TypeOK
  <2>3. \A t \in Tokens : before[q][t] = "live" => status[t] \in {"live", "revoked"}
    BY DEF HistoryKept, Rows
  <2>4. \A t \in Tokens : before[q][t] = "live" => (TokenInScope(q, t)' <=> TokenInScope(q, t))
    BY <1>1, <2>1, ScopeKept
  <2>5. TokensCovered(q, RowsOf(q))'
    BY <2>1, <2>2, <2>3, <2>4 DEF TokensCovered
  <2>6. RowsOf(q) = held[q] /\ held'[q] = held[q]
    BY <2>1 DEF RowsOf
  <2>7. \A y \in held[q] : y \in held'[q] \/ status'[y] = "revoked"
    BY <2>6
  <2>8. SessionsCovered(q, held[q]) => SessionsCovered(q, held[q])'
    BY <1>1, <2>1, <2>7, CoveredKept DEF SessionsCovered
  <2> QED BY <2>1, <2>5, <2>6, <2>8 DEF Covered
<1>13. CASE RaiseReuse(q) \/ Abort(q) \/ DeadlockVictim(q)
  BY <1>4, <1>13 DEF RaiseReuse, Abort, DeadlockVictim
<1>14. CASE Commit(q)
  <2>1. /\ kind'[q] = kind[q] /\ caller'[q] = caller[q] /\ before'[q] = before[q]
        /\ sid'[q] = sid[q] /\ pc'[q] = "ok" /\ todo[q] = {}
    BY <1>1, <1>14 DEF Commit, Revoked, argVars, Typed, TypeOK
  <2>2. CASE kind[q] \in {"revoke", "logoutAll"}
    <3>1. pc[q] = "tokens" /\ RowsOf(q) = held[q]
      BY <1>1, <1>14, <2>1, <2>2 DEF Commit, Revoked, Phase, RowsOf
    <3>2. \A y \in held[q] : y \in {} \/ status'[y] = "revoked"
      BY <1>1, <1>14 DEF Commit, Revoked, Typed, TypeOK
    <3>3. SessionsCovered(q, {})' /\ TokensCovered(q, {})'
      <4>1. SessionsCovered(q, held[q]) /\ TokensCovered(q, held[q])
        BY <2>2, <3>1 DEF Covered
      <4> QED BY <1>1, <2>1, <3>2, <4>1, CoveredKept DEF SessionsCovered, TokensCovered
    <3> QED BY <2>1, <3>3 DEF Covered
  <2> QED BY <2>1, <2>2 DEF Covered
<1> QED BY <1>2, <1>3, <1>6, <1>7, <1>8, <1>9, <1>10, <1>11, <1>12, <1>13, <1>14
        DEF Next, Serves, Step

\* A revocation answered with success has revoked everything it is about that
\* was live when it arrived.
THEOREM RevocationIsComplete == Spec => []RevocationComplete
<1> DEFINE Inv == HistoryKept /\ \A r \in Requests : Covered(r)
<1>1. Init => Inv
  BY DEF Init, HistoryKept, Covered
<1>2. Base /\ Inv /\ [Next]_vars => Inv'
  <2> SUFFICES ASSUME Base, Inv, [Next]_vars PROVE Inv'
    OBVIOUS
  <2>1. HistoryKept'
    BY HistoryKeptStep
  <2>2. \A r \in Requests : Covered(r)'
    BY CoveredStep
  <2> QED BY <2>1, <2>2
<1>3. Inv => RevocationComplete
  BY DEF Covered, RevocationComplete, Succeeded, SessionsCovered, TokensCovered
<1> QED BY <1>1, <1>2, <1>3, BaseInvariant, PTL DEF Spec

-----------------------------------------------------------------------------
(* The whole invariant, and the contract *)

\* Everything the properties rest on, at once.
THEOREM InvariantHolds == Spec => []IInv
<1>1. Init => ChainSound /\ AuditExact /\ HistoryKept /\ \A r \in Requests : Usable(r) /\ Covered(r)
  BY DEF Init, ChainSound, AuditExact, HistoryKept, Usable, Covered, Rows
<1> DEFINE Inv == ChainSound /\ AuditExact /\ HistoryKept
                  /\ \A r \in Requests : Usable(r) /\ Covered(r)
<1>2. Base /\ Inv /\ [Next]_vars => Inv'
  <2> SUFFICES ASSUME Base, Inv, [Next]_vars PROVE Inv'
    OBVIOUS
  <2>1. ChainSound' /\ AuditExact' /\ HistoryKept'
    BY ChainSoundStep, AuditExactStep, HistoryKeptStep
  <2>2. \A r \in Requests : Usable(r)' /\ Covered(r)'
    BY UsableStep, CoveredStep
  <2> QED BY <2>1, <2>2
<1>3. Base /\ Inv => IInv
  BY DEF Base, Typed, IInv
<1> QED BY <1>1, <1>2, <1>3, BaseInvariant, PTL DEF Spec

\* The contract's variables, read off the tables.
SessionRows == [s \in Sessions |-> status[s]]
TokenRows == [t \in Tokens |-> status[t]]
Records == {[actor |-> e.actor, session |-> e.session] : e \in auditLog}

LEMMA ContractInit == Init => Contract!Init
BY DEF Init, Contract!Init, Rows

\* A step that leaves the tables alone is not seen.
LEMMA ContractStutters ==
  ASSUME UNCHANGED dbVars
  PROVE  UNCHANGED Contract!vars
BY DEF dbVars, Contract!vars

LEMMA CommitOpens ==
  ASSUME Typed, Shape, NEW r \in Requests, Commit(r), pc[r] = "opened"
  PROVE  \E s \in Sessions, t \in Tokens : Contract!Open(s, t)
<1>1. held[r] = {} /\ kind[r] = "login" /\ fresh[r] \in Tokens
  BY CommitHeld DEF Shape
<1>2. sid[r] \in Sessions /\ status[sid[r]] = "absent" /\ status[fresh[r]] = "absent"
  BY <1>1, IdAssumption DEF Shape, KeysAreFresh, Running
<1>3. Inserted(r) = {fresh[r], sid[r]} /\ Revoked(r) = {}
  BY <1>1 DEF Inserted, Revoked
<1>4. SessionRows' = [SessionRows EXCEPT ![sid[r]] = "live"]
  BY <1>1, <1>2, <1>3, IdAssumption DEF SessionRows, Commit, Rows
<1>5. TokenRows' = [TokenRows EXCEPT ![fresh[r]] = "live"]
  BY <1>1, <1>2, <1>3, IdAssumption DEF TokenRows, Commit, Rows
<1>6. chain' = [chain EXCEPT ![fresh[r]] = sid[r]]
  BY <1>1 DEF Commit, Typed, TypeOK
<1>7. Records' = Records
  BY DEF Records, Commit
<1>8. PICK s \in Sessions, t \in Tokens : s = sid[r] /\ t = fresh[r]
  BY <1>1, <1>2
<1>9. Contract!Open(s, t)
  BY <1>2, <1>4, <1>5, <1>6, <1>7, <1>8 DEF Contract!Open, SessionRows, TokenRows, Records
<1> QED BY <1>9

LEMMA CommitRotates ==
  ASSUME Typed, Shape, NEW r \in Requests, Commit(r), pc[r] = "mark"
  PROVE  \E t, n \in Tokens : Contract!Rotate(t, n)
<1>1. held[r] = {tid[r]} /\ kind[r] = "refresh" /\ fresh[r] \in Tokens
  BY CommitHeld DEF Shape
<1>2. tid[r] \in Tokens /\ status[tid[r]] # "absent" /\ sid[r] = chain[tid[r]]
  BY DEF Shape, Phase
<1>3. status[fresh[r]] = "absent"
  BY <1>1, IdAssumption DEF Shape, KeysAreFresh, Running
<1>4. Inserted(r) = {fresh[r]} /\ Revoked(r) = {tid[r]}
  BY <1>1 DEF Inserted, Revoked
<1>5. SessionRows' = SessionRows
  BY <1>1, <1>2, <1>4, IdAssumption DEF SessionRows, Commit, Rows
<1>6. TokenRows' = [TokenRows EXCEPT ![tid[r]] = "revoked", ![fresh[r]] = "live"]
  BY <1>1, <1>2, <1>3, <1>4, IdAssumption DEF TokenRows, Commit, Rows
<1>7. chain' = [chain EXCEPT ![fresh[r]] = chain[tid[r]]]
  BY <1>1, <1>2 DEF Commit, Typed, TypeOK
<1>8. Records' = Records
  BY DEF Records, Commit
<1>9. PICK t \in Tokens, n \in Tokens : t = tid[r] /\ n = fresh[r]
  BY <1>1, <1>2
<1>10. Contract!Rotate(t, n)
  BY <1>2, <1>3, <1>5, <1>6, <1>7, <1>8, <1>9
     DEF Contract!Rotate, SessionRows, TokenRows, Records
<1> QED BY <1>10

\* What a revocation has updated is its account's, and the session it names.
LEMMA RevokedRows ==
  ASSUME Typed, Shape, NEW r \in Requests, Commit(r), pc[r] = "tokens"
  PROVE  /\ caller[r] \in Sessions /\ kind[r] \in {"revoke", "logoutAll"}
         /\ \A x \in held[r] \cap Sessions :
              status[x] # "absent" /\ Owner[x] = Owner[caller[r]]
         /\ \A t \in held[r] \cap Tokens :
              /\ status[t] # "absent" /\ chain[t] \in Sessions
              /\ Owner[chain[t]] = Owner[caller[r]]
              /\ kind[r] = "revoke" => chain[t] = sid[r]
         /\ kind[r] = "revoke" => sid[r] \in Sessions /\ held[r] \cap Sessions = {sid[r]}
<1>1. Phase(r) /\ TokensHaveSessions
  BY DEF Shape
<1>2. kind[r] \in {"revoke", "logoutAll"}
  BY <1>1, CommitHeld
<1>3. caller[r] \in Sessions
  BY <1>2 DEF Typed, CallerKnown
<1>4. RowsOf(r) = held[r]
  BY DEF RowsOf, Commit
<1>5. /\ held[r] \cap Sessions \subseteq {s \in Sessions : status[s] # "absent" /\ SessionInScope(r, s)}
      /\ held[r] \cap Tokens \subseteq {t \in Tokens : status[t] # "absent" /\ TokenInScope(r, t)}
  BY <1>1, <1>4 DEF Phase
<1>6. kind[r] = "revoke" => sid[r] \in held[r] \cap Sessions /\ Owner[sid[r]] = Owner[caller[r]]
  BY <1>1, <1>4 DEF Phase
<1>7. ASSUME NEW s \in Sessions, SessionInScope(r, s)
      PROVE  Owner[s] = Owner[caller[r]] /\ (kind[r] = "revoke" => s = sid[r])
  BY <1>2, <1>6, <1>7 DEF SessionInScope
<1>8. ASSUME NEW t \in held[r] \cap Tokens
      PROVE  /\ status[t] # "absent" /\ chain[t] \in Sessions
             /\ Owner[chain[t]] = Owner[caller[r]]
             /\ kind[r] = "revoke" => chain[t] = sid[r]
  BY <1>1, <1>5, <1>7 DEF TokensHaveSessions, TokenInScope
<1> QED BY <1>2, <1>3, <1>5, <1>6, <1>7, <1>8

LEMMA CommitEnds ==
  ASSUME Typed, Shape, NEW r \in Requests, Commit(r), pc[r] = "tokens"
  PROVE  \E u \in Users, s \in Sessions \cup {None} : Contract!End(u, s)
<1> DEFINE who == Owner[caller[r]]
           which == IF kind[r] = "revoke" THEN sid[r] ELSE None
           S == held[r] \cap Sessions
           T == held[r] \cap Tokens
<1>1. /\ caller[r] \in Sessions /\ kind[r] \in {"revoke", "logoutAll"}
      /\ \A x \in S : status[x] # "absent" /\ Owner[x] = who
      /\ \A t \in T : /\ status[t] # "absent" /\ chain[t] \in Sessions
                      /\ Owner[chain[t]] = who
                      /\ kind[r] = "revoke" => chain[t] = sid[r]
      /\ kind[r] = "revoke" => sid[r] \in Sessions /\ S = {sid[r]}
  BY RevokedRows
<1>2. who \in Users /\ which \in Sessions \cup {None}
  BY <1>1, OwnerAssumption
<1>3. fresh[r] = None /\ kind[r] # "login" /\ Inserted(r) = {None} /\ Revoked(r) = held[r]
  BY CommitHeld DEF Shape, Inserted, Revoked
<1>4. SessionRows' = [x \in Sessions |-> IF x \in S THEN "revoked" ELSE SessionRows[x]]
  BY <1>3, IdAssumption DEF SessionRows, Commit, Rows
<1>5. TokenRows' = [t \in Tokens |-> IF t \in T THEN "revoked" ELSE TokenRows[t]]
  BY <1>3, IdAssumption DEF TokenRows, Commit, Rows
<1>6. chain' = chain
  BY <1>3, IdAssumption DEF Commit, Typed, TypeOK
<1>7. Records' = Records \cup {[actor |-> who, session |-> which]}
  <2>1. auditLog' = auditLog \cup {AuditOf(r)}
    BY DEF Commit
  <2>2. AuditOf(r).actor = who /\ AuditOf(r).session = which
    BY DEF AuditOf
  <2> HIDE DEF who, which
  <2> QED BY <2>1, <2>2 DEF Records
<1>8. /\ which # None => S = {which}
      /\ \A x \in S : SessionRows[x] # "absent" /\ Owner[x] = who
      /\ \A t \in T : /\ TokenRows[t] # "absent" /\ chain[t] \in Sessions /\ Owner[chain[t]] = who
                      /\ which # None => chain[t] = which
  BY <1>1 DEF SessionRows, TokenRows
<1>9. S \in SUBSET Sessions /\ T \in SUBSET Tokens
  OBVIOUS
<1> HIDE DEF who, which, S, T
<1>10. PICK u \in Users, s \in Sessions \cup {None} : u = who /\ s = which
  BY <1>2
<1>11. Contract!End(u, s)
  BY <1>4, <1>5, <1>6, <1>7, <1>8, <1>9, <1>10 DEF Contract!End, SessionRows, TokenRows, Records
<1> QED BY <1>11

\* Every step is a step of the contract or is not seen.
LEMMA ContractStep ==
  ASSUME Typed, Shape, [Next]_vars
  PROVE  [Contract!Next]_(Contract!vars)
<1>1. ASSUME NEW r \in Requests, Commit(r) PROVE Contract!Next
  <2>1. CASE pc[r] = "opened"
    BY <1>1, <2>1, CommitOpens DEF Contract!Next
  <2>2. CASE pc[r] = "mark"
    BY <1>1, <2>2, CommitRotates DEF Contract!Next
  <2>3. CASE pc[r] = "tokens"
    BY <1>1, <2>3, CommitEnds DEF Contract!Next
  <2> QED BY <1>1, <2>1, <2>2, <2>3 DEF Commit
<1>2. ASSUME NEW r \in Requests, Serves(r), ~Commit(r) PROVE UNCHANGED Contract!vars
  BY <1>2, OnlyCommitWrites, ContractStutters
<1>3. CASE UNCHANGED vars \/ \E t \in Tokens : Expire(t)
  BY <1>3, ContractStutters DEF vars, Expire, dbVars
<1> QED BY <1>1, <1>2, <1>3 DEF Next, Serves

\* SessionTokens implements its contract: however statements interleave, fail
\* and roll back, every request is one step of SessionContract or none at all.
THEOREM ImplementsContract == Spec => KeepsContract
<1>1. Base /\ [Next]_vars => [Contract!Next]_(Contract!vars)
  BY ContractStep DEF Base
<1> QED BY <1>1, ContractInit, BaseInvariant, PTL DEF Spec, KeepsContract, Contract!Spec
=============================================================================
