---------------------------- MODULE SessionTokens ----------------------------
(***************************************************************************)
(* Sessions and refresh tokens: SessionService with its two repositories   *)
(* and the endpoints of identity/api.py that call it.                      *)
(*                                                                         *)
(* Every HTTP request is one PostgreSQL transaction at READ COMMITTED (the *)
(* default; database.py sets no other level), on the session get_db opens  *)
(* for it.  A step of a request is one awaited statement: between two      *)
(* statements any other request may run.  A SELECT sees the committed      *)
(* rows.  An UPDATE picks its rows from the committed snapshot, then takes *)
(* their row locks one after the other; a row locked by another request is *)
(* waited for, and tested again once the lock is free.  Rows another       *)
(* request inserts meanwhile are never picked.  Commit publishes the       *)
(* inserted and updated rows at once; every other way to leave the request *)
(* (an exception, a lost connection, a crash, being chosen as the victim   *)
(* of a deadlock) drops them, because the endpoint commits only after the  *)
(* service has returned.                                                   *)
(***************************************************************************)
EXTENDS Naturals

CONSTANTS
  Users,      \* accounts
  Sessions,   \* primary keys of identity.sessions
  Tokens,     \* primary keys of identity.refresh_tokens
  Requests,   \* HTTP requests, each served once
  Calls,      \* the endpoints each request may call: the bound of a check
  Lapsing,    \* tokens that may reach their expires_at: another bound
  Owner,      \* the user_id of every session row
  None        \* SQL NULL, an unknown id, an argument not given

ASSUME OwnerAssumption == Owner \in [Sessions -> Users]

ASSUME IdAssumption == Sessions \cap Tokens = {} /\ None \notin Sessions \cup Tokens

VARIABLES
  status,      \* committed rows: not inserted, live, or revoked_at set
  chain,       \* refresh_tokens.session_id of the committed tokens
  replacedBy,  \* refresh_tokens.replaced_by_token_id
  expired,     \* tokens whose expires_at has passed
  auditLog,    \* rows of audit.audit_logs written by these endpoints
  pc,          \* next statement of a request, or how it ended
  kind,        \* the endpoint the request called
  caller,      \* the session named by the jti of the caller's access token
  sid,         \* the session worked on; for logoutAll the one it spares
  tid,         \* the token presented to POST /auth/refresh
  fresh,       \* primary key of the refresh token row it will insert
  held,        \* rows it has updated and so keeps locked until it ends
  todo,        \* rows its running UPDATE has picked and not locked yet
  before       \* history only: the committed rows when the request arrived

dbVars  == <<status, chain, replacedBy, auditLog>>
argVars == <<kind, caller, tid, before>>
txnVars == <<pc, sid, fresh, held, todo>>
vars    == <<status, chain, replacedBy, expired, auditLog, pc, kind, caller,
             sid, tid, fresh, held, todo, before>>

-----------------------------------------------------------------------------
(* Types *)

Rows      == Sessions \cup Tokens
RowStatus == {"absent", "live", "revoked"}
Kinds     == {"none", "login", "refresh", "revoke", "logoutAll"}
Running   == {"opened", "lookup", "check", "mark", "read", "scan", "sessions", "tokens"}
Outcomes  == {"ok", "refused", "reused", "aborted"}

AuditRow == [request : Requests, event : {"logout", "session_revocation"},
             actor : Users, session : Sessions \cup {None}]

TypeOK ==
  /\ status \in [Rows -> RowStatus]
  /\ chain \in [Tokens -> Sessions \cup {None}]
  /\ replacedBy \in [Tokens -> Tokens \cup {None}]
  /\ expired \subseteq Tokens
  /\ auditLog \subseteq AuditRow
  /\ pc \in [Requests -> {"idle"} \cup Running \cup Outcomes]
  /\ kind \in [Requests -> Kinds]
  /\ caller \in [Requests -> Sessions \cup {None}]
  /\ sid \in [Requests -> Sessions \cup {None}]
  /\ tid \in [Requests -> Tokens \cup {None}]
  /\ fresh \in [Requests -> Tokens \cup {None}]
  /\ held \in [Requests -> SUBSET Rows]
  /\ todo \in [Requests -> SUBSET Rows]
  /\ before \in [Requests -> [Rows -> RowStatus]]

-----------------------------------------------------------------------------
(* Helpers *)

\* Ids a client can know: rows that have been committed.
Known(S) == {x \in S : status[x] # "absent"}

\* A primary key no committed or pending row has: what gen_random_uuid() returns.
Unused(x) ==
  /\ status[x] = "absent"
  /\ \A q \in Requests : pc[q] \in Running => x # fresh[q] /\ x # sid[q]

\* The rows a request will have inserted when it commits.
Inserted(r) == {fresh[r]} \cup (IF kind[r] = "login" THEN {sid[r]} ELSE {})

\* (slip: mark_replaced links the replacement but leaves revoked_at unset)
RevokedExceptRotated(r) == IF pc[r] = "mark" THEN {} ELSE held[r]

\* The rows its commit will have revoked: all it has updated.
Revoked(r) == held[r]

\* (slip: revoke_all_for_user forgets whose sessions it is asked for)
SessionInScopeAnyOwner(r, s) == IF kind[r] = "logoutAll" THEN s # sid[r] ELSE s = sid[r]

\* The sessions, and the refresh tokens, that a revocation is about.
SessionInScope(r, s) ==
  IF kind[r] = "logoutAll" THEN Owner[s] = Owner[caller[r]] /\ s # sid[r]
                           ELSE s = sid[r]
TokenInScope(r, t) == chain[t] # None /\ SessionInScope(r, chain[t])

\* No other request has an uncommitted update of the row.
Free(r, x) == \A q \in Requests \ {r} : x \notin held[q]

\* The UPDATE cannot go on: other requests have locked what it has left.
Waiting(r) == todo[r] # {} /\ \A x \in todo[r] : ~Free(r, x)

\* WHERE clause of the running UPDATE, tested again on the row as it is once
\* the lock is granted.  SessionRepository.revoke and mark_replaced select by
\* primary key alone; the bulk updates also ask for revoked_at IS NULL.
StillMatches(r, x) ==
  \/ status[x] = "live"
  \/ pc[r] = "mark"
  \/ pc[r] = "sessions" /\ kind[r] # "logoutAll"

-----------------------------------------------------------------------------
(* Arrival of a request.  Authentication only decodes the access token, so  *)
(* the caller's session may have been revoked in the meantime.              *)

Arrive(r, k, c, s, t, n, first) ==
  /\ pc[r] = "idle"
  /\ k \in Calls[r]
  /\ pc' = [pc EXCEPT ![r] = first]
  /\ kind' = [kind EXCEPT ![r] = k]
  /\ caller' = [caller EXCEPT ![r] = c]
  /\ sid' = [sid EXCEPT ![r] = s]
  /\ tid' = [tid EXCEPT ![r] = t]
  /\ fresh' = [fresh EXCEPT ![r] = n]
  /\ before' = [before EXCEPT ![r] = status]
  /\ UNCHANGED <<dbVars, expired, held, todo>>

\* Called when a sign-in knows its account.  start_session only inserts, the
\* session and its first refresh token: nobody waits for that or sees it
\* before the commit, which is all that is left to do.  The keys of the rows
\* are drawn on arrival, here and in BeginRefresh; that there are only so many
\* of them bounds how many requests are admitted.
BeginLogin(r) == \E s \in Sessions, n \in Tokens :
  /\ Unused(s)
  /\ Unused(n)
  /\ Arrive(r, "login", None, s, None, n, "opened")

BeginRefresh(r) == \E t \in Known(Tokens) \cup {None}, n \in Tokens :
  /\ Unused(n)
  /\ Arrive(r, "refresh", None, None, t, n, "lookup")

BeginRevoke(r) == \E c \in Known(Sessions), s \in Known(Sessions) \cup {None} :
  Arrive(r, "revoke", c, s, None, None, "read")

BeginLogoutAll(r) == \E c \in Known(Sessions), keepCurrent \in BOOLEAN :
  Arrive(r, "logoutAll", c, IF keepCurrent THEN c ELSE None, None, None, "scan")

Begin(r) == BeginLogin(r) \/ BeginRefresh(r) \/ BeginRevoke(r) \/ BeginLogoutAll(r)

-----------------------------------------------------------------------------
(* Leaving a request without a commit: the transaction is rolled back, its *)
(* locks are released and its rows forgotten.                              *)

\* (slip: the database session of a failed request is never closed)
FinishLeaking(r, outcome) ==
  /\ pc' = [pc EXCEPT ![r] = outcome]
  /\ fresh' = [fresh EXCEPT ![r] = None]
  /\ UNCHANGED <<dbVars, expired, argVars, sid, held, todo>>

Finish(r, outcome) ==
  /\ pc' = [pc EXCEPT ![r] = outcome]
  /\ held' = [held EXCEPT ![r] = {}]
  /\ todo' = [todo EXCEPT ![r] = {}]
  /\ fresh' = [fresh EXCEPT ![r] = None]
  /\ UNCHANGED <<dbVars, expired, argVars, sid>>

Advance(r, next) ==
  /\ pc' = [pc EXCEPT ![r] = next]
  /\ UNCHANGED <<dbVars, expired, argVars>>

-----------------------------------------------------------------------------
(* refresh *)

\* get_by_token_hash, and the three tests of the row it returned: an unknown
\* or expired token is refused, a revoked one starts the reuse cascade.
Lookup(r) ==
  /\ pc[r] = "lookup"
  /\ \/ /\ tid[r] = None
        /\ Finish(r, "refused")
     \/ /\ tid[r] # None
        /\ status[tid[r]] = "revoked"
        /\ sid' = [sid EXCEPT ![r] = chain[tid[r]]]
        /\ todo' = [todo EXCEPT ![r] = {chain[tid[r]]}]
        /\ Advance(r, "sessions")
        /\ UNCHANGED <<fresh, held>>
     \/ /\ tid[r] # None
        /\ status[tid[r]] # "revoked"
        /\ tid[r] \in expired
        /\ Finish(r, "refused")
     \/ /\ tid[r] # None
        /\ status[tid[r]] # "revoked"
        /\ tid[r] \notin expired
        /\ sid' = [sid EXCEPT ![r] = chain[tid[r]]]
        /\ Advance(r, "check")
        /\ UNCHANGED <<fresh, held, todo>>

\* (slip: a valid token is thought to be enough)
CheckSessionSkipped(r) ==
  /\ pc[r] = "check"
  /\ todo' = [todo EXCEPT ![r] = {tid[r]}]
  /\ Advance(r, "mark")
  /\ UNCHANGED <<sid, fresh, held>>

\* get_active_by_id(record.session_id), and create_refresh_token, which like
\* every insert is invisible; mark_replaced is next.
CheckSession(r) ==
  /\ pc[r] = "check"
  /\ \/ /\ status[sid[r]] = "live"
        /\ todo' = [todo EXCEPT ![r] = {tid[r]}]
        /\ Advance(r, "mark")
        /\ UNCHANGED <<sid, fresh, held>>
     \/ /\ status[sid[r]] # "live"
        /\ Finish(r, "refused")

-----------------------------------------------------------------------------
(* revoke_session and revoke_all_sessions *)

\* (slip: ensure_owner_or_not_found is left out)
ReadSessionAnyOwner(r) ==
  /\ pc[r] = "read"
  /\ sid[r] # None /\ status[sid[r]] = "live"
  /\ todo' = [todo EXCEPT ![r] = {sid[r]}]
  /\ Advance(r, "sessions")
  /\ UNCHANGED <<sid, fresh, held>>

\* get_active_by_id and ensure_owner_or_not_found: 404 unless the session is
\* live and the caller's own.
ReadSession(r) ==
  /\ pc[r] = "read"
  /\ LET mine == sid[r] # None /\ status[sid[r]] = "live" /\ Owner[sid[r]] = Owner[caller[r]]
     IN  \/ /\ mine
            /\ todo' = [todo EXCEPT ![r] = {sid[r]}]
            /\ Advance(r, "sessions")
            /\ UNCHANGED <<sid, fresh, held>>
         \/ /\ ~mine
            /\ Finish(r, "refused")

\* SessionRepository.revoke_all_for_user begins: the rows it will update.
ScanSessions(r) ==
  /\ pc[r] = "scan"
  /\ todo' = [todo EXCEPT ![r] = {s \in Sessions : status[s] = "live" /\ SessionInScope(r, s)}]
  /\ Advance(r, "sessions")
  /\ UNCHANGED <<sid, fresh, held>>

-----------------------------------------------------------------------------
(* The UPDATE statements *)

\* One row of the running UPDATE.
LockRow(r) ==
  \E x \in todo[r] :
    /\ Free(r, x)
    /\ todo' = [todo EXCEPT ![r] = @ \ {x}]
    /\ held' = [held EXCEPT ![r] = IF StillMatches(r, x) THEN @ \cup {x} ELSE @]
    /\ Advance(r, pc[r])
    /\ UNCHANGED <<sid, fresh>>

\* (slip: logging out everywhere revokes the caller's own tokens only)
ScanTokensOfCaller(r) ==
  /\ pc[r] = "sessions"
  /\ todo[r] = {}
  /\ todo' = [todo EXCEPT ![r] =
       {t \in Tokens : status[t] = "live" /\ TokenInScope(r, t) /\ chain[t] = caller[r]}]
  /\ Advance(r, "tokens")
  /\ UNCHANGED <<sid, fresh, held>>

\* The session rows are updated; the bulk update of the tokens begins
\* (revoke_all_for_session or revoke_all_for_user).
ScanTokens(r) ==
  /\ pc[r] = "sessions"
  /\ todo[r] = {}
  /\ todo' = [todo EXCEPT ![r] = {t \in Tokens : status[t] = "live" /\ TokenInScope(r, t)}]
  /\ Advance(r, "tokens")
  /\ UNCHANGED <<sid, fresh, held>>

\* refresh raises at the end of the cascade, so the endpoint never reaches
\* its commit and the cascade is rolled back.
RaiseReuse(r) ==
  /\ pc[r] = "tokens"
  /\ kind[r] = "refresh"
  /\ todo[r] = {}
  /\ Finish(r, "reused")

-----------------------------------------------------------------------------
(* Commit *)

\* The audit row revoke_session or revoke_all_sessions has added.
AuditOf(r) ==
  [request |-> r,
   event   |-> IF kind[r] = "revoke" /\ sid[r] = caller[r] THEN "logout" ELSE "session_revocation",
   actor   |-> Owner[caller[r]],
   session |-> IF kind[r] = "revoke" THEN sid[r] ELSE None]

Commit(r) ==
  /\ todo[r] = {}
  /\ pc[r] \in {"opened", "mark"} \/ (pc[r] = "tokens" /\ kind[r] # "refresh")
  /\ status' = [x \in Rows |-> IF x \in Revoked(r) THEN "revoked"
                               ELSE IF x \in Inserted(r) THEN "live" ELSE status[x]]
  /\ chain' = [t \in Tokens |-> IF t = fresh[r] THEN sid[r] ELSE chain[t]]
  /\ replacedBy' = [t \in Tokens |-> IF pc[r] = "mark" /\ t \in held[r] THEN fresh[r] ELSE replacedBy[t]]
  /\ auditLog' = IF pc[r] = "tokens" THEN auditLog \cup {AuditOf(r)} ELSE auditLog
  /\ pc' = [pc EXCEPT ![r] = "ok"]
  /\ held' = [held EXCEPT ![r] = {}]
  /\ UNCHANGED <<expired, argVars, sid, fresh, todo>>

-----------------------------------------------------------------------------
(* Failures, the deadlock detector, and time *)

\* Lost connection, failed statement, cancelled or crashed worker.
Abort(r) == pc[r] \in Running /\ Finish(r, "aborted")

\* A set of requests each of which only waits for rows the others hold.
Deadlocked(D) == \A q \in D :
  /\ Waiting(q)
  /\ \A x \in todo[q] : \E p \in D \ {q} : x \in held[p]

\* PostgreSQL ends one request of such a set with an error.
DeadlockVictim(r) ==
  /\ Waiting(r)
  /\ \E D \in SUBSET Requests : r \in D /\ Deadlocked(D)
  /\ Finish(r, "aborted")

Expire(t) ==
  /\ t \in (Known(Tokens) \cap Lapsing) \ expired
  /\ expired' = expired \cup {t}
  /\ UNCHANGED <<dbVars, argVars, txnVars>>

-----------------------------------------------------------------------------
(* Specification *)

Init ==
  /\ status = [x \in Rows |-> "absent"]
  /\ chain = [t \in Tokens |-> None]
  /\ replacedBy = [t \in Tokens |-> None]
  /\ expired = {}
  /\ auditLog = {}
  /\ pc = [r \in Requests |-> "idle"]
  /\ kind = [r \in Requests |-> "none"]
  /\ caller = [r \in Requests |-> None]
  /\ sid = [r \in Requests |-> None]
  /\ tid = [r \in Requests |-> None]
  /\ fresh = [r \in Requests |-> None]
  /\ held = [r \in Requests |-> {}]
  /\ todo = [r \in Requests |-> {}]
  /\ before = [r \in Requests |-> [x \in Rows |-> "absent"]]

\* A statement of the request itself.
Step(r) ==
  \/ Lookup(r) \/ CheckSession(r)
  \/ ReadSession(r) \/ ScanSessions(r) \/ LockRow(r) \/ ScanTokens(r)
  \/ RaiseReuse(r) \/ Commit(r)

Next ==
  \/ \E r \in Requests : Begin(r) \/ Step(r) \/ Abort(r) \/ DeadlockVictim(r)
  \/ \E t \in Tokens : Expire(t)

Spec == Init /\ [][Next]_vars

\* The event loop and the database keep working: while some request can take
\* a step one does, and deadlock_timeout always fires.  No request is promised
\* a turn of its own, and none is promised to be answered before it aborts.
FairSpec ==
  /\ Spec
  /\ WF_vars(\E r \in Requests : Step(r))
  /\ WF_vars(\E r \in Requests : DeadlockVictim(r))

-----------------------------------------------------------------------------
(* Properties *)

Succeeded(r) == pc[r] = "ok"

\* What was revoked before a request arrived is of no use to it: a refresh
\* succeeds only with a token that was not yet rotated or revoked, in a
\* session not yet revoked, and only a session not yet revoked can be revoked
\* (session_service.refresh, AC5; revoke_session, AC8 and AC10).  A rotation
\* racing a revocation can leave a live token in a revoked session; that it
\* is useless from then on is what this says.
RevokedIsUseless == \A r \in Requests : Succeeded(r) =>
  /\ kind[r] = "refresh" => /\ before[r][tid[r]] # "revoked"
                            /\ before[r][chain[tid[r]]] # "revoked"
  /\ kind[r] = "revoke"  => before[r][sid[r]] # "revoked"

\* When a revocation is answered with success, every session and every
\* refresh token it is about that was live when the request arrived is
\* revoked, whoever rotated, revoked or rolled back next to it
\* (revoke_session: the session and its chain, AC8; revoke_all_sessions, AC9).
RevocationComplete == \A r \in Requests :
  Succeeded(r) /\ kind[r] \in {"revoke", "logoutAll"} =>
    /\ \A s \in Sessions : SessionInScope(r, s) /\ before[r][s] = "live" => status[s] = "revoked"
    /\ \A t \in Tokens : TokenInScope(r, t) /\ before[r][t] = "live" => status[t] = "revoked"

\* The audit log and the sessions tell the same story: a session is revoked
\* exactly when its owner's revocation of it, or of all sessions, is on
\* record, and an entry about one session is about one of the actor's own
\* (AUTH-004 AC8: audit rows are part of the transaction they describe).
AuditExact ==
  /\ \A s \in Sessions : status[s] = "revoked" =>
       \E e \in auditLog : e.actor = Owner[s] /\ e.session \in {s, None}
  /\ \A e \in auditLog : e.session # None =>
       status[e.session] = "revoked" /\ Owner[e.session] = e.actor

\* A token that names its replacement can no longer be used, and the
\* replacement is a committed token of the same session: the rotation chain
\* that the reuse cascade relies on (mark_replaced).
ChainSound == \A t \in Tokens : replacedBy[t] # None =>
  /\ status[t] = "revoked"
  /\ status[replacedBy[t]] # "absent"
  /\ chain[replacedBy[t]] = chain[t]

\* Nothing committed is ever undone: a revoked row stays revoked, a row stays
\* in the table and a token in its session, and an audit row is never lost.
CommittedIsFinal == [][
  /\ \A x \in Rows : /\ status[x] = "revoked" => status'[x] = "revoked"
                     /\ status[x] # "absent" => status'[x] # "absent"
  /\ \A t \in Tokens : status[t] # "absent" => chain'[t] = chain[t]
  /\ auditLog \subseteq auditLog']_vars

\* Every request that arrives is answered: no request waits for a row for
\* ever, also when two revocations lock the same rows in opposite orders.
EveryRequestEnds == \A r \in Requests : pc[r] # "idle" ~> pc[r] \in Outcomes

\* What refresh's docstring says of the cascade: "the entire session (and
\* every refresh token in its chain) is revoked in response, not just this
\* one call rejected".  The code does not do it: see RaiseReuse.
ReuseRevokesSession == \A r \in Requests :
  pc[r] = "reused" => status[chain[tid[r]]] = "revoked"
=============================================================================
