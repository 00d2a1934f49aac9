-------------------------- MODULE SessionTokensInv --------------------------
(***************************************************************************)
(* The inductive invariant of SessionTokens.  The properties do not carry   *)
(* themselves from one step to the next: a commit publishes what a request  *)
(* has gathered over several statements, so what it may have gathered at    *)
(* each of them is part of the invariant.                                   *)
(***************************************************************************)
EXTENDS SessionTokens

\* Whoever revokes something named a session that exists in its access token.
CallerKnown == \A r \in Requests : kind[r] \in {"revoke", "logoutAll"} => caller[r] \in Sessions

\* A committed token belongs to a committed session.
TokensHaveSessions == \A t \in Tokens : status[t] # "absent" =>
  chain[t] \in Sessions /\ status[chain[t]] # "absent"

\* A running request is the only one with its new keys, and nothing is
\* committed under them.
KeysAreFresh == \A r \in Requests : pc[r] \in Running =>
  /\ fresh[r] # None => /\ status[fresh[r]] = "absent"
                        /\ \A q \in Requests \ {r} : pc[q] \in Running => fresh[q] # fresh[r]
  /\ kind[r] = "login" => /\ sid[r] \in Sessions
                          /\ status[sid[r]] = "absent"
                          /\ \A q \in Requests \ {r} : pc[q] \in Running => sid[q] # sid[r]

\* What a request has locked, and has still to lock, at each of its statements.
RowsOf(r) == held[r] \cup todo[r]

Idle(r) == held[r] = {} /\ todo[r] = {}

Phase(r) ==
  /\ pc[r] \in {"idle", "opened", "lookup", "check", "read", "scan"} \cup Outcomes => Idle(r)
  /\ pc[r] = "opened" => kind[r] = "login"
  /\ pc[r] \in {"lookup", "check", "mark"} => kind[r] = "refresh"
  /\ pc[r] \in {"opened", "lookup", "check", "mark"} => fresh[r] \in Tokens
  /\ kind[r] \in {"revoke", "logoutAll"} => fresh[r] = None
  /\ pc[r] = "lookup" /\ tid[r] # None => status[tid[r]] # "absent"
  /\ pc[r] \in {"check", "mark"} =>
       tid[r] \in Tokens /\ status[tid[r]] # "absent" /\ sid[r] = chain[tid[r]]
  /\ pc[r] = "mark" => RowsOf(r) = {tid[r]}
  /\ pc[r] = "read" => kind[r] = "revoke"
  /\ pc[r] = "scan" => kind[r] = "logoutAll"
  /\ pc[r] \in {"sessions", "tokens"} => kind[r] \in {"refresh", "revoke", "logoutAll"}
  /\ pc[r] = "sessions" =>
       RowsOf(r) \subseteq {s \in Sessions : status[s] # "absent" /\ SessionInScope(r, s)}
  /\ pc[r] = "tokens" =>
       /\ held[r] \cap Sessions \subseteq {s \in Sessions : status[s] # "absent" /\ SessionInScope(r, s)}
       /\ RowsOf(r) \cap Tokens \subseteq {t \in Tokens : status[t] # "absent" /\ TokenInScope(r, t)}
       /\ todo[r] \subseteq Tokens
  /\ pc[r] \in {"sessions", "tokens"} /\ kind[r] = "revoke" =>
       sid[r] \in RowsOf(r) \cap Sessions /\ Owner[sid[r]] = Owner[caller[r]]

\* What was committed when a request arrived still is.
HistoryKept == \A r \in Requests, x \in Rows :
  /\ before[r][x] = "revoked" => status[x] = "revoked"
  /\ before[r][x] = "live" => status[x] \in {"live", "revoked"}

\* RevokedIsUseless, said of a request before it is done.
Usable(r) ==
  /\ kind[r] = "refresh" /\ pc[r] \in {"check", "mark", "ok"} =>
       tid[r] \in Tokens /\ status[tid[r]] # "absent" /\ before[r][tid[r]] # "revoked"
  /\ kind[r] = "refresh" /\ pc[r] \in {"mark", "ok"} => before[r][chain[tid[r]]] # "revoked"
  /\ kind[r] = "revoke" /\ pc[r] \in {"sessions", "tokens", "ok"} =>
       sid[r] \in Sessions /\ before[r][sid[r]] # "revoked"

\* RevocationComplete, said of a request before it is done: what it has not
\* found revoked it has locked or is about to lock.
SessionsCovered(r, S) == \A s \in Sessions :
  SessionInScope(r, s) /\ before[r][s] = "live" => status[s] = "revoked" \/ s \in S
TokensCovered(r, T) == \A t \in Tokens :
  TokenInScope(r, t) /\ before[r][t] = "live" => status[t] = "revoked" \/ t \in T

Covered(r) == kind[r] \in {"revoke", "logoutAll"} =>
  /\ pc[r] = "sessions" => SessionsCovered(r, RowsOf(r))
  /\ pc[r] = "tokens" => SessionsCovered(r, held[r]) /\ TokensCovered(r, RowsOf(r))
  /\ pc[r] = "ok" => SessionsCovered(r, {}) /\ TokensCovered(r, {})

\* The part every other one rests on.
Shape == TokensHaveSessions /\ KeysAreFresh /\ \A r \in Requests : Phase(r)

IInv ==
  /\ TypeOK
  /\ CallerKnown
  /\ Shape
  /\ ChainSound
  /\ AuditExact
  /\ HistoryKept
  /\ \A r \in Requests : Usable(r) /\ Covered(r)

-----------------------------------------------------------------------------
(* Refinement *)

\* The committed rows are the sessions and tokens of the contract.
Contract == INSTANCE SessionContract WITH
  sessions <- [s \in Sessions |-> status[s]],
  tokens   <- [t \in Tokens |-> status[t]],
  session  <- chain,
  log      <- {[actor |-> e.actor, session |-> e.session] : e \in auditLog}

\* However the statements of requests interleave, block, fail and are rolled
\* back, sessions are opened, rotated and ended as if each request were one step
\* (get_db and the endpoints' commits make a transaction of every request).
KeepsContract == Contract!Spec
=============================================================================
