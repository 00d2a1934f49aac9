--------------------------- MODULE SessionContract ---------------------------
(***************************************************************************)
(* What the session component promises to the rest of the system: sign-ins *)
(* open sessions, rotations hand a session's token on, and revocations end *)
(* sessions of the account that asked, on the record; each of them happens *)
(* at once or not at all.  The statements, the row locks and the rollbacks *)
(* by which SessionTokens does it are not seen here.                       *)
(***************************************************************************)
CONSTANTS Users, Sessions, Tokens, Owner, None

VARIABLES
  sessions,  \* each session: absent, live or revoked
  tokens,    \* each refresh token likewise
  session,   \* the session each token belongs to
  log        \* who ended which session, or all of them (None)

vars == <<sessions, tokens, session, log>>

Init ==
  /\ sessions = [s \in Sessions |-> "absent"]
  /\ tokens = [t \in Tokens |-> "absent"]
  /\ session = [t \in Tokens |-> None]
  /\ log = {}

\* A sign-in: a new session with its first token.
Open(s, t) ==
  /\ sessions[s] = "absent" /\ tokens[t] = "absent"
  /\ sessions' = [sessions EXCEPT ![s] = "live"]
  /\ tokens' = [tokens EXCEPT ![t] = "live"]
  /\ session' = [session EXCEPT ![t] = s]
  /\ UNCHANGED log

\* A rotation: one token is spent and another takes its place in the session.
Rotate(t, n) ==
  /\ tokens[t] # "absent" /\ tokens[n] = "absent"
  /\ tokens' = [tokens EXCEPT ![t] = "revoked", ![n] = "live"]
  /\ session' = [session EXCEPT ![n] = session[t]]
  /\ UNCHANGED <<sessions, log>>

\* A revocation by u of the session s, or with None of any number of sessions:
\* nothing ends but u's, and never without its record.
End(u, s) ==
  \E S \in SUBSET Sessions, T \in SUBSET Tokens :
    /\ s # None => S = {s}
    /\ \A x \in S : sessions[x] # "absent" /\ Owner[x] = u
    /\ \A t \in T : /\ tokens[t] # "absent" /\ session[t] \in Sessions /\ Owner[session[t]] = u
                    /\ s # None => session[t] = s
    /\ sessions' = [x \in Sessions |-> IF x \in S THEN "revoked" ELSE sessions[x]]
    /\ tokens' = [t \in Tokens |-> IF t \in T THEN "revoked" ELSE tokens[t]]
    /\ log' = log \cup {[actor |-> u, session |-> s]}
    /\ UNCHANGED session

Next ==
  \/ \E s \in Sessions, t \in Tokens : Open(s, t)
  \/ \E t, n \in Tokens : Rotate(t, n)
  \/ \E u \in Users, s \in Sessions \cup {None} : End(u, s)

Spec == Init /\ [][Next]_vars
=============================================================================
