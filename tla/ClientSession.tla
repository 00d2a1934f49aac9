----------------------------- MODULE ClientSession -----------------------------
(***************************************************************************)
(* The mobile client's session: AuthInterceptor, AuthSessionController,    *)
(* SecureTokenStorage, and the screens that restore, start and end a       *)
(* session, against the token endpoints of the backend.                    *)
(*                                                                         *)
(* A task is one asynchronous call chain of the client: the start of the   *)
(* app, a sign-in, a logout, or a request of some screen.  The client runs *)
(* on one isolate, so a step of a task is what happens between two awaits. *)
(* Each task is issued at most one token pair, so a pair is named by the   *)
(* task it is issued to, and a session of the server by the task that      *)
(* signed in.  The server's part is what SessionTokens shows of it: a      *)
(* refresh is decided by what is committed when it looks the token up, and *)
(* rotates the token later, when it commits.                               *)
(***************************************************************************)
EXTENDS Naturals, Sequences

CONSTANTS
  Tasks,    \* what the client ever does
  Does,     \* the kinds of task each may be: the bound of a check
  Faults,   \* what may go wrong: "network", "kill", "elsewhere"; another bound
  None      \* no token pair, no session

ASSUME NoneAssumption == None \notin Tasks

VARIABLES
  live,       \* server: pairs whose refresh token is not revoked
  session,    \* server: the session of a pair
  over,       \* server: revoked sessions
  lapsed,     \* pairs whose access token has expired
  memory,     \* authSessionProvider
  storage,    \* the pair in secure storage
  pending,    \* writes the storage has not carried out
  screen,     \* where the user is
  mounted,    \* tasks started on the screen that is showing
  pc,         \* what a task awaits, or how it ended
  kind,       \* what it is
  sent,       \* the pair whose access token its request carried
  presented,  \* the pair whose refresh token it presented
  lost,       \* history only: rotated pairs whose replacement went missing
  crossed,    \* history only: tasks that ran while another one did
  failed,     \* history only: tasks that met a failure
  out         \* history only: logged out, and not signing in since

serverVars  == <<live, session, over, lapsed>>
clientVars  == <<memory, storage, pending, screen, mounted>>
taskVars    == <<pc, kind, sent, presented>>
historyVars == <<lost, crossed, failed, out>>
vars == <<live, session, over, lapsed, memory, storage, pending, screen, mounted,
          pc, kind, sent, presented, lost, crossed, failed, out>>

-----------------------------------------------------------------------------
(* Types *)

Pair    == Tasks \cup {None}
Write   == [by : Tasks, pair : Pair]
Waiting == {"sent", "signing", "asking", "rotating", "answered", "saving", "retrying",
            "clearing", "out", "leaving"}
Ended   == {"done", "failed", "killed"}

TypeOK ==
  /\ live \subseteq Tasks /\ over \subseteq Tasks /\ lapsed \subseteq Tasks
  /\ session \in [Tasks -> Pair]
  /\ memory \in Pair /\ storage \in Pair
  /\ pending \in Seq(Write)
  /\ screen \in {"splash", "auth", "home"}
  /\ mounted \subseteq Tasks
  /\ pc \in [Tasks -> {"idle"} \cup Waiting \cup Ended]
  /\ kind \in [Tasks -> {"none", "restore", "signIn", "request", "logout"}]
  /\ sent \in [Tasks -> Pair]
  /\ presented \in [Tasks -> Pair]
  /\ lost \subseteq Tasks /\ crossed \subseteq Tasks /\ failed \subseteq Tasks
  /\ out \in BOOLEAN

-----------------------------------------------------------------------------
(* Helpers *)

Busy == {q \in Tasks : pc[q] \in Waiting}

\* (slip: a refresh also asks for an access token that has not expired)
UsableUnlapsed(p) == p \in live /\ session[p] \notin over /\ p \notin lapsed

\* The refresh token is unrevoked and so is its session.
Usable(p) == p \in live /\ session[p] \notin over

\* (slip: a write overtakes the ones before it)
KeepUnordered(q, p) ==
  /\ memory' = p
  /\ pending' = <<[by |-> q, pair |-> p]>> \o pending
  /\ UNCHANGED <<storage, screen, mounted>>

\* The pair is kept, and its writing to the storage begins: setSession, clear.
Keep(q, p) ==
  /\ memory' = p
  /\ pending' = Append(pending, [by |-> q, pair |-> p])
  /\ UNCHANGED <<storage, screen, mounted>>

Go(q, next) == pc' = [pc EXCEPT ![q] = next]

Start(q, k, p, first) ==
  /\ pc[q] = "idle"
  /\ k \in Does[q]
  /\ Go(q, first)
  /\ kind' = [kind EXCEPT ![q] = k]
  /\ sent' = [sent EXCEPT ![q] = p]
  /\ crossed' = IF Busy = {} THEN crossed ELSE crossed \cup Busy \cup {q}
  /\ UNCHANGED <<serverVars, lost, failed>>

-----------------------------------------------------------------------------
(* Tasks begin *)

\* The splash screen: without a persisted session on to the sign-in, with one
\* a silent refresh first.
Restore(q) ==
  /\ screen = "splash"
  /\ \A p \in Busy : kind[p] # "restore"
  /\ Start(q, "restore", None, IF storage = None THEN "done" ELSE "asking")
  /\ presented' = [presented EXCEPT ![q] = storage]
  /\ screen' = IF storage = None THEN "auth" ELSE "splash"
  /\ UNCHANGED <<memory, storage, pending, mounted, out>>

\* verify-otp, google or apple.  Each screen refuses a second one while its
\* own is in flight; the two screens know nothing of each other.
SignIn(q) ==
  /\ screen = "auth"
  /\ Start(q, "signIn", None, "signing")
  /\ mounted' = mounted \cup {q}
  /\ out' = FALSE
  /\ UNCHANGED <<memory, storage, pending, screen, presented>>

\* A screen calls a repository: onRequest attaches the access token in memory.
Request(q) ==
  /\ screen = "home"
  /\ Start(q, "request", memory, "sent")
  /\ mounted' = mounted \cup {q}
  /\ UNCHANGED <<memory, storage, pending, screen, presented, out>>

\* DELETE /auth/sessions/{id} of the session in memory, if there is one.
Logout(q) ==
  /\ screen = "home"
  /\ Start(q, "logout", memory, IF memory = None THEN "out" ELSE "sent")
  /\ mounted' = mounted \cup {q}
  /\ UNCHANGED <<memory, storage, pending, screen, presented, out>>

-----------------------------------------------------------------------------
(* The server *)

Serve(q) ==
  /\ pc[q] \in {"sent", "retrying"}
  /\ pc[q] = "sent" => sent[q] \notin lapsed \cup {None}
  /\ Go(q, IF kind[q] = "logout" THEN "out" ELSE "done")
  /\ over' = IF kind[q] = "logout" THEN over \cup {session[sent[q]]} ELSE over
  /\ UNCHANGED <<live, session, lapsed, clientVars, kind, sent, presented, historyVars>>

\* A sign-in opens a session with its first pair.
Admit(q) ==
  /\ pc[q] = "signing"
  /\ session' = [session EXCEPT ![q] = q]
  /\ live' = live \cup {q}
  /\ Go(q, "answered")
  /\ UNCHANGED <<over, lapsed, clientVars, kind, sent, presented, historyVars>>

Accept(q) ==
  /\ pc[q] = "asking"
  /\ Usable(presented[q])
  /\ Go(q, "rotating")
  /\ UNCHANGED <<serverVars, clientVars, kind, sent, presented, historyVars>>

Rotate(q) ==
  /\ pc[q] = "rotating"
  /\ session' = [session EXCEPT ![q] = session[presented[q]]]
  /\ live' = (live \ {presented[q]}) \cup {q}
  /\ Go(q, "answered")
  /\ UNCHANGED <<over, lapsed, clientVars, kind, sent, presented, historyVars>>

\* The access token of a pair expires: 15 minutes.
Lapse(p) ==
  /\ session[p] # None
  /\ p \notin lapsed
  /\ lapsed' = lapsed \cup {p}
  /\ UNCHANGED <<live, session, over, clientVars, taskVars, historyVars>>

\* The session is revoked from another device, or its refresh token expires.
EndElsewhere(p) ==
  /\ "elsewhere" \in Faults
  /\ session[p] = p
  /\ p \notin over
  /\ over' = over \cup {p}
  /\ UNCHANGED <<live, session, lapsed, clientVars, taskVars, historyVars>>

-----------------------------------------------------------------------------
(* AuthInterceptor, and the callers of the repository *)

\* The request has failed: its caller shows an error, a logout goes on.
GiveUp(q) == Go(q, IF kind[q] = "logout" THEN "out" ELSE "failed")

\* onError on a 401: the refresh token now in memory is presented.
Unauthorized(q) ==
  /\ pc[q] = "sent"
  /\ sent[q] \in lapsed \cup {None}
  /\ IF memory = None
       THEN GiveUp(q) /\ UNCHANGED presented
       ELSE Go(q, "asking") /\ presented' = [presented EXCEPT ![q] = memory]
  /\ UNCHANGED <<serverVars, clientVars, kind, sent, historyVars>>

\* (slip: the write is not awaited)
SetSessionUnawaited(q) ==
  /\ pc[q] = "answered"
  /\ kind[q] = "signIn" => q \in mounted
  /\ Keep(q, q)
  /\ Go(q, "retrying")
  /\ UNCHANGED <<serverVars, kind, sent, presented, historyVars>>

\* The new pair is set by the interceptor, by the splash screen, or by the
\* sign-in screen if it is still showing.
SetSession(q) ==
  /\ pc[q] = "answered"
  /\ kind[q] = "signIn" => q \in mounted
  /\ Keep(q, q)
  /\ Go(q, "saving")
  /\ UNCHANGED <<serverVars, kind, sent, presented, historyVars>>

\* The user leaves the code entry screen.
Leave(q) ==
  /\ kind[q] = "signIn"
  /\ pc[q] \in {"signing", "answered", "saving"}
  /\ q \in mounted
  /\ mounted' = mounted \ {q}
  /\ UNCHANGED <<serverVars, memory, storage, pending, screen, taskVars, historyVars>>

\* A sign-in whose screen the user has left meanwhile is dropped.
Unmounted(q) ==
  /\ pc[q] = "answered"
  /\ kind[q] = "signIn" /\ q \notin mounted
  /\ GiveUp(q)
  /\ UNCHANGED <<serverVars, clientVars, kind, sent, presented, historyVars>>

\* The refresh is rejected: the session is cleared.
Refused(q) ==
  /\ pc[q] = "asking"
  /\ ~Usable(presented[q])
  /\ Keep(q, None)
  /\ Go(q, "clearing")
  /\ UNCHANGED <<serverVars, kind, sent, presented, historyVars>>

\* No answer, or one of another status.  Before the refresh the caller gets
\* the error; from then on any failure, also of the retried request, is
\* caught as one of the refresh.
Fails(q) ==
  /\ "network" \in Faults
  /\ pc[q] \in {"sent", "signing", "asking", "rotating", "answered", "retrying"}
  /\ failed' = failed \cup {q}
  /\ lost' = IF pc[q] = "answered" THEN lost \cup ({presented[q]} \ {None}) ELSE lost
  /\ IF pc[q] = "sent" \/ kind[q] = "signIn"
       THEN GiveUp(q) /\ UNCHANGED clientVars
       ELSE Keep(q, None) /\ Go(q, "clearing")
  /\ UNCHANGED <<serverVars, kind, sent, presented, crossed, out>>

\* (slip: only the storage is cleared)
ClearOnLogoutStored(q) ==
  /\ pc[q] = "out"
  /\ pending' = Append(pending, [by |-> q, pair |-> None])
  /\ Go(q, "leaving")
  /\ UNCHANGED <<memory, storage, screen, mounted, serverVars, kind, sent, presented, historyVars>>

\* The logout's own clear, whatever became of its request.
ClearOnLogout(q) ==
  /\ pc[q] = "out"
  /\ Keep(q, None)
  /\ Go(q, "leaving")
  /\ UNCHANGED <<serverVars, kind, sent, presented, historyVars>>

-----------------------------------------------------------------------------
(* Storage, and the screens that wait for it *)

\* (slip: onError forgets to call its handler once it has cleared the session)
AfterUnhandled(q) ==
  CASE pc[q] = "saving" /\ kind[q] \in {"request", "logout"} -> "retrying"
    [] pc[q] = "clearing" -> IF kind[q] = "restore" THEN "failed" ELSE "clearing"
    [] OTHER -> "done"

\* What a task does once its write is carried out.
After(q) ==
  CASE pc[q] = "saving" /\ kind[q] \in {"request", "logout"} -> "retrying"
    [] pc[q] = "clearing" /\ kind[q] = "logout" -> "out"
    [] pc[q] = "clearing" /\ kind[q] # "logout" -> "failed"
    [] OTHER -> "done"

\* Only the screen that is still showing navigates.
Leads(q) ==
  CASE kind[q] = "restore" -> IF pc[q] = "saving" THEN "home" ELSE "auth"
    [] kind[q] = "signIn" /\ q \in mounted -> "home"
    [] pc[q] = "leaving" /\ q \in mounted -> "auth"
    [] OTHER -> screen

Stored ==
  /\ pending # <<>>
  /\ LET q == Head(pending).by
     IN  /\ storage' = Head(pending).pair
         /\ pending' = Tail(pending)
         /\ Go(q, After(q))
         /\ screen' = Leads(q)
         /\ mounted' = IF screen' = screen THEN mounted ELSE {}
         /\ out' = (out \/ pc[q] = "leaving")
  /\ UNCHANGED <<serverVars, memory, kind, sent, presented, lost, crossed, failed>>

\* The app is killed and started again.  Writes under way are lost with the
\* memory; a refresh on its way may still be carried out by the server.
Kill ==
  /\ "kill" \in Faults
  /\ \E S \in SUBSET {presented[q] : q \in {p \in Tasks : pc[p] \in {"asking", "rotating"}}} :
       /\ live' = live \ S
       /\ lost' = lost \cup S \cup
            ({presented[q] : q \in {p \in Tasks : pc[p] \in {"answered", "saving"}}} \ {None})
  /\ memory' = None
  /\ pending' = <<>>
  /\ screen' = "splash"
  /\ mounted' = {}
  /\ pc' = [q \in Tasks |-> IF q \in Busy THEN "killed" ELSE pc[q]]
  /\ UNCHANGED <<session, over, lapsed, storage, kind, sent, presented, crossed, failed, out>>

-----------------------------------------------------------------------------
(* Specification *)

Init ==
  /\ live = {} /\ over = {} /\ lapsed = {}
  /\ session = [q \in Tasks |-> None]
  /\ memory = None /\ storage = None /\ pending = <<>>
  /\ screen = "splash" /\ mounted = {}
  /\ pc = [q \in Tasks |-> "idle"]
  /\ kind = [q \in Tasks |-> "none"]
  /\ sent = [q \in Tasks |-> None]
  /\ presented = [q \in Tasks |-> None]
  /\ lost = {} /\ crossed = {} /\ failed = {} /\ out = FALSE

Begin(q) == Restore(q) \/ SignIn(q) \/ Request(q) \/ Logout(q)

Step(q) ==
  \/ Serve(q) \/ Admit(q) \/ Accept(q) \/ Rotate(q)
  \/ Unauthorized(q) \/ SetSession(q) \/ Unmounted(q) \/ Refused(q)
  \/ ClearOnLogout(q)

Next ==
  \/ \E q \in Tasks : Begin(q) \/ Step(q) \/ Fails(q) \/ Leave(q) \/ Lapse(q) \/ EndElsewhere(q)
  \/ Stored
  \/ Kill

Spec == Init /\ [][Next]_vars

\* The event loop runs every task that can go on; a server that does not
\* answer is made a failure by the timeouts of the HTTP client; the storage
\* carries out what it is given.
FairSpec ==
  /\ Spec
  /\ \A q \in Tasks : WF_vars(Step(q) \/ Fails(q))
  /\ WF_vars(Stored)

-----------------------------------------------------------------------------
(* Properties *)

\* What the storage will hold once it has carried out every write.
Settled == IF pending = <<>> THEN storage ELSE pending[Len(pending)].pair

\* Memory and storage agree as soon as the writes are carried out, whichever
\* tasks set and cleared the session in whatever order (AuthSessionController,
\* "the single place a session change is applied").
InSync == screen # "splash" => Settled = memory

\* A pair the client would present is good for a refresh, as far as the
\* client can know: if its refresh token has been rotated, the replacement
\* is on its way to where the pair is kept, or went missing.
UnderWay(p, at) == \E q \in Tasks : presented[q] = p /\ pc[q] \in at
Fresh ==
  /\ memory # None => memory \in live \cup lost \/ UnderWay(memory, {"answered"})
  /\ storage # None => storage \in live \cup lost \/ UnderWay(storage, {"answered", "saving"})

\* What it takes to be signed out against one's will: a session that ended on
\* the server, a lost answer, a failure, or another task that ran meanwhile.
SignedOutForCause == \A q \in Tasks : pc[q] = "clearing" =>
  \/ session[presented[q]] \in over
  \/ presented[q] \in lost
  \/ q \in failed \cup crossed

\* Every task ends: no screen waits for ever.
EveryTaskEnds == \A q \in Tasks : pc[q] \in Waiting ~> pc[q] \in Ended

\* A logout that no other task overlaps is final: only a silent refresh that
\* was in flight beside one, and is answered after it, can bring a session back
\* (AuthRepository.logout: it "must always be possible locally").
LoggedOutStays == out /\ memory # None => \E q \in crossed : kind[q] = "logout"

\* What AuthInterceptor's comment says of the silent refresh: an access token
\* that expires "never forces the user back to the auth flow".  Of two
\* requests that find it expired, the one that presents the same refresh
\* token later clears the session the other has renewed.
KeepsSession == \A q \in Tasks : pc[q] = "clearing" =>
  \/ session[presented[q]] \in over
  \/ presented[q] \in lost
  \/ q \in failed
=============================================================================
