---------------------------- MODULE MCClientSession ----------------------------
(* Constants for checking ClientSession: which task does what. *)
EXTENDS ClientSessionInv, TLC

CONSTANTS start, login, other

\* The app is started, the user signs in, perhaps twice at once, and then
\* anything happens.
Anything == [q \in Tasks |->
  CASE q = start -> {"restore"}
    [] q = login -> {"signIn"}
    [] q = other -> {"restore", "signIn", "request", "logout"}
    [] OTHER     -> {"restore", "request", "logout"}]

\* Nothing but requests once the user has signed in.
Requests == [q \in Tasks |->
  CASE q = start -> {"restore"}
    [] q = login -> {"signIn"}
    [] OTHER     -> {"request"}]

AnyFault == {"network", "kill", "elsewhere"}
NoFault  == {}

==============================================================================
