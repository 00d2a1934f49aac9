------------------------------- MODULE MCSignIn -------------------------------
(* Constants for checking SignIn: which request calls what. *)
EXTENDS SignInInv, TLC

CONSTANT r1

\* One request can only ask for a code, without which there is little to do by
\* phone; the others may call every endpoint.
AnyCall == [r \in Requests |-> IF r = r1 THEN {"requestOtp"} ELSE {"requestOtp", "otp", "oauth"}]

\* One code is requested, everybody else signs in with it.
OneCode == [r \in Requests |-> IF r = r1 THEN {"requestOtp"} ELSE {"otp"}]

\* Every token names the one e-mail there is; those who sign in by phone have
\* none.
SharedEmail == [i \in Subjects |-> Emails]

\* The others run the same code; subjects and devices are only compared.
Interchangeable == Permutations(Requests \ {r1}) \cup Permutations(Subjects) \cup Permutations(Devices)
=============================================================================
