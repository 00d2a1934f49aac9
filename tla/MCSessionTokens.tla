--------------------------- MODULE MCSessionTokens ---------------------------
(* Constants for checking SessionTokens: who owns which session row. *)
EXTENDS SessionTokensInv, TLC

CONSTANTS u1, u2, s1, s2, r1, r2, r3

OneOwner  == [s \in Sessions |-> u1]
TwoOwners == s1 :> u1 @@ s2 :> u2

\* Every request may call every endpoint.
AnyCall == [r \in Requests |-> Kinds]

\* Two sign-ins, then requests that can block each other.
Contention == [r \in Requests |-> IF r \in {r1, r2} THEN {"login"}
                                  ELSE IF r = r3 THEN {"logoutAll"}
                                  ELSE {"logoutAll", "revoke", "refresh"}]

\* Requests run the same code, and token ids are interchangeable.
Interchangeable == Permutations(Requests) \cup Permutations(Tokens)
=============================================================================
