------------------------------ MODULE MCKeyCache ------------------------------
(* Values for model-checking KeyCache. *)
EXTENDS KeyCache, TLC

CONSTANTS v1, v2

\* The provider adds a key, then withdraws the first.
MCKeySets == 0 :> [k1 |-> "a"] @@ 1 :> [k1 |-> "a", k2 |-> "b"] @@ 2 :> [k2 |-> "b"]

Token(kid, key, audience) ==
  [kid |-> kid, key |-> key, issuer |-> "provider", audience |-> audience, fresh |-> TRUE,
   subject |-> TRUE]
MCTokens ==
  {Token("k1", "a", {"app"}), Token("k2", "b", {"app"}), Token("k2", "b", {"other"}),
   Token("k1", "b", {"app"}), Token("k3", "c", {"app"}), Token(None, "a", {"app"})}
===============================================================================
