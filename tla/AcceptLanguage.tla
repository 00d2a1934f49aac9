---------------------------- MODULE AcceptLanguage ----------------------------
(***************************************************************************)
(* CustomerService._resolve_default_language: the language of a new        *)
(* customer from the Accept-Language header.  A header is the sequence of  *)
(* its entries, each with its language tag and what follows "q=", in       *)
(* tenths; Malformed stands for what float() refuses.  (float() also takes *)
(* "nan", which has no place in an order: it is left out.)                 *)
(***************************************************************************)
EXTENDS Naturals, Sequences, FiniteSets

Malformed == 99
LanguageCode == {"en", "ar"}
PrimarySubtag == [en |-> "en", ar |-> "ar", ar_AE |-> "ar", fr |-> "fr"]

Header == Seq([tag: DOMAIN PrimarySubtag, q: 0..10 \cup {Malformed}])

Weighted(header) ==
  [i \in DOMAIN header |-> [tag |-> PrimarySubtag[header[i].tag],
                            q   |-> IF header[i].q = Malformed THEN 10 ELSE header[i].q]]

\* (slip: the sort is not stable where reverse=True meets equal weights)
BeforeReversed(w, i, j) == w[i].q > w[j].q \/ (w[i].q = w[j].q /\ i > j)
\* weighted.sort(key=..., reverse=True) keeps the order of equal weights.
Before(w, i, j) == w[i].q > w[j].q \/ (w[i].q = w[j].q /\ i < j)
Sorted(w) == [k \in DOMAIN w |->
  w[CHOOSE i \in DOMAIN w : Cardinality({j \in DOMAIN w : Before(w, j, i)}) = k - 1]]

resolve_default_language(header) ==
  LET ranked == Sorted(Weighted(header))
      known  == {k \in DOMAIN ranked : ranked[k].tag \in LanguageCode}
  IN  IF known = {} THEN "en" ELSE ranked[CHOOSE k \in known : \A l \in known : k <= l].tag

\* The answer asked for: a supported language that no entry asks for more, or
\* as much and earlier; English when none is supported.
Best(header, answer) ==
  LET w == Weighted(header)
      supported == {i \in DOMAIN w : w[i].tag \in LanguageCode}
  IN  IF supported = {} THEN answer = "en"
      ELSE \E i \in supported :
             w[i].tag = answer /\ \A j \in supported \ {i} :
               w[j].q < w[i].q \/ (w[j].q = w[i].q /\ i < j)
===============================================================================
