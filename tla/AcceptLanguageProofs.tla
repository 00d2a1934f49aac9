------------------------- MODULE AcceptLanguageProofs -------------------------
(***************************************************************************)
(* The language resolved is the one asked for, whatever the header.  The   *)
(* entries' ranks are a bijection onto 0..n-1, since a strict total order  *)
(* on a finite set gives no two elements the same number of predecessors.  *)
(***************************************************************************)
EXTENDS AcceptLanguage, FiniteSetTheorems, TLAPS

TotalOrder(R, S) ==
  /\ \A i \in S : <<i, i>> \notin R
  /\ \A i, j \in S : i # j => <<i, j>> \in R \/ <<j, i>> \in R
  /\ \A i, j, k \in S : <<i, j>> \in R /\ <<j, k>> \in R => <<i, k>> \in R
Rank(R, S, i) == Cardinality({j \in S : <<j, i>> \in R})
AllRanks(R, S) == \A m \in Nat : m < Cardinality(S) => \E i \in S : Rank(R, S, i) = m

\* Ranks follow the order, and each from 0 to n-1 is somebody's.
LEMMA Ranks ==
  ASSUME NEW S, IsFiniteSet(S), NEW R, TotalOrder(R, S)
  PROVE  /\ \A i, j \in S : <<i, j>> \in R => Rank(R, S, i) < Rank(R, S, j)
         /\ \A i \in S : Rank(R, S, i) \in Nat /\ Rank(R, S, i) < Cardinality(S)
         /\ AllRanks(R, S)
<1> DEFINE P(i) == {j \in S : <<j, i>> \in R}
           n == Cardinality(S)
<1>1. n \in Nat BY FS_CardinalityType
<1>2. ASSUME NEW i \in S PROVE IsFiniteSet(P(i)) /\ Cardinality(P(i)) \in Nat /\ Cardinality(P(i)) < n
  <2>1. P(i) \subseteq S /\ i \in S /\ i \notin P(i) BY DEF TotalOrder
  <2>2. IsFiniteSet(P(i)) /\ Cardinality(P(i)) <= n /\ (n = Cardinality(P(i)) => S = P(i))
    BY <2>1, FS_Subset
  <2>3. Cardinality(P(i)) \in Nat BY <2>2, FS_CardinalityType
  <2> QED BY <1>1, <2>1, <2>2, <2>3
<1>3. ASSUME NEW i \in S, NEW j \in S, <<i, j>> \in R PROVE Cardinality(P(i)) < Cardinality(P(j))
  <2>1. P(i) \subseteq P(j) /\ i \in P(j) /\ i \notin P(i) BY <1>3 DEF TotalOrder
  <2>2. Cardinality(P(i)) <= Cardinality(P(j)) /\ (Cardinality(P(j)) = Cardinality(P(i)) => P(j) = P(i))
    BY <1>2, <2>1, FS_Subset
  <2>3. P(j) # P(i) BY <2>1
  <2>4. Cardinality(P(i)) \in Nat /\ Cardinality(P(j)) \in Nat BY <1>2
  <2> HIDE DEF P
  <2> QED BY <2>2, <2>3, <2>4
<1> DEFINE f == [i \in S |-> Cardinality(P(i))]
<1> HIDE DEF P, n
<1>4. \A i \in S : Cardinality(P(i)) \in 0..(n - 1) BY <1>1, <1>2
<1>5. f \in Injection(S, 0..(n - 1))
  <2>1. f \in [S -> 0..(n - 1)] BY <1>4
  <2>2. ASSUME NEW i \in S, NEW j \in S, f[i] = f[j] PROVE i = j
    <3>1. Cardinality(P(i)) \in Nat /\ Cardinality(P(j)) \in Nat /\ Cardinality(P(i)) = Cardinality(P(j)) BY <1>2, <2>2
    <3>2. <<i, j>> \notin R
      <4>1. <<i, j>> \in R => Cardinality(P(i)) < Cardinality(P(j)) BY <1>3
      <4> QED BY <3>1, <4>1
    <3>3. <<j, i>> \notin R
      <4>1. <<j, i>> \in R => Cardinality(P(j)) < Cardinality(P(i)) BY <1>3
      <4> QED BY <3>1, <4>1
    <3> QED BY <3>2, <3>3 DEF TotalOrder
  <2> QED BY <2>1, <2>2 DEF Injection, IsInjective
<1>6. IsFiniteSet(0..(n - 1)) /\ Cardinality(0..(n - 1)) = n
  BY <1>1, FS_Interval
<1>7. f \in Surjection(S, 0..(n - 1))
  <2>1. Cardinality(S) = Cardinality(0..(n - 1)) BY <1>6 DEF n
  <2> QED BY <1>5, <1>6, <2>1, FS_Injection
<1>8. \A m \in 0..(n - 1) : \E i \in S : f[i] = m BY <1>7 DEF Surjection
<1>9. \A i \in S : f[i] = Rank(R, S, i) BY DEF P, Rank
<1>10. \A i \in S : Rank(R, S, i) = Cardinality(P(i)) BY DEF P, Rank
<1>11. \A m \in Nat : m < n => \E i \in S : Rank(R, S, i) = m
  <2>1. \A m \in Nat : m < n => m \in 0..(n - 1) BY <1>1
  <2> QED BY <1>8, <1>9, <2>1
<1>12. \A i \in S : Rank(R, S, i) \in Nat /\ Rank(R, S, i) < n BY <1>2, <1>10
<1>13. \A i, j \in S : <<i, j>> \in R => Rank(R, S, i) < Rank(R, S, j) BY <1>3, <1>10
<1> QED BY <1>11, <1>12, <1>13 DEF n, AllRanks

LEMMA Least ==
  ASSUME NEW K, IsFiniteSet(K), K \subseteq Nat, K # {}
  PROVE  \E k \in K : \A l \in K : k <= l
<1> DEFINE R == {p \in K \X K : p[1] < p[2]}
<1>1. \A i, j \in K : <<i, j>> \in R <=> i < j OBVIOUS
<1> HIDE DEF R
<1>2. TotalOrder(R, K) BY <1>1 DEF TotalOrder
<1>3. Cardinality(K) \in Nat /\ Cardinality(K) # 0 BY FS_CardinalityType, FS_EmptySet
<1>4. 0 < Cardinality(K) BY <1>3
<1>5. PICK k \in K : Rank(R, K, k) = 0
  <2>1. AllRanks(R, K) BY <1>2, Ranks, Zenon
  <2> QED BY <1>4, <2>1 DEF AllRanks
<1>6. ASSUME NEW l \in K, l < k PROVE FALSE
  <2>1. Rank(R, K, l) < Rank(R, K, k) BY <1>1, <1>2, <1>6, Ranks
  <2>2. Rank(R, K, l) \in Nat BY <1>2, <1>3, Ranks
  <2> QED BY <1>5, <2>1, <2>2
<1> QED BY <1>6

\* A stable sort by weight followed by the first supported tag finds the
\* supported language no entry asks for more, or as much and earlier.
THEOREM ResolvesAsAsked ==
  ASSUME NEW header \in Header
  PROVE  /\ Best(header, resolve_default_language(header))
         /\ resolve_default_language(header) \in LanguageCode
<1> DEFINE D == DOMAIN header
           w == Weighted(header)
           R == {p \in D \X D : Before(w, p[1], p[2])}
           ranked == Sorted(w)
           known == {k \in DOMAIN ranked : ranked[k].tag \in LanguageCode}
           Pos(k) == CHOOSE i \in D : Rank(R, D, i) = k - 1
<1>1. Len(header) \in Nat /\ D = 1..Len(header) BY DEF Header
<1>2. IsFiniteSet(D) /\ Cardinality(D) = Len(header)
  <2>1. IsFiniteSet(1..Len(header)) /\ Cardinality(1..Len(header)) = Len(header)
    <3>1. PICK n \in Nat : n = Len(header) BY <1>1
    <3>2. IsFiniteSet(1..n) /\ Cardinality(1..n) = n BY FS_Interval
    <3> QED BY <3>1, <3>2
  <2> QED BY <1>1, <2>1
<1>3. DOMAIN w = D /\ \A i \in D : w[i].q \in Nat
  <2>1. PICK E : E = [tag: DOMAIN PrimarySubtag, q: 0..10 \cup {Malformed}] OBVIOUS
  <2>2. header \in Seq(E) BY <2>1 DEF Header
  <2>3. \A i \in 1..Len(header) : header[i] \in E BY <2>2
  <2>4. \A i \in D : header[i] \in [tag: DOMAIN PrimarySubtag, q: 0..10 \cup {Malformed}] BY <1>1, <2>1, <2>3
  <2>5. \A i \in D : header[i].q \in 0..10 \cup {Malformed} BY <2>4
  <2>6. \A i \in D : w[i].q = IF header[i].q = Malformed THEN 10 ELSE header[i].q BY DEF Weighted
  <2> QED BY <2>5, <2>6 DEF Weighted
<1> HIDE DEF w
<1>4. \A i, j \in D : <<i, j>> \in R <=> w[i].q > w[j].q \/ (w[i].q = w[j].q /\ i < j)
  BY DEF Before
<1>5. TotalOrder(R, D)
  <2>1. D \subseteq Nat BY <1>1
  <2> HIDE DEF D, R
  <2> QED BY <1>3, <1>4, <2>1 DEF TotalOrder
<1>6. \A i \in D : {j \in DOMAIN w : Before(w, j, i)} = {j \in D : <<j, i>> \in R} BY <1>3
<1>7. \A i \in D : Cardinality({j \in DOMAIN w : Before(w, j, i)}) = Rank(R, D, i) BY <1>6 DEF Rank
<1>8. DOMAIN ranked = D /\ \A k \in D : ranked[k] = w[CHOOSE i \in DOMAIN w : Cardinality({j \in DOMAIN w : Before(w, j, i)}) = k - 1]
  BY <1>3 DEF Sorted
<1>9. \A k \in D : (CHOOSE i \in DOMAIN w : Cardinality({j \in DOMAIN w : Before(w, j, i)}) = k - 1) = Pos(k)
  BY <1>3, <1>7
<1>10. \A k \in D : ranked[k] = w[Pos(k)] BY <1>8, <1>9
<1>11. \A k \in D : Pos(k) \in D /\ Rank(R, D, Pos(k)) = k - 1
  <2> TAKE k \in D
  <2>1. k - 1 \in Nat /\ k - 1 < Cardinality(D) BY <1>1, <1>2
  <2>2. AllRanks(R, D) BY <1>2, <1>5, Ranks, Zenon
  <2>3. \E i \in D : Rank(R, D, i) = k - 1 BY <2>1, <2>2 DEF AllRanks
  <2> QED BY <2>3
<1>12. \A i \in D : Rank(R, D, i) + 1 \in D /\ Rank(R, D, i) \in Nat
  <2> TAKE i \in D
  <2>1. Rank(R, D, i) \in Nat /\ Rank(R, D, i) < Cardinality(D) BY <1>2, <1>5, Ranks
  <2> QED BY <1>1, <1>2, <2>1
<1>13. \A i, j \in D : <<i, j>> \in R => Rank(R, D, i) < Rank(R, D, j) BY <1>2, <1>5, Ranks
<1>14. \A i \in D : Pos(Rank(R, D, i) + 1) = i
  <2> TAKE i \in D
  <2>1. PICK j : j = Pos(Rank(R, D, i) + 1) OBVIOUS
  <2>2. j \in D /\ Rank(R, D, j) = Rank(R, D, i) BY <1>11, <1>12, <2>1
  <2>3. Rank(R, D, i) \in Nat BY <1>12
  <2> HIDE DEF R, D
  <2>4. j = i
    <3>1. <<i, j>> \notin R /\ <<j, i>> \notin R
      <4>1. <<i, j>> \in R => Rank(R, D, i) < Rank(R, D, j) BY <1>13, <2>2
      <4>2. <<j, i>> \in R => Rank(R, D, j) < Rank(R, D, i) BY <1>13, <2>2
      <4> QED BY <2>2, <2>3, <4>1, <4>2
    <3> QED BY <1>5, <2>2, <3>1 DEF TotalOrder
  <2> QED BY <2>1, <2>4
<1> DEFINE supported == {i \in D : w[i].tag \in LanguageCode}
<1> HIDE DEF D, R, Pos, ranked
<1>15. known = {k \in D : w[Pos(k)].tag \in LanguageCode} BY <1>8, <1>10
<1>16. resolve_default_language(header) = IF known = {} THEN "en" ELSE ranked[CHOOSE k \in known : \A l \in known : k <= l].tag
  BY DEF resolve_default_language, w, ranked
<1>17. Best(header, resolve_default_language(header)) <=>
         IF supported = {} THEN resolve_default_language(header) = "en"
         ELSE \E i \in supported :
                w[i].tag = resolve_default_language(header) /\ \A j \in supported \ {i} :
                  w[j].q < w[i].q \/ (w[j].q = w[i].q /\ i < j)
  BY <1>3 DEF Best, w
<1>18. CASE known = {}
  <2>1. supported = {}
    <3> SUFFICES ASSUME NEW i \in supported PROVE FALSE OBVIOUS
    <3>1. Rank(R, D, i) + 1 \in known BY <1>12, <1>14, <1>15
    <3> QED BY <3>1, <1>18
  <2> QED BY <2>1, <1>16, <1>17, <1>18 DEF LanguageCode
<1>19. CASE known # {}
  <2>1. known \subseteq D /\ D \subseteq Nat BY <1>1, <1>15
  <2>2. \E k \in known : \A l \in known : k <= l
    <3>1. IsFiniteSet(known) BY <1>2, <2>1, FS_Subset
    <3> HIDE DEF known
    <3> QED BY <1>19, <2>1, <3>1, Least
  <2>3. PICK k : k = CHOOSE m \in known : \A l \in known : m <= l OBVIOUS
  <2>4. k \in known /\ \A l \in known : k <= l BY <2>2, <2>3
  <2>5. k \in D /\ Pos(k) \in D /\ w[Pos(k)].tag \in LanguageCode /\ Rank(R, D, Pos(k)) = k - 1
    BY <1>11, <1>15, <2>4
  <2>6. resolve_default_language(header) = w[Pos(k)].tag
    BY <1>10, <1>16, <1>19, <2>3, <2>5
  <2>7. ASSUME NEW j \in supported \ {Pos(k)}
        PROVE  w[j].q < w[Pos(k)].q \/ (w[j].q = w[Pos(k)].q /\ Pos(k) < j)
    <3>1. j \in D /\ Rank(R, D, j) + 1 \in known BY <1>12, <1>14, <1>15
    <3>2. k <= Rank(R, D, j) + 1 BY <2>4, <3>1
    <3>3. <<j, Pos(k)>> \notin R
      <4>1. Rank(R, D, j) \in Nat /\ k \in Nat BY <1>12, <2>1, <2>5, <3>1
      <4>2. <<j, Pos(k)>> \in R => Rank(R, D, j) < Rank(R, D, Pos(k)) BY <1>13, <2>5, <3>1
      <4> QED BY <2>5, <3>2, <4>1, <4>2
    <3>4. <<Pos(k), j>> \in R BY <1>5, <2>5, <3>1, <3>3 DEF TotalOrder
    <3>5. w[Pos(k)].q > w[j].q \/ (w[Pos(k)].q = w[j].q /\ Pos(k) < j) BY <1>4, <2>5, <3>1, <3>4
    <3>6. w[Pos(k)].q \in Nat /\ w[j].q \in Nat BY <1>3, <2>5, <3>1
    <3> QED BY <3>5, <3>6
  <2>8. Pos(k) \in supported BY <2>5
  <2> HIDE DEF supported
  <2> QED BY <1>17, <2>5, <2>6, <2>7, <2>8
<1> QED BY <1>18, <1>19
===============================================================================
