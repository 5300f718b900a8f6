----------------------------- MODULE LoopTheorems -----------------------------
(***************************************************************************)
(* What the proofs need to know of numbers 1 .. N and of loops over them:  *)
(* a set of them has a least and a greatest member, and a loop that stays  *)
(* in a set has its results.                                               *)
(***************************************************************************)
EXTENDS Integers, FiniteSetsExt, FiniteSetTheorems, WellFoundedInduction, TLAPS

\* The least of some numbers is one of them, and no other is below it.
LEMMA MinIsMember ==
  ASSUME NEW n \in Nat, NEW S \in SUBSET (1 .. n), S # {}
  PROVE  Min(S) \in S /\ \A y \in S : Min(S) <= y
<1> DEFINE Below(x) == 1 .. x
           T == {Below(x) : x \in S}
           R == StrictSubsetOrdering(1 .. n)
<1>1. IsWellFoundedOn(R, FiniteSubsetsOf(1 .. n))
  BY FS_StrictSubsetOrderingWellFounded
<1>2. T \subseteq FiniteSubsetsOf(1 .. n)
  <2>1. ASSUME NEW x \in S PROVE Below(x) \in FiniteSubsetsOf(1 .. n)
    <3>1. 1 .. x \subseteq 1 .. n
      OBVIOUS
    <3>2. IsFiniteSet(1 .. x)
      BY FS_Interval
    <3> QED
      BY <3>1, <3>2 DEF FiniteSubsetsOf
  <2> QED
    BY <2>1
<1>3. T # {}
  OBVIOUS
<1> HIDE DEF T, R
<1>4. \E X \in T : \A Y \in T : <<Y, X>> \notin R
  BY <1>1, <1>2, <1>3, WFMin
<1>5. PICK x \in S : \A y \in S : <<Below(y), Below(x)>> \notin R
  BY <1>4 DEF T
<1>6. ASSUME NEW y \in S PROVE x =< y
  <2> SUFFICES ASSUME y < x PROVE FALSE
    OBVIOUS
  <2>1. 1 .. y \subseteq 1 .. n /\ 1 .. x \subseteq 1 .. n /\ 1 .. y \subseteq 1 .. x
    OBVIOUS
  <2>2. x \in 1 .. x /\ x \notin 1 .. y
    OBVIOUS
  <2>3. 1 .. y # 1 .. x
    BY <2>2
  <2>4. <<1 .. y, 1 .. x>> \in R
    BY <2>1, <2>3 DEF R, StrictSubsetOrdering
  <2> QED
    BY <1>5, <2>4
<1> QED
  BY <1>6 DEF Min

\* The least of some numbers is the one that no other is below.
LEMMA MinIs ==
  ASSUME NEW n \in Nat, NEW S \in SUBSET (1 .. n), NEW k \in S, \A j \in S : k <= j
  PROVE  Min(S) = k
<1> DEFINE m == Min(S)
<1>1. m \in S /\ m <= k
  BY MinIsMember
<1>2. m \in 1 .. n /\ k \in 1 .. n /\ k <= m
  BY <1>1
<1> HIDE DEF m
<1>3. m = k
  BY <1>1, <1>2
<1> QED
  BY <1>3 DEF m

\* The greatest of some numbers is one of them, and no other is above it.
LEMMA MaxIsMember ==
  ASSUME NEW n \in Nat, NEW S \in SUBSET (1 .. n), S # {}
  PROVE  Max(S) \in S /\ \A y \in S : y <= Max(S)
<1> DEFINE T == {(n + 1) - x : x \in S}
<1>1. T \in SUBSET (1 .. n) /\ T # {}
  <2>1. \A x \in S : (n + 1) - x \in 1 .. n
    OBVIOUS
  <2> QED
    BY <2>1
<1> HIDE DEF T
<1>2. PICK x \in S : \A y \in T : (n + 1) - x <= y
  <2>1. Min(T) \in T /\ \A y \in T : Min(T) <= y
    BY <1>1, MinIsMember
  <2>2. PICK x \in S : Min(T) = (n + 1) - x
    BY <2>1 DEF T
  <2> QED
    BY <2>1, <2>2
<1>3. \A y \in S : x >= y
  <2> SUFFICES ASSUME NEW y \in S PROVE x >= y
    OBVIOUS
  <2>1. (n + 1) - y \in T
    BY DEF T
  <2>2. (n + 1) - x <= (n + 1) - y
    BY <1>2, <2>1
  <2> QED
    BY <2>2
<1>4. \E m \in S : \A y \in S : m >= y
  BY <1>3
<1>5. Max(S) \in S /\ \A y \in S : Max(S) >= y
  BY <1>4 DEF Max
<1> QED
  BY <1>5

\* A property of 0 that every number hands on to the next is a property of all.  (The
\* rule of induction takes an operator as a parameter, which the provers cannot.)
LEMMA Climb ==
  ASSUME NEW N \in Nat, NEW G \in SUBSET (0 .. N), 0 \in G,
         \A n \in 1 .. N : n - 1 \in G => n \in G
  PROVE  G = 0 .. N
<1> DEFINE B == (1 .. N) \ G
<1>1. B = {} => G = 0 .. N
  <2> SUFFICES ASSUME B = {}, NEW i \in 0 .. N PROVE i \in G
    OBVIOUS
  <2> QED
    BY i = 0 \/ i \in 1 .. N
<1>2. CASE B # {}
  <2>1. B \in SUBSET (1 .. N)
    OBVIOUS
  <2> HIDE DEF B
  <2>2. PICK k \in B : \A j \in B : k <= j
    BY <2>1, <1>2, MinIsMember
  <2>3. k \in 1 .. N /\ k \notin G
    BY <2>2 DEF B
  <2>4. k - 1 \in 0 .. N /\ k - 1 \notin B
    BY <2>1, <2>2, <2>3
  <2>5. k - 1 \in G
    BY <2>4 DEF B
  <2> QED
    BY <2>3, <2>5
<1> QED
  BY <1>1, <1>2

\* The results of a loop over 1 .. N that begins with c: round n makes F[<<d, n>>] of d.
IsLoop(g, N, c, F) == g[0] = c /\ \A n \in 1 .. N : g[n] = F[<<g[n - 1], n>>]

\* A loop that stays in a set has its results.
LEMMA LoopExists ==
  ASSUME NEW N \in Nat, NEW D, NEW c \in D, NEW F \in [D \X (1 .. N) -> D]
  PROVE  \E g \in [0 .. N -> D] : IsLoop(g, N, c, F)
<1> DEFINE Upto(m, g) == g \in [0 .. m -> D] /\ g[0] = c /\ \A n \in 1 .. m : g[n] = F[<<g[n - 1], n>>]
           G == {m \in 0 .. N : \E g \in [0 .. m -> D] : Upto(m, g)}
<1>1. 0 \in G
  <2> DEFINE h == [i \in 0 .. 0 |-> c]
  <2>1. h \in [0 .. 0 -> D] /\ h[0] = c
    OBVIOUS
  <2> HIDE DEF h
  <2>2. Upto(0, h)
    BY <2>1
  <2> QED
    BY <2>1, <2>2
<1>2. ASSUME NEW m \in 1 .. N, m - 1 \in G PROVE m \in G
  <2>1. PICK g \in [0 .. m - 1 -> D] : Upto(m - 1, g)
    BY <1>2
  <2>2. F[<<g[m - 1], m>>] \in D
    <3>1. g[m - 1] \in D
      BY <2>1
    <3> QED
      BY <3>1
  <2> DEFINE h == [i \in 0 .. m |-> IF i = m THEN F[<<g[m - 1], m>>] ELSE g[i]]
  <2>3. h \in [0 .. m -> D]
    <3>1. ASSUME NEW i \in 0 .. m PROVE (IF i = m THEN F[<<g[m - 1], m>>] ELSE g[i]) \in D
      <4>1. CASE i = m
        BY <2>2, <4>1
      <4>2. CASE i # m
        <5>1. i \in 0 .. m - 1
          BY <4>2
        <5> QED
          BY <2>1, <4>2, <5>1
      <4> QED
        BY <4>1, <4>2
    <3> QED
      BY <3>1
  <2>4. /\ h[m] = F[<<g[m - 1], m>>]
        /\ \A i \in 0 .. m - 1 : h[i] = g[i]
    OBVIOUS
  <2> HIDE DEF h
  <2>5. h[0] = c
    BY <2>1, <2>4
  <2>6. ASSUME NEW n \in 1 .. m PROVE h[n] = F[<<h[n - 1], n>>]
    <3>1. h[n - 1] = g[n - 1]
      BY <2>4
    <3>2. CASE n = m
      BY <2>4, <3>1, <3>2
    <3>3. CASE n # m
      <4>1. n \in 1 .. m - 1 /\ h[n] = g[n]
        BY <2>4, <3>3
      <4> QED
        BY <2>1, <3>1, <4>1
    <3> QED
      BY <3>2, <3>3
  <2> QED
    BY <2>3, <2>5, <2>6
<1> HIDE DEF Upto
<1>3. G \in SUBSET (0 .. N)
  OBVIOUS
<1> HIDE DEF G
<1>4. G = 0 .. N
  BY <1>1, <1>2, <1>3, Climb
<1> QED
  BY <1>4 DEF G, Upto, IsLoop
===============================================================================
