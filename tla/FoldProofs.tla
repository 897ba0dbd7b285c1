----------------------------- MODULE FoldProofs -----------------------------
(***************************************************************************)
(* Induction and folds for the proofs about operators on data, as facts    *)
(* about sets and functions, without an operator as a parameter: the       *)
(* provers can use them for a definition that goes through a sequence.     *)
(***************************************************************************)
EXTENDS Integers, FiniteSetsExt, WellFoundedInduction, NaturalsInduction, TLAPS

-----------------------------------------------------------------------------
(***************************************************************************)
(* Induction, as facts about sets of numbers.                              *)
(***************************************************************************)

\* A set of natural numbers has a least element.
LEMMA LeastNumber ==
    ASSUME NEW S \in SUBSET Nat, S # {}
    PROVE  \E m \in S : \A k \in S : m <= k
<1>1. IsWellFoundedOn(OpToRel(<, Nat), Nat)
  BY NatLessThanWellFounded
<1>2. \E m \in S : \A k \in S : ~(<<k, m>> \in OpToRel(<, Nat))
  BY <1>1, WFMin, Zenon
<1>3. \A k, m \in Nat : k < m => <<k, m>> \in OpToRel(<, Nat)
  BY DEF OpToRel
<1>4. \E m \in S : \A k \in S : ~(k < m)
  BY <1>2, <1>3, Zenon
<1> QED
  BY <1>4

\* A set that 0 is in, and every number up to n with the one before, has them all.
LEMMA Induction ==
    ASSUME NEW n \in Nat, NEW A, 0 \in A, \A k \in 0..n : k < n /\ k \in A => k + 1 \in A
    PROVE  \A k \in 0..n : k \in A
<1> DEFINE S == {k \in 0..n : k \notin A}
<1> SUFFICES ASSUME S # {} PROVE FALSE
  OBVIOUS
<1>1. PICK m \in S : \A k \in S : m <= k
  <2>1. S \in SUBSET Nat
    OBVIOUS
  <2> HIDE DEF S
  <2> QED
    BY <2>1, LeastNumber
<1>2. m \in 0..n /\ m # 0 /\ m - 1 \notin S
  BY <1>1
<1>3. m - 1 \in 0..n /\ m - 1 \in A /\ m - 1 < n
  BY <1>2
<1>4. m \in A
  <2>1. (m - 1) + 1 \in A
    BY <1>3
  <2> QED
    BY <1>2, <2>1
<1> QED
  BY <1>4

\* The least and the largest of some numbers.
LEMMA MinOf ==
    ASSUME NEW A \in SUBSET Nat, A # {}
    PROVE  Min(A) \in A /\ \A y \in A : Min(A) <= y
  BY LeastNumber DEF Min

\* Of some numbers with a limit.
LEMMA MaxOf ==
    ASSUME NEW n \in Nat, NEW A \in SUBSET (0..n), A # {}
    PROVE  Max(A) \in A /\ \A y \in A : Max(A) >= y
<1> DEFINE S == {k \in 0..n : n - k \in A}
<1>1. S \in SUBSET Nat /\ \A y \in A : n - y \in S
  OBVIOUS
<1>2. PICK m \in S : \A k \in S : m <= k
  <2>1. S # {}
    BY <1>1
  <2> HIDE DEF S
  <2> QED
    BY <1>1, <2>1, LeastNumber
<1>3. n - m \in A /\ m \in 0..n
  OBVIOUS
<1>4. \A y \in A : n - m >= y
  <2> HIDE DEF S
  <2> QED
    BY <1>1, <1>2, <1>3
<1>5. \E x \in A : \A y \in A : x >= y
  BY <1>3, <1>4
<1> QED
  BY <1>5 DEF Max

\* Of two numbers, the larger.
LEMMA MaxOfTwo ==
    ASSUME NEW a \in Int, NEW b \in Int
    PROVE  Max({a, b}) \in {a, b} /\ Max({a, b}) >= a /\ Max({a, b}) >= b
<1>1. \E x \in {a, b} : \A y \in {a, b} : x >= y
  OBVIOUS
<1> QED
  BY <1>1 DEF Max

\* Of two numbers, the smaller.
LEMMA MinOfTwo ==
    ASSUME NEW a \in Int, NEW b \in Int
    PROVE  Min({a, b}) \in {a, b} /\ Min({a, b}) <= a /\ Min({a, b}) <= b
<1>1. \E x \in {a, b} : \A y \in {a, b} : x <= y
  OBVIOUS
<1> QED
  BY <1>1 DEF Min

-----------------------------------------------------------------------------
(***************************************************************************)
(* Folds.  FoldLeft defines a function of all sets of places; F gives for  *)
(* every place what is done there to what was made so far.                 *)
(***************************************************************************)

\* The last place of the first i is i, and without it the first i - 1 are left.
LEMMA Initial ==
    ASSUME NEW i \in Nat, i # 0
    PROVE  Max(1..i) = i /\ (1..i) \ {i} = 1..(i - 1) /\ 1..i # {}
<1>1. Max(1..i) \in 1..i /\ \A y \in 1..i : Max(1..i) >= y
  <2>1. 1..i \in SUBSET (0..i) /\ i \in 1..i
    OBVIOUS
  <2> QED
    BY <2>1, MaxOf
<1> QED
  BY <1>1

\* A function of the sets of n places made by F.
IsFold(g, n, base, F) ==
    /\ g[{}] = base
    /\ \A s \in SUBSET (1..n) : s # {} => g[s] = F[Max(s)][g[s \ {Max(s)}]]

\* A run from base to end through n places.
IsRun(r, n, base, F, end) ==
    r[0] = base /\ r[n] = end /\ \A i \in 1..n : r[i] = F[i][r[i - 1]]

\* There is such a function.
LEMMA FoldExists ==
    ASSUME NEW n \in Nat, NEW S, NEW base \in S, NEW F \in [1..n -> [S -> S]]
    PROVE  \E g \in [SUBSET (1..n) -> S] : IsFold(g, n, base, F)
<1> USE DEF IsFold
<1> DEFINE Eq(g, k) == IsFold(g, k, base, F)
           A == {k \in 0..n : \E g \in [SUBSET (1..k) -> S] : Eq(g, k)}
<1>1. 0 \in A
  <2> DEFINE g == [s \in SUBSET (1..0) |-> base]
  <2>1. \A s \in SUBSET (1..0) : s = {}
    OBVIOUS
  <2>2. g \in [SUBSET (1..0) -> S] /\ g[{}] = base
    OBVIOUS
  <2> HIDE DEF g
  <2>3. Eq(g, 0)
    BY <2>1, <2>2
  <2>4. 0 \in 0..n
    OBVIOUS
  <2> HIDE DEF Eq
  <2> QED
    BY <2>2, <2>3, <2>4
<1>2. ASSUME NEW k \in 0..n, k < n, k \in A PROVE k + 1 \in A
  <2>1. PICK g \in [SUBSET (1..k) -> S] : Eq(g, k)
    BY <1>2
  <2> DEFINE h == [s \in SUBSET (1..k + 1) |->
                      IF k + 1 \in s THEN F[k + 1][g[s \ {k + 1}]] ELSE g[s]]
  <2>2. ASSUME NEW s \in SUBSET (1..k + 1) PROVE s \ {k + 1} \in SUBSET (1..k)
    BY <1>2
  <2>3. ASSUME NEW s \in SUBSET (1..k + 1), k + 1 \in s PROVE Max(s) = k + 1
    <3>1. s \in SUBSET (0..k + 1) /\ s # {} /\ k + 1 \in Nat
      BY <2>3
    <3>2. Max(s) \in s /\ \A y \in s : Max(s) >= y
      BY <3>1, MaxOf
    <3>3. Max(s) \in 1..k + 1 /\ Max(s) >= k + 1
      BY <2>3, <3>2
    <3> QED
      BY <3>1, <3>3
  <2>4. k + 1 \in 1..n /\ F[k + 1] \in [S -> S]
    BY <1>2
  <2>5. h \in [SUBSET (1..k + 1) -> S]
    <3>1. ASSUME NEW s \in SUBSET (1..k + 1)
          PROVE  (IF k + 1 \in s THEN F[k + 1][g[s \ {k + 1}]] ELSE g[s]) \in S
      <4>1. g[s \ {k + 1}] \in S
        BY <2>2
      <4>2. k + 1 \notin s => s \ {k + 1} = s
        OBVIOUS
      <4> QED
        BY <2>4, <4>1, <4>2
    <3> QED
      BY <3>1
  <2>6. ASSUME NEW s \in SUBSET (1..k + 1), s # {} PROVE h[s] = F[Max(s)][h[s \ {Max(s)}]]
    <3>1. CASE k + 1 \in s
      <4>1. s \ {k + 1} \in SUBSET (1..k + 1) /\ k + 1 \notin s \ {k + 1}
        OBVIOUS
      <4>2. h[s \ {k + 1}] = g[s \ {k + 1}]
        BY <4>1
      <4>3. h[s] = F[k + 1][g[s \ {k + 1}]]
        BY <3>1
      <4> QED
        BY <2>3, <3>1, <4>2, <4>3
    <3>2. CASE k + 1 \notin s
      <4>1. s \in SUBSET (1..k) /\ k \in Nat
        BY <2>2, <3>2
      <4>2. Max(s) \in s
        <5>1. s \in SUBSET (0..k)
          BY <4>1
        <5> QED
          BY <2>6, <4>1, <5>1, MaxOf
      <4>3. s \ {Max(s)} \in SUBSET (1..k + 1) /\ k + 1 \notin s \ {Max(s)}
        BY <3>2
      <4>4. g[s] = F[Max(s)][g[s \ {Max(s)}]]
        BY <2>1, <2>6, <4>1
      <4> QED
        BY <3>2, <4>3, <4>4
    <3> QED
      BY <3>1, <3>2
  <2>7. h[{}] = base
    BY <2>1
  <2>8. Eq(h, k + 1)
    <3> HIDE DEF h
    <3> QED
      BY <2>6, <2>7
  <2>9. k + 1 \in 0..n
    BY <1>2
  <2> HIDE DEF h, Eq
  <2> QED
    BY <2>5, <2>8, <2>9
<1>3. n \in A
  <2> HIDE DEF A
  <2>1. \A k \in 0..n : k \in A
    BY <1>1, <1>2, Induction
  <2> QED
    BY <2>1
<1> QED
  BY <1>3

\* Along the initial segments it is a run, one place after the other.
LEMMA FoldRuns ==
    ASSUME NEW n \in Nat, NEW S, NEW base \in S, NEW F \in [1..n -> [S -> S]], NEW it,
           it[{}] = base,
           \A s \in SUBSET (1..n) : s # {} /\ it[s \ {Max(s)}] \in S
                                        => it[s] = F[Max(s)][it[s \ {Max(s)}]]
    PROVE  \E r \in [0..n -> S] : IsRun(r, n, base, F, it[1..n])
<1> DEFINE A == {k \in 0..n : it[1..k] \in S}
           r == [k \in 0..n |-> it[1..k]]
<1>1. 0 \in A
  <2>1. 1..0 = {}
    OBVIOUS
  <2> QED
    BY <2>1
<1>2. ASSUME NEW i \in 1..n, it[1..i - 1] \in S PROVE it[1..i] = F[i][it[1..i - 1]]
  <2>1. Max(1..i) = i /\ (1..i) \ {i} = 1..(i - 1) /\ 1..i # {} /\ 1..i \in SUBSET (1..n)
    BY Initial
  <2> QED
    BY <1>2, <2>1
<1>3. ASSUME NEW k \in 0..n, k < n, k \in A PROVE k + 1 \in A
  <2>1. k + 1 \in 1..n /\ (k + 1) - 1 = k /\ k + 1 \in 0..n
    BY <1>3
  <2>2. it[1..k + 1] = F[k + 1][it[1..k]]
    BY <1>2, <1>3, <2>1
  <2>3. F[k + 1] \in [S -> S]
    BY <2>1
  <2> QED
    BY <1>3, <2>1, <2>2, <2>3
<1>4. \A k \in 0..n : it[1..k] \in S
  <2>1. \A k \in 0..n : k \in A
    <3> HIDE DEF A
    <3> QED
      BY <1>1, <1>3, Induction
  <2> QED
    BY <2>1
<1>5. r \in [0..n -> S]
  BY <1>4
<1>6. r[0] = base /\ r[n] = it[1..n]
  <2>1. 1..0 = {}
    OBVIOUS
  <2> QED
    BY <2>1
<1>7. ASSUME NEW i \in 1..n PROVE r[i] = F[i][r[i - 1]]
  BY <1>2, <1>4
<1> HIDE DEF r
<1> QED
  BY <1>5, <1>6, <1>7 DEF IsRun
=============================================================================
