---------------------------- MODULE CrawlProofs -----------------------------
(***************************************************************************)
(* Proofs about Crawl, for any runs, domains and limits: the slots of a    *)
(* domain are accounted for whichever way runs end, and runs wait only     *)
(* for runs of their own domain.                                           *)
(***************************************************************************)
EXTENDS Crawl, FiniteSetTheorems, SequenceTheorems, TLAPS

\* A queue without repetitions.
Distinct(w) == \A i, k \in DOMAIN w : w[i] = w[k] => i = k

\* Queue w holds the runs of domain d that wait or were given a slot they have not seen,
\* those of out excepted.
QueueFor(d, w, out) ==
    /\ w \in Seq(Runs)
    /\ Distinct(w)
    /\ \A i \in DOMAIN w :
          DomainOf[w[i]] = d /\ w[i] \notin out /\ phase[w[i]] \in {"waiting", "granted"}
    /\ \A u \in Runs \ out :
          DomainOf[u] = d /\ phase[u] \in {"waiting", "granted"}
              => \E i \in DOMAIN w : w[i] = u

\* The queues of the semaphores agree with what the runs await.
QueuesOK == \A d \in Domains : QueueFor(d, waiters[d], {})

\* The inductive invariant.
IInv == TypeOK /\ QueuesOK /\ SlotsAccounted /\ WaitsForItsDomain

-----------------------------------------------------------------------------
\* Of two members of a finite set of numbers, more members lie below the larger.
LEMMA RankIncreases ==
    ASSUME NEW P, IsFiniteSet(P), P \subseteq Nat, NEW i \in P, NEW k \in P, i < k
    PROVE  Cardinality({x \in P : x < i}) < Cardinality({x \in P : x < k})
<1> DEFINE A == {x \in P : x < i}
           B == {x \in P : x < k}
<1>1. A \subseteq P /\ B \subseteq P /\ i \notin A /\ A \cup {i} \subseteq B
  <2>1. i \in Nat /\ k \in Nat /\ ~(i < i)
    OBVIOUS
  <2>2. \A x \in P : x < i => x < k
    BY <2>1
  <2> QED
    BY <2>1, <2>2
<1>2. IsFiniteSet(A) /\ IsFiniteSet(B)
  BY <1>1, FS_Subset
<1> HIDE DEF A, B
<1>3. Cardinality(A \cup {i}) = Cardinality(A) + 1
  BY <1>1, <1>2, FS_AddElement
<1>4. Cardinality(A \cup {i}) <= Cardinality(B)
  BY <1>1, <1>2, FS_Subset
<1>5. Cardinality(A) \in Nat /\ Cardinality(B) \in Nat
  BY <1>2, FS_CardinalityType
<1>6. Cardinality(A) < Cardinality(B)
  BY <1>3, <1>4, <1>5
<1> QED
  BY <1>6 DEF A, B

\* The places of a queue that nobody has woken yet are finitely many numbers.
LEMMA PendingFinite ==
    ASSUME NEW w \in Seq(Runs)
    PROVE  /\ Pending(w) \subseteq Nat
           /\ Pending(w) \subseteq DOMAIN w
           /\ IsFiniteSet(Pending(w))
<1>1. DOMAIN w = 1..Len(w) /\ Len(w) \in Nat
  OBVIOUS
<1>2. IsFiniteSet(1..Len(w))
  BY <1>1, FS_Interval
<1> QED
  BY <1>1, <1>2, FS_Subset DEF Pending

\* At most n runs are woken.
LEMMA FirstPendingBound ==
    ASSUME NEW w \in Seq(Runs), Distinct(w), NEW n \in Nat
    PROVE  /\ IsFiniteSet(FirstPending(w, n))
           /\ Cardinality(FirstPending(w, n)) \in 0..n
<1> DEFINE P == Pending(w)
           rank(i) == Cardinality({x \in P : x < i})
           W == FirstPending(w, n)
           pos(u) == CHOOSE i \in P : w[i] = u
           f == [u \in W |-> rank(pos(u))]
<1>1. P \subseteq Nat /\ P \subseteq DOMAIN w /\ IsFiniteSet(P)
  BY PendingFinite
<1>2. \A u \in W : \E i \in P : w[i] = u /\ rank(i) < n
  BY DEF FirstPending
<1>3. \A u \in W : pos(u) \in P /\ w[pos(u)] = u /\ rank(pos(u)) < n
  <2> SUFFICES ASSUME NEW u \in W
               PROVE  pos(u) \in P /\ w[pos(u)] = u /\ rank(pos(u)) < n
    OBVIOUS
  <2>1. PICK i \in P : w[i] = u /\ rank(i) < n
    BY <1>2
  <2>2. pos(u) \in P /\ w[pos(u)] = u
    BY <2>1
  <2>3. pos(u) = i
    BY <1>1, <2>1, <2>2 DEF Distinct
  <2> QED
    BY <2>1, <2>2, <2>3
<1>4. \A i \in P : rank(i) \in Nat
  <2> TAKE i \in P
  <2>1. {x \in P : x < i} \subseteq P
    OBVIOUS
  <2> QED
    BY <1>1, <2>1, FS_Subset, FS_CardinalityType
<1>5. \A i, k \in P : i < k => rank(i) < rank(k)
  BY <1>1, RankIncreases
<1> HIDE DEF P, rank, W, pos
<1>6. f \in [W -> 0..(n - 1)]
  BY <1>3, <1>4
<1>7. ASSUME NEW u \in W, NEW x \in W, f[u] = f[x] PROVE u = x
  <2>1. rank(pos(u)) = rank(pos(x))
    BY <1>7
  <2>2. pos(u) \in Nat /\ pos(x) \in Nat
    BY <1>1, <1>3
  <2>3. rank(pos(u)) \in Nat /\ rank(pos(x)) \in Nat
    BY <1>3, <1>4
  <2>4. ~(pos(u) < pos(x)) /\ ~(pos(x) < pos(u))
    BY <1>3, <1>5, <2>1, <2>3
  <2>5. pos(u) = pos(x)
    BY <2>2, <2>4
  <2> QED
    BY <1>3, <2>5
<1>8. f \in Injection(W, 0..(n - 1))
  BY <1>6, <1>7 DEF Injection, IsInjective
<1>9. IsFiniteSet(0..(n - 1)) /\ Cardinality(0..(n - 1)) = n
  BY FS_Interval
<1>10. IsFiniteSet(W) /\ Cardinality(W) <= n
  BY <1>8, <1>9, FS_Injection
<1> QED
  BY <1>10, FS_CardinalityType DEF W

\* The first run that nobody has woken yet is among the first n.
LEMMA FirstPendingSome ==
    ASSUME NEW w \in Seq(Runs), NEW n \in Nat \ {0}, Pending(w) # {}
    PROVE  FirstPending(w, n) # {}
<1> DEFINE P == Pending(w)
<1>1. P \subseteq Nat /\ IsFiniteSet(P)
  BY PendingFinite
<1>2. PICK i \in P : \A k \in P : ~(<<k, i>> \in OpToRel(<, Nat))
  BY <1>1, NatLessThanWellFounded, WFMin
<1>3. \A k \in P : ~(k < i)
  BY <1>1, <1>2 DEF OpToRel
<1>4. {k \in P : k < i} = {}
  BY <1>3
<1>5. Cardinality({k \in P : k < i}) = 0
  BY <1>4, FS_EmptySet
<1>6. i \in {x \in P : Cardinality({k \in P : k < x}) < n}
  BY <1>5
<1>7. w[i] \in FirstPending(w, n)
  BY <1>6, Zenon DEF FirstPending
<1> QED
  BY <1>7

\* Removing a place from a queue moves up those behind it.
LEMMA RemovedPlace ==
    ASSUME NEW w \in Seq(Runs), NEW j \in 1..Len(w)
    PROVE  /\ RemoveAt(w, j) \in Seq(Runs)
           /\ Len(RemoveAt(w, j)) = Len(w) - 1
           /\ \A k \in 1..(Len(w) - 1) :
                 RemoveAt(w, j)[k] = IF k < j THEN w[k] ELSE w[k + 1]
<1> DEFINE y == RemoveAt(w, j)
<1>0. Len(w) \in Nat /\ DOMAIN w = 1..Len(w) /\ j \in 1..Len(w)
  OBVIOUS
<1> DEFINE a == SubSeq(w, 1, j - 1)
           b == SubSeq(w, j + 1, Len(w))
<1>1. /\ a \in Seq(Runs)
      /\ Len(a) = j - 1
      /\ \A k \in 1..(j - 1) : a[k] = w[k]
  <2>1. \A k \in 1..(j - 1) : w[k] \in Runs
    BY <1>0
  <2>2. 1 \in Int /\ j - 1 \in Int
    BY <1>0
  <2>3. /\ a \in Seq(Runs)
        /\ Len(a) = IF 1 <= j - 1 THEN (j - 1) - 1 + 1 ELSE 0
        /\ \A k \in 1..((j - 1) - 1 + 1) : a[k] = w[1 + k - 1]
    BY <2>1, <2>2, SubSeqProperties
  <2> HIDE DEF a
  <2>4. Len(a) = j - 1
    BY <1>0, <2>3
  <2>5. ASSUME NEW k \in 1..(j - 1) PROVE a[k] = w[k]
    <3>1. 1 + k - 1 = k /\ k \in 1..((j - 1) - 1 + 1)
      BY <1>0
    <3> QED
      BY <2>3, <3>1
  <2> QED
    BY <2>3, <2>4, <2>5
<1>2. /\ b \in Seq(Runs)
      /\ Len(b) = Len(w) - j
      /\ \A k \in 1..(Len(w) - j) : b[k] = w[k + j]
  <2>1. \A k \in (j + 1)..Len(w) : w[k] \in Runs
    BY <1>0
  <2>2. j + 1 \in Int /\ Len(w) \in Int
    BY <1>0
  <2>3. /\ b \in Seq(Runs)
        /\ Len(b) = IF j + 1 <= Len(w) THEN Len(w) - (j + 1) + 1 ELSE 0
        /\ \A k \in 1..(Len(w) - (j + 1) + 1) : b[k] = w[(j + 1) + k - 1]
    BY <2>1, <2>2, SubSeqProperties
  <2> HIDE DEF b
  <2>4. Len(b) = Len(w) - j
    <3>1. j \in Int /\ Len(w) \in Int /\ j <= Len(w)
      BY <1>0
    <3>2. CASE j = Len(w)
      <4>1. ~(j + 1 <= Len(w)) /\ Len(w) - j = 0
        BY <3>1, <3>2
      <4> QED
        BY <2>3, <4>1
    <3>3. CASE j + 1 <= Len(w)
      <4>1. Len(w) - (j + 1) + 1 = Len(w) - j
        BY <3>1
      <4>2. Len(b) = Len(w) - (j + 1) + 1
        BY <2>3, <3>3
      <4> QED
        BY <4>1, <4>2
    <3> QED
      BY <3>1, <3>2, <3>3
  <2>5. ASSUME NEW k \in 1..(Len(w) - j) PROVE b[k] = w[k + j]
    <3>1. (j + 1) + k - 1 = k + j /\ k \in 1..(Len(w) - (j + 1) + 1)
      BY <1>0
    <3> QED
      BY <2>3, <3>1
  <2> QED
    BY <2>3, <2>4, <2>5
<1>3. y = a \o b
  BY DEF RemoveAt
<1> HIDE DEF a, b, y
<1>4. /\ y \in Seq(Runs)
      /\ Len(y) = Len(a) + Len(b)
      /\ \A k \in 1..(Len(a) + Len(b)) :
            y[k] = IF k <= Len(a) THEN a[k] ELSE b[k - Len(a)]
  BY <1>1, <1>2, <1>3, ConcatProperties
<1>5. Len(y) = Len(w) - 1
  BY <1>0, <1>1, <1>2, <1>4
<1>6. ASSUME NEW k \in 1..(Len(w) - 1), k < j PROVE y[k] = w[k]
  <2>1. k \in 1..(j - 1) /\ k <= Len(a) /\ k \in 1..(Len(a) + Len(b))
    BY <1>0, <1>1, <1>2, <1>6
  <2> QED
    BY <1>1, <1>4, <2>1
<1>7. ASSUME NEW k \in 1..(Len(w) - 1), ~(k < j) PROVE y[k] = w[k + 1]
  <2>1. /\ ~(k <= Len(a)) /\ k \in 1..(Len(a) + Len(b))
        /\ k - Len(a) \in 1..(Len(w) - j) /\ (k - Len(a)) + j = k + 1
    BY <1>0, <1>1, <1>2, <1>7
  <2>2. b[k - Len(a)] = w[(k - Len(a)) + j]
    BY <1>2, <2>1
  <2> QED
    BY <1>4, <2>1, <2>2
<1>8. /\ y \in Seq(Runs)
      /\ Len(y) = Len(w) - 1
      /\ \A k \in 1..(Len(w) - 1) : y[k] = IF k < j THEN w[k] ELSE w[k + 1]
  BY <1>4, <1>5, <1>6, <1>7
<1> QED
  BY <1>8, Zenon DEF y

\* Removing a run from a queue leaves the others, once each.
LEMMA WithoutRun ==
    ASSUME NEW d, NEW w, QueueFor(d, w, {}), NEW r \in Runs, \E i \in DOMAIN w : w[i] = r
    PROVE  QueueFor(d, Without(w, r), {r})
<1> DEFINE j == CHOOSE i \in DOMAIN w : w[i] = r
           y == Without(w, r)
<1>1. w \in Seq(Runs) /\ Len(w) \in Nat /\ DOMAIN w = 1..Len(w)
  BY DEF QueueFor
<1>2. j \in 1..Len(w) /\ w[j] = r
  BY <1>1
<1> HIDE DEF j, y
<1>4. /\ y \in Seq(Runs)
      /\ Len(y) = Len(w) - 1
      /\ \A k \in 1..(Len(w) - 1) : y[k] = IF k < j THEN w[k] ELSE w[k + 1]
  BY <1>1, <1>2, RemovedPlace DEF y, Without, j
<1>5. DOMAIN y = 1..(Len(w) - 1)
  BY <1>1, <1>4
<1>6. \A k \in DOMAIN y : \E i \in DOMAIN w : i # j /\ y[k] = w[i]
  <2> TAKE k \in DOMAIN y
  <2>1. CASE k < j
    BY <1>1, <1>2, <1>4, <1>5, <2>1
  <2>2. CASE ~(k < j)
    <3>1. k + 1 \in DOMAIN w /\ k + 1 # j /\ y[k] = w[k + 1]
      BY <1>1, <1>2, <1>4, <1>5, <2>2
    <3> QED
      BY <3>1
  <2> QED
    BY <2>1, <2>2
<1>7. \A i \in DOMAIN w : i # j => \E k \in DOMAIN y : y[k] = w[i]
  <2> SUFFICES ASSUME NEW i \in DOMAIN w, i # j
               PROVE  \E k \in DOMAIN y : y[k] = w[i]
    OBVIOUS
  <2>1. CASE i < j
    BY <1>1, <1>2, <1>4, <1>5, <2>1
  <2>2. CASE ~(i < j)
    <3>1. i - 1 \in DOMAIN y /\ ~(i - 1 < j) /\ (i - 1) + 1 = i
      BY <1>1, <1>2, <1>5, <2>2
    <3>2. y[i - 1] = w[i]
      BY <1>4, <1>5, <3>1
    <3> QED
      BY <3>1, <3>2
  <2> QED
    BY <2>1, <2>2
<1>8. Distinct(y)
  <2> SUFFICES ASSUME NEW k \in DOMAIN y, NEW l \in DOMAIN y, y[k] = y[l]
               PROVE  k = l
    BY DEF Distinct
  <2> DEFINE at(x) == IF x < j THEN x ELSE x + 1
  <2>1. at(k) \in DOMAIN w /\ at(l) \in DOMAIN w
    BY <1>1, <1>2, <1>5
  <2>2. y[k] = w[at(k)] /\ y[l] = w[at(l)]
    BY <1>4, <1>5
  <2>3. \A i, m \in DOMAIN w : w[i] = w[m] => i = m
    BY DEF QueueFor, Distinct
  <2> HIDE DEF at
  <2>4. at(k) = at(l)
    BY <2>1, <2>2, <2>3
  <2> QED
    BY <1>1, <1>2, <1>5, <2>4 DEF at
<1>9. \A i \in DOMAIN w : w[i] = r => i = j
  BY <1>1, <1>2 DEF QueueFor, Distinct
<1>10. \A i \in DOMAIN w :
          DomainOf[w[i]] = d /\ phase[w[i]] \in {"waiting", "granted"}
  BY DEF QueueFor
<1>11. \A k \in DOMAIN y :
          DomainOf[y[k]] = d /\ y[k] \notin {r} /\ phase[y[k]] \in {"waiting", "granted"}
  BY <1>6, <1>9, <1>10
<1>12. \A u \in Runs \ {r} :
          DomainOf[u] = d /\ phase[u] \in {"waiting", "granted"}
              => \E k \in DOMAIN y : y[k] = u
  <2> SUFFICES ASSUME NEW u \in Runs \ {r}, DomainOf[u] = d,
                      phase[u] \in {"waiting", "granted"}
               PROVE  \E k \in DOMAIN y : y[k] = u
    OBVIOUS
  <2>1. PICK i \in DOMAIN w : w[i] = u
    BY DEF QueueFor
  <2> QED
    BY <1>2, <1>7, <2>1
<1> QED
  BY <1>4, <1>8, <1>11, <1>12 DEF QueueFor, y

-----------------------------------------------------------------------------
\* The runs of a domain are finitely many.
LEMMA OfFinite ==
    ASSUME NEW d, NEW S
    PROVE  IsFiniteSet(Of(d, S)) /\ Cardinality(Of(d, S)) \in Nat
<1>1. Of(d, S) \subseteq Runs
  BY DEF Of
<1> QED
  BY <1>1, CrawlAssumption, FS_Subset, FS_CardinalityType

\* Sets without a common member add up.
LEMMA DisjointUnion ==
    ASSUME NEW S, NEW T, IsFiniteSet(S), IsFiniteSet(T), S \cap T = {}
    PROVE  Cardinality(S \cup T) = Cardinality(S) + Cardinality(T)
<1>1. Cardinality(S \cap T) = 0
  BY FS_EmptySet
<1>2. Cardinality(S \cup T) = Cardinality(S) + Cardinality(T) - Cardinality(S \cap T)
  BY FS_Union
<1>3. Cardinality(S) \in Nat /\ Cardinality(T) \in Nat
  BY FS_CardinalityType
<1> QED
  BY <1>1, <1>2, <1>3

\* A run that goes on and wakes as many as it leaves slots for keeps the accounts, and
\* wakes somebody if it leaves any.
LEMMA RouseKeeps ==
    ASSUME IInv, NEW r \in Runs, NEW p \in {"idle", "crawling"}, NEW w,
           NEW v \in Nat, NEW n \in Nat, n <= v, n = 0 => v = 0,
           QueueFor(SemaphoreOf(r), w, {r}),
           v + Cardinality(Of(SemaphoreOf(r), Holding) \ {r})
               + (IF p = "crawling" THEN 1 ELSE 0) = MaxConcurrency,
           Rouse(r, p, w, v, n)
    PROVE  /\ phase' \in [Runs -> Phases]
           /\ value' \in [Domains -> 0..MaxConcurrency]
           /\ waiters' \in [Domains -> Seq(Runs)]
           /\ QueuesOK' /\ SlotsAccounted' /\ WaitsForItsDomain'
<1> DEFINE d == SemaphoreOf(r)
           woken == FirstPending(w, n)
           rest == Of(d, Holding) \ {r}
           self == IF p = "crawling" THEN {r} ELSE {}
<1>1. /\ d \in Domains
      /\ d = DomainOf[r]
      /\ phase \in [Runs -> Phases]
      /\ value \in [Domains -> 0..MaxConcurrency]
      /\ waiters \in [Domains -> Seq(Runs)]
      /\ MaxConcurrency \in Nat
  BY CrawlAssumption DEF IInv, TypeOK, SemaphoreOf
<1>2. /\ w \in Seq(Runs)
      /\ Distinct(w)
      /\ \A i \in DOMAIN w :
            w[i] \in Runs /\ DomainOf[w[i]] = d /\ w[i] # r
              /\ phase[w[i]] \in {"waiting", "granted"}
      /\ \A u \in Runs \ {r} :
            DomainOf[u] = d /\ phase[u] \in {"waiting", "granted"}
              => \E i \in DOMAIN w : w[i] = u
  BY DEF QueueFor
<1>3. \A u \in woken : \E i \in DOMAIN w : w[i] = u /\ phase[u] = "waiting"
  BY DEF FirstPending, Pending
<1>4. \A u \in woken : u \in Runs /\ u # r /\ DomainOf[u] = d /\ phase[u] = "waiting"
  BY <1>2, <1>3
<1>5. IsFiniteSet(woken) /\ Cardinality(woken) \in 0..n
  BY <1>2, FirstPendingBound
<1>6. n # 0 /\ Pending(w) # {} => woken # {}
  BY <1>2, FirstPendingSome
<1>7. /\ phase' = [x \in Runs |-> IF x = r THEN p
                                  ELSE IF x \in woken THEN "granted" ELSE phase[x]]
      /\ value' = [value EXCEPT ![d] = v - Cardinality(woken)]
      /\ waiters' = [waiters EXCEPT ![d] = w]
  BY DEF Rouse
<1>8. IsFiniteSet(rest) /\ Cardinality(rest) \in Nat
  <2>1. rest \subseteq Of(d, Holding)
    OBVIOUS
  <2> QED
    BY <2>1, OfFinite, FS_Subset, FS_CardinalityType
<1>9. IsFiniteSet(self) /\ Cardinality(self) = IF p = "crawling" THEN 1 ELSE 0
  BY FS_EmptySet, FS_Singleton
<1>10. v + Cardinality(rest) + Cardinality(self) = MaxConcurrency
  BY <1>9
<1> HIDE DEF woken
<1>11. Of(d, Holding)' = (rest \cup self) \cup woken
  BY <1>1, <1>4, <1>7 DEF Of, Holding
<1>12. rest \cap self = {} /\ (rest \cup self) \cap woken = {}
  BY <1>4 DEF Of, Holding
<1>13. \A e \in Domains \ {d} : \A S : Of(e, S)' = Of(e, S)
  BY <1>1, <1>4, <1>7 DEF Of
<1> HIDE DEF rest, self, d
<1>14. Cardinality((rest \cup self) \cup woken)
         = Cardinality(rest) + Cardinality(self) + Cardinality(woken)
  <2>1. IsFiniteSet(rest \cup self)
    BY <1>8, <1>9, FS_Union
  <2>2. Cardinality(rest \cup self) = Cardinality(rest) + Cardinality(self)
    BY <1>8, <1>9, <1>12, DisjointUnion
  <2>3. Cardinality((rest \cup self) \cup woken)
          = Cardinality(rest \cup self) + Cardinality(woken)
    BY <1>5, <1>12, <2>1, DisjointUnion
  <2> QED
    BY <2>2, <2>3
<1>15. Cardinality(self) \in Nat /\ Cardinality(woken) \in Nat
  BY <1>5, <1>9, FS_CardinalityType
<1>24. Cardinality(Of(d, Holding)')
         = Cardinality(rest) + Cardinality(self) + Cardinality(woken)
  BY <1>11, <1>14
<1>16. value'[d] = v - Cardinality(woken)
  BY <1>1, <1>7
<1>17. value'[d] \in 0..MaxConcurrency
  BY <1>1, <1>5, <1>8, <1>10, <1>15, <1>16
<1>18. phase' \in [Runs -> Phases]
  BY <1>1, <1>7 DEF Phases
<1>19. value' \in [Domains -> 0..MaxConcurrency]
  BY <1>1, <1>7, <1>16, <1>17
<1>20. waiters' \in [Domains -> Seq(Runs)]
  BY <1>1, <1>2, <1>7
<1>21. SlotsAccounted'
  <2> SUFFICES ASSUME NEW e \in Domains
               PROVE  value'[e] + Cardinality(Of(e, Holding)') = MaxConcurrency
    BY DEF SlotsAccounted
  <2>1. CASE e = d
    <3>1. Cardinality(Of(e, Holding)') = Cardinality(Of(d, Holding)')
      BY <2>1
    <3>2. value'[e] = v - Cardinality(woken)
      BY <1>16, <2>1
    <3> QED
      BY <1>8, <1>10, <1>15, <1>24, <3>1, <3>2
  <2>2. CASE e # d
    <3>1. value'[e] = value[e] /\ Of(e, Holding)' = Of(e, Holding)
      BY <1>1, <1>7, <1>13, <2>2
    <3> QED
      BY <3>1 DEF IInv, SlotsAccounted
  <2> QED
    BY <2>1, <2>2
<1>22. WaitsForItsDomain'
  <2> SUFFICES ASSUME NEW u \in Runs, phase'[u] = "waiting"
               PROVE  \/ Cardinality(Of(DomainOf[u], Holding)') = MaxConcurrency
                      \/ Of(DomainOf[u], {"granted"})' # {}
    BY DEF WaitsForItsDomain
  <2>1. DomainOf[u] \in Domains /\ phase[u] = "waiting" /\ u # r /\ u \notin woken
    BY <1>7, CrawlAssumption
  <2>2. CASE DomainOf[u] # d
    BY <1>13, <2>1, <2>2 DEF IInv, WaitsForItsDomain
  <2>3. CASE DomainOf[u] = d /\ n = 0
    <3>1. Cardinality(woken) = 0 /\ v = 0
      BY <1>5, <2>3
    <3> QED
      BY <1>8, <1>10, <1>15, <1>24, <2>3, <3>1
  <2>4. CASE DomainOf[u] = d /\ n # 0
    <3>1. PICK i \in DOMAIN w : w[i] = u
      BY <1>2, <2>1, <2>4
    <3>2. i \in Pending(w)
      BY <2>1, <3>1 DEF Pending
    <3>3. PICK x \in woken : TRUE
      BY <1>6, <2>4, <3>2
    <3>4. x \in Of(d, {"granted"})'
      BY <1>4, <1>7, <3>3 DEF Of
    <3> QED
      BY <2>4, <3>4
  <2> QED
    BY <2>2, <2>3, <2>4
<1>23. QueuesOK'
  <2> SUFFICES ASSUME NEW e \in Domains
               PROVE  /\ waiters'[e] \in Seq(Runs)
                      /\ Distinct(waiters'[e])
                      /\ \A i \in DOMAIN waiters'[e] :
                            DomainOf[waiters'[e][i]] = e
                              /\ phase'[waiters'[e][i]] \in {"waiting", "granted"}
                      /\ \A u \in Runs :
                            DomainOf[u] = e /\ phase'[u] \in {"waiting", "granted"}
                              => \E i \in DOMAIN waiters'[e] : waiters'[e][i] = u
    BY DEF QueuesOK, QueueFor, Distinct
  <2>1. CASE e = d
    <3>1. waiters'[e] = w
      BY <1>1, <1>7, <2>1
    <3>2. \A i \in DOMAIN w :
             DomainOf[w[i]] = e /\ phase'[w[i]] \in {"waiting", "granted"}
      BY <1>2, <1>7, <2>1
    <3>3. \A u \in Runs :
             DomainOf[u] = e /\ phase'[u] \in {"waiting", "granted"}
               => \E i \in DOMAIN w : w[i] = u
      <4> SUFFICES ASSUME NEW u \in Runs, DomainOf[u] = e,
                          phase'[u] \in {"waiting", "granted"}
                   PROVE  \E i \in DOMAIN w : w[i] = u
        OBVIOUS
      <4>1. u # r
        BY <1>7
      <4>2. phase[u] \in {"waiting", "granted"}
        BY <1>4, <1>7, <4>1
      <4> QED
        BY <1>2, <2>1, <4>1, <4>2
    <3> QED
      BY <1>2, <3>1, <3>2, <3>3
  <2>2. CASE e # d
    <3>1. waiters'[e] = waiters[e]
      BY <1>1, <1>7, <2>2
    <3>2. \A u \in Runs : DomainOf[u] = e => phase'[u] = phase[u]
      BY <1>1, <1>4, <1>7, <2>2
    <3>3. QueueFor(e, waiters[e], {})
      BY DEF IInv, QueuesOK
    <3>4. \A i \in DOMAIN waiters[e] : waiters[e][i] \in Runs
      BY <3>3 DEF QueueFor
    <3> QED
      BY <3>1, <3>2, <3>3, <3>4 DEF QueueFor
  <2> QED
    BY <2>1, <2>2
<1> QED
  BY <1>18, <1>19, <1>20, <1>21, <1>22, <1>23

\* What a run holds counts for one slot.
LEMMA OneSlotEach ==
    ASSUME NEW r \in Runs
    PROVE  LET held == Of(SemaphoreOf(r), Holding)
           IN  Cardinality(held \ {r})
                 = Cardinality(held) - (IF phase[r] \in Holding THEN 1 ELSE 0)
<1> DEFINE held == Of(SemaphoreOf(r), Holding)
<1>1. IsFiniteSet(held) /\ Cardinality(held) \in Nat
  BY OfFinite
<1>2. r \in held <=> phase[r] \in Holding
  BY DEF Of, SemaphoreOf
<1> HIDE DEF held
<1>3. Cardinality(held \ {r}) = IF r \in held THEN Cardinality(held) - 1 ELSE Cardinality(held)
  BY <1>1, FS_RemoveElement
<1>4. Cardinality(held \ {r})
        = Cardinality(held) - (IF phase[r] \in Holding THEN 1 ELSE 0)
  BY <1>1, <1>2, <1>3
<1> QED
  BY <1>4 DEF held

\* A run that ends gives its slot back.
LEMMA ReleaseKeeps ==
    ASSUME IInv, NEW r \in Runs, phase[r] \in {"crawling", "sleeping"}, Release(r)
    PROVE  IInv'
<1> DEFINE d == SemaphoreOf(r)
           held == Of(d, Holding)
<1>1. d \in Domains /\ value[d] \in Nat /\ value[d] + Cardinality(held) = MaxConcurrency
  BY CrawlAssumption DEF IInv, TypeOK, SlotsAccounted, SemaphoreOf
<1>2. QueueFor(d, waiters[d], {})
  BY <1>1 DEF IInv, QueuesOK
<1>3. QueueFor(d, waiters[d], {r})
  BY <1>2 DEF QueueFor
<1>4. Cardinality(held \ {r}) = Cardinality(held) - 1 /\ Cardinality(held) \in Nat
  BY OneSlotEach, OfFinite DEF Holding
<1> HIDE DEF held
<1>5. /\ value[d] + 1 \in Nat /\ 1 <= value[d] + 1
      /\ (value[d] + 1) + Cardinality(held \ {r})
            + (IF "idle" = "crawling" THEN 1 ELSE 0) = MaxConcurrency
  BY <1>1, <1>4
<1>6. Rouse(r, "idle", waiters[d], value[d] + 1, 1)
  BY DEF Release
<1>7. /\ phase' \in [Runs -> Phases]
      /\ value' \in [Domains -> 0..MaxConcurrency]
      /\ waiters' \in [Domains -> Seq(Runs)]
      /\ QueuesOK' /\ SlotsAccounted' /\ WaitsForItsDomain'
  <2>1. 1 \in Nat /\ "idle" \in {"idle", "crawling"} /\ (1 = 0 => value[d] + 1 = 0)
    OBVIOUS
  <2> QED
    BY <1>3, <1>5, <1>6, <2>1, RouseKeeps, Zenon DEF held
<1>8. attempt' \in [Runs -> 0..MaxRetries] /\ pause' \in [Runs -> 0..MaxRetryDelay]
  BY CrawlAssumption DEF IInv, TypeOK, Release, Forget
<1> QED
  BY <1>7, <1>8 DEF IInv, TypeOK

\* A run that leaves the queue passes on what it does not need.
LEMMA LeaveQueueKeeps ==
    ASSUME IInv, NEW r \in Runs, phase[r] \in {"waiting", "granted"},
           NEW p \in {"idle", "crawling"}, NEW v \in Nat,
           v + (IF p = "crawling" THEN 1 ELSE 0)
             = value[SemaphoreOf(r)] + (IF phase[r] = "granted" THEN 1 ELSE 0),
           LeaveQueue(r, p, v), UNCHANGED <<attempt, pause>>
    PROVE  IInv'
<1> DEFINE d == SemaphoreOf(r)
           held == Of(d, Holding)
           w == Without(waiters[d], r)
           slot == IF p = "crawling" THEN 1 ELSE 0
           seen == IF phase[r] = "granted" THEN 1 ELSE 0
<1>1. /\ d \in Domains /\ d = DomainOf[r]
      /\ value[d] \in Nat /\ value[d] + Cardinality(held) = MaxConcurrency
  BY CrawlAssumption DEF IInv, TypeOK, SlotsAccounted, SemaphoreOf
<1>2. QueueFor(d, waiters[d], {})
  BY <1>1 DEF IInv, QueuesOK
<1>3. \E i \in DOMAIN waiters[d] : waiters[d][i] = r
  BY <1>1, <1>2 DEF QueueFor
<1>4. QueueFor(d, w, {r})
  BY <1>2, <1>3, WithoutRun
<1>5. Cardinality(held \ {r}) = Cardinality(held) - seen /\ Cardinality(held) \in Nat
  BY OneSlotEach, OfFinite DEF Holding
<1> HIDE DEF held
<1>6. slot \in Nat /\ seen \in Nat /\ v + slot = value[d] + seen
  OBVIOUS
<1> HIDE DEF slot, seen
<1>7. v + Cardinality(held \ {r}) + slot = MaxConcurrency
  BY <1>1, <1>5, <1>6
<1>8. Rouse(r, p, w, v, v) /\ v <= v
  BY DEF LeaveQueue
<1>9. /\ phase' \in [Runs -> Phases]
      /\ value' \in [Domains -> 0..MaxConcurrency]
      /\ waiters' \in [Domains -> Seq(Runs)]
      /\ QueuesOK' /\ SlotsAccounted' /\ WaitsForItsDomain'
  BY <1>4, <1>7, <1>8, RouseKeeps DEF held, slot
<1> QED
  BY <1>9 DEF IInv, TypeOK

\* A run that takes a free slot, with nobody waiting.
LEMMA AcquireKeeps == ASSUME IInv, NEW r \in Runs, Acquire(r) PROVE IInv'
<1> DEFINE d == SemaphoreOf(r)
<1>1. /\ d \in Domains /\ d = DomainOf[r] /\ value[d] \in Nat \ {0}
      /\ value[d] + Cardinality(Of(d, Holding)) = MaxConcurrency
      /\ waiters[d] = <<>>
  <2>1. d \in Domains /\ d = DomainOf[r]
    BY CrawlAssumption DEF SemaphoreOf
  <2>2. value[d] \in Nat /\ value[d] + Cardinality(Of(d, Holding)) = MaxConcurrency
    BY <2>1 DEF IInv, TypeOK, SlotsAccounted
  <2>3. value[d] # 0 /\ waiters[d] = <<>>
    BY DEF Acquire, Locked
  <2> QED
    BY <2>1, <2>2, <2>3
<1>2. /\ phase' = [phase EXCEPT ![r] = "crawling"]
      /\ value' = [value EXCEPT ![d] = value[d] - 1]
      /\ phase[r] = "idle"
      /\ UNCHANGED <<attempt, pause, waiters>>
  BY DEF Acquire
<1>3. TypeOK'
  <2>1. value[d] - 1 \in 0..MaxConcurrency
    BY <1>1, CrawlAssumption DEF IInv, TypeOK
  <2> HIDE DEF d
  <2> QED
    BY <1>1, <1>2, <2>1 DEF IInv, TypeOK, Phases
<1>4. QueuesOK'
  <2> SUFFICES ASSUME NEW e \in Domains PROVE QueueFor(e, waiters[e], {})'
    BY <1>2 DEF QueuesOK
  <2>1. QueueFor(e, waiters[e], {})
    BY DEF IInv, QueuesOK
  <2>2. \A i \in DOMAIN waiters[e] : waiters[e][i] \in Runs
    BY <2>1 DEF QueueFor
  <2>3. \A u \in Runs : phase[u] \in {"waiting", "granted"} => phase'[u] = phase[u]
    BY <1>2 DEF IInv, TypeOK
  <2>4. \A u \in Runs : phase'[u] \in {"waiting", "granted"} => phase[u] = phase'[u]
    BY <1>2 DEF IInv, TypeOK
  <2> QED
    BY <1>2, <2>1, <2>2, <2>3, <2>4 DEF QueueFor, Distinct
<1>5. \A e \in Domains \ {d} : \A S : Of(e, S)' = Of(e, S)
  BY <1>1, <1>2 DEF IInv, TypeOK, Of
<1>6. Of(d, Holding)' = Of(d, Holding) \cup {r} /\ r \notin Of(d, Holding)
  BY <1>1, <1>2 DEF IInv, TypeOK, Of, Holding
<1>7. Cardinality(Of(d, Holding)') = Cardinality(Of(d, Holding)) + 1
  BY <1>6, OfFinite, FS_AddElement
<1>8. Cardinality(Of(d, Holding)) \in Nat
  BY OfFinite
<1>9. SlotsAccounted'
  <2> SUFFICES ASSUME NEW e \in Domains
               PROVE  value'[e] + Cardinality(Of(e, Holding)') = MaxConcurrency
    BY DEF SlotsAccounted
  <2>1. CASE e = d
    <3>1. value'[d] = value[d] - 1
      BY <1>1, <1>2 DEF IInv, TypeOK
    <3> QED
      BY <1>1, <1>7, <1>8, <2>1, <3>1
  <2>2. CASE e # d
    <3>1. value'[e] = value[e] /\ Of(e, Holding)' = Of(e, Holding)
      BY <1>2, <1>5, <2>2 DEF IInv, TypeOK
    <3> QED
      BY <3>1 DEF IInv, SlotsAccounted
  <2> QED
    BY <2>1, <2>2
<1>10. \A u \in Runs : phase[u] = "waiting" => DomainOf[u] # d
  BY <1>1 DEF IInv, QueuesOK, QueueFor
<1>11. WaitsForItsDomain'
  <2> SUFFICES ASSUME NEW u \in Runs, phase'[u] = "waiting"
               PROVE  \/ Cardinality(Of(DomainOf[u], Holding)') = MaxConcurrency
                      \/ Of(DomainOf[u], {"granted"})' # {}
    BY DEF WaitsForItsDomain
  <2>1. phase[u] = "waiting" /\ DomainOf[u] \in Domains
    BY <1>2, CrawlAssumption DEF IInv, TypeOK
  <2> QED
    BY <1>5, <1>10, <2>1 DEF IInv, WaitsForItsDomain
<1> QED
  BY <1>3, <1>4, <1>9, <1>11 DEF IInv

\* A run that queues up, behind a full domain or behind a run that may be waiting itself.
LEMMA WaitKeeps == ASSUME IInv, NEW r \in Runs, Wait(r) PROVE IInv'
<1> DEFINE d == SemaphoreOf(r)
           w == waiters[d]
<1>1. /\ d \in Domains /\ d = DomainOf[r]
      /\ phase \in [Runs -> Phases]
      /\ value \in [Domains -> 0..MaxConcurrency]
      /\ waiters \in [Domains -> Seq(Runs)]
  BY CrawlAssumption DEF SemaphoreOf, IInv, TypeOK
<1>2. /\ phase' = [phase EXCEPT ![r] = "waiting"]
      /\ waiters' = [waiters EXCEPT ![d] = Append(w, r)]
      /\ phase[r] = "idle"
      /\ Locked(d)
      /\ UNCHANGED <<attempt, pause, value>>
  BY DEF Wait
<1>3. QueueFor(d, w, {})
  BY <1>1 DEF IInv, QueuesOK
<1> HIDE DEF d
<1>4. w \in Seq(Runs) /\ Len(w) \in Nat /\ DOMAIN w = 1..Len(w)
  BY <1>1
<1> HIDE DEF w
<1> DEFINE y == Append(w, r)
<1>5. /\ y \in Seq(Runs)
      /\ DOMAIN y = 1..(Len(w) + 1)
      /\ \A i \in 1..Len(w) : y[i] = w[i]
      /\ y[Len(w) + 1] = r
  BY <1>4
<1> HIDE DEF y
<1>6. \A i \in DOMAIN y : i \in DOMAIN w \/ i = Len(w) + 1
  BY <1>4, <1>5
<1>7. \A i \in DOMAIN w : i \in DOMAIN y /\ y[i] = w[i]
  BY <1>4, <1>5
<1>8. \A i \in DOMAIN w :
         /\ w[i] \in Runs /\ w[i] # r /\ DomainOf[w[i]] = d
         /\ phase[w[i]] \in {"waiting", "granted"}
  BY <1>2, <1>3 DEF QueueFor
<1>9. \A i, k \in DOMAIN w : w[i] = w[k] => i = k
  BY <1>3 DEF QueueFor, Distinct
<1>10. Distinct(y)
  BY <1>5, <1>6, <1>7, <1>8, <1>9 DEF Distinct
<1>11. waiters'[d] = y /\ waiters' \in [Domains -> Seq(Runs)]
  BY <1>1, <1>2, <1>5 DEF y
<1>12. \A u \in Runs \ {r} : phase'[u] = phase[u]
  BY <1>1, <1>2
<1>13. phase'[r] = "waiting"
  BY <1>1, <1>2
<1>14. QueuesOK'
  <2> SUFFICES ASSUME NEW e \in Domains PROVE QueueFor(e, waiters[e], {})'
    BY DEF QueuesOK
  <2>1. CASE e = d
    <3>1. \A i \in DOMAIN y :
             DomainOf[y[i]] = d /\ phase'[y[i]] \in {"waiting", "granted"}
      BY <1>1, <1>5, <1>6, <1>7, <1>8, <1>12, <1>13
    <3>2. \A u \in Runs :
             DomainOf[u] = d /\ phase'[u] \in {"waiting", "granted"}
               => \E i \in DOMAIN y : y[i] = u
      <4> SUFFICES ASSUME NEW u \in Runs, DomainOf[u] = d,
                          phase'[u] \in {"waiting", "granted"}
                   PROVE  \E i \in DOMAIN y : y[i] = u
        OBVIOUS
      <4>1. CASE u = r
        <5>1. Len(w) + 1 \in DOMAIN y
          BY <1>4, <1>5
        <5> QED
          BY <1>5, <4>1, <5>1
      <4>2. CASE u # r
        <5>1. PICK i \in DOMAIN w : w[i] = u
          BY <1>3, <1>12, <4>2 DEF QueueFor
        <5> QED
          BY <1>7, <5>1
      <4> QED
        BY <4>1, <4>2
    <3> QED
      BY <1>5, <1>10, <1>11, <2>1, <3>1, <3>2 DEF QueueFor, Distinct
  <2>2. CASE e # d
    <3>1. waiters'[e] = waiters[e] /\ QueueFor(e, waiters[e], {})
      BY <1>1, <1>2, <2>2 DEF IInv, QueuesOK
    <3>2. \A u \in Runs : DomainOf[u] = e => phase'[u] = phase[u]
      BY <1>1, <1>12, <2>2
    <3>3. \A i \in DOMAIN waiters[e] : waiters[e][i] \in Runs
      BY <3>1 DEF QueueFor
    <3> QED
      BY <3>1, <3>2, <3>3 DEF QueueFor, Distinct
  <2> QED
    BY <2>1, <2>2
<1>15. \A e : Of(e, Holding)' = Of(e, Holding) /\ Of(e, {"granted"})' = Of(e, {"granted"})
  BY <1>2, <1>12, <1>13 DEF Of, Holding
<1>16. SlotsAccounted'
  BY <1>2, <1>15 DEF IInv, SlotsAccounted
<1>17. \/ Cardinality(Of(d, Holding)) = MaxConcurrency
       \/ Of(d, {"granted"}) # {}
  <2>1. CASE value[d] = 0
    <3>1. value[d] + Cardinality(Of(d, Holding)) = MaxConcurrency
      BY <1>1 DEF IInv, SlotsAccounted
    <3>2. Cardinality(Of(d, Holding)) \in Nat
      BY OfFinite
    <3> QED
      BY <2>1, <3>1, <3>2
  <2>2. CASE w # <<>>
    <3>1. 1 \in DOMAIN w
      BY <1>4, <2>2
    <3>2. CASE phase[w[1]] = "waiting"
      BY <1>8, <3>1, <3>2 DEF IInv, WaitsForItsDomain
    <3>3. CASE phase[w[1]] = "granted"
      <4>1. w[1] \in Of(d, {"granted"})
        BY <1>8, <3>1, <3>3 DEF Of
      <4> QED
        BY <4>1
    <3> QED
      BY <1>8, <3>1, <3>2, <3>3
  <2> QED
    BY <1>2, <2>1, <2>2 DEF Locked, w
<1>18. WaitsForItsDomain'
  <2> SUFFICES ASSUME NEW u \in Runs, phase'[u] = "waiting"
               PROVE  \/ Cardinality(Of(DomainOf[u], Holding)) = MaxConcurrency
                      \/ Of(DomainOf[u], {"granted"}) # {}
    BY <1>15 DEF WaitsForItsDomain
  <2>1. CASE u = r
    BY <1>1, <1>17, <2>1
  <2>2. CASE u # r
    BY <1>12, <2>2 DEF IInv, WaitsForItsDomain
  <2> QED
    BY <2>1, <2>2
<1>19. TypeOK'
  BY <1>1, <1>2, <1>11 DEF IInv, TypeOK, Phases
<1> QED
  BY <1>14, <1>16, <1>18, <1>19 DEF IInv

\* A run that holds a slot and goes on holding it, pausing or not.
LEMMA HoldKeeps ==
    ASSUME IInv, NEW r \in Runs, NEW p \in {"crawling", "sleeping"},
           phase[r] \in {"crawling", "sleeping"},
           phase' = [phase EXCEPT ![r] = p], UNCHANGED <<value, waiters>>,
           attempt' \in [Runs -> 0..MaxRetries], pause' \in [Runs -> 0..MaxRetryDelay]
    PROVE  IInv'
<1>1. phase \in [Runs -> Phases]
  BY DEF IInv, TypeOK
<1>2. TypeOK'
  BY DEF IInv, TypeOK, Phases
<1>3. \A u \in Runs :
         /\ phase'[u] \in Holding <=> phase[u] \in Holding
         /\ phase'[u] = "granted" <=> phase[u] = "granted"
         /\ phase'[u] = "waiting" <=> phase[u] = "waiting"
  BY <1>1 DEF Holding
<1>4. \A e : Of(e, Holding)' = Of(e, Holding) /\ Of(e, {"granted"})' = Of(e, {"granted"})
  BY <1>3 DEF Of
<1>5. SlotsAccounted' /\ WaitsForItsDomain'
  BY <1>3, <1>4 DEF IInv, SlotsAccounted, WaitsForItsDomain
<1>6. QueuesOK'
  <2> SUFFICES ASSUME NEW e \in Domains PROVE QueueFor(e, waiters[e], {})'
    BY DEF QueuesOK
  <2>1. QueueFor(e, waiters[e], {})
    BY DEF IInv, QueuesOK
  <2>2. \A i \in DOMAIN waiters[e] : waiters[e][i] \in Runs
    BY <2>1 DEF QueueFor
  <2> QED
    BY <1>3, <2>1, <2>2 DEF QueueFor, Distinct
<1> QED
  BY <1>2, <1>5, <1>6 DEF IInv

\* A pause is capped, whether the server asks for it or not.
LEMMA PausesCapped ==
    ASSUME IInv, NEW r \in Runs, NEW asked \in Asked, ~TooLong(asked), NEW s \in Pauses(r, asked)
    PROVE  s \in 0..MaxRetryDelay
<1>1. CASE asked # NoHeader
  BY <1>1, CrawlAssumption DEF Asked, TooLong, Pauses
<1>2. CASE asked = NoHeader
  <2>1. attempt[r] \in 0..MaxRetries
    BY DEF IInv, TypeOK
  <2>2. BackoffFactor * 2^attempt[r] \in Nat
    BY <2>1, BackoffAssumption
  <2> DEFINE b == BackoffFactor * 2^attempt[r]
  <2>3. s \in {IF b + jitter <= MaxRetryDelay THEN b + jitter ELSE MaxRetryDelay :
                   jitter \in {0, 1}}
    BY <1>2 DEF Pauses
  <2> HIDE DEF b
  <2>4. b \in Nat
    BY <2>2 DEF b
  <2> QED
    BY <2>3, <2>4, CrawlAssumption
<1> QED
  BY <1>1, <1>2

-----------------------------------------------------------------------------
\* At the start all slots are free and the queues are empty.
LEMMA InitIInv == Init => IInv
<1> SUFFICES ASSUME Init PROVE IInv
  OBVIOUS
<1>1. TypeOK
  <2>1. \A d \in Domains : <<>> \in Seq(Runs)
    OBVIOUS
  <2> QED
    BY <2>1, CrawlAssumption DEF Init, TypeOK, Phases
<1>2. QueuesOK
  BY DEF Init, QueuesOK, QueueFor, Distinct
<1>3. SlotsAccounted
  <2> SUFFICES ASSUME NEW d \in Domains
               PROVE  value[d] + Cardinality(Of(d, Holding)) = MaxConcurrency
    BY DEF SlotsAccounted
  <2>1. Of(d, Holding) = {}
    BY DEF Init, Of, Holding
  <2>2. Cardinality(Of(d, Holding)) = 0
    BY <2>1, FS_EmptySet
  <2> QED
    BY <2>2, CrawlAssumption DEF Init
<1>4. WaitsForItsDomain
  BY DEF Init, WaitsForItsDomain
<1> QED
  BY <1>1, <1>2, <1>3, <1>4 DEF IInv

\* Every step keeps the invariant.
LEMMA NextIInv == IInv /\ [Next]_vars => IInv'
<1> SUFFICES ASSUME IInv, [Next]_vars PROVE IInv'
  OBVIOUS
<1>1. CASE UNCHANGED vars
  <2>1. TypeOK'
    BY <1>1 DEF vars, IInv, TypeOK
  <2>2. QueuesOK'
    BY <1>1 DEF vars, IInv, QueuesOK, QueueFor, Distinct
  <2>3. \A d, S : Of(d, S)' = Of(d, S)
    BY <1>1 DEF vars, Of
  <2>4. SlotsAccounted' /\ WaitsForItsDomain'
    BY <1>1, <2>3 DEF vars, IInv, SlotsAccounted, WaitsForItsDomain
  <2> QED
    BY <2>1, <2>2, <2>4 DEF IInv
<1>2. ASSUME NEW r \in Runs, Acquire(r) PROVE IInv'
  BY <1>2, AcquireKeeps
<1>3. ASSUME NEW r \in Runs, Wait(r) PROVE IInv'
  BY <1>3, WaitKeeps
<1>4. ASSUME NEW r \in Runs, Resume(r) PROVE IInv'
  <2>1. /\ phase[r] = "granted"
        /\ LeaveQueue(r, "crawling", value[SemaphoreOf(r)])
        /\ UNCHANGED <<attempt, pause>>
    BY <1>4 DEF Resume
  <2>2. value[SemaphoreOf(r)] \in Nat
    BY CrawlAssumption DEF IInv, TypeOK, SemaphoreOf
  <2> QED
    BY <2>1, <2>2, LeaveQueueKeeps
<1>5. ASSUME NEW r \in Runs, CrawlSucceeds(r) \/ CrawlRejected(r) PROVE IInv'
  BY <1>5, ReleaseKeeps DEF CrawlSucceeds, CrawlRejected
<1>6. ASSUME NEW r \in Runs, NEW asked \in Asked, CrawlRetried(r, asked) PROVE IInv'
  <2>1. PICK s \in Pauses(r, asked) : pause' = [pause EXCEPT ![r] = s]
    BY <1>6 DEF CrawlRetried
  <2>2. /\ phase[r] = "crawling"
        /\ phase' = [phase EXCEPT ![r] = "sleeping"]
        /\ attempt' = [attempt EXCEPT ![r] = attempt[r] + 1]
        /\ attempt[r] < MaxRetries
        /\ ~TooLong(asked)
        /\ UNCHANGED <<value, waiters>>
    BY <1>6 DEF CrawlRetried, RetryLeft
  <2>3. s \in 0..MaxRetryDelay
    BY <2>2, PausesCapped
  <2>4. attempt' \in [Runs -> 0..MaxRetries] /\ pause' \in [Runs -> 0..MaxRetryDelay]
    BY <2>1, <2>2, <2>3, CrawlAssumption DEF IInv, TypeOK
  <2> QED
    BY <2>2, <2>4, HoldKeeps
<1>7. ASSUME NEW r \in Runs, NEW asked \in Asked, CrawlGivesUp(r, asked) PROVE IInv'
  BY <1>7, ReleaseKeeps DEF CrawlGivesUp
<1>8. ASSUME NEW r \in Runs, WakeUp(r) PROVE IInv'
  <2>1. pause' \in [Runs -> 0..MaxRetryDelay] /\ attempt' \in [Runs -> 0..MaxRetries]
    BY <1>8, CrawlAssumption DEF WakeUp, IInv, TypeOK
  <2> QED
    BY <1>8, <2>1, HoldKeeps DEF WakeUp
<1>9. ASSUME NEW r \in Runs, CancelWaiting(r) PROVE IInv'
  <2>1. /\ phase[r] = "waiting"
        /\ LeaveQueue(r, "idle", value[SemaphoreOf(r)])
        /\ UNCHANGED <<attempt, pause>>
    BY <1>9 DEF CancelWaiting
  <2>2. value[SemaphoreOf(r)] \in Nat
    BY CrawlAssumption DEF IInv, TypeOK, SemaphoreOf
  <2> QED
    BY <2>1, <2>2, LeaveQueueKeeps
<1>10. ASSUME NEW r \in Runs, CancelGranted(r) PROVE IInv'
  <2>1. /\ phase[r] = "granted"
        /\ LeaveQueue(r, "idle", value[SemaphoreOf(r)] + 1)
        /\ UNCHANGED <<attempt, pause>>
    BY <1>10 DEF CancelGranted
  <2>2. value[SemaphoreOf(r)] \in Nat
    BY CrawlAssumption DEF IInv, TypeOK, SemaphoreOf
  <2> QED
    BY <2>1, <2>2, LeaveQueueKeeps
<1>11. ASSUME NEW r \in Runs, CancelHolding(r) PROVE IInv'
  BY <1>11, ReleaseKeeps DEF CancelHolding
<1> QED
  BY <1>1, <1>2, <1>3, <1>4, <1>5, <1>6, <1>7, <1>8, <1>9, <1>10, <1>11
     DEF Next, CrawlEnds, Cancel

\* The invariant holds in every reachable state.
THEOREM IInvAlways == Spec => []IInv
<1> QED
  BY InitIInv, NextIInv, PTL DEF Spec

\* limiter.py, acquire and web.py, _crawl_with_retry: slots, queues, attempts and pauses
\* stay within their limits.
THEOREM TypeCorrect == Spec => []TypeOK
<1>1. IInv => TypeOK
  BY DEF IInv
<1> QED
  BY IInvAlways, <1>1, PTL

\* limiter.py, acquire: free slots and runs that hold one always add up to the limit,
\* through retries, pauses and cancellations.
THEOREM SlotsAlwaysAccounted == Spec => []SlotsAccounted
<1>1. IInv => SlotsAccounted
  BY DEF IInv
<1> QED
  BY IInvAlways, <1>1, PTL

\* limiter.py, _get_semaphore: a run never waits because of another domain, nor while a
\* slot of its own domain is free and nobody is about to pass it on.
THEOREM WaitsOnlyForItsDomain == Spec => []WaitsForItsDomain
<1>1. IInv => WaitsForItsDomain
  BY DEF IInv
<1> QED
  BY IInvAlways, <1>1, PTL

-----------------------------------------------------------------------------
\* Run r stands before run u in queue w.
Before(w, r, u) == \E i, k \in DOMAIN w : i < k /\ w[i] = r /\ w[k] = u

\* The first n are a prefix: with a run that is woken, every run before it that still
\* waits is woken too.
LEMMA FirstPendingInOrder ==
    ASSUME NEW w \in Seq(Runs), Distinct(w), NEW n \in Nat,
           NEW i \in DOMAIN w, NEW k \in DOMAIN w, i < k,
           phase[w[i]] = "waiting", w[k] \in FirstPending(w, n)
    PROVE  w[i] \in FirstPending(w, n)
<1> DEFINE P == Pending(w)
           rank(x) == Cardinality({y \in P : y < x})
<1>1. P \subseteq Nat /\ P \subseteq DOMAIN w /\ IsFiniteSet(P)
  BY PendingFinite
<1>2. PICK x \in P : w[x] = w[k] /\ rank(x) < n
  BY DEF FirstPending
<1>3. x = k
  BY <1>1, <1>2 DEF Distinct
<1>4. i \in P
  BY DEF Pending
<1>5. rank(i) < rank(k)
  BY <1>1, <1>2, <1>3, <1>4, RankIncreases
<1>6. rank(i) \in Nat /\ rank(k) \in Nat
  <2>1. {y \in P : y < i} \subseteq P /\ {y \in P : y < k} \subseteq P
    OBVIOUS
  <2>2. QED
    BY <1>1, <2>1, FS_Subset, FS_CardinalityType
<1> HIDE DEF rank
<1>7. rank(i) < n
  BY <1>2, <1>3, <1>5, <1>6
<1>8. QED
  BY <1>4, <1>7, Zenon DEF FirstPending, rank

\* Who leaves the queue does not change the order of the others.
LEMMA WithoutInOrder ==
    ASSUME NEW d, NEW w, QueueFor(d, w, {}), NEW x \in Runs, \E i \in DOMAIN w : w[i] = x,
           NEW r, NEW u, r # x, u # x, Before(w, r, u)
    PROVE  Before(Without(w, x), r, u)
<1> DEFINE j == CHOOSE i \in DOMAIN w : w[i] = x
           y == Without(w, x)
           at(i) == IF i < j THEN i ELSE i - 1
<1>1. w \in Seq(Runs) /\ Len(w) \in Nat /\ DOMAIN w = 1..Len(w)
  BY DEF QueueFor
<1>2. j \in 1..Len(w) /\ w[j] = x
  BY <1>1
<1> HIDE DEF j
<1>3. /\ y \in Seq(Runs)
      /\ Len(y) = Len(w) - 1
      /\ \A k \in 1..(Len(w) - 1) : y[k] = IF k < j THEN w[k] ELSE w[k + 1]
  BY <1>1, <1>2, RemovedPlace DEF Without, j
<1> HIDE DEF y
<1>4. DOMAIN y = 1..(Len(w) - 1)
  BY <1>1, <1>3
<1>5. ASSUME NEW i \in DOMAIN w, w[i] # x
      PROVE  at(i) \in DOMAIN y /\ y[at(i)] = w[i]
  <2>1. i # j /\ i \in 1..Len(w)
    BY <1>1, <1>2, <1>5
  <2>2. at(i) \in 1..(Len(w) - 1)
    BY <1>1, <1>2, <2>1
  <2>3. CASE i < j
    BY <1>3, <1>4, <2>2, <2>3
  <2>4. CASE ~(i < j)
    <3>1. ~(i - 1 < j) /\ (i - 1) + 1 = i
      BY <1>2, <2>1, <2>4
    <3>2. QED
      BY <1>3, <1>4, <2>2, <2>4, <3>1
  <2>5. QED
    BY <2>3, <2>4
<1>6. PICK i \in DOMAIN w, k \in DOMAIN w : i < k /\ w[i] = r /\ w[k] = u
  BY DEF Before
<1>7. i # j /\ k # j /\ i \in 1..Len(w) /\ k \in 1..Len(w)
  BY <1>1, <1>2, <1>6
<1>8. at(i) < at(k)
  BY <1>2, <1>6, <1>7
<1>9. at(i) \in DOMAIN y /\ at(k) \in DOMAIN y /\ y[at(i)] = r /\ y[at(k)] = u
  BY <1>5, <1>6
<1> HIDE DEF at
<1>10. QED
  BY <1>8, <1>9 DEF Before, y

\* Run u came after run r: it has not asked yet, or stands behind r in the queue.
Later(r, u) == phase[u] = "idle" \/ Before(waiters[DomainOf[r]], r, u)

\* A step overtakes r when a later run of its domain gets a slot and r waits on.
Overtakes(r, u) ==
    /\ DomainOf[r] = DomainOf[u]
    /\ phase[r] = "waiting" /\ Later(r, u)
    /\ phase[u] \notin Holding /\ phase'[u] \in Holding
    /\ phase'[r] = "waiting"

\* Waking in the order of the queue overtakes nobody, if the queue that is left has kept
\* the order.
LEMMA RouseInOrder ==
    ASSUME IInv, NEW x \in Runs, NEW p \in {"idle", "crawling"}, NEW w, NEW v, NEW n \in Nat,
           Rouse(x, p, w, v, n), QueueFor(SemaphoreOf(x), w, {x}),
           p = "crawling" => phase[x] \in Holding,
           NEW r \in Runs, NEW u \in Runs, Overtakes(r, u),
           Before(waiters[SemaphoreOf(x)], r, u) /\ r # x /\ u # x => Before(w, r, u)
    PROVE  FALSE
<1> DEFINE woken == FirstPending(w, n)
<1>1. phase' = [y \in Runs |-> IF y = x THEN p
                               ELSE IF y \in woken THEN "granted" ELSE phase[y]]
  BY DEF Rouse
<1>2. r # x
  BY <1>1 DEF Overtakes
<1>3. u # x
  BY <1>1 DEF Overtakes, Holding
<1>4. u \in woken
  BY <1>1, <1>3 DEF Overtakes
<1>5. PICK k \in DOMAIN w : w[k] = u /\ phase[u] = "waiting"
  BY <1>4 DEF FirstPending, Pending
<1>6. DomainOf[r] = SemaphoreOf(x)
  BY <1>5 DEF QueueFor, Overtakes
<1>7. Before(w, r, u)
  BY <1>2, <1>3, <1>5, <1>6 DEF Overtakes, Later
<1>8. PICK i \in DOMAIN w, l \in DOMAIN w : i < l /\ w[i] = r /\ w[l] = u
  BY <1>7 DEF Before
<1>9. r \in woken
  BY <1>4, <1>8, FirstPendingInOrder DEF QueueFor, Overtakes
<1>10. QED
  BY <1>1, <1>2, <1>9 DEF Overtakes

\* No step overtakes a run that waits.
LEMMA NobodyOvertakes ==
    ASSUME IInv, Next, NEW r \in Runs, NEW u \in Runs, Overtakes(r, u)
    PROVE  FALSE
<1>0. /\ phase \in [Runs -> Phases]
      /\ \A x \in Runs : QueueFor(SemaphoreOf(x), waiters[SemaphoreOf(x)], {})
      /\ \A x \in Runs : value[SemaphoreOf(x)] \in Nat
  BY CrawlAssumption DEF IInv, TypeOK, QueuesOK, SemaphoreOf
<1>1. ASSUME NEW x \in Runs, Acquire(x) PROVE FALSE
  <2>1. u = x /\ waiters[DomainOf[x]] = <<>>
    BY <1>0, <1>1 DEF Acquire, Locked, SemaphoreOf, Overtakes
  <2>2. \E i \in DOMAIN waiters[DomainOf[r]] : waiters[DomainOf[r]][i] = r
    BY <1>0 DEF QueueFor, SemaphoreOf, Overtakes
  <2>3. QED
    BY <2>1, <2>2 DEF Overtakes
<1>2. ASSUME NEW x \in Runs, Wait(x) PROVE FALSE
  BY <1>0, <1>2 DEF Wait, Overtakes, Holding
<1>3. ASSUME NEW x \in Runs, Release(x), phase[x] \in {"crawling", "sleeping"} PROVE FALSE
  <2>1. QueueFor(SemaphoreOf(x), waiters[SemaphoreOf(x)], {x})
    BY <1>0, <1>3 DEF QueueFor
  <2>2. QED
    BY <1>3, <2>1, RouseInOrder DEF Release
<1>4. ASSUME NEW x \in Runs, NEW p \in {"idle", "crawling"}, NEW v \in Nat,
             LeaveQueue(x, p, v), phase[x] \in {"waiting", "granted"},
             p = "crawling" => phase[x] = "granted"
      PROVE  FALSE
  <2> DEFINE w == waiters[SemaphoreOf(x)]
  <2>1. QueueFor(SemaphoreOf(x), w, {})
    BY <1>0
  <2>2. \E i \in DOMAIN w : w[i] = x
    BY <2>1, <1>4 DEF QueueFor, SemaphoreOf
  <2>3. QueueFor(SemaphoreOf(x), Without(w, x), {x})
    BY <2>1, <2>2, WithoutRun
  <2>4. Before(w, r, u) /\ r # x /\ u # x => Before(Without(w, x), r, u)
    BY <2>1, <2>2, WithoutInOrder
  <2>5. Rouse(x, p, Without(w, x), v, v)
    BY <1>4 DEF LeaveQueue
  <2>6. p = "crawling" => phase[x] \in Holding
    BY <1>4 DEF Holding
  <2> HIDE DEF w
  <2>7. QED
    BY <1>4, <2>3, <2>4, <2>5, <2>6, RouseInOrder DEF w
<1>5. ASSUME NEW x \in Runs, phase[x] \in Holding, NEW p, phase' = [phase EXCEPT ![x] = p]
      PROVE  FALSE
  BY <1>0, <1>5 DEF Overtakes
<1>6. ASSUME NEW x \in Runs, CrawlEnds(x) \/ CancelHolding(x) \/ WakeUp(x) PROVE FALSE
  <2>1. /\ phase[x] \in {"crawling", "sleeping"}
        /\ Release(x) \/ \E p : phase' = [phase EXCEPT ![x] = p]
    BY <1>6 DEF CrawlEnds, CrawlSucceeds, CrawlRejected, CrawlRetried, CrawlGivesUp,
                CancelHolding, WakeUp
  <2>2. QED
    BY <2>1, <1>3, <1>5 DEF Holding
<1>7. ASSUME NEW x \in Runs, Resume(x) \/ CancelWaiting(x) \/ CancelGranted(x) PROVE FALSE
  BY <1>0, <1>4, <1>7 DEF Resume, CancelWaiting, CancelGranted
<1>8. QED
  BY <1>1, <1>2, <1>6, <1>7 DEF Next, Cancel

\* limiter.py, acquire: the runs of a domain are served in the order they came in,
\* although slots are handed on by runs that end, resume or are cancelled in the queue.
THEOREM NobodyIsOvertaken == Spec => NoOvertaking
<1> DEFINE InOrder ==
      \A r, u \in Runs :
          LET w == waiters[DomainOf[r]]
              later == \/ phase[u] = "idle"
                       \/ \E i, k \in DOMAIN w : i < k /\ w[i] = r /\ w[k] = u
          IN (/\ DomainOf[r] = DomainOf[u]
              /\ phase[r] = "waiting"
              /\ later
              /\ phase[u] \notin Holding
              /\ phase'[u] \in Holding) => phase'[r] # "waiting"
<1>1. IInv /\ [Next]_vars => [InOrder]_vars
  <2> SUFFICES ASSUME IInv, Next PROVE InOrder
    OBVIOUS
  <2>1. QED
    BY NobodyOvertakes DEF Overtakes, Later, Before
<1>2. QED
  BY <1>1, IInvAlways, PTL DEF Spec, NoOvertaking
=============================================================================
