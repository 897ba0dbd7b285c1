--------------------------- MODULE ChunkingProofs ---------------------------
(***************************************************************************)
(* Proofs about Chunking and Splitting, for pages, lines and sizes of any  *)
(* kind.                                                                   *)
(***************************************************************************)
EXTENDS Chunking, FoldProofs, FiniteSetTheorems, SequenceTheorems

-----------------------------------------------------------------------------
(***************************************************************************)
(* str.join and str.strip.                                                 *)
(***************************************************************************)

\* Texts put together are a text.
LEMMA TextConcat ==
    ASSUME NEW s \in Texts, NEW t \in Texts
    PROVE  s \o t \in Texts /\ Len(s \o t) = Len(s) + Len(t)
  BY ConcatProperties DEF Texts

\* Texts of a kind that joining does not lead out of.
Joinable(G, sep) ==
    /\ G \subseteq Texts /\ <<>> \in G /\ sep \in Texts
    /\ \A s, t \in G : (s \o sep) \o t \in G

\* All texts are of such a kind.
LEMMA TextsJoin ==
    ASSUME NEW sep \in Texts
    PROVE  Joinable(Texts, sep)
<1>1. <<>> \in Texts
  BY EmptySeq DEF Texts
<1>2. \A s, t \in Texts : (s \o sep) \o t \in Texts
  BY TextConcat
<1> QED
  BY <1>1, <1>2 DEF Joinable

\* Join runs through the pieces after the first.
IsJoin(r, pieces, sep) ==
    /\ r[0] = pieces[1]
    /\ r[Len(pieces) - 1] = Join(pieces, sep)
    /\ \A i \in 1..Len(pieces) - 1 : r[i] = (r[i - 1] \o sep) \o pieces[i + 1]

\* There is such a run, and it stays within the kind.
LEMMA JoinRun ==
    ASSUME NEW G, NEW sep, Joinable(G, sep), NEW pieces \in Seq(G), pieces # <<>>
    PROVE  \E r \in [0..Len(pieces) - 1 -> G] : IsJoin(r, pieces, sep)
<1> DEFINE n == Len(pieces) - 1
           rest == Tail(pieces)
           F == [i \in 1..n |-> [t \in G |-> (t \o sep) \o rest[i]]]
           Joins(it) == it = [s \in SUBSET (DOMAIN rest) |->
                                 IF s = {} THEN Head(pieces)
                                 ELSE (it[s \ {Max(s)}] \o sep) \o rest[Max(s)]]
           it == CHOOSE it : Joins(it)
<1>1. /\ n \in Nat /\ DOMAIN rest = 1..n
      /\ Head(pieces) = pieces[1] /\ Head(pieces) \in G
      /\ \A i \in 1..n : rest[i] = pieces[i + 1] /\ rest[i] \in G
  OBVIOUS
<1>2. F \in [1..n -> [G -> G]]
  <2> DEFINE e(i, t) == (t \o sep) \o rest[i]
  <2>1. \A i \in 1..n : \A t \in G : e(i, t) \in G
    BY <1>1 DEF Joinable
  <2> HIDE DEF e
  <2>2. [i \in 1..n |-> [t \in G |-> e(i, t)]] \in [1..n -> [G -> G]]
    BY <2>1
  <2> QED
    BY <2>2 DEF e
<1>3. PICK g \in [SUBSET (1..n) -> G] : IsFold(g, n, Head(pieces), F)
  <2> HIDE DEF F, n, rest
  <2> QED
    BY <1>1, <1>2, FoldExists, Zenon
<1>4. ASSUME NEW s \in SUBSET (1..n), s # {}
      PROVE  Max(s) \in 1..n /\ s \ {Max(s)} \in SUBSET (1..n)
  <2>1. s \in SUBSET (0..n)
    OBVIOUS
  <2>2. Max(s) \in s
    BY <1>1, <1>4, <2>1, MaxOf
  <2> QED
    BY <2>2
<1>5. Joins(g)
  <2>1. ASSUME NEW s \in SUBSET (1..n)
        PROVE  g[s] = IF s = {} THEN Head(pieces)
                      ELSE (g[s \ {Max(s)}] \o sep) \o rest[Max(s)]
    BY <1>3, <1>4 DEF IsFold
  <2> HIDE DEF rest, n
  <2> QED
    BY <1>1, <2>1
<1>6. Joins(it)
  <2> HIDE DEF Joins
  <2> QED
    BY <1>5
<1>7. Join(pieces, sep) = it[1..n]
  BY <1>1 DEF Join, FoldLeft, MapThenFoldSet
<1>8. /\ it[{}] = Head(pieces)
      /\ \A s \in SUBSET (1..n) : s # {} /\ it[s \ {Max(s)}] \in G
                                     => it[s] = F[Max(s)][it[s \ {Max(s)}]]
  <2> HIDE DEF it
  <2>1. ASSUME NEW s \in SUBSET (1..n)
        PROVE  it[s] = IF s = {} THEN Head(pieces)
                       ELSE (it[s \ {Max(s)}] \o sep) \o rest[Max(s)]
    <3> HIDE DEF rest, n
    <3> QED
      BY <1>1, <1>6
  <2>2. ASSUME NEW i \in 1..n, NEW t \in G PROVE F[i][t] = (t \o sep) \o rest[i]
    OBVIOUS
  <2> HIDE DEF F, rest, n
  <2> QED
    BY <1>4, <2>1, <2>2
<1>9. PICK r \in [0..n -> G] : IsRun(r, n, Head(pieces), F, it[1..n])
  <2> HIDE DEF it, F, n, rest
  <2> QED
    BY <1>1, <1>2, <1>8, FoldRuns, Zenon
<1>10. ASSUME NEW i \in 1..n PROVE r[i] = (r[i - 1] \o sep) \o pieces[i + 1]
  <2>1. i - 1 \in 0..n
    BY <1>1
  <2> QED
    BY <1>1, <1>9, <2>1 DEF IsRun
<1> HIDE DEF it
<1> QED
  BY <1>1, <1>7, <1>9, <1>10 DEF IsRun, IsJoin

\* Texts of the kind are joined to one of it.
LEMMA JoinType ==
    ASSUME NEW G, NEW sep, Joinable(G, sep), NEW pieces \in Seq(G)
    PROVE  Join(pieces, sep) \in G
<1>1. CASE pieces = <<>>
  <2>1. Join(pieces, sep) = <<>>
    BY <1>1 DEF Join
  <2> QED
    BY <2>1 DEF Joinable
<1>2. CASE pieces # <<>>
  <2>1. PICK r \in [0..Len(pieces) - 1 -> G] : IsJoin(r, pieces, sep)
    BY <1>2, JoinRun
  <2>2. Len(pieces) - 1 \in 0..Len(pieces) - 1
    BY <1>2
  <2> QED
    BY <2>1, <2>2 DEF IsJoin
<1> QED
  BY <1>1, <1>2

\* One piece more is added behind a separator.
LEMMA JoinAppend ==
    ASSUME NEW kept \in Seq(Texts), NEW piece \in Texts, NEW sep \in Texts
    PROVE  Join(Append(kept, piece), sep)
              = IF kept = <<>> THEN piece ELSE (Join(kept, sep) \o sep) \o piece
<1> DEFINE all == Append(kept, piece)
           n == Len(kept)
<1>1. /\ all \in Seq(Texts) /\ all # <<>> /\ Len(all) = n + 1 /\ n \in Nat
      /\ all[n + 1] = piece /\ \A i \in 1..n : all[i] = kept[i]
  BY AppendProperties
<1>2. PICK q \in [0..n -> Texts] :
        /\ q[0] = all[1] /\ q[n] = Join(all, sep)
        /\ \A i \in 1..n : q[i] = (q[i - 1] \o sep) \o all[i + 1]
  <2>1. Len(all) - 1 = n
    BY <1>1
  <2> HIDE DEF all, n
  <2>2. \E q \in [0..Len(all) - 1 -> Texts] : IsJoin(q, all, sep)
    BY <1>1, TextsJoin, JoinRun, Zenon
  <2> QED
    BY <2>1, <2>2 DEF IsJoin
<1>3. CASE kept = <<>>
  <2>1. n = 0
    BY <1>3
  <2> QED
    BY <1>1, <1>2, <1>3, <2>1
<1>4. CASE kept # <<>>
  <2>1. PICK r \in [0..n - 1 -> Texts] :
          /\ r[0] = kept[1] /\ r[n - 1] = Join(kept, sep)
          /\ \A i \in 1..n - 1 : r[i] = (r[i - 1] \o sep) \o kept[i + 1]
    <3>1. \E r \in [0..n - 1 -> Texts] : IsJoin(r, kept, sep)
      BY <1>4, TextsJoin, JoinRun, Zenon
    <3> QED
      BY <3>1 DEF IsJoin
  <2>2. n - 1 \in Nat /\ n \in 1..n /\ n - 1 \in 0..n - 1
    BY <1>4
  <2> DEFINE A == {i \in 0..n - 1 : q[i] = r[i]}
  <2> HIDE DEF n, all
  <2>3. 0 \in A
    BY <1>1, <1>2, <2>1, <2>2
  <2>4. ASSUME NEW k \in 0..n - 1, k < n - 1, k \in A PROVE k + 1 \in A
    <3>1. k + 1 \in 1..n - 1 /\ k + 1 \in 1..n /\ (k + 1) - 1 = k /\ (k + 1) + 1 \in 1..n
      BY <1>1, <2>4
    <3>2. q[k + 1] = (q[k] \o sep) \o all[(k + 1) + 1]
      BY <1>2, <3>1
    <3>3. r[k + 1] = (r[k] \o sep) \o kept[(k + 1) + 1]
      BY <2>1, <3>1
    <3>4. all[(k + 1) + 1] = kept[(k + 1) + 1]
      BY <1>1, <3>1
    <3>5. q[k] = r[k]
      BY <2>4
    <3>6. q[k + 1] = r[k + 1] /\ k + 1 \in 0..n - 1
      <4>1. k + 1 \in 0..n - 1
        BY <1>1, <2>4
      <4> QED
        BY <3>2, <3>3, <3>4, <3>5, <4>1
    <3> QED
      BY <3>6
  <2>5. n - 1 \in A
    <3> HIDE DEF A
    <3>1. \A k \in 0..n - 1 : k \in A
      BY <2>2, <2>3, <2>4, Induction
    <3> QED
      BY <2>2, <3>1
  <2>6. Join(all, sep) = (Join(kept, sep) \o sep) \o piece
    <3>1. q[n] = (q[n - 1] \o sep) \o all[n + 1]
      BY <1>2, <2>2
    <3> QED
      BY <1>1, <1>2, <2>1, <2>5, <3>1
  <2> QED
    BY <1>4, <2>6 DEF all
<1> QED
  BY <1>3, <1>4

\* It adds its length and that of the separator.
LEMMA JoinLength ==
    ASSUME NEW kept \in Seq(Texts), NEW piece \in Texts, NEW sep \in Texts
    PROVE  Len(Join(Append(kept, piece), sep))
              = IF kept = <<>> THEN Len(piece)
                ELSE Len(Join(kept, sep)) + Len(sep) + Len(piece)
<1>1. Join(kept, sep) \in Texts
  BY TextsJoin, JoinType
<1>2. (Join(kept, sep) \o sep) \in Texts
  BY <1>1, TextConcat
<1>3. Len((Join(kept, sep) \o sep) \o piece) = (Len(Join(kept, sep)) + Len(sep)) + Len(piece)
  BY <1>1, <1>2, TextConcat
<1> QED
  BY <1>3, JoinAppend

\* Strip makes no text longer.
LEMMA StripType ==
    ASSUME NEW t \in Texts
    PROVE  Strip(t) \in Texts /\ Len(Strip(t)) <= Len(t)
<1> DEFINE ink == {i \in DOMAIN t : t[i] > 0}
<1>1. t \in Seq(Int) /\ Len(t) \in Nat /\ DOMAIN t = 1..Len(t)
  BY DEF Texts
<1>2. CASE ink = {}
  <2>1. Strip(t) = <<>>
    BY <1>2 DEF Strip
  <2> QED
    BY <1>1, <2>1 DEF Texts
<1>3. CASE ink # {}
  <2>1. ink \in SUBSET (0..Len(t)) /\ ink \in SUBSET Nat /\ ink \in SUBSET (1..Len(t))
    BY <1>1
  <2>2. Min(ink) \in ink /\ Max(ink) \in ink
    <3> HIDE DEF ink
    <3> QED
      BY <1>1, <1>3, <2>1, MinOf, MaxOf
  <2>3. Strip(t) = SubSeq(t, Min(ink), Max(ink))
    BY <1>3 DEF Strip
  <2>4. Min(ink) \in 1..Len(t) /\ Max(ink) \in 1..Len(t)
    BY <2>1, <2>2
  <2> HIDE DEF ink
  <2> QED
    BY <1>1, <2>3, <2>4, SubSeqProperties DEF Texts
<1> QED
  BY <1>2, <1>3

-----------------------------------------------------------------------------
(***************************************************************************)
(* Recursion over something that gets smaller: g solves the equation of    *)
(* every t that stops at once or goes on with next[t].                     *)
(***************************************************************************)
Solves(g, t, stop, leaf, next_, F) ==
    g[t] = IF t \in stop THEN leaf[t] ELSE F[t][g[next_[t]]]

\* What comes next is smaller.
Decreases(size, T, stop, next_) == \A t \in T : t \notin stop => size[next_[t]] < size[t]

\* The values of it are in V if those it needs are.
Closed(it, T, V, stop, next_) ==
    \A t \in T : t \in stop \/ it[next_[t]] \in V => it[t] \in V

\* There is such a function: solutions for the arguments up to a size agree and can be
\* extended to larger ones.
LEMMA RecursionExists ==
    ASSUME NEW T, NEW V, NEW size \in [T -> Nat], NEW stop \in SUBSET T, NEW leaf \in [T -> V],
           NEW next_ \in [T -> T], NEW F \in [T -> [V -> V]],
           Decreases(size, T, stop, next_)
    PROVE  \E g \in [T -> V] : \A t \in T : Solves(g, t, stop, leaf, next_, F)
<1> USE DEF Decreases
<1> DEFINE UpTo(g, n) == \A t \in T : size[t] <= n => Solves(g, t, stop, leaf, next_, F)
           H == {n \in Nat : \E g \in [T -> V] : UpTo(g, n)}
<1>1. 0 \in H
  <2>1. \A t \in T : size[t] <= 0 => t \in stop
    OBVIOUS
  <2>2. UpTo(leaf, 0)
    BY <2>1 DEF Solves
  <2> HIDE DEF UpTo
  <2> QED
    BY <2>2
<1>2. ASSUME NEW n \in Nat, n \in H PROVE n + 1 \in H
  <2>1. PICK g \in [T -> V] : UpTo(g, n)
    BY <1>2
  <2> DEFINE e(t) == IF size[t] <= n THEN g[t]
                     ELSE IF t \in stop THEN leaf[t] ELSE F[t][g[next_[t]]]
             h == [t \in T |-> e(t)]
  <2>2. h \in [T -> V]
    <3>1. \A t \in T : e(t) \in V
      OBVIOUS
    <3> HIDE DEF e
    <3> QED
      BY <3>1
  <2>3. ASSUME NEW t \in T, size[t] <= n + 1, t \notin stop PROVE h[next_[t]] = g[next_[t]]
    <3>1. next_[t] \in T /\ size[next_[t]] \in Nat /\ size[t] \in Nat /\ size[next_[t]] < size[t]
      BY <2>3
    <3> QED
      BY <2>3, <3>1
  <2>4. ASSUME NEW t \in T, size[t] <= n + 1 PROVE Solves(h, t, stop, leaf, next_, F)
    <3>1. h[t] = e(t)
      OBVIOUS
    <3>2. size[t] <= n => g[t] = IF t \in stop THEN leaf[t] ELSE F[t][g[next_[t]]]
      BY <2>1 DEF Solves
    <3>3. e(t) = IF t \in stop THEN leaf[t] ELSE F[t][g[next_[t]]]
      BY <3>2
    <3> HIDE DEF h, e
    <3> QED
      BY <2>3, <2>4, <3>1, <3>3 DEF Solves
  <2>5. UpTo(h, n + 1)
    <3> HIDE DEF h
    <3> QED
      BY <2>4
  <2> HIDE DEF h, UpTo
  <2> QED
    BY <2>2, <2>5
<1>3. ASSUME NEW n \in Nat PROVE \E g \in [T -> V] : UpTo(g, n)
  <2>1. n \in H
    <3> HIDE DEF H
    <3>1. \A k \in 0..n : k < n /\ k \in H => k + 1 \in H
      BY <1>2
    <3>2. \A k \in 0..n : k \in H
      BY <1>1, <3>1, Induction
    <3> QED
      BY <3>2
  <2> QED
    BY <2>1
\* Two solutions agree.
<1>4. ASSUME NEW n \in Nat, NEW g, NEW h, UpTo(g, n), UpTo(h, n), NEW t \in T, size[t] <= n
      PROVE  g[t] = h[t]
  <2> DEFINE A == {k \in 0..n : \A u \in T : size[u] <= k => g[u] = h[u]}
  <2>1. 0 \in A
    <3>1. \A u \in T : size[u] <= 0 => u \in stop
      OBVIOUS
    <3> QED
      BY <1>4, <3>1 DEF Solves
  <2>2. ASSUME NEW k \in 0..n, k < n, k \in A PROVE k + 1 \in A
    <3>1. ASSUME NEW u \in T, size[u] <= k + 1 PROVE g[u] = h[u]
      <4>1. size[u] \in Nat /\ size[u] <= n
        BY <2>2, <3>1
      <4>2. /\ g[u] = IF u \in stop THEN leaf[u] ELSE F[u][g[next_[u]]]
            /\ h[u] = IF u \in stop THEN leaf[u] ELSE F[u][h[next_[u]]]
        BY <1>4, <4>1 DEF Solves
      <4>3. u \notin stop => /\ next_[u] \in T /\ size[next_[u]] \in Nat
                             /\ size[next_[u]] < size[u]
        OBVIOUS
      <4>4. u \notin stop => size[next_[u]] <= k
        BY <2>2, <3>1, <4>1, <4>3
      <4>5. u \notin stop => g[next_[u]] = h[next_[u]]
        BY <2>2, <4>3, <4>4
      <4> QED
        BY <4>2, <4>5
    <3>2. k + 1 \in 0..n
      BY <2>2
    <3> QED
      BY <3>1, <3>2
  <2>3. n \in A
    <3> HIDE DEF A
    <3>1. \A k \in 0..n : k \in A
      BY <2>1, <2>2, Induction
    <3> QED
      BY <3>1
  <2> QED
    BY <1>4, <2>3
<1> DEFINE at(n) == CHOOSE g : g \in [T -> V] /\ UpTo(g, n)
           G == [t \in T |-> at(size[t])[t]]
<1>5. ASSUME NEW n \in Nat PROVE at(n) \in [T -> V] /\ UpTo(at(n), n)
  <2> HIDE DEF UpTo
  <2> QED
    BY <1>3
<1> HIDE DEF at
<1>6. G \in [T -> V]
  <2>1. ASSUME NEW t \in T PROVE at(size[t])[t] \in V
    BY <1>5
  <2> QED
    BY <2>1
<1>7. ASSUME NEW t \in T PROVE Solves(G, t, stop, leaf, next_, F)
  <2>1. size[t] \in Nat /\ UpTo(at(size[t]), size[t])
    BY <1>5
  <2>2. Solves(at(size[t]), t, stop, leaf, next_, F)
    BY <2>1
  <2>3. ASSUME t \notin stop PROVE G[next_[t]] = at(size[t])[next_[t]]
    <3> DEFINE u == next_[t]
    <3>1. u \in T /\ size[u] \in Nat /\ size[u] < size[t]
      BY <2>3
    <3>2. UpTo(at(size[u]), size[u]) /\ UpTo(at(size[t]), size[u])
      BY <1>5, <2>1, <3>1
    <3>3. at(size[u])[u] = at(size[t])[u]
      <4> HIDE DEF UpTo, u
      <4> QED
        BY <1>4, <3>1, <3>2
    <3> QED
      BY <3>1, <3>3
  <2>4. G[t] = at(size[t])[t]
    OBVIOUS
  <2> HIDE DEF G
  <2> QED
    BY <2>2, <2>3, <2>4 DEF Solves
<1> HIDE DEF G
<1> QED
  BY <1>6, <1>7

\* Whatever satisfies the equation has values of the type.
LEMMA RecursionType ==
    ASSUME NEW T, NEW V, NEW size \in [T -> Nat], NEW it, NEW stop \in SUBSET T, NEW next_ \in [T -> T],
           Decreases(size, T, stop, next_),
           Closed(it, T, V, stop, next_)
    PROVE  \A t \in T : it[t] \in V
<1> USE DEF Closed, Decreases
<1> SUFFICES ASSUME NEW t \in T PROVE it[t] \in V
  OBVIOUS
<1> DEFINE n == size[t]
           A == {k \in 0..n : \A u \in T : size[u] <= k => it[u] \in V}
<1>1. 0 \in A
  <2>1. \A u \in T : size[u] <= 0 => u \in stop
    OBVIOUS
  <2> QED
    BY <2>1
<1>2. ASSUME NEW k \in 0..n, k < n, k \in A PROVE k + 1 \in A
  <2>1. ASSUME NEW u \in T, size[u] <= k + 1 PROVE it[u] \in V
    <3>1. u \notin stop => next_[u] \in T /\ size[next_[u]] \in Nat /\ size[next_[u]] < size[u]
      OBVIOUS
    <3>2. u \notin stop => size[next_[u]] <= k
      BY <1>2, <2>1, <3>1
    <3> QED
      BY <1>2, <3>1, <3>2
  <2>2. k + 1 \in 0..n
    BY <1>2
  <2> QED
    BY <2>1, <2>2
<1>3. n \in A
  <2> HIDE DEF A
  <2>1. \A k \in 0..n : k \in A
    BY <1>1, <1>2, Induction
  <2> QED
    BY <2>1
<1> QED
  BY <1>3

-----------------------------------------------------------------------------
(***************************************************************************)
(* str.split.                                                              *)
(***************************************************************************)

\* The first place of a separator lies within the text.
LEMMA PlacesType ==
    ASSUME NEW sep \in Texts, sep # <<>>, NEW t \in Texts, Places(sep, t) # {}
    PROVE  /\ Min(Places(sep, t)) \in 1..Len(t)
           /\ Min(Places(sep, t)) + Len(sep) - 1 <= Len(t)
           /\ Len(sep) \in Nat \ {0}
<1>1. Len(t) \in Nat /\ Len(sep) \in Nat \ {0}
  BY EmptySeq DEF Texts
<1>2. Places(sep, t) \in SUBSET Nat /\ Places(sep, t) \subseteq 1..(Len(t) - Len(sep) + 1)
  BY <1>1 DEF Places
<1>3. Min(Places(sep, t)) \in Places(sep, t)
  BY <1>2, MinOf
<1> QED
  BY <1>1, <1>2, <1>3

\* A stretch of a text is a text.
LEMMA SubText ==
    ASSUME NEW t \in Texts, NEW i \in Nat, i # 0, NEW k \in Int, k <= Len(t)
    PROVE  /\ SubSeq(t, i, k) \in Texts
           /\ Len(SubSeq(t, i, k)) = IF i <= k THEN k - i + 1 ELSE 0
<1>1. t \in Seq(Int) /\ \A x \in i..k : t[x] \in Int
  BY DEF Texts
<1> QED
  BY <1>1, SubSeqProperties DEF Texts

\* A stretch of a stretch of a text is one of the text.
LEMMA SubOfSub ==
    ASSUME NEW t \in Texts, NEW i \in 1..Len(t) + 1, NEW k \in 0..Len(t), i <= k + 1,
           NEW m \in 1..(k - i + 2), NEW n \in 0..(k - i + 1), m <= n + 1
    PROVE  SubSeq(SubSeq(t, i, k), m, n) = SubSeq(t, i + m - 1, i + n - 1)
<1> DEFINE u == SubSeq(t, i, k)
           v == SubSeq(t, i + m - 1, i + n - 1)
<1>1. Len(t) \in Nat /\ t \in Seq(Int)
  BY DEF Texts
<1>2. \A x \in i..k : t[x] \in Int
  BY <1>1
<1>3. u \in Seq(Int) /\ Len(u) = k - i + 1 /\ \A x \in 1..k - i + 1 : u[x] = t[i + x - 1]
  BY <1>1, <1>2, SubSeqProperties
<1>4. v \in Seq(Int) /\ Len(v) = n - m + 1 /\ \A x \in 1..n - m + 1 : v[x] = t[(i + m - 1) + x - 1]
  <2>1. \A x \in i + m - 1..i + n - 1 : t[x] \in Int
    BY <1>1
  <2> QED
    BY <1>1, <2>1, SubSeqProperties
<1> HIDE DEF u, v
<1> DEFINE w == SubSeq(u, m, n)
<1>5. w \in Seq(Int) /\ Len(w) = n - m + 1 /\ \A x \in 1..n - m + 1 : w[x] = u[m + x - 1]
  <2>1. \A x \in m..n : u[x] \in Int
    BY <1>3
  <2> QED
    BY <2>1, SubSeqProperties
<1> HIDE DEF w
<1>6. ASSUME NEW x \in 1..n - m + 1 PROVE w[x] = v[x]
  <2>1. m + x - 1 \in 1..k - i + 1 /\ i + (m + x - 1) - 1 = (i + m - 1) + x - 1
    OBVIOUS
  <2>2. w[x] = u[m + x - 1] /\ u[m + x - 1] = t[i + (m + x - 1) - 1]
    BY <1>3, <1>5, <2>1
  <2>3. v[x] = t[(i + m - 1) + x - 1]
    BY <1>4
  <2> QED
    BY <2>1, <2>2, <2>3
<1>7. w = v
  BY <1>4, <1>5, <1>6, SeqEqual
<1> QED
  BY <1>7 DEF u, v, w

\* From i to k is a part of the text at sep: what is before and behind it is sep, or
\* nothing, and sep does not occur in it.
IsPart(text, sep, i, k) ==
    /\ i \in 1..Len(text) + 1 /\ k \in 0..Len(text) /\ i <= k + 1
    /\ i = 1 \/ i - Len(sep) \in Places(sep, text)
    /\ k = Len(text) \/ k + 1 \in Places(sep, text)
    /\ Places(sep, SubSeq(text, i, k)) = {}

PartsOf(text, sep) == {part \in Texts : \E i, k \in Int : IsPart(text, sep, i, k) /\ part = SubSeq(text, i, k)}

\* What is left of the text behind sep is cut into its first part and the rest.
SuffixesOf(text, sep) ==
    {t \in Texts : \E i \in 1..Len(text) + 1 :
        /\ t = SubSeq(text, i, Len(text))
        /\ i = 1 \/ i - Len(sep) \in Places(sep, text)}

\* Cutting such a rest at its first separator gives a part of the text and another such rest.
LEMMA SuffixParts ==
    ASSUME NEW text \in Texts, NEW sep \in Texts, sep # <<>>, NEW t \in SuffixesOf(text, sep)
    PROVE  /\ Places(sep, t) = {} => t \in PartsOf(text, sep)
           /\ Places(sep, t) # {} =>
                 /\ SubSeq(t, 1, Min(Places(sep, t)) - 1) \in PartsOf(text, sep)
                 /\ SubSeq(t, Min(Places(sep, t)) + Len(sep), Len(t)) \in SuffixesOf(text, sep)
<1> DEFINE n == Len(text)
           d == Len(sep)
           m == Min(Places(sep, t))
<1>1. PICK i \in 1..n + 1 : t = SubSeq(text, i, n) /\ (i = 1 \/ i - d \in Places(sep, text))
  BY DEF SuffixesOf
<1>2. n \in Nat /\ d \in Nat \ {0} /\ t \in Texts
  BY EmptySeq DEF Texts, SuffixesOf
<1>3. Len(t) = n - i + 1
  BY <1>1, <1>2, SubText
<1>4. CASE Places(sep, t) = {}
  <2>1. IsPart(text, sep, i, n)
    BY <1>1, <1>2, <1>4 DEF IsPart
  <2>2. i \in Int /\ n \in Int
    BY <1>2
  <2> QED
    BY <1>1, <1>2, <1>4, <2>1, <2>2 DEF PartsOf
<1>5. CASE Places(sep, t) # {}
  <2>1. m \in 1..Len(t) /\ m + d - 1 <= Len(t)
    BY <1>2, <1>5, PlacesType
  <2>2. m \in Places(sep, t) /\ \A q \in Places(sep, t) : m <= q
    <3>1. Places(sep, t) \in SUBSET Nat
      BY <1>2, <1>3 DEF Places
    <3> QED
      BY <1>5, <3>1, MinOf
  <2> HIDE DEF m
  <2>3. i + m - 1 \in Places(sep, text)
    <3>1. SubSeq(t, m, m + d - 1) = sep
      BY <2>2 DEF Places
    <3>2. SubSeq(t, m, m + d - 1) = SubSeq(text, i + m - 1, i + (m + d - 1) - 1)
      <4> DEFINE e == m + d - 1
      <4>1. m \in 1..(n - i + 2) /\ e \in 0..(n - i + 1) /\ m <= e + 1 /\ n \in 0..Len(text) /\ i <= n + 1
        BY <1>2, <1>3, <2>1
      <4> HIDE DEF e, n
      <4>2. SubSeq(SubSeq(text, i, n), m, e) = SubSeq(text, i + m - 1, i + e - 1)
        BY <4>1, SubOfSub DEF n
      <4> QED
        BY <1>1, <4>2 DEF e
    <3>3. i + (m + d - 1) - 1 = (i + m - 1) + d - 1 /\ i + m - 1 \in 1..(n - d + 1)
      BY <1>2, <1>3, <2>1
    <3> QED
      BY <3>1, <3>2, <3>3 DEF Places
  <2>4. SubSeq(t, 1, m - 1) = SubSeq(text, i, i + m - 2)
    <3> DEFINE e == m - 1
    <3>1. 1 \in 1..(n - i + 2) /\ e \in 0..(n - i + 1) /\ 1 <= e + 1 /\ n \in 0..Len(text) /\ i <= n + 1
      BY <1>2, <1>3, <2>1
    <3>2. i + e - 1 = i + m - 2 /\ i + 1 - 1 = i
      BY <1>2, <2>1
    <3> HIDE DEF e, n
    <3>3. SubSeq(SubSeq(text, i, n), 1, e) = SubSeq(text, i + 1 - 1, i + e - 1)
      BY <3>1, SubOfSub DEF n
    <3> QED
      BY <1>1, <3>2, <3>3 DEF e
  <2>5. SubSeq(t, 1, m - 1) \in Texts /\ Len(SubSeq(t, 1, m - 1)) = m - 1
    <3>1. m - 1 \in Int /\ m - 1 <= Len(t) /\ 1 \in Nat
      BY <1>3, <2>1
    <3> QED
      BY <1>2, <2>1, <3>1, SubText
  <2>6. Places(sep, SubSeq(t, 1, m - 1)) = {}
    <3> SUFFICES ASSUME NEW q \in Places(sep, SubSeq(t, 1, m - 1)) PROVE FALSE
      OBVIOUS
    <3>1. q \in 1..(m - 1 - d + 1) /\ SubSeq(SubSeq(t, 1, m - 1), q, q + d - 1) = sep
      BY <2>5 DEF Places
    <3> DEFINE e == q + d - 1
               k == m - 1
    <3>2. /\ 1 \in 1..Len(t) + 1 /\ k \in 0..Len(t) /\ 1 <= k + 1
          /\ q \in 1..(k - 1 + 2) /\ e \in 0..(k - 1 + 1) /\ q <= e + 1
          /\ 1 + q - 1 = q /\ 1 + e - 1 = e
      BY <1>2, <1>3, <2>1, <3>1
    <3> HIDE DEF e, k
    <3>3. SubSeq(SubSeq(t, 1, k), q, e) = SubSeq(t, 1 + q - 1, 1 + e - 1)
      BY <1>2, <3>2, SubOfSub
    <3>4. SubSeq(t, q, q + d - 1) = sep
      BY <3>1, <3>2, <3>3 DEF e, k
    <3>5. q \in 1..(Len(t) - d + 1)
      BY <1>2, <1>3, <2>1, <3>1
    <3>6. q \in Places(sep, t)
      BY <3>4, <3>5 DEF Places
    <3> QED
      BY <2>1, <2>2, <3>1, <3>6, <1>2
  <2>7. SubSeq(t, 1, m - 1) \in PartsOf(text, sep)
    <3> DEFINE k == i + m - 2
    <3>1. k \in 0..n /\ i <= k + 1 /\ k + 1 = i + m - 1 /\ i \in Int /\ k \in Int
      BY <1>2, <1>3, <2>1
    <3> HIDE DEF k
    <3>2. SubSeq(t, 1, m - 1) = SubSeq(text, i, k)
      BY <2>4 DEF k
    <3>3. IsPart(text, sep, i, k)
      BY <1>1, <2>3, <2>6, <3>1, <3>2 DEF IsPart
    <3> QED
      BY <2>5, <3>1, <3>2, <3>3 DEF PartsOf
  <2>8. SubSeq(t, m + d, Len(t)) \in SuffixesOf(text, sep)
    <3> DEFINE j == i + m + d - 1
    <3>1. /\ j \in 1..n + 1 /\ j - d = i + m - 1
          /\ m + d \in 1..(n - i + 2) /\ Len(t) \in 0..(n - i + 1) /\ m + d <= Len(t) + 1
          /\ n \in 0..Len(text) /\ i <= n + 1 /\ i + (m + d) - 1 = j /\ i + Len(t) - 1 = n
      BY <1>2, <1>3, <2>1
    <3>2. SubSeq(t, m + d, Len(t)) = SubSeq(text, j, n)
      <4> DEFINE a == m + d
                 e == Len(t)
      <4>1. /\ a \in 1..(n - i + 2) /\ e \in 0..(n - i + 1) /\ a <= e + 1 /\ n \in 0..Len(text)
            /\ i <= n + 1 /\ i + a - 1 = j /\ i + e - 1 = n
        BY <3>1
      <4> HIDE DEF a, e, n, j
      <4>2. SubSeq(SubSeq(text, i, n), a, e) = SubSeq(text, i + a - 1, i + e - 1)
        BY <4>1, SubOfSub DEF n
      <4> QED
        BY <1>1, <4>1, <4>2 DEF a, e
    <3>3. SubSeq(text, j, n) \in Texts
      BY <1>2, <3>1, SubText, SMTT(60)
    <3> HIDE DEF j
    <3> QED
      BY <2>3, <3>1, <3>2, <3>3 DEF SuffixesOf
  <2> QED
    BY <1>5, <2>7, <2>8 DEF m
<1> QED
  BY <1>4, <1>5

\* A text before its first separator and behind it.
FirstOf(t, sep) == SubSeq(t, 1, Min(Places(sep, t)) - 1)
OthersOf(t, sep) == SubSeq(t, Min(Places(sep, t)) + Len(sep), Len(t))

\* They are texts, and what is behind the separator is shorter.
LEMMA OthersType ==
    ASSUME NEW sep \in Texts, sep # <<>>, NEW t \in Texts, Places(sep, t) # {}
    PROVE  /\ FirstOf(t, sep) \in Texts /\ OthersOf(t, sep) \in Texts
           /\ Len(OthersOf(t, sep)) < Len(t)
<1>1. Min(Places(sep, t)) \in 1..Len(t) /\ Len(sep) \in Nat \ {0} /\ Len(t) \in Nat
  BY PlacesType DEF Texts
<1> QED
  BY <1>1, SubText DEF FirstOf, OthersOf

\* str.split cuts a text at its first separator and goes on behind it.
LEMMA SplitByIs ==
    ASSUME NEW sep \in Texts, sep # <<>>, NEW text \in Texts
    PROVE  SplitBy(text, sep) = IF Places(sep, text) = {} THEN <<text>>
                                ELSE <<FirstOf(text, sep)>> \o SplitBy(OthersOf(text, sep), sep)
<1> DEFINE first(t) == FirstOf(t, sep)
           others(t) == OthersOf(t, sep)
           size == [t \in Texts |-> Len(t)]
           stop == {t \in Texts : Places(sep, t) = {}}
           leaf == [t \in Texts |-> <<t>>]
           next_ == [t \in Texts |-> IF t \in stop THEN t ELSE others(t)]
           F == [t \in Texts |-> [v \in Seq(Texts) |-> IF t \in stop THEN v ELSE <<first(t)>> \o v]]
           Parts(it) == it = [t \in Texts |-> IF Places(sep, t) = {} THEN <<t>>
                                              ELSE <<first(t)>> \o it[others(t)]]
           it == CHOOSE it : Parts(it)
<1>1. ASSUME NEW t \in Texts, t \notin stop
      PROVE  first(t) \in Texts /\ others(t) \in Texts /\ Len(others(t)) < Len(t)
  BY <1>1, OthersType
<1>2. size \in [Texts -> Nat] /\ stop \in SUBSET Texts /\ leaf \in [Texts -> Seq(Texts)]
  BY DEF Texts
<1>3. next_ \in [Texts -> Texts]
  BY <1>1
<1>4. F \in [Texts -> [Seq(Texts) -> Seq(Texts)]]
  <2> DEFINE e(t, v) == IF t \in stop THEN v ELSE <<first(t)>> \o v
  <2>1. ASSUME NEW t \in Texts, NEW v \in Seq(Texts) PROVE e(t, v) \in Seq(Texts)
    <3>1. t \notin stop => <<first(t)>> \in Seq(Texts)
      BY <1>1
    <3> HIDE DEF first, stop
    <3> QED
      BY <3>1, ConcatProperties
  <2> HIDE DEF e
  <2>2. [t \in Texts |-> [v \in Seq(Texts) |-> e(t, v)]] \in [Texts -> [Seq(Texts) -> Seq(Texts)]]
    BY <2>1
  <2> QED
    BY <2>2 DEF e
<1>5. Decreases(size, Texts, stop, next_)
  BY <1>1 DEF Decreases
<1>6. PICK g \in [Texts -> Seq(Texts)] : \A t \in Texts : Solves(g, t, stop, leaf, next_, F)
  <2> HIDE DEF size, stop, leaf, next_, F
  <2> QED
    BY <1>2, <1>3, <1>4, <1>5, RecursionExists, Zenon
<1>7. Parts(g)
  <2>1. ASSUME NEW t \in Texts
        PROVE  g[t] = IF Places(sep, t) = {} THEN <<t>> ELSE <<first(t)>> \o g[others(t)]
    <3>1. g[t] = IF t \in stop THEN leaf[t] ELSE F[t][g[next_[t]]]
      BY <1>6 DEF Solves
    <3>2. t \notin stop => next_[t] = others(t) /\ others(t) \in Texts
      BY <1>1
    <3>3. ASSUME t \notin stop, NEW v \in Seq(Texts) PROVE F[t][v] = <<first(t)>> \o v
      BY <3>3
    <3>4. t \in stop <=> Places(sep, t) = {}
      OBVIOUS
    <3>5. leaf[t] = <<t>>
      OBVIOUS
    <3> HIDE DEF F, next_, first, others, stop, leaf
    <3> QED
      BY <3>1, <3>2, <3>3, <3>4, <3>5
  <2> HIDE DEF first, others
  <2> QED
    BY <2>1
<1>8. Parts(it)
  <2> HIDE DEF Parts
  <2> QED
    BY <1>7
<1>9. ASSUME NEW t PROVE SplitBy(t, sep) = it[t]
  BY DEF SplitBy, FirstOf, OthersOf
<1> HIDE DEF it, first, others
<1>10. it[text] = IF Places(sep, text) = {} THEN <<text>> ELSE <<first(text)>> \o it[others(text)]
  BY <1>8
<1> QED
  BY <1>9, <1>10 DEF first, others

\* str.split makes a sequence of the parts.
LEMMA SplitByParts ==
    ASSUME NEW text \in Texts, NEW sep \in Texts, sep # <<>>
    PROVE  SplitBy(text, sep) \in Seq(PartsOf(text, sep))
<1> DEFINE T == SuffixesOf(text, sep)
           V == Seq(PartsOf(text, sep))
           it == [t \in T |-> SplitBy(t, sep)]
           stop == {t \in T : Places(sep, t) = {}}
           next_ == [t \in T |-> IF t \in stop THEN t ELSE OthersOf(t, sep)]
           size == [t \in T |-> Len(t)]
<1>1. text \in T /\ T \subseteq Texts
  <2>1. Len(text) \in Nat /\ text \in Seq(Int)
    BY DEF Texts
  <2>2. SubSeq(text, 1, Len(text)) = text /\ 1 \in 1..Len(text) + 1
    BY <2>1, SubSeqFull
  <2> QED
    BY <2>2 DEF SuffixesOf
<1>2. ASSUME NEW t \in T
      PROVE  /\ t \in Texts
             /\ t \in stop => t \in PartsOf(text, sep)
             /\ t \notin stop => /\ Places(sep, t) # {} /\ next_[t] = OthersOf(t, sep)
                                 /\ OthersOf(t, sep) \in T /\ FirstOf(t, sep) \in PartsOf(text, sep)
                                 /\ Len(OthersOf(t, sep)) < Len(t)
  <2>1. t \in Texts
    BY <1>1
  <2>2. /\ Places(sep, t) = {} => t \in PartsOf(text, sep)
        /\ Places(sep, t) # {} =>
              FirstOf(t, sep) \in PartsOf(text, sep) /\ OthersOf(t, sep) \in T
    BY SuffixParts DEF FirstOf, OthersOf
  <2>3. Places(sep, t) # {} => Len(OthersOf(t, sep)) < Len(t)
    BY <2>1, OthersType
  <2> HIDE DEF T
  <2> QED
    BY <2>1, <2>2, <2>3
<1>3. size \in [T -> Nat] /\ stop \in SUBSET T /\ next_ \in [T -> T]
  <2>1. \A t \in T : Len(t) \in Nat
    BY <1>2 DEF Texts
  <2> HIDE DEF T
  <2> QED
    BY <1>2, <2>1
<1>4. Decreases(size, T, stop, next_)
  <2> HIDE DEF T
  <2>1. \A t \in T : t \notin stop => size[next_[t]] < size[t]
    BY <1>2
  <2> HIDE DEF size, stop, next_
  <2> QED
    BY <2>1 DEF Decreases
<1>5. ASSUME NEW t \in T, t \in stop \/ it[next_[t]] \in V PROVE it[t] \in V
  <2>1. it[t] = IF Places(sep, t) = {} THEN <<t>>
                ELSE <<FirstOf(t, sep)>> \o SplitBy(OthersOf(t, sep), sep)
    BY <1>2, SplitByIs
  <2>2. CASE t \in stop
    <3>1. it[t] = <<t>> /\ t \in PartsOf(text, sep)
      BY <1>2, <2>1, <2>2
    <3> HIDE DEF it
    <3> QED
      BY <3>1
  <2>3. CASE t \notin stop
    <3>1. SplitBy(OthersOf(t, sep), sep) \in V
      BY <1>2, <1>5, <2>3
    <3>2. <<FirstOf(t, sep)>> \in V
      BY <1>2, <2>3
    <3>3. it[t] = <<FirstOf(t, sep)>> \o SplitBy(OthersOf(t, sep), sep)
      BY <1>2, <2>1, <2>3
    <3> HIDE DEF it
    <3> QED
      BY <3>1, <3>2, <3>3, ConcatProperties
  <2> QED
    BY <2>2, <2>3
<1> HIDE DEF it, size, stop, next_, T, V
<1>6. \A t \in T : it[t] \in V
  <2>1. Closed(it, T, V, stop, next_)
    BY <1>5 DEF Closed
  <2> QED
    BY <1>3, <1>4, <2>1, RecursionType
<1> QED
  BY <1>1, <1>6 DEF it, V

\* str.split makes a sequence of texts.
LEMMA SplitByType ==
    ASSUME NEW text \in Texts, NEW sep \in Texts, sep # <<>>
    PROVE  SplitBy(text, sep) \in Seq(Texts)
<1>1. PartsOf(text, sep) \subseteq Texts
  BY DEF PartsOf
<1> QED
  BY <1>1, SplitByParts, SeqMonotonic

-----------------------------------------------------------------------------
(***************************************************************************)
(* _merge_pieces.                                                          *)
(***************************************************************************)

\* FlattenSeq runs through the sequences.
IsFlat(r, seqs) ==
    /\ r[1] = seqs[1]
    /\ r[Len(seqs)] = FlattenSeq(seqs)
    /\ \A i \in 1..Len(seqs) : i # 1 => r[i] = r[i - 1] \o seqs[i]

\* There is such a run, of sequences of what is in them.
LEMMA FlattenRun ==
    ASSUME NEW X, NEW seqs \in Seq(Seq(X)), seqs # <<>>
    PROVE  \E r \in [1..Len(seqs) -> Seq(X)] : IsFlat(r, seqs)
<1> DEFINE n == Len(seqs)
           V == Seq(X)
           size == [i \in 1..n |-> i]
           next_ == [i \in 1..n |-> IF i = 1 THEN i ELSE i - 1]
           F == [i \in 1..n |-> [v \in V |-> v \o seqs[i]]]
           Flat(it) == it = [i \in 1..n |-> IF i = 1 THEN seqs[i] ELSE it[i - 1] \o seqs[i]]
           it == CHOOSE it : Flat(it)
<1>1. n \in Nat \ {0} /\ seqs \in [1..n -> V]
  OBVIOUS
<1>2. size \in [1..n -> Nat] /\ {1} \in SUBSET (1..n)
  BY <1>1
<1>3. next_ \in [1..n -> 1..n] /\ Decreases(size, 1..n, {1}, next_)
  BY <1>1 DEF Decreases
<1>4. F \in [1..n -> [V -> V]]
  <2> DEFINE e(i, v) == v \o seqs[i]
  <2>1. \A i \in 1..n : \A v \in V : e(i, v) \in V
    BY <1>1, ConcatProperties
  <2> HIDE DEF e, V
  <2>2. [i \in 1..n |-> [v \in V |-> e(i, v)]] \in [1..n -> [V -> V]]
    BY <2>1
  <2> QED
    BY <2>2 DEF e
<1>5. PICK g \in [1..n -> V] : \A i \in 1..n : Solves(g, i, {1}, seqs, next_, F)
  <2> HIDE DEF n, V, size, next_, F
  <2> QED
    BY <1>1, <1>2, <1>3, <1>4, RecursionExists, Zenon
<1>6. Flat(g)
  <2>1. ASSUME NEW i \in 1..n PROVE g[i] = IF i = 1 THEN seqs[i] ELSE g[i - 1] \o seqs[i]
    <3>1. g[i] = IF i \in {1} THEN seqs[i] ELSE F[i][g[next_[i]]]
      BY <1>5 DEF Solves
    <3>2. i # 1 => next_[i] = i - 1 /\ i - 1 \in 1..n
      BY <1>1
    <3>3. \A v \in V : F[i][v] = v \o seqs[i]
      OBVIOUS
    <3> HIDE DEF F, next_, n, V
    <3> QED
      BY <3>1, <3>2, <3>3
  <2> HIDE DEF n
  <2> QED
    BY <2>1
<1>7. Flat(it)
  <2> HIDE DEF Flat
  <2> QED
    BY <1>6
<1>8. FlattenSeq(seqs) = it[n]
  BY <1>1 DEF FlattenSeq
<1> HIDE DEF it
<1>9. ASSUME NEW i \in 1..n PROVE it[i] = IF i = 1 THEN seqs[i] ELSE it[i - 1] \o seqs[i]
  <2> HIDE DEF n
  <2> QED
    BY <1>7
<1>10. Closed(it, 1..n, V, {1}, next_)
  <2>1. ASSUME NEW i \in 1..n, i \in {1} \/ it[next_[i]] \in V PROVE it[i] \in V
    <3>1. i # 1 => next_[i] = i - 1 /\ it[i - 1] \in V
      BY <1>1, <2>1
    <3>2. seqs[i] \in V
      BY <1>1
    <3>3. it[i] = IF i = 1 THEN seqs[i] ELSE it[i - 1] \o seqs[i]
      BY <1>9
    <3> QED
      BY <3>1, <3>2, <3>3, ConcatProperties
  <2> QED
    BY <2>1 DEF Closed
<1>11. \A i \in 1..n : it[i] \in V
  <2> HIDE DEF n, V, size, next_
  <2> QED
    BY <1>2, <1>3, <1>10, RecursionType
<1>12. it \in [1..n -> V]
  <2> HIDE DEF n, V
  <2> QED
    BY <1>7, <1>11
<1>13. IsFlat(it, seqs)
  <2>1. 1 \in 1..n
    BY <1>1
  <2> QED
    BY <1>8, <1>9, <2>1 DEF IsFlat
<1> QED
  BY <1>12, <1>13

\* Sequences put together are a sequence of what is in them.
LEMMA FlattenType ==
    ASSUME NEW X, NEW seqs \in Seq(Seq(X))
    PROVE  FlattenSeq(seqs) \in Seq(X)
<1>1. CASE seqs = <<>>
  <2>1. Len(seqs) = 0
    BY <1>1
  <2>2. FlattenSeq(seqs) = seqs
    BY <2>1 DEF FlattenSeq
  <2> QED
    BY <1>1, <2>2, EmptySeq
<1>2. CASE seqs # <<>>
  <2>1. PICK r \in [1..Len(seqs) -> Seq(X)] : IsFlat(r, seqs)
    BY <1>2, FlattenRun
  <2>2. Len(seqs) \in 1..Len(seqs)
    BY <1>2
  <2> QED
    BY <2>1, <2>2 DEF IsFlat
<1> QED
  BY <1>1, <1>2

\* Texts of a kind that are short enough, and those that can become chunks.
Short(G, max) == {t \in G : Len(t) <= max}
Pieces(G, max) == Short(G, max) \ {<<>>}

\* What is kept of the pieces are the last ones, and they fit before the next, or none.
LEMMA OverlapIs ==
    ASSUME NEW X, NEW acc \in Seq(X), NEW sep, NEW overlap, NEW piece, NEW max
    PROVE  \E m \in 0..Len(acc) :
              /\ OverlapOf(acc, sep, overlap, piece, max) = LastOf(acc, m)
              /\ LastOf(acc, m) \in Seq(X)
              /\ m = 0 => LastOf(acc, m) = <<>>
              /\ m = 0 \/ Len(Join(LastOf(acc, m), sep)) + Len(sep) + Len(piece) <= max
<1> DEFINE fits(n) == LET kept == Len(Join(LastOf(acc, n), sep))
                      IN kept <= overlap /\ kept + Len(sep) + Len(piece) <= max
           A == {n \in 0..Len(acc) : n = 0 \/ fits(n)}
           m == Max(A)
<1>1. Len(acc) \in Nat /\ 0 \in 0..Len(acc)
  OBVIOUS
<1>2. A \in SUBSET (0..Len(acc)) /\ A # {}
  <2> HIDE DEF fits
  <2> QED
    BY <1>1
<1>3. m \in A
  <2> HIDE DEF A
  <2> QED
    BY <1>1, <1>2, MaxOf
<1>4. OverlapOf(acc, sep, overlap, piece, max) = LastOf(acc, m)
  BY DEF OverlapOf
<1>5. m \in 0..Len(acc) /\ (m = 0 \/ fits(m))
  <2> HIDE DEF m, fits
  <2> QED
    BY <1>3
<1> HIDE DEF m, A
<1>6. LastOf(acc, m) \in Seq(X) /\ (m = 0 => LastOf(acc, m) = <<>>)
  <2>1. \A i \in Len(acc) - m + 1..Len(acc) : acc[i] \in X
    BY <1>5
  <2>2. SubSeq(acc, Len(acc) - m + 1, Len(acc)) \in Seq(X)
    BY <1>1, <1>5, <2>1, SubSeqProperties
  <2>3. m = 0 => SubSeq(acc, Len(acc) - m + 1, Len(acc)) = <<>>
    BY <1>1, SubSeqEmpty
  <2> QED
    BY <2>2, <2>3 DEF LastOf
<1> QED
  BY <1>4, <1>5, <1>6

\* They fit before the next one, or nothing is kept.
LEMMA OverlapFits ==
    ASSUME NEW G, NEW max \in Nat, NEW acc \in Seq(Short(G, max)), NEW sep, NEW overlap,
           NEW piece \in Short(G, max)
    PROVE  LET kept == OverlapOf(acc, sep, overlap, piece, max)
           IN /\ kept \in Seq(Short(G, max))
              /\ kept # <<>> => Len(Join(kept, sep)) + Len(sep) + Len(piece) <= max
<1>1. PICK m \in 0..Len(acc) :
         /\ OverlapOf(acc, sep, overlap, piece, max) = LastOf(acc, m)
         /\ LastOf(acc, m) \in Seq(Short(G, max))
         /\ m = 0 => LastOf(acc, m) = <<>>
         /\ m = 0 \/ Len(Join(LastOf(acc, m), sep)) + Len(sep) + Len(piece) <= max
  BY OverlapIs
<1> QED
  BY <1>1

\* Texts of a kind that merging, which strips what it has joined, does not lead out of.
Mergeable(G, sep) == Joinable(G, sep) /\ \A t \in G : Strip(t) \in G

\* A chunk is added that is not blank.
LEMMA EmittedType ==
    ASSUME NEW G, NEW sep, Mergeable(G, sep), NEW max \in Nat,
           NEW cs \in Seq(Pieces(G, max)), NEW acc \in Seq(Short(G, max)), Len(Join(acc, sep)) <= max
    PROVE  Emitted(cs, acc, sep) \in Seq(Pieces(G, max))
<1>1. acc \in Seq(G)
  BY DEF Short
<1>2. Join(acc, sep) \in G
  BY <1>1, JoinType DEF Mergeable
<1>3. Strip(Join(acc, sep)) \in G /\ Len(Strip(Join(acc, sep))) <= Len(Join(acc, sep))
  BY <1>2, StripType DEF Mergeable, Joinable
<1>4. Strip(Join(acc, sep)) \in Short(G, max)
  <2>1. Len(Join(acc, sep)) \in Nat /\ Len(Strip(Join(acc, sep))) \in Nat
    BY <1>2, <1>3 DEF Texts, Mergeable, Joinable
  <2> QED
    BY <1>3, <2>1 DEF Short
<1> QED
  BY <1>4, AppendProperties DEF Emitted, Pieces

\* One round of _merge_pieces, from a state to the next.
MergeStates == [chunks : Seq(Texts), acc : Seq(Texts)]

AddPiece(st, piece, sep, max, overlap) ==
    IF Len(Join(Append(st.acc, piece), sep)) <= max
    THEN [st EXCEPT !.acc = Append(st.acc, piece)]
    ELSE [chunks |-> Emitted(st.chunks, st.acc, sep),
          acc |-> Append(OverlapOf(st.acc, sep, overlap, piece, max), piece)]

\* It goes through the pieces, and what is left at the end becomes a chunk.
IsMerge(r, pieces, sep, max, overlap) ==
    /\ r[0] = [chunks |-> <<>>, acc |-> <<>>]
    /\ \A i \in 1..Len(pieces) : r[i] = AddPiece(r[i - 1], pieces[i], sep, max, overlap)
    /\ Merge(pieces, sep, max, overlap)
          = Emitted(r[Len(pieces)].chunks, r[Len(pieces)].acc, sep)

\* A round makes texts of texts.
LEMMA AddPieceType ==
    ASSUME NEW sep \in Texts, NEW max, NEW overlap, NEW st \in MergeStates, NEW piece \in Texts
    PROVE  AddPiece(st, piece, sep, max, overlap) \in MergeStates
<1>1. /\ st.chunks \in Seq(Texts) /\ st.acc \in Seq(Texts)
      /\ st = [chunks |-> st.chunks, acc |-> st.acc]
  BY DEF MergeStates
<1>2. ASSUME NEW c \in Seq(Texts), NEW a \in Seq(Texts) PROVE [chunks |-> c, acc |-> a] \in MergeStates
  BY DEF MergeStates
<1>3. Append(st.acc, piece) \in Seq(Texts)
  BY <1>1, AppendProperties
<1>4. Emitted(st.chunks, st.acc, sep) \in Seq(Texts)
  <2>1. Strip(Join(st.acc, sep)) \in Texts
    BY <1>1, TextsJoin, JoinType, StripType
  <2> QED
    BY <1>1, <2>1, AppendProperties DEF Emitted
<1>5. Append(OverlapOf(st.acc, sep, overlap, piece, max), piece) \in Seq(Texts)
  <2>1. OverlapOf(st.acc, sep, overlap, piece, max) \in Seq(Texts)
    BY <1>1, OverlapIs
  <2> QED
    BY <2>1, AppendProperties
<1>6. ASSUME NEW a \in Seq(Texts) PROVE [st EXCEPT !.acc = a] = [chunks |-> st.chunks, acc |-> a]
  BY DEF MergeStates
<1>7. AddPiece(st, piece, sep, max, overlap) \in
         {[chunks |-> st.chunks, acc |-> Append(st.acc, piece)],
          [chunks |-> Emitted(st.chunks, st.acc, sep),
           acc |-> Append(OverlapOf(st.acc, sep, overlap, piece, max), piece)]}
  BY <1>3, <1>6 DEF AddPiece
<1>8. /\ [chunks |-> st.chunks, acc |-> Append(st.acc, piece)] \in MergeStates
      /\ [chunks |-> Emitted(st.chunks, st.acc, sep),
          acc |-> Append(OverlapOf(st.acc, sep, overlap, piece, max), piece)] \in MergeStates
  BY <1>1, <1>2, <1>3, <1>4, <1>5
<1> QED
  BY <1>7, <1>8

\* There is such a run.
LEMMA MergeRun ==
    ASSUME NEW sep \in Texts, NEW pieces \in Seq(Texts), NEW max, NEW overlap
    PROVE  \E r \in [0..Len(pieces) -> MergeStates] : IsMerge(r, pieces, sep, max, overlap)
<1> DEFINE n == Len(pieces)
           S == MergeStates
           base == [chunks |-> <<>>, acc |-> <<>>]
           Add(st, piece) == AddPiece(st, piece, sep, max, overlap)
           F == [i \in 1..n |-> [st \in S |-> Add(st, pieces[i])]]
           Adds(it) == it = [s \in SUBSET (DOMAIN pieces) |->
                                IF s = {} THEN base ELSE Add(it[s \ {Max(s)}], pieces[Max(s)])]
           it == CHOOSE it : Adds(it)
<1>1. n \in Nat /\ DOMAIN pieces = 1..n /\ \A i \in 1..n : pieces[i] \in Texts
  OBVIOUS
<1>2. base \in S
  BY EmptySeq DEF MergeStates
<1>3. ASSUME NEW st \in S, NEW piece \in Texts PROVE Add(st, piece) \in S
  BY AddPieceType
<1>4. Merge(pieces, sep, max, overlap)
         = Emitted(it[DOMAIN pieces].chunks, it[DOMAIN pieces].acc, sep)
  BY DEF Merge, FoldLeft, MapThenFoldSet, AddPiece
<1> HIDE DEF S, base, Add, n
<1>5. F \in [1..n -> [S -> S]]
  <2> DEFINE e(i, st) == Add(st, pieces[i])
  <2>1. \A i \in 1..n : \A st \in S : e(i, st) \in S
    BY <1>1, <1>3
  <2> HIDE DEF e
  <2>2. [i \in 1..n |-> [st \in S |-> e(i, st)]] \in [1..n -> [S -> S]]
    BY <2>1
  <2> QED
    BY <2>2 DEF e
<1>6. PICK g \in [SUBSET (1..n) -> S] : IsFold(g, n, base, F)
  <2> HIDE DEF F
  <2> QED
    BY <1>1, <1>2, <1>5, FoldExists, Zenon
<1>7. ASSUME NEW s \in SUBSET (1..n), s # {}
      PROVE  Max(s) \in 1..n /\ s \ {Max(s)} \in SUBSET (1..n)
  <2>1. s \in SUBSET (0..n)
    OBVIOUS
  <2>2. Max(s) \in s
    BY <1>1, <1>7, <2>1, MaxOf
  <2> QED
    BY <2>2
<1>8. ASSUME NEW i \in 1..n, NEW st \in S PROVE F[i][st] = Add(st, pieces[i])
  OBVIOUS
<1> HIDE DEF F
<1>9. Adds(g)
  <2>1. ASSUME NEW s \in SUBSET (1..n)
        PROVE  g[s] = IF s = {} THEN base ELSE Add(g[s \ {Max(s)}], pieces[Max(s)])
    <3>1. CASE s = {}
      BY <1>6, <3>1 DEF IsFold
    <3>2. CASE s # {}
      <4>1. g[s] = F[Max(s)][g[s \ {Max(s)}]]
        BY <1>6, <3>2 DEF IsFold
      <4>2. Max(s) \in 1..n /\ g[s \ {Max(s)}] \in S
        BY <1>7, <3>2
      <4> QED
        BY <1>8, <3>2, <4>1, <4>2
    <3> QED
      BY <3>1, <3>2
  <2> QED
    BY <1>1, <2>1
<1>10. Adds(it)
  <2> HIDE DEF Adds
  <2> QED
    BY <1>9
<1> HIDE DEF it
<1>11. PICK r \in [0..n -> S] : IsRun(r, n, base, F, it[1..n])
  <2>1. ASSUME NEW s \in SUBSET (1..n)
        PROVE  it[s] = IF s = {} THEN base ELSE Add(it[s \ {Max(s)}], pieces[Max(s)])
    BY <1>1, <1>10
  <2>2. /\ it[{}] = base
        /\ \A s \in SUBSET (1..n) : s # {} /\ it[s \ {Max(s)}] \in S
                                       => it[s] = F[Max(s)][it[s \ {Max(s)}]]
    BY <1>7, <1>8, <2>1
  <2> QED
    BY <1>1, <1>2, <1>5, <2>2, FoldRuns, Zenon
<1>12. ASSUME NEW i \in 1..n PROVE r[i] = Add(r[i - 1], pieces[i])
  <2>1. i - 1 \in 0..n
    BY <1>1
  <2> QED
    BY <1>8, <1>11, <2>1 DEF IsRun
<1>13. r[0] = base /\ r[n] = it[DOMAIN pieces]
  BY <1>1, <1>11 DEF IsRun
<1>14. IsMerge(r, pieces, sep, max, overlap)
  BY <1>4, <1>12, <1>13 DEF IsMerge, base, Add, n
<1> QED
  BY <1>11, <1>14 DEF S, n

\* Pieces that are short enough are merged to chunks that are.
LEMMA MergeType ==
    ASSUME NEW G, NEW sep, Mergeable(G, sep),
           NEW max \in Nat, NEW pieces \in Seq(Short(G, max)), NEW overlap
    PROVE  Merge(pieces, sep, max, overlap) \in Seq(Pieces(G, max))
<1> DEFINE n == Len(pieces)
           S == {st \in [chunks : Seq(Pieces(G, max)), acc : Seq(Short(G, max))] :
                    Len(Join(st.acc, sep)) <= max}
           base == [chunks |-> <<>>, acc |-> <<>>]
           Add(st, piece) == AddPiece(st, piece, sep, max, overlap)
<1>1. n \in Nat /\ \A i \in 1..n : pieces[i] \in Short(G, max)
  OBVIOUS
<1>2. base \in S
  <2>1. <<>> \in Seq(Pieces(G, max)) /\ <<>> \in Seq(Short(G, max))
    BY EmptySeq
  <2>2. Len(Join(<<>>, sep)) = 0
    BY DEF Join
  <2> QED
    BY <2>1, <2>2
<1>3. ASSUME NEW st \in S, NEW piece \in Short(G, max) PROVE Add(st, piece) \in S
  <2>0. ASSUME NEW c \in Seq(Pieces(G, max)), NEW a \in Seq(Short(G, max)), Len(Join(a, sep)) <= max
        PROVE  [chunks |-> c, acc |-> a] \in S
    <3> DEFINE u == [chunks |-> c, acc |-> a]
    <3>1. u.acc = a /\ u \in [chunks : Seq(Pieces(G, max)), acc : Seq(Short(G, max))]
      OBVIOUS
    <3> HIDE DEF u
    <3>2. u \in S
      BY <2>0, <3>1
    <3> QED
      BY <3>2 DEF u
  <2>1. /\ st.chunks \in Seq(Pieces(G, max)) /\ st.acc \in Seq(Short(G, max))
        /\ Len(Join(st.acc, sep)) <= max
        /\ st = [chunks |-> st.chunks, acc |-> st.acc]
    OBVIOUS
  <2>2. Append(st.acc, piece) \in Seq(Short(G, max))
    BY <2>1, AppendProperties
  <2>3. CASE Len(Join(Append(st.acc, piece), sep)) <= max
    <3>1. Add(st, piece) = [chunks |-> st.chunks, acc |-> Append(st.acc, piece)]
      BY <2>1, <2>3 DEF AddPiece
    <3> HIDE DEF Add, S
    <3> QED
      BY <2>0, <2>1, <2>2, <2>3, <3>1
  <2>4. CASE ~(Len(Join(Append(st.acc, piece), sep)) <= max)
    <3> DEFINE kept == OverlapOf(st.acc, sep, overlap, piece, max)
               chunks_ == Emitted(st.chunks, st.acc, sep)
    <3>1. kept \in Seq(Short(G, max))
          /\ (kept # <<>> => Len(Join(kept, sep)) + Len(sep) + Len(piece) <= max)
      BY <2>1, OverlapFits
    <3>2. chunks_ \in Seq(Pieces(G, max))
      BY <2>1, EmittedType
    <3>3. Add(st, piece) = [chunks |-> chunks_, acc |-> Append(kept, piece)]
      BY <2>4 DEF AddPiece
    <3> HIDE DEF kept, chunks_, Add
    <3>4. Append(kept, piece) \in Seq(Short(G, max))
      BY <3>1, AppendProperties
    <3>5. Len(Join(Append(kept, piece), sep)) <= max
      <4>1. kept \in Seq(Texts) /\ piece \in Texts /\ Len(piece) <= max /\ sep \in Texts
        BY <3>1 DEF Short, Mergeable, Joinable
      <4> QED
        BY <3>1, <4>1, JoinLength
    <3> HIDE DEF S
    <3> QED
      BY <2>0, <3>2, <3>3, <3>4, <3>5
  <2> QED
    BY <2>3, <2>4
<1> HIDE DEF S, base, Add, n
<1>4. PICK r : /\ r[0] = base /\ \A i \in 1..n : r[i] = Add(r[i - 1], pieces[i])
               /\ Merge(pieces, sep, max, overlap) = Emitted(r[n].chunks, r[n].acc, sep)
  <2>1. pieces \in Seq(Texts) /\ sep \in Texts
    <3>1. Short(G, max) \subseteq Texts /\ sep \in Texts
      BY DEF Short, Mergeable, Joinable
    <3> QED
      BY <3>1, SeqMonotonic
  <2>2. PICK r : IsMerge(r, pieces, sep, max, overlap)
    BY <2>1, MergeRun
  <2> QED
    BY <2>2 DEF IsMerge, base, Add, n
<1> DEFINE A == {k \in 0..n : r[k] \in S}
<1>5. 0 \in A
  BY <1>1, <1>2, <1>4
<1>6. ASSUME NEW k \in 0..n, k < n, k \in A PROVE k + 1 \in A
  <2>1. k + 1 \in 1..n /\ (k + 1) - 1 = k
    BY <1>1, <1>6
  <2>2. r[k + 1] = Add(r[k], pieces[k + 1])
    BY <1>4, <2>1
  <2>3. Add(r[k], pieces[k + 1]) \in S
    BY <1>1, <1>3, <1>6, <2>1
  <2> QED
    BY <2>1, <2>2, <2>3
<1>7. r[n] \in S
  <2>1. \A k \in 0..n : k \in A
    <3> HIDE DEF A
    <3> QED
      BY <1>1, <1>5, <1>6, Induction
  <2> QED
    BY <1>1, <2>1
<1>8. /\ r[n].chunks \in Seq(Pieces(G, max)) /\ r[n].acc \in Seq(Short(G, max))
      /\ Len(Join(r[n].acc, sep)) <= max
  BY <1>7 DEF S
<1> QED
  BY <1>4, <1>8, EmittedType

-----------------------------------------------------------------------------
(***************************************************************************)
(* recursive_split_text.                                                   *)
(***************************************************************************)

\* The slices of the fallback are not empty and not longer than max.
LEMMA SlicesType ==
    ASSUME NEW t \in Texts, t # <<>>, NEW max \in Nat \ {0}, NEW overlap \in Nat,
           NEW G, \A i, k \in 1..Len(t) : i <= k => SubSeq(t, i, k) \in G
    PROVE  Slices(t, max, overlap) \in Seq(Pieces(G, max))
<1> DEFINE size == Max({1, max - overlap})
           m == (Len(t) - 1) \div size
           slice(k) == SubSeq(t, (k - 1) * size + 1, Min({(k - 1) * size + max, Len(t)}))
<1>1. Len(t) \in Nat \ {0}
  BY EmptySeq DEF Texts
<1>2. size \in Nat \ {0}
  <2>1. size \in {1, max - overlap} /\ size >= 1 /\ max - overlap \in Int
    <3> DEFINE a == 1
               b == max - overlap
    <3>1. a \in Int /\ b \in Int
      OBVIOUS
    <3> HIDE DEF a, b
    <3>2. Max({a, b}) \in {a, b} /\ Max({a, b}) >= a
      BY <3>1, MaxOfTwo
    <3> QED
      BY <3>1, <3>2 DEF a, b
  <2> HIDE DEF size
  <2> QED
    BY <2>1
<1>3. m \in Nat /\ m * size <= Len(t) - 1
  <2> HIDE DEF size
  <2>1. \A a \in Nat : \A b \in Nat \ {0} : a \div b \in Nat /\ (a \div b) * b <= a
    OBVIOUS
  <2>2. Len(t) - 1 \in Nat
    BY <1>1
  <2> QED
    BY <1>2, <2>1, <2>2
<1>4. ASSUME NEW k \in 1..m + 1 PROVE slice(k) \in Pieces(G, max)
  <2> DEFINE j == (k - 1) * size
             last == Min({j + max, Len(t)})
  <2> HIDE DEF size, m
  <2>1. j \in Nat /\ j <= Len(t) - 1
    <3>1. k - 1 \in Nat /\ k - 1 <= m
      BY <1>3
    <3>2. \A a, b \in Nat : \A c \in Nat \ {0} : a <= b => a * c \in Nat /\ b * c \in Nat /\ a * c <= b * c
      OBVIOUS
    <3>3. j \in Nat /\ j <= m * size
      BY <1>2, <1>3, <3>1, <3>2
    <3> HIDE DEF j
    <3>4. m * size \in Nat
      BY <1>2, <1>3
    <3> QED
      BY <1>1, <1>3, <3>3, <3>4
  <2> HIDE DEF j
  <2>2. last \in {j + max, Len(t)} /\ last <= j + max /\ last <= Len(t)
    <3> DEFINE b == j + max
    <3>1. b \in Int /\ Len(t) \in Int
      BY <1>1, <2>1
    <3> HIDE DEF b
    <3>2. Min({b, Len(t)}) \in {b, Len(t)} /\ Min({b, Len(t)}) <= b /\ Min({b, Len(t)}) <= Len(t)
      BY <3>1, MinOfTwo
    <3> QED
      BY <3>2 DEF b
  <2> HIDE DEF last
  <2>3. last \in Int /\ j + 1 <= last
    BY <1>1, <2>1, <2>2
  <2>4. /\ SubSeq(t, j + 1, last) \in Texts /\ Len(SubSeq(t, j + 1, last)) = last - j
        /\ SubSeq(t, j + 1, last) \in G
    <3>1. j + 1 \in 1..Len(t) /\ last \in 1..Len(t) /\ j + 1 <= last
      BY <1>1, <2>1, <2>2, <2>3
    <3>2. SubSeq(t, j + 1, last) \in G
      BY <3>1
    <3> QED
      BY <2>1, <2>2, <2>3, <3>2, SubText
  <2>5. SubSeq(t, j + 1, last) # <<>> /\ last - j <= max
    <3>1. last - j # 0
      BY <2>1, <2>3
    <3> QED
      BY <2>1, <2>2, <2>3, <2>4, <3>1, EmptySeq
  <2>6. slice(k) = SubSeq(t, j + 1, last)
    BY DEF j, last
  <2> HIDE DEF slice
  <2> QED
    BY <2>4, <2>5, <2>6 DEF Pieces, Short
<1>5. Slices(t, max, overlap) = [k \in 1..m + 1 |-> slice(k)]
  BY DEF Slices
<1> HIDE DEF slice, m
<1>6. [k \in 1..m + 1 |-> slice(k)] \in [1..m + 1 -> Pieces(G, max)]
  BY <1>4
<1>7. m + 1 \in Nat
  BY <1>3
<1> QED
  BY <1>5, <1>6, <1>7, SeqDef

\* The separators are texts.
LEMMA SeparatorsType ==
    /\ Len(Separators) = 4 /\ Separators[4] = <<>>
    /\ \A i \in 1..4 : Separators[i] \in Texts
<1>1. Newline \in Int /\ Space \in Int
  BY DEF Newline, Space
<1>2. <<Newline, Newline>> \in Texts /\ <<Newline>> \in Texts /\ <<Space>> \in Texts /\ <<>> \in Texts
  BY <1>1 DEF Texts
<1>3. /\ Separators[1] = <<Newline, Newline>> /\ Separators[2] = <<Newline>>
      /\ Separators[3] = <<Space>> /\ Separators[4] = <<>> /\ Len(Separators) = 4
  BY DEF Separators
<1>4. \A i \in 1..4 : i = 1 \/ i = 2 \/ i = 3 \/ i = 4
  OBVIOUS
<1> QED
  BY <1>2, <1>3, <1>4

\* There is a separator for every text: the empty one.
LEMMA ChooseSeparatorType ==
    ASSUME NEW t, NEW k \in 1..4
    PROVE  ChooseSeparator(t, k) \in k..4
<1> DEFINE A == {i \in k..Len(Separators) : Separators[i] = <<>> \/ Places(Separators[i], t) # {}}
<1>1. A \in SUBSET Nat /\ A \subseteq k..4 /\ 4 \in A
  BY SeparatorsType
<1>2. Min(A) \in A
  <2> HIDE DEF A
  <2> QED
    BY <1>1, MinOf
<1> QED
  BY <1>1, <1>2 DEF ChooseSeparator

\* What the splitting of a text by the separators from the k-th on is made of, when f is
\* what it is by those that follow.
Refined(f, i, part, max) ==
    IF Len(part) > max THEN f[i + 1][part] ELSE IF part # <<>> THEN <<part>> ELSE <<>>

AllRefined(f, i, t, max) ==
    LET parts == SplitBy(t, Separators[i])
    IN [n \in DOMAIN parts |-> Refined(f, i, parts[n], max)]

Level_(f, k, t, max, overlap) ==
    IF Len(t) <= max
    THEN IF Strip(t) = <<>> THEN <<>> ELSE <<t>>
    ELSE LET i == ChooseSeparator(t, k)
         IN IF Separators[i] = <<>> THEN Slices(t, max, overlap)
            ELSE Merge(FlattenSeq(AllRefined(f, i, t, max)), Separators[i], max, overlap)

SplitsAs(f, max, overlap) ==
    f = [k \in 1..4 |-> [t \in Texts |-> Level_(f, k, t, max, overlap)]]

\* Split, one separator after the other.
LEMMA SplitIs ==
    ASSUME NEW text, NEW max, NEW overlap
    PROVE  Split(text, max, overlap) = (CHOOSE f : SplitsAs(f, max, overlap))[1][text]
<1>1. Len(Separators) = 4
  BY SeparatorsType
<1> QED
  BY <1>1 DEF Split, SplitsAs, Level_, AllRefined, Refined

\* The separators that follow decide about a level.
LEMMA LevelDepends ==
    ASSUME NEW f, NEW g, NEW k \in 1..4, NEW t \in Texts, NEW max, NEW overlap,
           \A i \in 1..4 : k < i => \A part \in Texts : f[i][part] = g[i][part]
    PROVE  Level_(f, k, t, max, overlap) = Level_(g, k, t, max, overlap)
<1> DEFINE i == ChooseSeparator(t, k)
           parts == SplitBy(t, Separators[i])
<1>1. i \in k..4
  BY ChooseSeparatorType
<1>2. ASSUME Separators[i] # <<>> PROVE AllRefined(f, i, t, max) = AllRefined(g, i, t, max)
  <2>1. i # 4
    BY <1>2, SeparatorsType
  <2>2. i \in 1..4 /\ i + 1 \in 1..4 /\ k < i + 1
    BY <1>1, <2>1
  <2>3. parts \in Seq(Texts)
    BY <1>2, <2>2, SeparatorsType, SplitByType
  <2>4. ASSUME NEW n \in DOMAIN parts PROVE Refined(f, i, parts[n], max) = Refined(g, i, parts[n], max)
    <3>1. parts[n] \in Texts
      BY <2>3
    <3> HIDE DEF i, parts
    <3> QED
      BY <2>2, <3>1 DEF Refined
  <2> HIDE DEF i
  <2> QED
    BY <2>4 DEF AllRefined
<1> QED
  BY <1>2 DEF Level_

\* There is such a function: four levels, each made from those that follow.
LEMMA SplitExists ==
    ASSUME NEW max, NEW overlap
    PROVE  \E f : SplitsAs(f, max, overlap)
<1> DEFINE Next_(f) == [k \in 1..4 |-> [t \in Texts |-> Level_(f, k, t, max, overlap)]]
           From(f, j) == \A k \in 1..4 : j <= k => \A t \in Texts :
                            f[k][t] = Level_(f, k, t, max, overlap)
<1>1. ASSUME NEW f, NEW k \in 1..4, NEW t \in Texts PROVE Next_(f)[k][t] = Level_(f, k, t, max, overlap)
  OBVIOUS
<1> HIDE DEF Next_
<1>2. ASSUME NEW f, NEW j \in 1..5, From(f, j)
      PROVE  From(Next_(f), j - 1)
  <2> SUFFICES ASSUME NEW k \in 1..4, j - 1 <= k, NEW t \in Texts
               PROVE  Next_(f)[k][t] = Level_(Next_(f), k, t, max, overlap)
    OBVIOUS
  <2>1. ASSUME NEW i \in 1..4, k < i, NEW part \in Texts PROVE f[i][part] = Next_(f)[i][part]
    <3>1. j <= i
      BY <2>1
    <3>2. f[i][part] = Level_(f, i, part, max, overlap)
      BY <1>2, <3>1
    <3> QED
      BY <1>1, <3>2
  <2>2. Level_(f, k, t, max, overlap) = Level_(Next_(f), k, t, max, overlap)
    BY <2>1, LevelDepends
  <2> QED
    BY <1>1, <2>2
<1> DEFINE f4 == Next_(0)
           f3 == Next_(f4)
           f2 == Next_(f3)
           f1 == Next_(f2)
<1>3. From(0, 5)
  OBVIOUS
<1> HIDE DEF From
<1>4. From(f4, 4)
  BY <1>2, <1>3
<1>5. From(f3, 3)
  BY <1>2, <1>4
<1>6. From(f2, 2)
  BY <1>2, <1>5
<1>7. From(f1, 1)
  BY <1>2, <1>6
<1>8. SplitsAs(f1, max, overlap)
  <2>1. \A k \in 1..4 : \A t \in Texts : Level_(f2, k, t, max, overlap) = Level_(f1, k, t, max, overlap)
    BY <1>1, <1>7 DEF From
  <2> HIDE DEF f2
  <2>2. f1 = [k \in 1..4 |-> [t \in Texts |-> Level_(f2, k, t, max, overlap)]]
    BY DEF Next_
  <2> HIDE DEF f1
  <2> QED
    BY <2>1, <2>2 DEF SplitsAs
<1> QED
  BY <1>8

\* Texts of the kinds in W, one for each level, can be split into chunks of the kind G:
\* their parts are of the kind of the next level, or every stretch of them is of the kind G.
Splittable(W, G, max) ==
    /\ \A k \in 1..4 : W[k] \subseteq G
    /\ \A i \in 1..3 : Mergeable(G, Separators[i])
    /\ \A k \in 1..4 : \A t \in W[k] : ~(Len(t) <= max) =>
          LET i == ChooseSeparator(t, k)
          IN IF Separators[i] = <<>>
             THEN \A a, b \in 1..Len(t) : a <= b => SubSeq(t, a, b) \in G
             ELSE PartsOf(t, Separators[i]) \subseteq W[i + 1]

\* A text is split into chunks of the kind that are not empty and not longer than max: by
\* the last separators, then by those before.
LEMMA SplitType ==
    ASSUME NEW W, NEW G, NEW max \in Nat \ {0}, Splittable(W, G, max),
           NEW text \in W[1], NEW overlap \in Nat
    PROVE  Split(text, max, overlap) \in Seq(Pieces(G, max))
<1> DEFINE f == CHOOSE f : SplitsAs(f, max, overlap)
           Fits(k) == \A t \in W[k] : f[k][t] \in Seq(Pieces(G, max))
<1>0. G \subseteq Texts /\ \A k \in 1..4 : W[k] \subseteq G /\ W[k] \subseteq Texts
  <2>1. 1 \in 1..3
    OBVIOUS
  <2> QED
    BY <2>1 DEF Splittable, Mergeable, Joinable
<1>1. SplitsAs(f, max, overlap)
  BY SplitExists
<1> HIDE DEF f
<1>2. ASSUME NEW k \in 1..4, NEW t \in Texts PROVE f[k][t] = Level_(f, k, t, max, overlap)
  BY <1>1 DEF SplitsAs
<1>3. ASSUME NEW k \in 1..4, \A i \in 1..4 : k < i => Fits(i) PROVE Fits(k)
  <2> SUFFICES ASSUME NEW t \in W[k] PROVE Level_(f, k, t, max, overlap) \in Seq(Pieces(G, max))
    BY <1>0, <1>2
  <2>0. t \in G /\ t \in Texts /\ Len(t) \in Nat
    BY <1>0 DEF Texts
  <2>1. CASE Len(t) <= max
    <3>1. CASE Strip(t) = <<>>
      BY <2>1, <3>1, EmptySeq DEF Level_
    <3>2. CASE Strip(t) # <<>>
      <4>1. t # <<>>
        <5>1. Strip(<<>>) = <<>>
          BY DEF Strip
        <5> QED
          BY <3>2, <5>1
      <4>2. t \in Pieces(G, max)
        BY <2>0, <2>1, <4>1 DEF Pieces, Short
      <4>3. Level_(f, k, t, max, overlap) = <<t>>
        BY <2>1, <3>2 DEF Level_
      <4> QED
        BY <4>2, <4>3
    <3> QED
      BY <3>1, <3>2
  <2>2. CASE ~(Len(t) <= max)
    <3> DEFINE i == ChooseSeparator(t, k)
               sep == Separators[i]
               parts == SplitBy(t, sep)
               pieces == AllRefined(f, i, t, max)
    <3>1. i \in k..4 /\ i \in 1..4
      BY ChooseSeparatorType
    <3>2. sep \in Texts
      BY <3>1, SeparatorsType
    <3>3. CASE sep = <<>>
      <4>1. t # <<>>
        BY <2>0, <2>2
      <4>2. Slices(t, max, overlap) \in Seq(Pieces(G, max))
        <5>1. \A a, b \in 1..Len(t) : a <= b => SubSeq(t, a, b) \in G
          BY <2>2, <3>3 DEF Splittable
        <5> QED
          BY <2>0, <4>1, <5>1, SlicesType
      <4>3. Level_(f, k, t, max, overlap) = Slices(t, max, overlap)
        BY <2>2, <3>3 DEF Level_
      <4> QED
        BY <4>2, <4>3
    <3>4. CASE sep # <<>>
      <4>1. i + 1 \in 1..4 /\ k < i + 1
        <5>1. i # 4
          BY <3>4, SeparatorsType
        <5> QED
          BY <3>1, <5>1
      <4>2. parts \in Seq(W[i + 1]) /\ W[i + 1] \subseteq G /\ i \in 1..3
        <5>1. PartsOf(t, sep) \subseteq W[i + 1]
          BY <2>2, <3>4 DEF Splittable
        <5>2. parts \in Seq(PartsOf(t, sep))
          BY <2>0, <3>2, <3>4, SplitByParts
        <5>3. i \in 1..3
          BY <3>1, <4>1
        <5> HIDE DEF parts, sep, i
        <5> QED
          BY <1>0, <4>1, <5>1, <5>2, <5>3, SeqMonotonic
      <4>3. ASSUME NEW n \in DOMAIN parts PROVE Refined(f, i, parts[n], max) \in Seq(Short(G, max))
        <5>1. parts[n] \in W[i + 1] /\ parts[n] \in G /\ parts[n] \in Texts
          <6> HIDE DEF parts, i
          <6> QED
            BY <1>0, <4>2
        <5>2. f[i + 1][parts[n]] \in Seq(Short(G, max))
          <6>1. f[i + 1][parts[n]] \in Seq(Pieces(G, max))
            BY <1>3, <4>1, <5>1
          <6>2. Pieces(G, max) \subseteq Short(G, max)
            BY DEF Pieces
          <6> QED
            BY <6>1, <6>2, SeqMonotonic
        <5>3. Len(parts[n]) <= max => parts[n] \in Short(G, max)
          BY <5>1 DEF Short
        <5>4. Len(parts[n]) \in Nat
          BY <5>1 DEF Texts
        <5> HIDE DEF i, parts
        <5> QED
          BY <5>2, <5>3, <5>4, EmptySeq DEF Refined
      <4>4. pieces \in Seq(Seq(Short(G, max)))
        <5>1. pieces = [n \in DOMAIN parts |-> Refined(f, i, parts[n], max)]
          BY DEF AllRefined
        <5>2. DOMAIN parts = 1..Len(parts) /\ Len(parts) \in Nat
          BY <4>2, LenProperties
        <5> HIDE DEF pieces, parts, i
        <5>3. pieces \in [1..Len(parts) -> Seq(Short(G, max))]
          BY <4>3, <5>1, <5>2
        <5> QED
          BY <5>2, <5>3, SeqDef
      <4>5. Merge(FlattenSeq(pieces), sep, max, overlap) \in Seq(Pieces(G, max))
        <5>1. FlattenSeq(pieces) \in Seq(Short(G, max))
          BY <4>4, FlattenType
        <5>2. Mergeable(G, sep)
          BY <4>2 DEF Splittable
        <5> HIDE DEF sep, pieces
        <5> QED
          BY <5>1, <5>2, MergeType
      <4>6. Level_(f, k, t, max, overlap) = Merge(FlattenSeq(pieces), sep, max, overlap)
        BY <2>2, <3>4 DEF Level_
      <4> QED
        BY <4>5, <4>6
    <3> QED
      BY <3>3, <3>4
  <2> QED
    BY <2>1, <2>2
<1> HIDE DEF Fits
<1>4. Fits(4)
  BY <1>3
<1>5. Fits(3)
  BY <1>3, <1>4
<1>6. Fits(2)
  BY <1>3, <1>4, <1>5
<1>7. Fits(1)
  BY <1>3, <1>4, <1>5, <1>6
<1>8. Split(text, max, overlap) = f[1][text]
  BY SplitIs DEF f
<1> QED
  BY <1>7, <1>8 DEF Fits

-----------------------------------------------------------------------------
(***************************************************************************)
(* The letters of a text.  Splitting makes no letter: the chunks of a text *)
(* are over the same alphabet.                                             *)
(***************************************************************************)

\* Texts over an alphabet can be joined, stripped and merged.
LEMMA AlphabetMerges ==
    ASSUME NEW A \in SUBSET Int, NEW sep \in Seq(A)
    PROVE  Mergeable(Seq(A), sep)
<1>1. Seq(A) \subseteq Texts /\ <<>> \in Seq(A) /\ sep \in Texts
  BY EmptySeq, SeqMonotonic DEF Texts
<1>2. ASSUME NEW s \in Seq(A), NEW t \in Seq(A) PROVE (s \o sep) \o t \in Seq(A)
  <2>1. s \o sep \in Seq(A)
    BY ConcatProperties
  <2> QED
    BY <2>1, ConcatProperties
<1>3. ASSUME NEW t \in Seq(A) PROVE Strip(t) \in Seq(A)
  <2> DEFINE ink == {i \in DOMAIN t : t[i] > 0}
  <2>1. Len(t) \in Nat /\ DOMAIN t = 1..Len(t)
    BY LenProperties
  <2>2. CASE ink = {}
    BY <1>1, <2>2 DEF Strip
  <2>3. CASE ink # {}
    <3>1. ink \in SUBSET (0..Len(t)) /\ ink \in SUBSET Nat /\ ink \in SUBSET (1..Len(t))
      BY <2>1
    <3>2. Min(ink) \in ink /\ Max(ink) \in ink
      <4> HIDE DEF ink
      <4> QED
        BY <2>1, <2>3, <3>1, MinOf, MaxOf
    <3>3. Strip(t) = SubSeq(t, Min(ink), Max(ink))
      BY <2>3 DEF Strip
    <3>4. Min(ink) \in 1..Len(t) /\ Max(ink) \in 1..Len(t)
      BY <3>1, <3>2
    <3> HIDE DEF ink
    <3>5. \A i \in Min(ink)..Max(ink) : t[i] \in A
      BY <2>1, <3>4
    <3> QED
      BY <3>3, <3>4, <3>5, SubSeqProperties
  <2> QED
    BY <2>2, <2>3
<1> QED
  BY <1>1, <1>2, <1>3 DEF Mergeable, Joinable

\* Texts over an alphabet with white space can be split into chunks over it.
LEMMA AlphabetSplits ==
    ASSUME NEW A \in SUBSET Int, Space \in A, Newline \in A, NEW max \in Nat \ {0}
    PROVE  \E W : Splittable(W, Seq(A), max) /\ Seq(A) \subseteq W[1]
<1> DEFINE W == [k \in 1..4 |-> Seq(A)]
<1>1. \A i \in 1..3 : Mergeable(Seq(A), Separators[i])
  <2>1. <<Newline, Newline>> \in Seq(A) /\ <<Newline>> \in Seq(A) /\ <<Space>> \in Seq(A)
    OBVIOUS
  <2>2. \A i \in 1..3 : i = 1 \/ i = 2 \/ i = 3
    OBVIOUS
  <2>3. /\ Separators[1] = <<Newline, Newline>> /\ Separators[2] = <<Newline>>
        /\ Separators[3] = <<Space>>
    BY DEF Separators
  <2>4. \A i \in 1..3 : Separators[i] \in Seq(A)
    BY <2>1, <2>2, <2>3
  <2> QED
    BY <2>4, AlphabetMerges
<1>2. ASSUME NEW t \in Seq(A), NEW i \in Int, NEW k \in Int, 1 <= i, k <= Len(t)
      PROVE  SubSeq(t, i, k) \in Seq(A)
  <2>1. \A x \in i..k : t[x] \in A
    BY <1>2
  <2> QED
    BY <2>1, SubSeqProperties
<1>3. ASSUME NEW k \in 1..4, NEW t \in W[k], ~(Len(t) <= max)
      PROVE  LET i == ChooseSeparator(t, k)
             IN IF Separators[i] = <<>>
                THEN \A a, b \in 1..Len(t) : a <= b => SubSeq(t, a, b) \in Seq(A)
                ELSE PartsOf(t, Separators[i]) \subseteq W[i + 1]
  <2> DEFINE i == ChooseSeparator(t, k)
  <2>1. t \in Seq(A)
    OBVIOUS
  <2>2. i \in 1..4
    BY ChooseSeparatorType
  <2> HIDE DEF i
  <2>3. CASE Separators[i] = <<>>
    BY <1>2, <2>1, <2>3 DEF i
  <2>4. CASE Separators[i] # <<>>
    <3>1. i + 1 \in 1..4
      <4>1. i # 4
        BY <2>4, SeparatorsType
      <4> QED
        BY <2>2, <4>1
    <3>2. ASSUME NEW part \in PartsOf(t, Separators[i]) PROVE part \in Seq(A)
      <4>1. PICK a, b \in Int : IsPart(t, Separators[i], a, b) /\ part = SubSeq(t, a, b)
        BY <3>2 DEF PartsOf
      <4>2. 1 <= a /\ b <= Len(t)
        BY <2>1, <4>1 DEF IsPart
      <4> QED
        BY <1>2, <2>1, <4>1, <4>2
    <3> QED
      BY <2>4, <3>1, <3>2 DEF i
  <2> QED
    BY <2>3, <2>4 DEF i
<1>4. /\ \A k \in 1..4 : W[k] \subseteq Seq(A)
      /\ Seq(A) \subseteq W[1]
  OBVIOUS
<1> HIDE DEF W
<1>5. Splittable(W, Seq(A), max)
  BY <1>1, <1>3, <1>4 DEF Splittable
<1> QED
  BY <1>4, <1>5

-----------------------------------------------------------------------------
(***************************************************************************)
(* The invariant.  What is in the sections and chunks has the types that   *)
(* the next step needs; a heading that is kept is one of the page.         *)
(***************************************************************************)
HeadingsArePlaces == heading_stack \in Seq(DOMAIN page)

IInv == TypeOK /\ HeadingsArePlaces /\ ChunksFit /\ ChunksAreNumbered

\* The sections and the chunks there can be when the page is p.
SectionsOf(p) == [path : Seq(DOMAIN p), content : Texts]
ChunksOf(p) == [chunk_index : Nat, path : Seq(DOMAIN p), text : Texts \ {<<>>}]

\* A page that grows keeps its places, and what was made of it stays one of those.
LEMMA PageGrows ==
    ASSUME NEW p \in Seq(Lines), NEW l \in Lines
    PROVE  /\ Append(p, l) \in Seq(Lines)
           /\ Len(p) + 1 \in DOMAIN Append(p, l)
           /\ Seq(DOMAIN p) \subseteq Seq(DOMAIN Append(p, l))
           /\ Seq(SectionsOf(p)) \subseteq Seq(SectionsOf(Append(p, l)))
           /\ Seq(ChunksOf(p)) \subseteq Seq(ChunksOf(Append(p, l)))
<1>1. /\ Append(p, l) \in Seq(Lines) /\ Len(p) \in Nat
      /\ DOMAIN p = 1..Len(p) /\ DOMAIN Append(p, l) = 1..(Len(p) + 1)
  OBVIOUS
<1>2. DOMAIN p \subseteq DOMAIN Append(p, l)
  BY <1>1
<1>3. Seq(DOMAIN p) \subseteq Seq(DOMAIN Append(p, l))
  BY <1>2, SeqMonotonic
<1>4. SectionsOf(p) \subseteq SectionsOf(Append(p, l))
  <2> HIDE DEF Texts
  <2> QED
    BY <1>3 DEF SectionsOf
<1>5. ChunksOf(p) \subseteq ChunksOf(Append(p, l))
  BY <1>3 DEF ChunksOf
<1>6. Seq(SectionsOf(p)) \subseteq Seq(SectionsOf(Append(p, l)))
  BY <1>4, SeqMonotonic
<1>7. Seq(ChunksOf(p)) \subseteq Seq(ChunksOf(Append(p, l)))
  BY <1>5, SeqMonotonic
<1> QED
  BY <1>1, <1>3, <1>6, <1>7

\* A line is a text of its letters.
LEMMA TextOfType ==
    ASSUME NEW l \in Lines, NEW n \in Nat
    PROVE  TextOf(l, n) \in Texts
<1>1. l.ink \in Seq(BOOLEAN)
  BY ChunkingAssumption
<1>2. DOMAIN l.ink = 1..Len(l.ink) /\ Len(l.ink) \in Nat
  BY <1>1, LenProperties
<1> DEFINE e(i) == IF l.ink[i] THEN Width * n + i ELSE Space
<1>3. ASSUME NEW i \in 1..Len(l.ink) PROVE e(i) \in Int
  <2>1. Width * n + i \in Int /\ Space \in Int
    BY <1>2 DEF Width, Space
  <2> QED
    BY <2>1
<1> HIDE DEF e
<1>4. [i \in 1..Len(l.ink) |-> e(i)] \in [1..Len(l.ink) -> Int]
  BY <1>3
<1>5. [i \in 1..Len(l.ink) |-> e(i)] \in Seq(Int)
  BY <1>2, <1>4, SeqDef
<1>6. TextOf(l, n) = [i \in 1..Len(l.ink) |-> e(i)]
  BY <1>2 DEF TextOf, e
<1> QED
  BY <1>5, <1>6 DEF Texts

\* A section that ends has the headings above it for its path and a text.
LEMMA FinalizedType ==
    ASSUME TypeOK, HeadingsArePlaces
    PROVE  /\ Finalized \in Seq(SectionsOf(page))
           /\ Len(Finalized) \in Nat
           /\ Len(sections) <= Len(Finalized)
<1> DEFINE content == Strip(Join(content_lines, <<Newline>>))
           section == [path |-> heading_stack, content |-> content]
<1>1. content_lines \in Seq(Texts) /\ <<Newline>> \in Texts
  BY DEF TypeOK, Texts, Newline
<1>2. content \in Texts
  <2>1. Join(content_lines, <<Newline>>) \in Texts
    BY <1>1, TextsJoin, JoinType
  <2> QED
    BY <2>1, StripType
<1>3. section \in SectionsOf(page)
  <2> HIDE DEF content
  <2> QED
    BY <1>2 DEF HeadingsArePlaces, SectionsOf
<1>4. sections \in Seq(SectionsOf(page))
  BY DEF TypeOK, SectionsOf
<1>5. Finalized = sections \/ Finalized = Append(sections, section)
  BY DEF Finalized
<1> HIDE DEF section
<1> QED
  BY <1>3, <1>4, <1>5, AppendProperties

\* The headings that stay are the first ones of the stack.
LEMMA BelowType ==
    ASSUME NEW p, NEW stack \in Seq(DOMAIN p), NEW level
    PROVE  Below(stack, level) \in Seq(DOMAIN p)
<1> DEFINE A == {i \in 0..Len(stack) : i = 0 \/ Level(stack[i]) < level}
           m == Max(A)
<1>1. Len(stack) \in Nat /\ A \in SUBSET (0..Len(stack)) /\ 0 \in A
  OBVIOUS
<1>2. m \in 0..Len(stack)
  <2> HIDE DEF A
  <2> QED
    BY <1>1, MaxOf
<1> HIDE DEF m
<1>3. \A i \in 1..m : stack[i] \in DOMAIN p
  BY <1>2
<1>4. SubSeq(stack, 1, m) \in Seq(DOMAIN p)
  BY <1>2, <1>3, SubSeqProperties
<1> QED
  BY <1>4 DEF Below, m

\* A prefix leaves at least MinSize for the text, and what it leaves of MaxChunkSize.
LEMMA EffectiveMaxType ==
    ASSUME NEW S, NEW path \in Seq(S)
    PROVE  /\ PrefixSize(path) \in Nat
           /\ EffectiveMax(path) \in Nat \ {0}
           /\ EffectiveMax(path) >= MaxChunkSize - PrefixSize(path)
<1>1. PrefixSize(path) \in Nat
  <2>1. CASE path = <<>>
    BY <2>1 DEF PrefixSize
  <2>2. CASE path # <<>>
    <3> DEFINE n == Len(path)
    <3>1. n \in Nat \ {0} /\ n - 1 \in Nat
      BY <2>2, EmptySeq
    <3>2. Wrapper \in Nat /\ TitleSize \in Nat /\ Arrow \in Nat
      BY ChunkingAssumption
    <3>3. PrefixSize(path) = Wrapper + n * TitleSize + (n - 1) * Arrow
      BY <2>2 DEF PrefixSize
    <3> HIDE DEF n
    <3>4. n * TitleSize \in Nat /\ (n - 1) * Arrow \in Nat
      BY <3>1, <3>2
    <3> QED
      BY <3>2, <3>3, <3>4
  <2> QED
    BY <2>1, <2>2
<1> DEFINE a == MinSize
           b == MaxChunkSize - PrefixSize(path)
<1>2. a \in Int /\ b \in Int /\ a > 0
  BY <1>1, ChunkingAssumption
<1>3. EffectiveMax(path) = Max({a, b})
  BY DEF EffectiveMax
<1> HIDE DEF a, b
<1>4. Max({a, b}) \in {a, b} /\ Max({a, b}) >= a /\ Max({a, b}) >= b
  BY <1>2, MaxOfTwo
<1>5. EffectiveMax(path) \in Nat \ {0} /\ EffectiveMax(path) >= b
  BY <1>2, <1>3, <1>4
<1> QED
  BY <1>1, <1>5 DEF b

\* What a section is divided into fits below its prefix, is not empty and is of the kind
\* that texts like that of the section can be split into.
LEMMA TextsOfKind ==
    ASSUME NEW p, NEW section \in SectionsOf(p), NEW W, NEW G,
           Splittable(W, G, EffectiveMax(section.path)), section.content \in W[1]
    PROVE  TextsOf(section) \in Seq(Pieces(G, EffectiveMax(section.path)))
<1> DEFINE path == section.path
           content == section.content
           size == EffectiveMax(path)
           overlap == Min({ChunkOverlap, size \div 2})
<1>1. /\ path \in Seq(DOMAIN p) /\ content \in Texts /\ content \in W[1] /\ content \in G
      /\ Splittable(W, G, size)
  BY DEF SectionsOf, Splittable
<1> HIDE DEF path, content
<1>2. PrefixSize(path) \in Nat /\ size \in Nat \ {0} /\ size >= MaxChunkSize - PrefixSize(path)
  BY <1>1, EffectiveMaxType
<1>3. overlap \in Nat
  <2> DEFINE half == size \div 2
  <2>1. ChunkOverlap \in Nat /\ half \in Nat /\ ChunkOverlap \in Int /\ half \in Int
    <3> HIDE DEF size
    <3> QED
      BY <1>2, ChunkingAssumption
  <2> HIDE DEF half
  <2>2. Min({ChunkOverlap, half}) \in {ChunkOverlap, half}
    BY <2>1, MinOfTwo
  <2> QED
    BY <2>1, <2>2 DEF half
<1>4. CASE content = <<>>
  BY <1>4, EmptySeq DEF TextsOf, path, content
<1>5. CASE content # <<>> /\ PrefixSize(path) + Len(content) <= MaxChunkSize
  <2>1. Len(content) \in Nat
    BY <1>1 DEF Texts
  <2>2. Len(content) <= size
    <3> HIDE DEF size
    <3> QED
      BY <1>2, <1>5, <2>1, ChunkingAssumption
  <2>3. content \in Pieces(G, size)
    BY <1>1, <1>5, <2>2 DEF Pieces, Short
  <2>4. TextsOf(section) = <<content>>
    BY <1>5 DEF TextsOf, path, content
  <2> HIDE DEF size
  <2> QED
    BY <2>3, <2>4 DEF size, path
<1>6. CASE content # <<>> /\ ~(PrefixSize(path) + Len(content) <= MaxChunkSize)
  <2>1. TextsOf(section) = Split(content, size, overlap)
    BY <1>6 DEF TextsOf, path, content
  <2> HIDE DEF size, overlap
  <2>2. Split(content, size, overlap) \in Seq(Pieces(G, size))
    BY <1>1, <1>2, <1>3, SplitType
  <2> QED
    BY <2>1, <2>2 DEF size, path
<1> QED
  BY <1>4, <1>5, <1>6

\* What a section is divided into has no letter that is not in the section.
LEMMA TextsOfType ==
    ASSUME NEW p, NEW section \in SectionsOf(p),
           NEW A \in SUBSET Int, Space \in A, Newline \in A, section.content \in Seq(A)
    PROVE  TextsOf(section) \in Seq(Pieces(Seq(A), EffectiveMax(section.path)))
<1> DEFINE size == EffectiveMax(section.path)
<1>1. size \in Nat \ {0}
  BY EffectiveMaxType DEF SectionsOf
<1>2. PICK W : Splittable(W, Seq(A), size) /\ Seq(A) \subseteq W[1]
  BY <1>1, AlphabetSplits
<1> QED
  BY <1>2, TextsOfKind

-----------------------------------------------------------------------------
\* The parts of TypeOK, with names for the sets that depend on the page.
LEMMA TypeParts ==
    TypeOK <=> /\ page \in Seq(Lines)
               /\ Range(heading_stack) \subseteq DOMAIN page
               /\ content_lines \in Seq(Texts)
               /\ fence \in {l.char : l \in Lines} \cup {None}
               /\ sections \in Seq(SectionsOf(page))
               /\ next \in 0..(Len(sections) + 1)
               /\ chunks \in Seq(ChunksOf(page))
  BY DEF TypeOK, SectionsOf, ChunksOf

\* Headings that are places of the page are in it.
LEMMA RangeOfHeadings ==
    ASSUME NEW S, NEW stack \in Seq(S)
    PROVE  Range(stack) \subseteq S
  BY DEF Range

\* In the beginning nothing is read.
LEMMA InitIInv == Init => IInv
<1> SUFFICES ASSUME Init PROVE IInv
  OBVIOUS
<1>1. /\ page \in Seq(Lines) /\ heading_stack \in Seq(DOMAIN page)
      /\ content_lines \in Seq(Texts)
      /\ sections \in Seq(SectionsOf(page)) /\ Len(sections) = 0
      /\ chunks \in Seq(ChunksOf(page)) /\ DOMAIN chunks = {}
  <2>1. page = <<>> /\ heading_stack = <<>> /\ content_lines = <<>> /\ sections = <<>> /\ chunks = <<>>
    BY DEF Init
  <2>2. \A S : <<>> \in Seq(S) /\ Len(<<>>) = 0
    BY EmptySeq
  <2>3. DOMAIN chunks = 1..0
    BY <2>1, <2>2, LenProperties
  <2>4. page \in Seq(Lines) /\ content_lines \in Seq(Texts) /\ Len(sections) = 0
    BY <2>1, <2>2
  <2>5. heading_stack \in Seq(DOMAIN page)
    BY <2>1, <2>2, Zenon
  <2>6. sections \in Seq(SectionsOf(page)) /\ chunks \in Seq(ChunksOf(page))
    BY <2>1, <2>2, Zenon
  <2>7. 1..0 = {}
    OBVIOUS
  <2> QED
    BY <2>3, <2>4, <2>5, <2>6, <2>7, Zenon
<1>2. TypeOK
  <2>1. fence \in {l.char : l \in Lines} \cup {None} /\ next \in 0..(Len(sections) + 1)
    BY <1>1 DEF Init
  <2>2. Range(heading_stack) \subseteq DOMAIN page
    BY <1>1, RangeOfHeadings
  <2> QED
    BY <1>1, <2>1, <2>2, TypeParts, Zenon
<1>3. ChunksFit /\ ChunksAreNumbered
  BY <1>1 DEF ChunksFit, ChunksAreNumbered
<1> QED
  BY <1>1, <1>2, <1>3 DEF IInv, HeadingsArePlaces

\* A line that becomes text of its section.
LEMMA LineIsKept ==
    ASSUME IInv, NEW l \in Lines, Reads(l), Keeps(l),
           UNCHANGED <<heading_stack, sections, next, chunks>>,
           fence' \in {k.char : k \in Lines} \cup {None}
    PROVE  IInv'
<1>1. /\ page \in Seq(Lines) /\ content_lines \in Seq(Texts)
      /\ sections \in Seq(SectionsOf(page)) /\ chunks \in Seq(ChunksOf(page))
      /\ heading_stack \in Seq(DOMAIN page)
  BY TypeParts DEF IInv, HeadingsArePlaces
<1>2. page' = Append(page, l)
  BY DEF Reads
<1>3. /\ page' \in Seq(Lines) /\ heading_stack' \in Seq(DOMAIN page')
      /\ sections' \in Seq(SectionsOf(page')) /\ chunks' \in Seq(ChunksOf(page'))
  BY <1>1, <1>2, PageGrows
<1>4. content_lines' \in Seq(Texts)
  <2>1. Len(page) + 1 \in Nat
    BY <1>1
  <2>2. TextOf(l, Len(page) + 1) \in Texts
    BY <2>1, TextOfType
  <2> QED
    BY <1>1, <2>2, AppendProperties DEF Keeps
<1>5. TypeOK'
  <2>1. next' \in 0..(Len(sections') + 1)
    BY DEF IInv, TypeOK
  <2>2. Range(heading_stack') \subseteq DOMAIN page'
    BY <1>3, RangeOfHeadings
  <2> QED
    BY <1>3, <1>4, <2>1, <2>2 DEF TypeOK, SectionsOf, ChunksOf
<1>6. ChunksFit' /\ ChunksAreNumbered'
  BY DEF IInv, ChunksFit, ChunksAreNumbered, EffectiveMax, PrefixSize
<1> QED
  BY <1>3, <1>5, <1>6 DEF IInv, HeadingsArePlaces

\* A section ends: at a heading, or with the page.
LEMMA SectionEnds ==
    ASSUME IInv, page' \in Seq(Lines),
           Seq(SectionsOf(page)) \subseteq Seq(SectionsOf(page')),
           Seq(ChunksOf(page)) \subseteq Seq(ChunksOf(page')),
           heading_stack' \in Seq(DOMAIN page'),
           sections' = Finalized, content_lines' = <<>>,
           next = 0, next' \in {0, 1}, UNCHANGED <<fence, chunks>>
    PROVE  IInv'
<1>1. TypeOK /\ HeadingsArePlaces
  BY DEF IInv
<1>2. Finalized \in Seq(SectionsOf(page)) /\ Len(Finalized) \in Nat
  BY <1>1, FinalizedType
<1>3. sections' \in Seq(SectionsOf(page')) /\ next' \in 0..(Len(sections') + 1)
  BY <1>2
<1>4. chunks' \in Seq(ChunksOf(page'))
  BY <1>1, TypeParts
<1>5. content_lines' \in Seq(Texts)
  BY EmptySeq
<1>6. TypeOK'
  <2>1. Range(heading_stack') \subseteq DOMAIN page'
    BY RangeOfHeadings
  <2>2. fence' \in {l.char : l \in Lines} \cup {None}
    BY <1>1 DEF TypeOK
  <2> QED
    BY <1>3, <1>4, <1>5, <2>1, <2>2 DEF TypeOK, SectionsOf, ChunksOf
<1>7. ChunksFit' /\ ChunksAreNumbered'
  BY DEF IInv, ChunksFit, ChunksAreNumbered, EffectiveMax, PrefixSize
<1> QED
  BY <1>6, <1>7 DEF IInv, HeadingsArePlaces

\* The chunks of a section are put behind the others, numbered by their places.
LEMMA SectionIsChunked ==
    ASSUME IInv, ChunkSection
    PROVE  IInv'
<1> DEFINE section == sections[next]
           texts == TextsOf(section)
           size == EffectiveMax(section.path)
           e(i) == [chunk_index |-> StartIndex + i - 1, path |-> section.path, text |-> texts[i]]
           new == [i \in DOMAIN texts |-> e(i)]
           n == Len(chunks)
<1>1. /\ sections \in Seq(SectionsOf(page)) /\ chunks \in Seq(ChunksOf(page))
      /\ next \in DOMAIN sections
  BY TypeParts DEF IInv, ChunkSection
<1>2. chunks' = chunks \o new /\ next' = next + 1
      /\ UNCHANGED <<page, heading_stack, content_lines, fence, sections>>
  BY DEF ChunkSection, parserVars
<1>3. section \in SectionsOf(page) /\ section.path \in Seq(DOMAIN page) /\ n \in Nat
  <2>1. section \in SectionsOf(page)
    BY <1>1
  <2>2. n \in Nat
    BY <1>1
  <2> HIDE DEF section
  <2> QED
    BY <2>1, <2>2 DEF SectionsOf
<1> HIDE DEF section
<1>4. texts \in Seq(Pieces(Texts, size))
  <2>1. section.content \in Seq(Int)
    BY <1>3 DEF SectionsOf, Texts
  <2>2. Space \in Int /\ Newline \in Int
    BY DEF Space, Newline
  <2> QED
    BY <1>3, <2>1, <2>2, TextsOfType DEF Texts
<1> HIDE DEF texts
<1>5. DOMAIN texts = 1..Len(texts) /\ Len(texts) \in Nat
  BY <1>4, LenProperties
<1>6. ASSUME NEW i \in 1..Len(texts)
      PROVE  /\ e(i) \in ChunksOf(page) /\ e(i).chunk_index = n + i - 1
             /\ Len(e(i).text) <= EffectiveMax(e(i).path)
  <2>1. texts[i] \in Texts \ {<<>>} /\ Len(texts[i]) <= size
    <3> HIDE DEF size
    <3> QED
      BY <1>4 DEF Pieces, Short
  <2>2. n + i - 1 \in Nat
    BY <1>3
  <2> DEFINE x == texts[i]
             c == n + i - 1
             q == section.path
  <2>3. e(i) = [chunk_index |-> c, path |-> q, text |-> x]
    BY DEF StartIndex
  <2>4. x \in Texts \ {<<>>} /\ c \in Nat /\ q \in Seq(DOMAIN page) /\ Len(x) <= EffectiveMax(q)
    BY <1>3, <2>1, <2>2
  <2> HIDE DEF x, c, q, e
  <2>5. e(i) \in ChunksOf(page)
    BY <2>3, <2>4 DEF ChunksOf
  <2>6. e(i).chunk_index = c /\ e(i).path = q /\ e(i).text = x
    BY <2>3
  <2> QED
    BY <2>4, <2>5, <2>6 DEF c
<1> HIDE DEF e
<1>7. new \in Seq(ChunksOf(page)) /\ Len(new) = Len(texts) /\ \A i \in 1..Len(texts) : new[i] = e(i)
  <2>1. new = [i \in 1..Len(texts) |-> e(i)]
    BY <1>5
  <2>2. new \in [1..Len(texts) -> ChunksOf(page)]
    BY <1>6, <2>1
  <2>3. new \in Seq(ChunksOf(page))
    BY <1>5, <2>2, SeqDef
  <2> QED
    BY <1>5, <2>1, <2>3, LenProperties
<1> HIDE DEF new
<1>8. /\ chunks' \in Seq(ChunksOf(page)) /\ DOMAIN chunks' = 1..(n + Len(texts))
      /\ \A k \in 1..(n + Len(texts)) : chunks'[k] = IF k <= n THEN chunks[k] ELSE e(k - n)
  <2>1. /\ chunks' \in Seq(ChunksOf(page)) /\ Len(chunks') = n + Len(texts)
        /\ \A k \in 1..(n + Len(texts)) : chunks'[k] = IF k <= n THEN chunks[k] ELSE new[k - n]
    BY <1>1, <1>2, <1>7, ConcatProperties
  <2>2. DOMAIN chunks' = 1..(n + Len(texts))
    BY <2>1, LenProperties
  <2>3. ASSUME NEW k \in 1..(n + Len(texts)), ~(k <= n) PROVE new[k - n] = e(k - n)
    BY <1>3, <1>5, <1>7, <2>3
  <2> QED
    BY <2>1, <2>2, <2>3
<1>9. TypeOK'
  <2>1. next' \in 0..(Len(sections') + 1)
    BY <1>1, <1>2
  <2>2. /\ page' \in Seq(Lines) /\ Range(heading_stack') \subseteq DOMAIN page'
        /\ content_lines' \in Seq(Texts) /\ fence' \in {l.char : l \in Lines} \cup {None}
        /\ sections' \in Seq(SectionsOf(page')) /\ chunks' \in Seq(ChunksOf(page'))
    BY <1>1, <1>2, <1>8 DEF IInv, TypeOK
  <2> QED
    BY <2>1, <2>2 DEF TypeOK, SectionsOf, ChunksOf
<1>10. DOMAIN chunks = 1..n
  BY <1>1, LenProperties
<1>11. ChunksFit'
  <2> SUFFICES ASSUME NEW k \in DOMAIN chunks'
               PROVE  Len(chunks'[k].text) <= EffectiveMax(chunks'[k].path)
    BY DEF ChunksFit, EffectiveMax, PrefixSize
  <2>1. CASE k <= n
    BY <1>3, <1>8, <1>10, <2>1 DEF IInv, ChunksFit
  <2>2. CASE ~(k <= n)
    <3>1. k - n \in 1..Len(texts)
      BY <1>3, <1>5, <1>8, <2>2
    <3> QED
      BY <1>6, <1>8, <2>2, <3>1
  <2> QED
    BY <2>1, <2>2
<1>12. ChunksAreNumbered'
  <2> SUFFICES ASSUME NEW k \in DOMAIN chunks'
               PROVE  chunks'[k].chunk_index = k - 1
    BY DEF ChunksAreNumbered
  <2>1. CASE k <= n
    BY <1>3, <1>8, <1>10, <2>1 DEF IInv, ChunksAreNumbered
  <2>2. CASE ~(k <= n)
    <3>1. k - n \in 1..Len(texts)
      BY <1>3, <1>5, <1>8, <2>2
    <3>2. chunks'[k] = e(k - n) /\ e(k - n).chunk_index = n + (k - n) - 1
      BY <1>6, <1>8, <2>2, <3>1
    <3>3. k \in Int /\ n + (k - n) - 1 = k - 1
      BY <1>3, <1>8
    <3> QED
      BY <3>2, <3>3
  <2> QED
    BY <2>1, <2>2
<1> QED
  BY <1>2, <1>9, <1>11, <1>12 DEF IInv, HeadingsArePlaces

\* Every step keeps the invariant.
LEMMA NextIInv == IInv /\ [Next]_vars => IInv'
<1> SUFFICES ASSUME IInv, [Next]_vars PROVE IInv'
  OBVIOUS
<1>1. ASSUME NEW l \in Lines, FenceLine(l) PROVE IInv'
  <2>1. fence' \in {k.char : k \in Lines} \cup {None}
    BY <1>1 DEF FenceLine, Toggled, IInv, TypeOK
  <2> QED
    BY <1>1, <2>1, LineIsKept DEF FenceLine
<1>2. ASSUME NEW l \in Lines, TextLine(l) PROVE IInv'
  <2>1. fence' \in {k.char : k \in Lines} \cup {None}
    BY <1>2 DEF TextLine, IInv, TypeOK
  <2> QED
    BY <1>2, <2>1, LineIsKept DEF TextLine
<1>3. ASSUME NEW l \in Lines, HeadingLine(l) PROVE IInv'
  <2>1. page \in Seq(Lines) /\ heading_stack \in Seq(DOMAIN page)
    BY DEF IInv, TypeOK, HeadingsArePlaces
  <2>2. page' = Append(page, l) /\ next = 0 /\ next' = 0
    BY <1>3 DEF HeadingLine, Reads
  <2>3. /\ page' \in Seq(Lines) /\ Len(page) + 1 \in DOMAIN page'
        /\ Seq(DOMAIN page) \subseteq Seq(DOMAIN page')
        /\ Seq(SectionsOf(page)) \subseteq Seq(SectionsOf(page'))
        /\ Seq(ChunksOf(page)) \subseteq Seq(ChunksOf(page'))
    BY <2>1, <2>2, PageGrows
  <2>4. heading_stack' \in Seq(DOMAIN page')
    <3>1. Below(heading_stack, l.level) \in Seq(DOMAIN page')
      BY <2>1, <2>3, BelowType
    <3>2. heading_stack' = Append(Below(heading_stack, l.level), Len(page) + 1)
      BY <1>3 DEF HeadingLine
    <3> QED
      BY <2>3, <3>1, <3>2, AppendProperties
  <2> QED
    BY <1>3, <2>2, <2>3, <2>4, SectionEnds DEF HeadingLine
<1>4. CASE EndOfPage
  <2>1. page' = page /\ heading_stack' = heading_stack
    BY <1>4 DEF EndOfPage
  <2>2. page' \in Seq(Lines) /\ heading_stack' \in Seq(DOMAIN page')
    BY <2>1 DEF IInv, TypeOK, HeadingsArePlaces
  <2> QED
    BY <1>4, <2>1, <2>2, SectionEnds DEF EndOfPage
<1>5. CASE ChunkSection
  BY <1>5, SectionIsChunked
<1>6. CASE UNCHANGED vars
  BY <1>6 DEF vars, parserVars, IInv, TypeOK, HeadingsArePlaces, ChunksFit, ChunksAreNumbered,
              EffectiveMax, PrefixSize
<1> QED
  BY <1>1, <1>2, <1>3, <1>4, <1>5, <1>6 DEF Next

-----------------------------------------------------------------------------
\* The invariant holds for every page.
THEOREM ChunkingInvariant == Spec => []IInv
<1> QED
  BY InitIInv, NextIInv, PTL DEF Spec

\* Chunks satisfy what DocumentChunk validates: they have a number, a path of headings of
\* the page and a text that is not empty.
THEOREM ChunksAreValid == Spec => []TypeOK
<1>1. IInv => TypeOK
  BY DEF IInv
<1> QED
  BY <1>1, ChunkingInvariant, PTL

\* recursive_split_text: no chunk is longer than what its headings leave of max_chunk_size,
\* although pieces of the chunk before are repeated in it.
THEOREM ChunksAlwaysFit == Spec => []ChunksFit
<1>1. IInv => ChunksFit
  BY DEF IInv
<1> QED
  BY <1>1, ChunkingInvariant, PTL

\* _create_section_chunks: chunks are numbered by their places in the page, whatever
\* sections they come from, so no two of them have one point in Qdrant.
THEOREM ChunksKeepNumbers == Spec => []ChunksAreNumbered
<1>1. IInv => ChunksAreNumbered
  BY DEF IInv
<1> QED
  BY <1>1, ChunkingInvariant, PTL

-----------------------------------------------------------------------------
(***************************************************************************)
(* Blocks of code.  InCode is defined by itself on smaller numbers; Code   *)
(* is the set of numbers it holds for, when the page is p.                 *)
(***************************************************************************)
InCodeOf(p) ==
    CHOOSE h : h = [n \in Nat |->
        \E f \in 1..n - 1 :
           /\ p[f].mark = "fence"
           /\ \A g \in f + 1..n - 1 : p[g].mark = "fence" => p[g].char # p[f].char
           /\ ~h[f]]

Code(p) == {n \in Nat : InCodeOf(p)[n]}

\* Fence f opens the block that line n is in, if C are the lines in blocks.
Opens(C, p, f, n) ==
    /\ f \in 1..n - 1
    /\ p[f].mark = "fence"
    /\ \A g \in f + 1..n - 1 : p[g].mark = "fence" => p[g].char # p[f].char
    /\ f \notin C

\* A set of the numbers for which a smaller one, related to them by R, is not in the set: it is
\* made from the numbers below.
LEMMA BlocksExist ==
    ASSUME NEW R
    PROVE  \E C \in SUBSET Nat :
              \A n \in Nat : n \in C <=> \E f \in 1..n - 1 : f \notin C /\ <<f, n>> \in R
<1> DEFINE T == Nat
           V == SUBSET Nat
           size == [n \in Nat |-> n]
           stop == {0}
           leaf == [n \in Nat |-> {}]
           next_ == [n \in Nat |-> IF n = 0 THEN 0 ELSE n - 1]
           opened(S, n) == \E f \in 1..n - 1 : f \notin S /\ <<f, n>> \in R
           F == [n \in Nat |-> [S \in V |-> S \cup {k \in {n} : opened(S, n)}]]
<1>1. size \in [T -> Nat] /\ stop \in SUBSET T /\ leaf \in [T -> V] /\ next_ \in [T -> T]
  OBVIOUS
<1>2. F \in [T -> [V -> V]]
  <2> HIDE DEF opened
  <2> QED
    OBVIOUS
<1>3. Decreases(size, T, stop, next_)
  BY DEF Decreases
<1>4. PICK g \in [T -> V] : \A n \in T : Solves(g, n, stop, leaf, next_, F)
  <2> HIDE DEF size, stop, leaf, next_, F, T, V
  <2> QED
    BY <1>1, <1>2, <1>3, RecursionExists, Zenon
<1>5. g[0] = {} /\ \A n \in Nat : n # 0 => g[n] = g[n - 1] \cup {k \in {n} : opened(g[n - 1], n)}
  <2>1. g[0] = {}
    BY <1>4 DEF Solves
  <2>2. ASSUME NEW n \in Nat, n # 0
        PROVE  g[n] = g[n - 1] \cup {k \in {n} : opened(g[n - 1], n)}
    <3>1. g[n] = F[n][g[next_[n]]] /\ next_[n] = n - 1 /\ n - 1 \in Nat
      BY <1>4, <2>2 DEF Solves
    <3>2. g[n - 1] \in V
      BY <3>1
    <3>3. \A S \in V : F[n][S] = S \cup {k \in {n} : opened(S, n)}
      <4> HIDE DEF opened
      <4> QED
        OBVIOUS
    <3> HIDE DEF F, next_, V, opened
    <3> QED
      BY <3>1, <3>2, <3>3
  <2> QED
    BY <2>1, <2>2
<1> DEFINE C == {n \in Nat : n \in g[n]}
<1>6. ASSUME NEW m \in Nat PROVE g[m] = C \cap 0..m
  <2> DEFINE A == {k \in 0..m : g[k] = C \cap 0..k}
  <2>1. 0 \in A
    BY <1>5
  <2>2. ASSUME NEW k \in 0..m, k < m, k \in A PROVE k + 1 \in A
    <3>1. k + 1 \in Nat /\ k + 1 # 0 /\ (k + 1) - 1 = k /\ k + 1 \in 0..m
      BY <2>2
    <3>2. g[k + 1] = g[k] \cup {j \in {k + 1} : opened(g[k], k + 1)}
      BY <1>5, <3>1
    <3>3. g[k] = C \cap 0..k
      BY <2>2
    <3>4. k + 1 \notin g[k]
      BY <3>3
    <3>5. k + 1 \in C <=> k + 1 \in g[k + 1]
      BY <3>1
    <3> HIDE DEF C, opened
    <3>6. g[k + 1] = C \cap 0..(k + 1)
      <4>1. 0..(k + 1) = (0..k) \cup {k + 1}
        OBVIOUS
      <4> QED
        BY <3>2, <3>3, <3>5, <4>1
    <3> QED
      BY <3>1, <3>6
  <2>3. m \in A
    <3> HIDE DEF A
    <3>1. \A k \in 0..m : k \in A
      BY <2>1, <2>2, Induction
    <3> QED
      BY <3>1
  <2> QED
    BY <2>3
<1>7. ASSUME NEW n \in Nat 
      PROVE  n \in C <=> \E f \in 1..n - 1 : f \notin C /\ <<f, n>> \in R
  <2>1. CASE n = 0
    BY <1>5, <2>1
  <2>2. CASE n # 0
    <3>1. n - 1 \in Nat /\ g[n] = g[n - 1] \cup {k \in {n} : opened(g[n - 1], n)}
      BY <1>5, <2>2
    <3>2. g[n - 1] = C \cap 0..n - 1
      BY <1>6, <3>1
    <3>3. n \in C <=> opened(g[n - 1], n)
      <4> HIDE DEF opened
      <4>1. n \notin g[n - 1]
        BY <3>2
      <4> QED
        BY <3>1, <4>1
    <3>4. \A f \in 1..n - 1 : f \in g[n - 1] <=> f \in C
      <4> HIDE DEF C
      <4> QED
        BY <3>2
    <3> HIDE DEF C
    <3> QED
      BY <3>3, <3>4
  <2> QED
    BY <2>1, <2>2
<1>8. C \in SUBSET Nat
  OBVIOUS
<1> HIDE DEF C
<1> QED
  BY <1>7, <1>8

\* The lines in blocks are such a set.
LEMMA CodeExists ==
    ASSUME NEW p
    PROVE  \E C \in SUBSET Nat : \A n \in Nat : n \in C <=> \E f \in 1..n - 1 : Opens(C, p, f, n)
<1> DEFINE fences(f, n) == /\ p[f].mark = "fence"
                           /\ \A g \in f + 1..n - 1 : p[g].mark = "fence" => p[g].char # p[f].char
           R == {e \in Nat \X Nat : fences(e[1], e[2])}
<1>1. PICK C \in SUBSET Nat :
         \A n \in Nat : n \in C <=> \E f \in 1..n - 1 : f \notin C /\ <<f, n>> \in R
  <2> HIDE DEF R
  <2> QED
    BY BlocksExist
<1>2. ASSUME NEW n \in Nat, NEW f \in 1..n - 1
      PROVE  Opens(C, p, f, n) <=> f \notin C /\ <<f, n>> \in R
  <2>1. <<f, n>> \in Nat \X Nat /\ <<f, n>>[1] = f /\ <<f, n>>[2] = n
    OBVIOUS
  <2>2. <<f, n>> \in R <=> fences(f, n)
    <3> HIDE DEF fences
    <3> QED
      BY <2>1
  <2>3. Opens(C, p, f, n) <=> fences(f, n) /\ f \notin C
    BY DEF Opens
  <2> QED
    BY <2>2, <2>3
<1> HIDE DEF R
<1> QED
  BY <1>1, <1>2

\* Code is such a set.
LEMMA CodeIs ==
    ASSUME NEW p
    PROVE  /\ Code(p) \in SUBSET Nat
           /\ \A n \in Nat : n \in Code(p) <=> \E f \in 1..n - 1 : Opens(Code(p), p, f, n)
<1> DEFINE fences(f, n) == /\ p[f].mark = "fence"
                           /\ \A g \in f + 1..n - 1 : p[g].mark = "fence" => p[g].char # p[f].char
           Is(h) == h = [n \in Nat |-> \E f \in 1..n - 1 : fences(f, n) /\ ~h[f]]
           h == InCodeOf(p)
<1>1. Is(h)
  <2>1. PICK C \in SUBSET Nat : \A n \in Nat : n \in C <=> \E f \in 1..n - 1 : Opens(C, p, f, n)
    BY CodeExists
  <2> DEFINE k == [n \in Nat |-> n \in C]
  <2>2. ASSUME NEW n \in Nat
        PROVE  (n \in C) <=> \E f \in 1..n - 1 : fences(f, n) /\ ~k[f]
    <3>1. ASSUME NEW f \in 1..n - 1 PROVE k[f] <=> f \in C
      <4> DEFINE c(n_) == n_ \in C
      <4>1. k = [n_ \in Nat |-> c(n_)] /\ f \in Nat
        OBVIOUS
      <4> HIDE DEF c, k
      <4>2. k[f] = c(f)
        BY <4>1
      <4> QED
        BY <4>2 DEF c
    <3>2. \A f \in 1..n - 1 : Opens(C, p, f, n) <=> fences(f, n) /\ f \notin C
      BY DEF Opens
    <3> HIDE DEF k, fences
    <3> QED
      BY <2>1, <3>1, <3>2
  <2>3. Is(k)
    <3> DEFINE r(n) == \E f \in 1..n - 1 : fences(f, n) /\ ~k[f]
    <3>1. \A n \in Nat : (n \in C) = r(n)
      <4>1. \A n \in Nat : (n \in C) <=> r(n)
        BY <2>2
      <4>2. \A n \in Nat : r(n) \in BOOLEAN
        OBVIOUS
      <4> HIDE DEF r
      <4> QED
        BY <4>1, <4>2
    <3> HIDE DEF r
    <3>2. k = [n \in Nat |-> r(n)]
      BY <3>1
    <3> QED
      BY <3>2 DEF r
  <2>4. h = CHOOSE i : Is(i)
    BY DEF InCodeOf
  <2> HIDE DEF Is, k, h
  <2> QED
    BY <2>3, <2>4
<1> HIDE DEF h
<1>2. ASSUME NEW n \in Nat PROVE h[n] <=> \E f \in 1..n - 1 : fences(f, n) /\ ~h[f]
  <2> DEFINE r(n_) == \E f \in 1..n_ - 1 : fences(f, n_) /\ ~h[f]
  <2>1. h = [n_ \in Nat |-> r(n_)]
    BY <1>1
  <2>2. r(n) \in BOOLEAN
    OBVIOUS
  <2> HIDE DEF r
  <2>3. h[n] = r(n)
    BY <2>1
  <2> QED
    BY <2>3 DEF r
<1>3. \A n \in Nat : n \in Code(p) <=> h[n]
  BY DEF Code, h
<1>4. ASSUME NEW n \in Nat
      PROVE  n \in Code(p) <=> \E f \in 1..n - 1 : Opens(Code(p), p, f, n)
  <2>1. \A f \in 1..n - 1 : f \in Nat /\ (Opens(Code(p), p, f, n) <=> fences(f, n) /\ f \notin Code(p))
    BY DEF Opens
  <2> HIDE DEF fences
  <2> QED
    BY <1>2, <1>3, <2>1
<1>5. Code(p) \in SUBSET Nat
  BY DEF Code
<1> QED
  BY <1>4, <1>5

\* InBlock is what it says of itself.
LEMMA BlockIs == \A n \in Nat : InBlock[n] <=> \E f \in 1..n - 1 : Reaches(f, n) /\ ~InBlock[f]
<1> DEFINE Is(h) == h = [n \in Nat |-> \E f \in 1..n - 1 : Reaches(f, n) /\ ~h[f]]
           h == InBlock
           R == {e \in Nat \X Nat : Reaches(e[1], e[2])}
<1>1. Is(h)
  <2>1. PICK C \in SUBSET Nat :
           \A n \in Nat : n \in C <=> \E f \in 1..n - 1 : f \notin C /\ <<f, n>> \in R
    <3> HIDE DEF R
    <3> QED
      BY BlocksExist
  <2> DEFINE k == [n \in Nat |-> n \in C]
  <2>2. ASSUME NEW n \in Nat
        PROVE  (n \in C) <=> \E f \in 1..n - 1 : Reaches(f, n) /\ ~k[f]
    <3>1. ASSUME NEW f \in 1..n - 1 PROVE k[f] <=> f \in C
      <4> DEFINE c(n_) == n_ \in C
      <4>1. k = [n_ \in Nat |-> c(n_)] /\ f \in Nat
        OBVIOUS
      <4> HIDE DEF c, k
      <4>2. k[f] = c(f)
        BY <4>1
      <4> QED
        BY <4>2 DEF c
    <3>2. ASSUME NEW f \in 1..n - 1 PROVE <<f, n>> \in R <=> Reaches(f, n)
      <4>1. <<f, n>> \in Nat \X Nat /\ <<f, n>>[1] = f /\ <<f, n>>[2] = n
        OBVIOUS
      <4> QED
        BY <4>1
    <3> HIDE DEF k, R
    <3> QED
      BY <2>1, <3>1, <3>2
  <2>3. Is(k)
    <3> DEFINE r(n) == \E f \in 1..n - 1 : Reaches(f, n) /\ ~k[f]
    <3>1. \A n \in Nat : (n \in C) = r(n)
      <4>1. \A n \in Nat : (n \in C) <=> r(n)
        BY <2>2
      <4>2. \A n \in Nat : r(n) \in BOOLEAN
        OBVIOUS
      <4> HIDE DEF r
      <4> QED
        BY <4>1, <4>2
    <3> HIDE DEF r
    <3>2. k = [n \in Nat |-> r(n)]
      BY <3>1
    <3> QED
      BY <3>2 DEF r
  <2>4. h = CHOOSE i : Is(i)
    BY DEF InBlock
  <2> HIDE DEF Is, k, h
  <2> QED
    BY <2>3, <2>4
<1> HIDE DEF h
<1>2. ASSUME NEW n \in Nat PROVE h[n] <=> \E f \in 1..n - 1 : Reaches(f, n) /\ ~h[f]
  <2> DEFINE r(n_) == \E f \in 1..n_ - 1 : Reaches(f, n_) /\ ~h[f]
  <2>1. h = [n_ \in Nat |-> r(n_)]
    BY <1>1
  <2>2. r(n) \in BOOLEAN
    OBVIOUS
  <2> HIDE DEF r
  <2>3. h[n] = r(n)
    BY <2>1
  <2> QED
    BY <2>3 DEF r
<1> QED
  BY <1>2 DEF h

\* Only the lines before a line decide whether it is in a block of code.
LEMMA CodeAgrees ==
    ASSUME NEW p \in Seq(Lines), NEW l \in Lines
    PROVE  \A n \in 1..Len(p) + 1 : n \in Code(p) <=> n \in Code(Append(p, l))
<1> DEFINE q == Append(p, l)
           m == Len(p) + 1
           A == {k \in 0..m : \A n \in 1..k : n \in Code(p) <=> n \in Code(q)}
<1>1. m \in Nat /\ \A n \in 1..m - 1 : q[n] = p[n]
  OBVIOUS
<1> HIDE DEF q, m
<1>2. 0 \in A
  BY <1>1
<1>3. ASSUME NEW k \in 0..m, k < m, k \in A PROVE k + 1 \in A
  <2>1. \A n \in 1..k : n \in Code(p) <=> n \in Code(q)
    BY <1>3
  <2>2. k + 1 \in Nat /\ (k + 1) - 1 = k /\ k \in 0..m - 1
    BY <1>1, <1>3
  <2>3. \A f \in 1..k : q[f] = p[f]
    BY <1>1, <2>2
  <2>4. \A f \in 1..k : Opens(Code(p), p, f, k + 1) <=> Opens(Code(q), q, f, k + 1)
    <3> SUFFICES ASSUME NEW f \in 1..k
                 PROVE  Opens(Code(p), p, f, k + 1) <=> Opens(Code(q), q, f, k + 1)
      OBVIOUS
    <3>1. \A g \in f + 1..k : q[g] = p[g]
      BY <2>3
    <3> QED
      BY <2>1, <2>2, <2>3, <3>1 DEF Opens
  <2>5. k + 1 \in Code(p) <=> k + 1 \in Code(q)
    BY <2>2, <2>4, CodeIs
  <2>6. \A n \in 1..k + 1 : n \in 1..k \/ n = k + 1
    OBVIOUS
  <2>7. k + 1 \in 0..m
    BY <1>1, <1>3
  <2> QED
    BY <2>1, <2>5, <2>6, <2>7
<1>4. m \in A
  <2> HIDE DEF A
  <2>1. \A k \in 0..m : k \in A
    BY <1>1, <1>2, <1>3, Induction
  <2> QED
    BY <1>1, <2>1
<1> QED
  BY <1>4 DEF q, m

-----------------------------------------------------------------------------
(***************************************************************************)
(* The headings of a page p, those that line n is under, and the letters   *)
(* of lines that are under the headings in S.                              *)
(***************************************************************************)
HeadingsOf(p) == {n \in DOMAIN p : p[n].mark = "heading" /\ n \notin Code(p)}

Over(p, n) ==
    {h \in HeadingsOf(p) :
        h <= n /\ \A g \in HeadingsOf(p) : h < g /\ g <= n => p[g].level > p[h].level}

LettersOver(p, S) == {x \in Int : x > 0 => LineOf(x) \in DOMAIN p /\ Over(p, LineOf(x)) = S}

\* What is meant is what the properties speak of.
LEMMA HeadingsAre ==
    ASSUME page \in Seq(Lines)
    PROVE  /\ HeadingLines = HeadingsOf(page)
           /\ \A n \in Int : HeadingsOver(n, HeadingLines) = Over(page, n)
<1>1. DOMAIN page = 1..Len(page) /\ Len(page) \in Nat
  BY LenProperties
<1>2. InCode = InCodeOf(page)
  BY DEF InCode, InCodeOf
<1>3. HeadingLines = HeadingsOf(page)
  <2>1. \A n \in DOMAIN page : n \in Code(page) <=> InCode[n]
    BY <1>1, <1>2 DEF Code
  <2> QED
    BY <2>1 DEF HeadingLines, HeadingsOf
<1>4. HeadingsOf(page) \subseteq Int
  BY <1>1 DEF HeadingsOf
<1>5. ASSUME NEW n \in Int PROVE HeadingsOver(n, HeadingLines) = Over(page, n)
  <2> DEFINE H == HeadingsOf(page)
  <2>1. H \subseteq Int /\ HeadingLines = H
    BY <1>3, <1>4
  <2> HIDE DEF H
  <2>2. \A h \in H : \A g \in H : g \in (h + 1)..n <=> h < g /\ g <= n
    BY <2>1
  <2>3. HeadingsOver(n, H)
           = {h \in H : h <= n /\ \A g \in H : h < g /\ g <= n => page[g].level > page[h].level}
    BY <2>2 DEF HeadingsOver, Level
  <2> QED
    BY <2>1, <2>3 DEF Over, H
<1> QED
  BY <1>3, <1>5

\* A new line is a heading if it is marked as one and in no block of code.
LEMMA HeadingsGrow ==
    ASSUME NEW p \in Seq(Lines), NEW l \in Lines
    PROVE  HeadingsOf(Append(p, l))
              = HeadingsOf(p) \cup {n \in {Len(p) + 1} : l.mark = "heading" /\ n \notin Code(p)}
<1> DEFINE q == Append(p, l)
           m == Len(p) + 1
<1>1. /\ m \in Nat \ {0} /\ DOMAIN p = 1..m - 1 /\ DOMAIN q = 1..m
      /\ q[m] = l /\ \A n \in 1..m - 1 : q[n] = p[n]
  OBVIOUS
<1>2. \A n \in 1..m : n \in Code(p) <=> n \in Code(q)
  BY CodeAgrees
<1> HIDE DEF q, m
<1>3. \A n \in 1..m : n \in 1..m - 1 \/ n = m
  BY <1>1
<1>4. m \notin 1..m - 1 /\ m \in 1..m /\ 1..m - 1 \subseteq 1..m
  BY <1>1
<1>5. HeadingsOf(q) = HeadingsOf(p) \cup {n \in {m} : l.mark = "heading" /\ n \notin Code(p)}
  BY <1>1, <1>2, <1>3, <1>4 DEF HeadingsOf
<1> QED
  BY <1>5 DEF q, m

\* The headings that a line is under do not change any more.
LEMMA OverStays ==
    ASSUME NEW p \in Seq(Lines), NEW l \in Lines, NEW n \in 0..Len(p)
    PROVE  Over(Append(p, l), n) = Over(p, n)
<1> DEFINE q == Append(p, l)
           m == Len(p) + 1
           new == {k \in {m} : l.mark = "heading" /\ k \notin Code(p)}
<1>1. m \in Nat /\ DOMAIN p = 1..m - 1 /\ \A k \in 1..m - 1 : q[k] = p[k]
  OBVIOUS
<1>2. HeadingsOf(q) = HeadingsOf(p) \cup new
  BY HeadingsGrow
<1>3. HeadingsOf(p) \subseteq 1..m - 1 /\ \A h \in HeadingsOf(p) : q[h] = p[h]
  BY <1>1 DEF HeadingsOf
<1>4. n \in Int /\ n < m
  OBVIOUS
<1>5. \A k \in new : ~(k <= n)
  BY <1>1, <1>4
<1> HIDE DEF q, m, new
<1>6. Over(q, n) = Over(p, n)
  BY <1>2, <1>3, <1>5 DEF Over
<1> QED
  BY <1>6 DEF q

\* A line that is no heading is under the headings of the line before.
LEMMA OverOfText ==
    ASSUME NEW p \in Seq(Lines), NEW l \in Lines,
           ~(l.mark = "heading" /\ Len(p) + 1 \notin Code(p))
    PROVE  Over(Append(p, l), Len(p) + 1) = Over(p, Len(p))
<1> DEFINE q == Append(p, l)
           m == Len(p) + 1
<1>1. m \in Nat /\ DOMAIN p = 1..m - 1 /\ Len(p) = m - 1 /\ \A k \in 1..m - 1 : q[k] = p[k]
  OBVIOUS
<1>2. HeadingsOf(q) = HeadingsOf(p)
  <2>1. {n \in {m} : l.mark = "heading" /\ n \notin Code(p)} = {}
    OBVIOUS
  <2> QED
    BY <2>1, HeadingsGrow, ZenonT(60)
<1>3. HeadingsOf(p) \subseteq 1..m - 1 /\ \A h \in HeadingsOf(p) : q[h] = p[h]
  BY <1>1 DEF HeadingsOf
<1> HIDE DEF q, m
<1>4. \A h \in HeadingsOf(p) : h <= m /\ h <= m - 1
  BY <1>1, <1>3
<1>5. Over(q, m) = Over(p, m - 1)
  BY <1>2, <1>3, <1>4 DEF Over
<1> QED
  BY <1>1, <1>5 DEF q, m

\* A heading is under itself and those of the line before that are above it.
LEMMA OverOfHeading ==
    ASSUME NEW p \in Seq(Lines), NEW l \in Lines,
           l.mark = "heading", Len(p) + 1 \notin Code(p)
    PROVE  Over(Append(p, l), Len(p) + 1)
              = {Len(p) + 1} \cup {h \in Over(p, Len(p)) : p[h].level < l.level}
<1> DEFINE q == Append(p, l)
           m == Len(p) + 1
<1>1. /\ m \in Nat /\ DOMAIN p = 1..m - 1 /\ Len(p) = m - 1
      /\ q[m] = l /\ \A k \in 1..m - 1 : q[k] = p[k]
  OBVIOUS
<1>2. HeadingsOf(q) = HeadingsOf(p) \cup {m}
  BY HeadingsGrow
<1>3. HeadingsOf(p) \subseteq 1..m - 1 /\ \A h \in HeadingsOf(p) : q[h] = p[h]
  BY <1>1 DEF HeadingsOf
<1>4. l.level \in Nat /\ \A k \in 1..m - 1 : p[k].level \in Nat
  <2>1. \A k \in 1..m - 1 : p[k] \in Lines
    BY <1>1
  <2> QED
    BY <2>1, ChunkingAssumption
<1> HIDE DEF q, m
<1>5. \A h \in HeadingsOf(p) : h <= m /\ h <= m - 1 /\ h < m /\ p[h].level \in Nat
  BY <1>1, <1>3, <1>4
<1>6. ASSUME NEW h \in HeadingsOf(p)
      PROVE  h \in Over(q, m) <=> h \in Over(p, m - 1) /\ p[h].level < l.level
  <2>1. h \in Over(q, m) <=> \A g \in HeadingsOf(q) : h < g /\ g <= m => q[g].level > q[h].level
    BY <1>2, <1>5 DEF Over
  <2>2. h \in Over(p, m - 1) <=> \A g \in HeadingsOf(p) : h < g /\ g <= m - 1 => p[g].level > p[h].level
    BY <1>5 DEF Over
  <2>3. q[m].level > q[h].level <=> p[h].level < l.level
    BY <1>1, <1>3, <1>4, <1>5
  <2>4. (\A g \in HeadingsOf(q) : h < g /\ g <= m => q[g].level > q[h].level)
           <=> /\ q[m].level > q[h].level
               /\ \A g \in HeadingsOf(p) : h < g /\ g <= m - 1 => p[g].level > p[h].level
    BY <1>1, <1>2, <1>3, <1>5
  <2> QED
    BY <2>1, <2>2, <2>3, <2>4
<1>7. m \in Over(q, m)
  <2>1. \A g \in HeadingsOf(q) : ~(m < g /\ g <= m)
    BY <1>1, <1>2, <1>3
  <2> QED
    BY <1>1, <1>2, <2>1 DEF Over
<1>8. Over(q, m) \subseteq HeadingsOf(p) \cup {m} /\ Over(p, m - 1) \subseteq HeadingsOf(p)
  BY <1>2 DEF Over
<1>9. Over(q, m) = {m} \cup {h \in Over(p, m - 1) : p[h].level < l.level}
  BY <1>6, <1>7, <1>8
<1> QED
  BY <1>1, <1>9 DEF q, m

\* Letters stay under the headings they are under.
LEMMA LettersStay ==
    ASSUME NEW p \in Seq(Lines), NEW l \in Lines, NEW S
    PROVE  /\ LettersOver(p, S) \subseteq LettersOver(Append(p, l), S)
           /\ Seq(LettersOver(p, S)) \subseteq Seq(LettersOver(Append(p, l), S))
<1>1. DOMAIN p = 1..Len(p) /\ DOMAIN Append(p, l) = 1..Len(p) + 1 /\ Len(p) \in Nat
  OBVIOUS
<1>2. DOMAIN p \subseteq DOMAIN Append(p, l) /\ DOMAIN p \subseteq 0..Len(p)
  BY <1>1
<1>3. \A n \in DOMAIN p : Over(Append(p, l), n) = Over(p, n)
  BY <1>2, OverStays
<1>4. LettersOver(p, S) \subseteq LettersOver(Append(p, l), S)
  BY <1>2, <1>3 DEF LettersOver
<1> QED
  BY <1>4, SeqMonotonic

\* The letters of a new line.
LEMMA LettersOfLine ==
    ASSUME NEW p \in Seq(Lines), NEW l \in Lines
    PROVE  TextOf(l, Len(p) + 1)
              \in Seq(LettersOver(Append(p, l), Over(Append(p, l), Len(p) + 1)))
<1> DEFINE q == Append(p, l)
           m == Len(p) + 1
           A == LettersOver(q, Over(q, m))
<1>1. m \in Nat /\ m \in DOMAIN q
  OBVIOUS
<1> HIDE DEF q, m
<1>2. l.ink \in Seq(BOOLEAN) /\ Len(l.ink) < Width /\ Width = 10
  BY ChunkingAssumption DEF Width
<1>3. DOMAIN l.ink = 1..Len(l.ink) /\ Len(l.ink) \in Nat
  BY <1>2, LenProperties
<1> DEFINE e(i) == IF l.ink[i] THEN Width * m + i ELSE Space
<1>4. ASSUME NEW i \in 1..Len(l.ink) PROVE e(i) \in A
  <2>1. Width * m + i \in A
    <3>1. i \in 1..9 /\ Width * m + i \in Int
      BY <1>1, <1>2, <1>3
    <3>2. LineOf(Width * m + i) = m
      BY <1>1, <1>2, <3>1 DEF LineOf
    <3> QED
      BY <1>1, <3>1, <3>2 DEF LettersOver
  <2>2. Space \in A
    BY DEF LettersOver, Space
  <2> QED
    BY <2>1, <2>2
<1> HIDE DEF e, A
<1>5. [i \in 1..Len(l.ink) |-> e(i)] \in [1..Len(l.ink) -> A]
  BY <1>4
<1>6. [i \in 1..Len(l.ink) |-> e(i)] \in Seq(A)
  BY <1>3, <1>5, SeqDef
<1>7. TextOf(l, m) = [i \in 1..Len(l.ink) |-> e(i)]
  BY <1>3 DEF TextOf, e
<1> QED
  BY <1>6, <1>7 DEF q, m, A

-----------------------------------------------------------------------------
(***************************************************************************)
(* The invariant of the paths.  The fence that is open says whether the    *)
(* next line is in a block of code; the stack holds the headings the last  *)
(* line is under, in their order; and the letters that are kept, in a      *)
(* section or in a chunk, are of lines under the headings of its path.     *)
(***************************************************************************)
FenceAt(p, c) ==
    /\ c = None => Len(p) + 1 \notin Code(p)
    /\ c # None => \E f \in 1..Len(p) : Opens(Code(p), p, f, Len(p) + 1) /\ p[f].char = c

Ascending(s) == \A i, j \in DOMAIN s : i < j => s[i] < s[j]

StackAt(p, stack) == Ascending(stack) /\ Range(stack) = Over(p, Len(p))

KnownSections(p, ss) ==
    \A i \in DOMAIN ss : /\ Ascending(ss[i].path)
                         /\ ss[i].content \in Seq(LettersOver(p, Range(ss[i].path)))
KnownChunks(p, cs) ==
    \A i \in DOMAIN cs : /\ Ascending(cs[i].path)
                         /\ cs[i].text \in Seq(LettersOver(p, Range(cs[i].path)))

PathInv ==
    /\ FenceAt(page, fence)
    /\ StackAt(page, heading_stack)
    /\ content_lines \in Seq(Seq(LettersOver(page, Over(page, Len(page)))))
    /\ KnownSections(page, sections)
    /\ KnownChunks(page, chunks)

\* The fence after line l, when it was c.
FenceAfter(c, l) ==
    IF l.mark # "fence" THEN c
    ELSE IF c = None THEN l.char ELSE IF l.char = c THEN None ELSE c

\* A block that is open was opened by one fence.
LEMMA OneOpens ==
    ASSUME NEW C, NEW p, NEW n \in Nat, NEW f, NEW g, Opens(C, p, f, n), Opens(C, p, g, n),
           \A k \in Nat : k \in C <=> \E h \in 1..k - 1 : Opens(C, p, h, k)
    PROVE  f = g
<1>1. ASSUME NEW a, NEW b, Opens(C, p, a, n), Opens(C, p, b, n), a < b PROVE FALSE
  <2>1. a \in 1..b - 1 /\ b \in Nat /\ b - 1 < n
    BY <1>1 DEF Opens
  <2>2. Opens(C, p, a, b)
    <3>1. \A k \in a + 1..b - 1 : k \in a + 1..n - 1
      BY <2>1
    <3> QED
      BY <1>1, <2>1, <3>1 DEF Opens
  <2>3. b \in C
    BY <2>1, <2>2
  <2> QED
    BY <1>1, <2>3 DEF Opens
<1>2. f \in Int /\ g \in Int
  BY DEF Opens
<1>3. ~(f < g) /\ ~(g < f)
  BY <1>1
<1> QED
  BY <1>2, <1>3

\* A fence that opens a block at a line opens it at the next one, unless that line closes it.
LEMMA OpensNext ==
    ASSUME NEW p \in Seq(Lines), NEW l \in Lines, NEW f \in 1..Len(p)
    PROVE  Opens(Code(Append(p, l)), Append(p, l), f, Len(p) + 2)
              <=> /\ Opens(Code(p), p, f, Len(p) + 1)
                  /\ l.mark = "fence" => l.char # p[f].char
<1> DEFINE q == Append(p, l)
           m == Len(p) + 1
<1>1. /\ m \in Nat /\ q[m] = l /\ \A k \in 1..m - 1 : q[k] = p[k]
      /\ f \in 1..m - 1 /\ Len(p) + 2 = m + 1
  OBVIOUS
<1>2. \A n \in 1..m : n \in Code(p) <=> n \in Code(q)
  BY CodeAgrees
<1> HIDE DEF q, m
<1>3. f \in Code(p) <=> f \in Code(q)
  BY <1>1, <1>2
<1>4. \A g \in f + 1..m - 1 : q[g] = p[g]
  BY <1>1
<1>5. (\A g \in f + 1..(m + 1) - 1 : q[g].mark = "fence" => q[g].char # q[f].char)
         <=> /\ \A g \in f + 1..m - 1 : p[g].mark = "fence" => p[g].char # p[f].char
             /\ l.mark = "fence" => l.char # p[f].char
  <2>1. \A g \in f + 1..(m + 1) - 1 : g \in f + 1..m - 1 \/ g = m
    BY <1>1
  <2>2. m \in f + 1..(m + 1) - 1 /\ \A g \in f + 1..m - 1 : g \in f + 1..(m + 1) - 1
    BY <1>1
  <2>3. q[m] = l /\ q[f] = p[f]
    BY <1>1
  <2> QED
    BY <1>4, <2>1, <2>2, <2>3
<1>6. f \in 1..(m + 1) - 1 /\ q[f] = p[f]
  BY <1>1
<1>7. Opens(Code(q), q, f, m + 1)
         <=> Opens(Code(p), p, f, m) /\ (l.mark = "fence" => l.char # p[f].char)
  BY <1>1, <1>3, <1>5, <1>6 DEF Opens
<1> QED
  BY <1>1, <1>7 DEF q, m

\* _toggle_fence: the character of the open fence is kept.
LEMMA FenceToggles ==
    ASSUME NEW p \in Seq(Lines), NEW l \in Lines, NEW c, FenceAt(p, c)
    PROVE  FenceAt(Append(p, l), FenceAfter(c, l))
<1> DEFINE q == Append(p, l)
           m == Len(p) + 1
           d == FenceAfter(c, l)
<1>1. /\ m \in Nat /\ Len(p) = m - 1 /\ Len(q) = m /\ q[m] = l /\ \A k \in 1..m - 1 : q[k] = p[k]
      /\ Len(p) + 2 = m + 1
  OBVIOUS
<1>2. \A n \in 1..m : n \in Code(p) <=> n \in Code(q)
  BY CodeAgrees
<1>3. \A f \in 1..m - 1 : Opens(Code(q), q, f, m + 1)
                            <=> /\ Opens(Code(p), p, f, m)
                                /\ l.mark = "fence" => l.char # p[f].char
  BY <1>1, OpensNext
<1>4. l.char # None /\ l.mark \in {"text", "heading", "fence"}
  BY ChunkingAssumption
<1> HIDE DEF q, m
<1>5. \A n \in Nat : n \in Code(p) <=> \E f \in 1..n - 1 : Opens(Code(p), p, f, n)
  BY CodeIs
<1>6. \A n \in Nat : n \in Code(q) <=> \E f \in 1..n - 1 : Opens(Code(q), q, f, n)
  BY CodeIs
<1>7. m \in 1..m /\ m + 1 \in Nat /\ (m + 1) - 1 = m /\ \A f \in 1..m : f \in 1..m - 1 \/ f = m
  <2>1. m >= 1
    BY DEF m
  <2> QED
    BY <1>1, <2>1
<1>8. Opens(Code(q), q, m, m + 1) <=> l.mark = "fence" /\ m \notin Code(p)
  <2>1. \A g \in m + 1..(m + 1) - 1 : FALSE
    BY <1>1
  <2> QED
    BY <1>1, <1>2, <1>7, <2>1 DEF Opens
<1>9. c = None => m \notin Code(p)
  BY DEF FenceAt, m
<1>10. c # None => \E f \in 1..m - 1 : Opens(Code(p), p, f, m) /\ p[f].char = c
  BY <1>1 DEF FenceAt, m
<1>11. ASSUME d = None PROVE m + 1 \notin Code(q)
  <2> SUFFICES ASSUME NEW f \in 1..m, Opens(Code(q), q, f, m + 1) PROVE FALSE
    BY <1>6, <1>7
  <2>1. CASE f = m
    <3>1. l.mark = "fence" /\ m \notin Code(p)
      BY <1>8, <2>1
    <3>2. c = None
      BY <1>5, <1>1, <1>10, <3>1
    <3> QED
      BY <1>4, <1>11, <3>1, <3>2 DEF FenceAfter
  <2>2. CASE f # m
    <3>1. f \in 1..m - 1 /\ Opens(Code(p), p, f, m) /\ (l.mark = "fence" => l.char # p[f].char)
      BY <1>3, <1>7, <2>2
    <3>2. m \in Code(p)
      BY <1>1, <1>5, <3>1
    <3>3. c # None
      BY <1>9, <3>2
    <3>4. PICK g \in 1..m - 1 : Opens(Code(p), p, g, m) /\ p[g].char = c
      BY <1>10, <3>3
    <3>5. f = g
      BY <1>1, <1>5, <3>1, <3>4, OneOpens
    <3> QED
      BY <1>11, <3>1, <3>3, <3>4, <3>5 DEF FenceAfter
  <2> QED
    BY <2>1, <2>2
<1>12. ASSUME d # None PROVE \E f \in 1..m : Opens(Code(q), q, f, m + 1) /\ q[f].char = d
  <2>1. CASE c = None
    <3>1. l.mark = "fence" /\ d = l.char
      BY <1>12, <2>1 DEF FenceAfter
    <3> QED
      BY <1>1, <1>7, <1>8, <1>9, <2>1, <3>1
  <2>2. CASE c # None
    <3>1. PICK f \in 1..m - 1 : Opens(Code(p), p, f, m) /\ p[f].char = c
      BY <1>10, <2>2
    <3>2. d = c /\ (l.mark = "fence" => l.char # c)
      BY <1>12, <2>2 DEF FenceAfter
    <3>3. f \in 1..m
      BY <1>1
    <3> QED
      BY <1>1, <1>3, <3>1, <3>2, <3>3
  <2> QED
    BY <2>1, <2>2
<1> HIDE DEF d
<1>13. FenceAt(q, d)
  BY <1>1, <1>11, <1>12 DEF FenceAt
<1> QED
  BY <1>13 DEF q, d

\* Sections and chunks keep their letters when the page grows.
LEMMA KnownGrows ==
    ASSUME NEW p \in Seq(Lines), NEW l \in Lines, NEW ss, NEW cs
    PROVE  /\ KnownSections(p, ss) => KnownSections(Append(p, l), ss)
           /\ KnownChunks(p, cs) => KnownChunks(Append(p, l), cs)
<1>1. \A S : Seq(LettersOver(p, S)) \subseteq Seq(LettersOver(Append(p, l), S))
  BY LettersStay
<1> QED
  BY <1>1 DEF KnownSections, KnownChunks

\* White space is under all headings.
LEMMA LettersAre ==
    ASSUME NEW p, NEW S
    PROVE  LettersOver(p, S) \in SUBSET Int /\ Space \in LettersOver(p, S)
           /\ Newline \in LettersOver(p, S)
  BY DEF LettersOver, Space, Newline

\* A section that ends has letters under the headings of its path.
LEMMA FinalizedKnown ==
    ASSUME IInv, PathInv
    PROVE  KnownSections(page, Finalized)
<1> DEFINE content == Strip(Join(content_lines, <<Newline>>))
           A == LettersOver(page, Over(page, Len(page)))
           section == [path |-> heading_stack, content |-> content]
<1>1. A \in SUBSET Int /\ Newline \in A
  BY LettersAre
<1>2. content_lines \in Seq(Seq(A))
  BY DEF PathInv
<1> HIDE DEF A
<1>3. Mergeable(Seq(A), <<Newline>>)
  <2>1. <<Newline>> \in Seq(A)
    BY <1>1
  <2> QED
    BY <1>1, <2>1, AlphabetMerges
<1>4. content \in Seq(A)
  <2>1. Join(content_lines, <<Newline>>) \in Seq(A)
    BY <1>2, <1>3, JoinType DEF Mergeable
  <2> QED
    BY <1>3, <2>1 DEF Mergeable
<1>5. Ascending(heading_stack) /\ Range(heading_stack) = Over(page, Len(page))
  BY DEF PathInv, StackAt
<1> HIDE DEF content
<1>6. section.path = heading_stack /\ section.content = content
  OBVIOUS
<1>7. Ascending(section.path) /\ section.content \in Seq(LettersOver(page, Range(section.path)))
  BY <1>4, <1>5, <1>6 DEF A
<1>8. sections \in Seq(SectionsOf(page))
  BY TypeParts DEF IInv
<1>9. Finalized = sections \/ Finalized = Append(sections, section)
  BY DEF Finalized, content
<1> HIDE DEF section
<1>10. CASE Finalized = sections
  BY <1>10 DEF PathInv
<1>11. CASE Finalized = Append(sections, section)
  <2>1. /\ DOMAIN sections = 1..Len(sections) /\ Len(sections) \in Nat
        /\ DOMAIN Append(sections, section) = 1..Len(sections) + 1
        /\ Append(sections, section)[Len(sections) + 1] = section
        /\ \A i \in 1..Len(sections) : Append(sections, section)[i] = sections[i]
    BY <1>8
  <2> DEFINE all == Append(sections, section)
             n == Len(sections)
  <2>2. /\ DOMAIN sections = 1..n /\ DOMAIN all = 1..n + 1 /\ n \in Nat
        /\ all[n + 1] = section /\ \A i \in 1..n : all[i] = sections[i]
    BY <2>1
  <2> HIDE DEF all, n
  <2>3. \A i \in DOMAIN all : (i \in DOMAIN sections /\ all[i] = sections[i]) \/ all[i] = section
    BY <2>2
  <2>4. KnownSections(page, sections)
    BY DEF PathInv
  <2>5. KnownSections(page, all)
    BY <1>7, <2>3, <2>4 DEF KnownSections
  <2> QED
    BY <1>11, <2>5 DEF all
<1> QED
  BY <1>9, <1>10, <1>11

\* The headings of the stack above a new one stay.
LEMMA StackBelow ==
    ASSUME NEW l \in Lines, page \in Seq(Lines), heading_stack \in Seq(DOMAIN page),
           StackAt(page, heading_stack)
    PROVE  /\ Ascending(Below(heading_stack, l.level))
           /\ Range(Below(heading_stack, l.level))
                 = {h \in Over(page, Len(page)) : page[h].level < l.level}
<1> DEFINE stack == heading_stack
           A == {i \in 0..Len(stack) : i = 0 \/ Level(stack[i]) < l.level}
           m == Max(A)
           kept == SubSeq(stack, 1, m)
<1>1. Len(stack) \in Nat /\ DOMAIN stack = 1..Len(stack) /\ \A i \in 1..Len(stack) : stack[i] \in DOMAIN page
  OBVIOUS
<1>2. A \in SUBSET (0..Len(stack)) /\ 0 \in A
  BY <1>1
<1>3. m \in A /\ \A i \in A : m >= i
  <2> HIDE DEF A
  <2> QED
    BY <1>1, <1>2, MaxOf
<1>4. m \in 0..Len(stack) /\ (m = 0 \/ Level(stack[m]) < l.level)
  <2> HIDE DEF m
  <2> QED
    BY <1>3
<1>5. \A i \in 1..Len(stack) : i > m => ~(Level(stack[i]) < l.level)
  <2> HIDE DEF m
  <2> QED
    BY <1>3
<1> HIDE DEF m, A
<1>6. \A n \in DOMAIN page : page[n].level \in Nat
  BY ChunkingAssumption
<1>7. l.level \in Nat
  BY ChunkingAssumption
<1>8. ASSUME NEW i \in 1..m PROVE Level(stack[i]) < l.level
  <2>1. i \in 1..Len(stack) /\ m \in 1..Len(stack) /\ m # 0 /\ Level(stack[m]) < l.level
    BY <1>1, <1>4
  <2>2. CASE i = m
    BY <2>1, <2>2
  <2>3. CASE i # m
    <3>1. i < m
      BY <2>1, <2>3
    <3>2. stack[i] < stack[m]
      BY <1>1, <2>1, <3>1 DEF StackAt, Ascending
    <3>3. stack[i] \in Over(page, Len(page)) /\ stack[m] \in Over(page, Len(page))
      BY <1>1, <2>1 DEF StackAt, Range
    <3>4. stack[m] \in HeadingsOf(page) /\ stack[m] <= Len(page)
      BY <3>3 DEF Over
    <3>5. page[stack[m]].level > page[stack[i]].level
      BY <3>2, <3>3, <3>4 DEF Over
    <3>6. page[stack[m]].level \in Nat /\ page[stack[i]].level \in Nat
      BY <1>1, <1>6, <2>1
    <3> QED
      BY <1>7, <2>1, <3>5, <3>6, SMTT(60) DEF Level
  <2> QED
    BY <2>2, <2>3
<1>9. /\ DOMAIN kept = 1..m /\ \A i \in 1..m : kept[i] = stack[i]
  <2>1. \A i \in 1..m : stack[i] \in DOMAIN page
    BY <1>1, <1>4
  <2>2. m \in Int /\ m >= 0
    BY <1>1, <1>4
  <2>3. kept \in Seq(DOMAIN page) /\ Len(kept) = m /\ \A i \in 1..m : kept[i] = stack[i]
    <3>1. /\ kept \in Seq(DOMAIN page)
          /\ Len(kept) = IF 1 <= m THEN m - 1 + 1 ELSE 0
          /\ \A i \in 1..m - 1 + 1 : kept[i] = stack[1 + i - 1]
      BY <2>1, <2>2, SubSeqProperties
    <3> HIDE DEF kept
    <3>2. Len(kept) = m /\ m - 1 + 1 = m /\ \A i \in 1..m : 1 + i - 1 = i
      BY <2>2, <3>1
    <3> QED
      BY <3>1, <3>2
  <2> HIDE DEF kept
  <2> QED
    BY <2>3, LenProperties
<1>10. Below(stack, l.level) = kept
  BY DEF Below, m, A
<1> HIDE DEF kept
<1>11. Ascending(kept)
  <2>1. \A i \in 1..m : i \in 1..Len(stack)
    BY <1>1, <1>4
  <2> QED
    BY <1>1, <1>9, <2>1 DEF StackAt, Ascending
<1>12. Range(kept) = {h \in Over(page, Len(page)) : page[h].level < l.level}
  <2>1. Range(stack) = Over(page, Len(page)) /\ Range(stack) = {stack[i] : i \in 1..Len(stack)}
    BY <1>1 DEF StackAt, Range
  <2>2. Range(kept) = {stack[i] : i \in 1..m}
    BY <1>9 DEF Range
  <2>3. \A i \in 1..Len(stack) : i \in 1..m <=> page[stack[i]].level < l.level
    <3>1. \A i \in 1..Len(stack) : i \in 1..m \/ i > m
      BY <1>1, <1>4
    <3>2. \A i \in 1..Len(stack) : page[stack[i]].level = Level(stack[i])
      BY DEF Level
    <3> QED
      BY <1>5, <1>8, <3>1, <3>2
  <2>4. 1..m \subseteq 1..Len(stack)
    BY <1>1, <1>4
  <2> QED
    BY <2>1, <2>2, <2>3, <2>4
<1> QED
  BY <1>10, <1>11, <1>12

\* In the beginning nothing is known.
LEMMA InitPaths == Init => PathInv
<1> SUFFICES ASSUME Init PROVE PathInv
  OBVIOUS
<1>1. /\ page = <<>> /\ heading_stack = <<>> /\ content_lines = <<>> /\ fence = None
      /\ sections = <<>> /\ chunks = <<>>
  BY DEF Init
<1>2. page \in Seq(Lines) /\ Len(page) = 0 /\ DOMAIN <<>> = {}
  <2>1. \A S : <<>> \in Seq(S) /\ Len(<<>>) = 0
    BY EmptySeq
  <2>2. DOMAIN <<>> = 1..0
    BY <2>1, LenProperties
  <2>3. 1..0 = {}
    OBVIOUS
  <2>4. DOMAIN <<>> = {}
    BY <2>2, <2>3, Zenon
  <2> QED
    BY <1>1, <2>1, <2>4
<1>3. FenceAt(page, fence)
  <2>1. 1 \notin Code(page)
    <3>1. \A f \in 1..1 - 1 : FALSE
      OBVIOUS
    <3> QED
      BY <3>1, CodeIs
  <2> QED
    BY <1>1, <1>2, <2>1 DEF FenceAt
<1>4. StackAt(page, heading_stack)
  <2>1. HeadingsOf(page) = {}
    BY <1>1, <1>2 DEF HeadingsOf
  <2>2. Over(page, Len(page)) = {}
    BY <2>1 DEF Over
  <2>3. Range(heading_stack) = {} /\ Ascending(heading_stack)
    BY <1>1, <1>2 DEF Range, Ascending
  <2> QED
    BY <2>2, <2>3 DEF StackAt
<1>5. content_lines \in Seq(Seq(LettersOver(page, Over(page, Len(page)))))
  BY <1>1, EmptySeq
<1>6. KnownSections(page, sections) /\ KnownChunks(page, chunks)
  BY <1>1, <1>2 DEF KnownSections, KnownChunks
<1> QED
  BY <1>3, <1>4, <1>5, <1>6 DEF PathInv

\* A line that becomes text is under the headings of the line before.
LEMMA LineKeepsPaths ==
    ASSUME IInv, PathInv, NEW l \in Lines, Reads(l), Keeps(l),
           ~(l.mark = "heading" /\ fence = None),
           fence' = FenceAfter(fence, l),
           UNCHANGED <<heading_stack, sections, next, chunks>>
    PROVE  PathInv'
<1>1. page \in Seq(Lines) /\ page' = Append(page, l) /\ Len(page) \in Nat
      /\ Len(page') = Len(page) + 1
  BY TypeParts DEF IInv, Reads
<1>2. FenceAt(page', fence')
  BY <1>1, FenceToggles DEF PathInv
<1>3. ~(l.mark = "heading" /\ Len(page) + 1 \notin Code(page))
  <2> SUFFICES ASSUME fence # None PROVE Len(page) + 1 \in Code(page)
    OBVIOUS
  <2>1. PICK f \in 1..Len(page) : Opens(Code(page), page, f, Len(page) + 1)
    BY DEF PathInv, FenceAt
  <2>2. Len(page) + 1 \in Nat /\ f \in 1..(Len(page) + 1) - 1
    BY <1>1
  <2> QED
    BY <2>1, <2>2, CodeIs
<1>4. Over(page', Len(page')) = Over(page, Len(page))
  BY <1>1, <1>3, OverOfText
<1>5. StackAt(page', heading_stack')
  BY <1>4 DEF PathInv, StackAt
<1>6. content_lines' \in Seq(Seq(LettersOver(page', Over(page', Len(page')))))
  <2> DEFINE S == Over(page, Len(page))
  <2>1. content_lines \in Seq(Seq(LettersOver(page, S)))
    BY DEF PathInv
  <2>2. Seq(LettersOver(page, S)) \subseteq Seq(LettersOver(page', S))
    BY <1>1, LettersStay
  <2>3. content_lines \in Seq(Seq(LettersOver(page', S)))
    BY <2>1, <2>2, SeqMonotonic
  <2>4. TextOf(l, Len(page) + 1) \in Seq(LettersOver(page', Over(page', Len(page) + 1)))
    BY <1>1, LettersOfLine
  <2>5. TextOf(l, Len(page) + 1) \in Seq(LettersOver(page', S))
    BY <1>1, <1>4, <2>4
  <2>6. content_lines' = Append(content_lines, TextOf(l, Len(page) + 1))
    BY DEF Keeps
  <2>7. content_lines' \in Seq(Seq(LettersOver(page', S)))
    BY <2>3, <2>5, <2>6, AppendProperties
  <2> QED
    BY <1>4, <2>7
<1>7. KnownSections(page', sections') /\ KnownChunks(page', chunks')
  BY <1>1, KnownGrows DEF PathInv
<1> QED
  BY <1>2, <1>5, <1>6, <1>7 DEF PathInv

\* A heading ends the section and goes on top of those above it.
LEMMA HeadingKeepsPaths ==
    ASSUME IInv, PathInv, NEW l \in Lines, HeadingLine(l)
    PROVE  PathInv'
<1>1. /\ page \in Seq(Lines) /\ page' = Append(page, l) /\ Len(page) \in Nat
      /\ Len(page') = Len(page) + 1
      /\ heading_stack \in Seq(DOMAIN page) /\ DOMAIN page = 1..Len(page)
  BY TypeParts DEF IInv, HeadingsArePlaces, HeadingLine, Reads
<1>2. /\ l.mark = "heading" /\ fence = None /\ UNCHANGED <<fence, next, chunks>>
      /\ sections' = Finalized /\ content_lines' = <<>>
      /\ heading_stack' = Append(Below(heading_stack, l.level), Len(page) + 1)
  BY DEF HeadingLine
<1>3. FenceAt(page', fence')
  <2>1. FenceAfter(fence, l) = fence
    BY <1>2 DEF FenceAfter
  <2> QED
    BY <1>1, <1>2, <2>1, FenceToggles DEF PathInv
<1>4. Len(page) + 1 \notin Code(page)
  BY <1>2 DEF PathInv, FenceAt
<1>5. StackAt(page', heading_stack')
  <2> DEFINE m == Len(page) + 1
             kept == Below(heading_stack, l.level)
             stack == Append(kept, m)
  <2>1. Ascending(kept) /\ Range(kept) = {h \in Over(page, Len(page)) : page[h].level < l.level}
    BY <1>1, StackBelow DEF PathInv
  <2>2. kept \in Seq(DOMAIN page)
    BY <1>1, BelowType
  <2>3. Over(page', m) = {m} \cup {h \in Over(page, Len(page)) : page[h].level < l.level}
    BY <1>1, <1>2, <1>4, OverOfHeading
  <2> HIDE DEF kept
  <2>4. /\ DOMAIN kept = 1..Len(kept) /\ Len(kept) \in Nat
        /\ DOMAIN stack = 1..Len(kept) + 1 /\ stack[Len(kept) + 1] = m
        /\ \A i \in 1..Len(kept) : stack[i] = kept[i]
    BY <2>2
  <2>5. \A i \in 1..Len(kept) : kept[i] \in 1..Len(page) /\ kept[i] < m
    BY <1>1, <2>2
  <2> HIDE DEF stack
  <2>6. Ascending(stack)
    <3> SUFFICES ASSUME NEW i \in DOMAIN stack, NEW j \in DOMAIN stack, i < j
                 PROVE  stack[i] < stack[j]
      BY DEF Ascending
    <3>1. i \in 1..Len(kept) /\ (j \in 1..Len(kept) \/ j = Len(kept) + 1)
      BY <2>4
    <3> QED
      BY <2>1, <2>4, <2>5, <3>1 DEF Ascending
  <2>7. Range(stack) = {m} \cup Range(kept)
    <3>1. \A i \in 1..Len(kept) + 1 : i \in 1..Len(kept) \/ i = Len(kept) + 1
      BY <2>4
    <3>2. Len(kept) + 1 \in 1..Len(kept) + 1 /\ \A i \in 1..Len(kept) : i \in 1..Len(kept) + 1
      BY <2>4
    <3> QED
      BY <2>4, <3>1, <3>2 DEF Range
  <2>8. heading_stack' = stack /\ Len(page') = m
    BY <1>1, <1>2 DEF stack, kept
  <2> QED
    BY <2>1, <2>3, <2>6, <2>7, <2>8 DEF StackAt
<1>6. content_lines' \in Seq(Seq(LettersOver(page', Over(page', Len(page')))))
  BY <1>2, EmptySeq
<1>7. KnownSections(page', sections')
  <2>1. KnownSections(page, Finalized)
    BY FinalizedKnown
  <2> QED
    BY <1>1, <1>2, <2>1, KnownGrows
<1>8. KnownChunks(page', chunks')
  BY <1>1, <1>2, KnownGrows DEF PathInv
<1> QED
  BY <1>3, <1>5, <1>6, <1>7, <1>8 DEF PathInv

\* _create_section_chunks adds a chunk for each text of the section, with the path of the
\* section.
LEMMA ChunksAdded ==
    ASSUME IInv, ChunkSection, NEW A, TextsOf(sections[next]) \in Seq(A)
    PROVE  \A k \in DOMAIN chunks' :
              \/ k \in DOMAIN chunks /\ chunks'[k] = chunks[k]
              \/ chunks'[k].path = sections[next].path /\ chunks'[k].text \in A
<1> DEFINE section == sections[next]
           texts == TextsOf(section)
           e(i) == [chunk_index |-> StartIndex + i - 1, path |-> section.path, text |-> texts[i]]
           new == [i \in DOMAIN texts |-> e(i)]
<1>1. chunks \in Seq(ChunksOf(page))
  BY TypeParts DEF IInv
<1>2. chunks' = chunks \o new
  BY DEF ChunkSection
<1>3. texts \in Seq(A)
  OBVIOUS
<1> HIDE DEF texts
<1>4. DOMAIN texts = 1..Len(texts) /\ Len(texts) \in Nat
  BY <1>3, LenProperties
<1>5. ASSUME NEW i \in 1..Len(texts) PROVE e(i).path = section.path /\ e(i).text \in A
  <2>1. texts[i] \in A
    BY <1>3
  <2> QED
    BY <2>1
<1> HIDE DEF e
<1>6. Len(new) = Len(texts) /\ new \in Seq({e(i) : i \in 1..Len(texts)})
      /\ \A i \in 1..Len(texts) : new[i] = e(i)
  <2> DEFINE E == {e(i) : i \in 1..Len(texts)}
  <2>1. new = [i \in 1..Len(texts) |-> e(i)]
    BY <1>4
  <2>2. new \in [1..Len(texts) -> E]
    BY <2>1
  <2> HIDE DEF E
  <2>3. new \in Seq(E)
    BY <1>4, <2>2, SeqDef
  <2> QED
    BY <1>4, <2>1, <2>3, LenProperties DEF E
<1>7. \A k \in DOMAIN chunks' :
         \/ k \in DOMAIN chunks /\ chunks'[k] = chunks[k]
         \/ \E i \in 1..Len(texts) : chunks'[k] = e(i)
  <2> DEFINE E == {e(i) : i \in 1..Len(texts)}
             B == ChunksOf(page) \cup E
             n == Len(chunks)
             m == Len(texts)
  <2>0. new \in Seq(E) /\ chunks \in Seq(ChunksOf(page))
    BY <1>1, <1>6
  <2> HIDE DEF E, new
  <2>1. chunks \in Seq(B) /\ new \in Seq(B)
    BY <2>0, SeqMonotonic
  <2> HIDE DEF B
  <2>2. /\ chunks \o new \in Seq(B) /\ Len(chunks \o new) = n + Len(new)
        /\ \A k \in 1..(n + Len(new)) : (chunks \o new)[k] = IF k <= n THEN chunks[k] ELSE new[k - n]
    BY <2>1, ConcatProperties
  <2>3. n \in Nat /\ m \in Nat /\ Len(new) = m /\ DOMAIN chunks = 1..n
    BY <1>1, <1>4, <1>6, LenProperties
  <2>4. DOMAIN chunks' = 1..(n + m)
    BY <1>2, <2>2, <2>3, LenProperties
  <2> SUFFICES ASSUME NEW k \in 1..(n + m)
               PROVE  \/ k \in DOMAIN chunks /\ chunks'[k] = chunks[k]
                      \/ \E i \in 1..m : chunks'[k] = e(i)
    BY <2>4
  <2>5. CASE k <= n
    BY <1>2, <2>2, <2>3, <2>5
  <2>6. CASE ~(k <= n)
    <3>1. k - n \in 1..m
      BY <2>3, <2>6
    <3>2. chunks'[k] = new[k - n] /\ new[k - n] = e(k - n)
      BY <1>2, <1>6, <2>2, <2>3, <2>6, <3>1
    <3> QED
      BY <3>1, <3>2
  <2> QED
    BY <2>5, <2>6
<1> QED
  BY <1>5, <1>7 DEF section

\* The chunks of a section have its letters.
LEMMA ChunkingKeepsPaths ==
    ASSUME IInv, PathInv, ChunkSection
    PROVE  PathInv'
<1> DEFINE section == sections[next]
           texts == TextsOf(section)
           A == LettersOver(page, Range(section.path))
<1>1. sections \in Seq(SectionsOf(page)) /\ next \in DOMAIN sections
  BY TypeParts DEF IInv, ChunkSection
<1>2. UNCHANGED <<page, heading_stack, content_lines, fence, sections>>
  BY DEF ChunkSection, parserVars
<1>3. /\ section \in SectionsOf(page) /\ Ascending(section.path) /\ section.content \in Seq(A)
  BY <1>1 DEF PathInv, KnownSections
<1> HIDE DEF section
<1>4. texts \in Seq(Seq(A))
  <2>1. A \in SUBSET Int /\ Space \in A /\ Newline \in A
    BY LettersAre
  <2> HIDE DEF A
  <2>2. texts \in Seq(Pieces(Seq(A), EffectiveMax(section.path)))
    BY <1>3, <2>1, TextsOfType
  <2>3. Pieces(Seq(A), EffectiveMax(section.path)) \subseteq Seq(A)
    BY DEF Pieces, Short
  <2> QED
    BY <2>2, <2>3, SeqMonotonic
<1> HIDE DEF texts
<1>5. \A k \in DOMAIN chunks' :
         \/ k \in DOMAIN chunks /\ chunks'[k] = chunks[k]
         \/ chunks'[k].path = section.path /\ chunks'[k].text \in Seq(A)
  <2> HIDE DEF A
  <2> QED
    BY <1>4, ChunksAdded DEF section, texts
<1>6. KnownChunks(page', chunks')
  <2>1. KnownChunks(page, chunks)
    BY DEF PathInv
  <2> QED
    BY <1>2, <1>3, <1>5, <2>1 DEF KnownChunks
<1> QED
  BY <1>2, <1>6 DEF PathInv

\* Every step keeps the invariant of the paths.
LEMMA NextPaths == IInv /\ PathInv /\ [Next]_vars => PathInv'
<1> SUFFICES ASSUME IInv, PathInv, [Next]_vars PROVE PathInv'
  OBVIOUS
<1>1. ASSUME NEW l \in Lines, FenceLine(l) PROVE PathInv'
  <2>1. fence' = FenceAfter(fence, l) /\ ~(l.mark = "heading" /\ fence = None)
    BY <1>1 DEF FenceLine, Toggled, FenceAfter
  <2> QED
    BY <1>1, <2>1, LineKeepsPaths DEF FenceLine
<1>2. ASSUME NEW l \in Lines, TextLine(l) PROVE PathInv'
  <2>1. fence' = FenceAfter(fence, l) /\ ~(l.mark = "heading" /\ fence = None)
    BY <1>2 DEF TextLine, FenceAfter
  <2> QED
    BY <1>2, <2>1, LineKeepsPaths DEF TextLine
<1>3. ASSUME NEW l \in Lines, HeadingLine(l) PROVE PathInv'
  BY <1>3, HeadingKeepsPaths
<1>4. CASE EndOfPage
  <2>1. KnownSections(page, Finalized)
    BY FinalizedKnown
  <2>2. content_lines' \in Seq(Seq(LettersOver(page, Over(page, Len(page)))))
    BY <1>4, EmptySeq DEF EndOfPage
  <2> QED
    BY <1>4, <2>1, <2>2 DEF EndOfPage, PathInv
<1>5. CASE ChunkSection
  BY <1>5, ChunkingKeepsPaths
<1>6. CASE UNCHANGED vars
  BY <1>6 DEF vars, parserVars, PathInv
<1> QED
  BY <1>1, <1>2, <1>3, <1>4, <1>5, <1>6 DEF Next

\* As long as no fence ends a block for the code only, the lines in blocks are those that the
\* code finds there.
LEMMA BlocksAgree ==
    ASSUME NEW n \in Nat, \A g \in 1..n - 1 : ~FalseEnd(g)
    PROVE  \A m \in 0..n : InBlock[m] <=> m \in Code(page)
<1> DEFINE A == {k \in 0..n : \A m \in 0..k : InBlock[m] <=> m \in Code(page)}
           C == Code(page)
<1>1. \A m \in Nat : InBlock[m] <=> \E f \in 1..m - 1 : Reaches(f, m) /\ ~InBlock[f]
  BY BlockIs
<1>2. \A m \in Nat : m \in C <=> \E f \in 1..m - 1 : Opens(C, page, f, m)
  BY CodeIs
<1>3. 0 \in A
  BY <1>1, <1>2
<1>4. ASSUME NEW k \in 0..n, k < n, k \in A PROVE k + 1 \in A
  <2> DEFINE m == k + 1
  <2>1. m \in 0..n /\ m \in Nat /\ m - 1 = k
    BY <1>4
  <2>2. \A f \in 1..k : InBlock[f] <=> f \in C
    BY <1>4
  <2> HIDE DEF C, m
  <2>3. ASSUME NEW f \in 1..k, Reaches(f, m), ~InBlock[f] PROVE Opens(C, page, f, m)
    <3>1. ASSUME NEW g \in f + 1..m - 1, page[g].mark = "fence", page[g].char = page[f].char
          PROVE  FALSE
      <4>1. g \in 1..n - 1 /\ f \in 1..g - 1
        BY <2>1, <3>1
      <4>2. Reaches(f, g)
        BY <2>1, <2>3, <3>1 DEF Reaches
      <4>3. ~Ends(g, f)
        BY <2>3, <3>1 DEF Reaches
      <4> QED
        BY <2>3, <3>1, <4>1, <4>2, <4>3 DEF FalseEnd
    <3> QED
      BY <2>1, <2>2, <2>3, <3>1 DEF Opens, Reaches
  <2>4. ASSUME NEW f \in 1..k, Opens(C, page, f, m) PROVE Reaches(f, m) /\ ~InBlock[f]
    <3>1. page[f].mark = "fence" /\ f \notin C
      BY <2>4 DEF Opens
    <3>2. ASSUME NEW g \in f + 1..m - 1, Ends(g, f) PROVE FALSE
      BY <2>4, <3>2 DEF Opens, Ends
    <3> QED
      BY <2>2, <3>1, <3>2 DEF Reaches
  <2>5. InBlock[m] <=> m \in C
    BY <1>1, <1>2, <2>1, <2>3, <2>4
  <2>6. \A i \in 0..m : i \in 0..k \/ i = m
    BY DEF m
  <2>7. \A i \in 0..m : InBlock[i] <=> i \in C
    BY <1>4, <2>5, <2>6 DEF C
  <2> QED
    BY <2>1, <2>7 DEF C, m
<1>5. n \in A
  <2> HIDE DEF A
  <2>1. \A k \in 0..n : k \in A
    BY <1>3, <1>4, Induction
  <2> QED
    BY <2>1
<1> QED
  BY <1>5

\* Headings after a line do not matter to it.
LEMMA HeadingsBefore ==
    ASSUME NEW n \in Nat, NEW G \in SUBSET Nat, NEW H \in SUBSET Nat, \A h \in 1..n : h \in G <=> h \in H,
           0 \notin G, 0 \notin H
    PROVE  HeadingsOver(n, G) = HeadingsOver(n, H)
<1>1. \A h \in Nat : h <= n => (h \in G <=> h \in H)
  OBVIOUS
<1>2. \A h \in Nat : G \cap (h + 1)..n = H \cap (h + 1)..n
  BY <1>1
<1> QED
  BY <1>1, <1>2 DEF HeadingsOver

\* Chunks that are known have the path of their letters.
LEMMA KnownPaths == IInv /\ PathInv => PathsAreHeadings
<1> DEFINE headings == {n \in DOMAIN page : page[n].mark = "heading" /\ ~InBlock[n]}
<1> SUFFICES ASSUME IInv, PathInv, NEW k \in DOMAIN chunks
             PROVE  LET path == chunks[k].path
                    IN /\ \A i, j \in DOMAIN path : i < j => path[i] < path[j]
                       /\ \A n \in {LineOf(x) : x \in LettersIn(chunks[k].text)} :
                             (\A g \in 1..n - 1 : ~FalseEnd(g))
                             => HeadingsOver(n, headings) = Range(path)
  BY DEF PathsAreHeadings
<1> DEFINE path == chunks[k].path
           text == chunks[k].text
<1>1. Ascending(path) /\ text \in Seq(LettersOver(page, Range(path)))
  BY DEF PathInv, KnownChunks
<1>2. page \in Seq(Lines) /\ DOMAIN page = 1..Len(page) /\ Len(page) \in Nat
  BY LenProperties DEF IInv, TypeOK
<1> HIDE DEF path, text
<1>3. ASSUME NEW x \in LettersIn(text), \A g \in 1..LineOf(x) - 1 : ~FalseEnd(g)
      PROVE  HeadingsOver(LineOf(x), headings) = Range(path)
  <2> DEFINE n == LineOf(x)
  <2>1. x > 0 /\ x \in LettersOver(page, Range(path))
    BY <1>1, LenProperties DEF LettersIn, Range
  <2>2. n \in DOMAIN page /\ Over(page, n) = Range(path)
    BY <2>1 DEF LettersOver
  <2>3. n \in Nat
    BY <1>2, <2>2
  <2>4. HeadingLines = HeadingsOf(page) /\ HeadingsOver(n, HeadingLines) = Over(page, n)
    BY <1>2, <2>3, HeadingsAre
  <2> HIDE DEF n
  <2>5. \A m \in 0..n : InBlock[m] <=> m \in Code(page)
    BY <1>3, <2>3, BlocksAgree DEF n
  <2>6. \A h \in 1..n : h \in headings <=> h \in HeadingsOf(page)
    BY <2>3, <2>5 DEF HeadingsOf
  <2>7. headings \in SUBSET Nat /\ 0 \notin headings /\ HeadingsOf(page) \in SUBSET Nat
        /\ 0 \notin HeadingsOf(page)
    BY <1>2 DEF HeadingsOf
  <2> HIDE DEF headings
  <2>8. HeadingsOver(n, headings) = HeadingsOver(n, HeadingsOf(page))
    BY <2>3, <2>6, <2>7, HeadingsBefore
  <2> QED
    BY <2>2, <2>4, <2>8 DEF n
<1> QED
  BY <1>1, <1>3 DEF Ascending, path, text

\* section_path is the chain of the headings over every line the chunk has letters of, in their
\* order, and a comment in a block of code is none of them: headings and blocks are those of
\* Markdown, for fences of any length and with or without text behind them, up to the first
\* fence that ends a block for the code but not in Markdown.
THEOREM PathsAlwaysHeadings == Spec => []PathsAreHeadings
<1>1. IInv /\ PathInv => PathsAreHeadings
  BY KnownPaths
<1>2. Init => IInv /\ PathInv
  BY InitIInv, InitPaths
<1>3. IInv /\ PathInv /\ [Next]_vars => IInv' /\ PathInv'
  BY NextIInv, NextPaths
<1> QED
  BY <1>1, <1>2, <1>3, PTL DEF Spec

-----------------------------------------------------------------------------
(***************************************************************************)
(* Words.  B are the letters of a page, numbered so that those of a word   *)
(* follow each other without a gap.  A text is unbroken if its letters     *)
(* have the letters beside them that they have in the page; a text has     *)
(* words in whole if it has all of each word of at most size letters that  *)
(* it has a letter of.                                                     *)
(***************************************************************************)
Unbroken(B) ==
    {t \in Seq(B \cup {Space, Newline}) :
        \A i \in 1..Len(t) : t[i] > 0 =>
           /\ t[i] + 1 \in B => i + 1 \in 1..Len(t) /\ t[i + 1] = t[i] + 1
           /\ t[i] - 1 \in B => i - 1 \in 1..Len(t) /\ t[i - 1] = t[i] - 1
           /\ i + 1 \in 1..Len(t) /\ t[i + 1] > 0 => t[i + 1] = t[i] + 1}

WithWords(B, size) ==
    {t \in Texts : \A x \in LettersIn(t) :
        Cardinality(WordOf(x, B)) <= size => WordOf(x, B) \subseteq LettersIn(t)}

\* Sets of letters.
IsBody(B) == B \in SUBSET (Nat \ {0}) /\ IsFiniteSet(B)

\* Unbroken texts are texts.
LEMMA UnbrokenAre ==
    ASSUME NEW B \in SUBSET (Nat \ {0})
    PROVE  /\ Unbroken(B) \subseteq Texts
           /\ \A t \in Unbroken(B) : /\ Len(t) \in Nat /\ DOMAIN t = 1..Len(t)
                                     /\ \A i \in 1..Len(t) : t[i] \in B \cup {Space, Newline}
                                     /\ \A i \in 1..Len(t) : t[i] \in Int
<1>1. Space \in Int /\ Newline \in Int
  BY DEF Space, Newline
<1>2. B \cup {Space, Newline} \subseteq Int
  BY <1>1
<1>3. Seq(B \cup {Space, Newline}) \subseteq Seq(Int)
  BY <1>2, SeqMonotonic
<1>4. ASSUME NEW t \in Unbroken(B)
      PROVE  /\ t \in Texts /\ Len(t) \in Nat /\ DOMAIN t = 1..Len(t)
             /\ \A i \in 1..Len(t) : t[i] \in B \cup {Space, Newline} /\ t[i] \in Int
  <2> DEFINE A == B \cup {Space, Newline}
  <2>1. t \in Seq(A) /\ t \in Seq(Int) /\ A \subseteq Int
    BY <1>2, <1>3 DEF Unbroken
  <2> HIDE DEF A
  <2>2. Len(t) \in Nat /\ DOMAIN t = 1..Len(t) /\ \A i \in 1..Len(t) : t[i] \in A
    BY <2>1
  <2> QED
    BY <2>1, <2>2 DEF Texts, A
<1> QED
  BY <1>4

\* A text between white space, or the ends, of one that is unbroken is unbroken.
LEMMA StretchUnbroken ==
    ASSUME NEW B \in SUBSET (Nat \ {0}), NEW t \in Unbroken(B),
           NEW i \in 1..Len(t) + 1, NEW k \in 0..Len(t), i <= k + 1,
           i = 1 \/ t[i - 1] <= 0, k = Len(t) \/ t[k + 1] <= 0
    PROVE  SubSeq(t, i, k) \in Unbroken(B)
<1> DEFINE A == B \cup {Space, Newline}
           s == SubSeq(t, i, k)
           n == k - i + 1
<1>1. t \in Seq(A) /\ Len(t) \in Nat /\ \A j \in 1..Len(t) : t[j] \in A /\ t[j] \in Int
  BY UnbrokenAre DEF Unbroken
<1>2. s \in Seq(A) /\ Len(s) = n /\ \A j \in 1..n : s[j] = t[i + j - 1]
  <2>1. \A j \in i..k : t[j] \in A
    BY <1>1
  <2> HIDE DEF A
  <2> QED
    BY <1>1, <2>1, SubSeqProperties
<1> HIDE DEF s, A
<1>3. ASSUME NEW j \in 1..n, s[j] > 0
      PROVE  /\ s[j] + 1 \in B => j + 1 \in 1..n /\ s[j + 1] = s[j] + 1
             /\ s[j] - 1 \in B => j - 1 \in 1..n /\ s[j - 1] = s[j] - 1
             /\ j + 1 \in 1..n /\ s[j + 1] > 0 => s[j + 1] = s[j] + 1
  <2> DEFINE m == i + j - 1
  <2>0. m \in 1..Len(t) /\ m >= i /\ m <= k
    BY <1>1
  <2>1. m \in 1..Len(t) /\ s[j] = t[m] /\ t[m] \in Int /\ m >= i /\ m <= k
    <3> HIDE DEF n
    <3> QED
      BY <1>1, <1>2, <2>0
  <2>2. /\ t[m] + 1 \in B => m + 1 \in 1..Len(t) /\ t[m + 1] = t[m] + 1
        /\ t[m] - 1 \in B => m - 1 \in 1..Len(t) /\ t[m - 1] = t[m] - 1
        /\ m + 1 \in 1..Len(t) /\ t[m + 1] > 0 => t[m + 1] = t[m] + 1
    BY <1>3, <2>1 DEF Unbroken
  <2>3. /\ j + 1 \in 1..n => s[j + 1] = t[m + 1] /\ m + 1 \in 1..Len(t)
        /\ j - 1 \in 1..n => s[j - 1] = t[m - 1]
        /\ j + 1 \in 1..n <=> m # k
        /\ j - 1 \in 1..n <=> m # i
    <3>1. j + 1 \in 1..n => i + (j + 1) - 1 = m + 1 /\ m + 1 \in 1..Len(t)
      BY <1>1
    <3>2. j - 1 \in 1..n => i + (j - 1) - 1 = m - 1
      BY <1>1
    <3>3. (j + 1 \in 1..n <=> m # k) /\ (j - 1 \in 1..n <=> m # i)
      BY <1>1
    <3> HIDE DEF m, n
    <3> QED
      BY <1>2, <3>1, <3>2, <3>3, SMTT(60)
  <2>4. t[m] + 1 \in B => m # k
    BY <1>1, <1>3, <2>1, <2>2, SMTT(60)
  <2>5. t[m] - 1 \in B => m # i
    BY <1>1, <1>3, <2>1, <2>2
  <2> HIDE DEF m, n
  <2> QED
    BY <2>1, <2>2, <2>3, <2>4, <2>5
<1> HIDE DEF n
<1> QED
  BY <1>2, <1>3 DEF Unbroken, s, A

\* Unbroken texts, and lines of them, are stripped to unbroken ones and joined to them.
LEMMA UnbrokenMerge ==
    ASSUME NEW B \in SUBSET (Nat \ {0})
    PROVE  Mergeable(Unbroken(B), <<Newline>>)
<1> DEFINE A == B \cup {Space, Newline}
           sep == <<Newline>>
<1>1. Unbroken(B) \subseteq Texts /\ <<>> \in Unbroken(B) /\ sep \in Texts /\ sep \in Seq(A)
  <2>1. sep \in Texts /\ sep \in Seq(A)
    BY DEF Texts, Newline
  <2>2. <<>> \in Unbroken(B)
    BY EmptySeq DEF Unbroken
  <2> QED
    BY <2>1, <2>2, UnbrokenAre
<1>2. ASSUME NEW s \in Unbroken(B), NEW t \in Unbroken(B) PROVE (s \o sep) \o t \in Unbroken(B)
  <2> DEFINE r == (s \o sep) \o t
             n == Len(s)
             m == Len(t)
  <2>1. s \in Seq(A) /\ t \in Seq(A) /\ n \in Nat /\ m \in Nat
    BY UnbrokenAre DEF Unbroken
  <2>2. /\ r \in Seq(A) /\ Len(r) = n + 1 + m
        /\ \A i \in 1..n : r[i] = s[i]
        /\ r[n + 1] = Newline
        /\ \A i \in 1..m : r[n + 1 + i] = t[i]
    <3>1. /\ s \o sep \in Seq(A) /\ Len(s \o sep) = n + 1
          /\ \A i \in 1..n : (s \o sep)[i] = s[i]
          /\ (s \o sep)[n + 1] = Newline
      <4>1. Len(sep) = 1 /\ sep[1] = Newline /\ n + 1 \in 1..n + 1 /\ ~(n + 1 <= n) /\ (n + 1) - n = 1
        BY <2>1
      <4> HIDE DEF sep, n, A
      <4>2. /\ s \o sep \in Seq(A) /\ Len(s \o sep) = n + Len(sep)
            /\ \A i \in 1..n + Len(sep) : (s \o sep)[i] = IF i <= n THEN s[i] ELSE sep[i - n]
        BY <1>1, <2>1, ConcatProperties DEF n
      <4>3. /\ s \o sep \in Seq(A) /\ Len(s \o sep) = n + 1
            /\ \A i \in 1..n + 1 : (s \o sep)[i] = IF i <= n THEN s[i] ELSE sep[i - n]
        BY <4>1, <4>2
      <4>4. \A i \in 1..n : i \in 1..n + 1 /\ i <= n
        BY <2>1
      <4> QED
        BY <4>1, <4>3, <4>4
    <3> DEFINE u == s \o sep
    <3> HIDE DEF u, A
    <3>2. /\ u \o t \in Seq(A) /\ Len(u \o t) = (n + 1) + m
          /\ \A i \in 1..(n + 1) + m : (u \o t)[i] = IF i <= n + 1 THEN u[i] ELSE t[i - (n + 1)]
      BY <2>1, <3>1, ConcatProperties DEF u
    <3> HIDE DEF n, m
    <3>3. \A i \in 1..m : n + 1 + i \in 1..(n + 1) + m /\ ~(n + 1 + i <= n + 1) /\ (n + 1 + i) - (n + 1) = i
      BY <2>1
    <3>4. \A i \in 1..n + 1 : i \in 1..(n + 1) + m /\ i <= n + 1
      BY <2>1
    <3>5. n + 1 \in 1..n + 1 /\ \A i \in 1..n : i \in 1..n + 1
      BY <2>1
    <3> QED
      BY <3>1, <3>2, <3>3, <3>4, <3>5 DEF u
  <2> HIDE DEF r
  <2>3. ASSUME NEW i \in 1..Len(r), r[i] > 0
        PROVE  /\ r[i] + 1 \in B => i + 1 \in 1..Len(r) /\ r[i + 1] = r[i] + 1
               /\ r[i] - 1 \in B => i - 1 \in 1..Len(r) /\ r[i - 1] = r[i] - 1
               /\ i + 1 \in 1..Len(r) /\ r[i + 1] > 0 => r[i + 1] = r[i] + 1
    <3>1. ~(Newline > 0)
      BY DEF Newline
    <3>2. CASE i \in 1..n
      <4>1. /\ s[i] + 1 \in B => i + 1 \in 1..n /\ s[i + 1] = s[i] + 1
            /\ s[i] - 1 \in B => i - 1 \in 1..n /\ s[i - 1] = s[i] - 1
            /\ i + 1 \in 1..n /\ s[i + 1] > 0 => s[i + 1] = s[i] + 1
        BY <2>2, <2>3, <3>2 DEF Unbroken
      <4>2. i + 1 \in 1..n \/ i + 1 = n + 1
        BY <2>1, <3>2
      <4>3. \A j \in 1..n : j \in 1..Len(r)
        BY <2>1, <2>2
      <4> HIDE DEF n
      <4> QED
        BY <2>2, <3>1, <3>2, <4>1, <4>2, <4>3
    <3>3. CASE i = n + 1
      BY <2>2, <2>3, <3>1, <3>3
    <3>4. CASE i > n + 1
      <4> DEFINE j == i - (n + 1)
      <4>1. j \in 1..m /\ i = n + 1 + j
        BY <2>1, <2>2, <3>4
      <4> HIDE DEF j
      <4>2. /\ t[j] + 1 \in B => j + 1 \in 1..m /\ t[j + 1] = t[j] + 1
            /\ t[j] - 1 \in B => j - 1 \in 1..m /\ t[j - 1] = t[j] - 1
            /\ j + 1 \in 1..m /\ t[j + 1] > 0 => t[j + 1] = t[j] + 1
        BY <2>2, <2>3, <4>1 DEF Unbroken
      <4>3. i + 1 = n + 1 + (j + 1) /\ i - 1 = n + 1 + (j - 1)
        BY <2>1, <4>1
      <4>4. i + 1 \in 1..Len(r) <=> j + 1 \in 1..m
        BY <2>1, <2>2, <4>1
      <4>5. j - 1 \in 1..m => i - 1 \in 1..Len(r)
        BY <2>1, <2>2, <4>1
      <4> HIDE DEF n, m
      <4> QED
        BY <2>2, <4>1, <4>2, <4>3, <4>4, <4>5
    <3>5. i \in 1..n \/ i = n + 1 \/ i > n + 1
      BY <2>1, <2>2
    <3> QED
      BY <3>2, <3>3, <3>4, <3>5
  <2> QED
    BY <2>2, <2>3 DEF Unbroken, r
<1>3. ASSUME NEW t \in Unbroken(B) PROVE Strip(t) \in Unbroken(B)
  <2> DEFINE ink == {i \in DOMAIN t : t[i] > 0}
  <2>1. /\ Len(t) \in Nat /\ DOMAIN t = 1..Len(t) /\ \A i \in 1..Len(t) : t[i] \in Int
    BY UnbrokenAre
  <2>2. CASE ink = {}
    BY <1>1, <2>2 DEF Strip
  <2>3. CASE ink # {}
    <3>1. ink \in SUBSET (0..Len(t)) /\ ink \in SUBSET Nat /\ ink \in SUBSET (1..Len(t))
      BY <2>1
    <3>2. /\ Min(ink) \in ink /\ \A i \in ink : Min(ink) <= i
          /\ Max(ink) \in ink /\ \A i \in ink : Max(ink) >= i
      <4> HIDE DEF ink
      <4> QED
        BY <2>1, <2>3, <3>1, MinOf, MaxOf
    <3> DEFINE a == Min(ink)
               b == Max(ink)
    <3>3. Strip(t) = SubSeq(t, a, b)
      BY <2>3 DEF Strip
    <3>4. a \in 1..Len(t) /\ b \in 1..Len(t) /\ a <= b
      BY <3>1, <3>2
    <3>5. \A i \in 1..Len(t) : t[i] > 0 => a <= i /\ i <= b
      <4>1. \A i \in ink : a <= i /\ i <= b
        BY <3>1, <3>2
      <4> QED
        BY <2>1, <4>1
    <3> HIDE DEF a, b, ink
    <3>6. a = 1 \/ t[a - 1] <= 0
      <4>1. a # 1 => a - 1 \in 1..Len(t) /\ ~(a <= a - 1)
        BY <2>1, <3>4
      <4> QED
        BY <2>1, <3>5, <4>1
    <3>7. b = Len(t) \/ t[b + 1] <= 0
      <4>1. b \in Nat /\ b <= Len(t) /\ Len(t) \in Nat
        BY <2>1, <3>4
      <4>2. b # Len(t) => b + 1 \in 1..Len(t) /\ ~(b + 1 <= b)
        BY <4>1
      <4> QED
        BY <2>1, <3>5, <4>2
    <3>8. a \in 1..Len(t) + 1 /\ b \in 0..Len(t) /\ a <= b + 1
      BY <2>1, <3>4
    <3> QED
      BY <3>3, <3>6, <3>7, <3>8, StretchUnbroken
  <2> QED
    BY <2>2, <2>3
<1> QED
  BY <1>1, <1>2, <1>3 DEF Mergeable, Joinable

\* Texts that have words in whole are joined at white space to such texts, and stripped.
LEMMA WordsMerge ==
    ASSUME NEW B, NEW size, NEW sep \in Texts, \A i \in DOMAIN sep : sep[i] <= 0
    PROVE  Mergeable(WithWords(B, size), sep)
<1> DEFINE G == WithWords(B, size)
<1>1. \A t \in Texts : t \in Seq(Int) /\ Len(t) \in Nat /\ DOMAIN t = 1..Len(t)
                       /\ Range(t) = {t[i] : i \in 1..Len(t)}
  BY LenProperties DEF Texts, Range
<1>2. G \subseteq Texts /\ <<>> \in G
  <2>1. <<>> \in Texts
    BY EmptySeq DEF Texts
  <2>2. LettersIn(<<>>) = {}
    BY EmptySeq, <1>1, <2>1 DEF LettersIn
  <2> QED
    BY <2>1, <2>2 DEF WithWords
<1>3. ASSUME NEW s \in Texts, NEW t \in Texts
      PROVE  LettersIn(s \o t) = LettersIn(s) \cup LettersIn(t)
  <2>1. Range(s \o t) = Range(s) \cup Range(t)
    <3>1. /\ s \o t \in Texts /\ Len(s \o t) = Len(s) + Len(t)
          /\ \A i \in 1..Len(s) + Len(t) :
                (s \o t)[i] = IF i <= Len(s) THEN s[i] ELSE t[i - Len(s)]
      BY <1>1, ConcatProperties DEF Texts
    <3> DEFINE n == Len(s)
               m == Len(t)
               r == s \o t
    <3>2. n \in Nat /\ m \in Nat /\ r \in Texts /\ Len(r) = n + m
      BY <1>1, <3>1
    <3>3. \A i \in 1..n + m : r[i] = IF i <= n THEN s[i] ELSE t[i - n]
      BY <3>1
    <3>4. Range(r) = {r[i] : i \in 1..n + m} /\ Range(s) = {s[i] : i \in 1..n} /\ Range(t) = {t[i] : i \in 1..m}
      BY <1>1, <3>2
    <3> HIDE DEF n, m, r
    <3>5. \A i \in 1..n + m : i \in 1..n \/ (i - n \in 1..m /\ ~(i <= n))
      BY <3>2
    <3>6. \A i \in 1..n : i \in 1..n + m /\ i <= n
      BY <3>2
    <3>7. \A i \in 1..m : i + n \in 1..n + m /\ ~(i + n <= n) /\ (i + n) - n = i
      BY <3>2
    <3>8. Range(r) \subseteq Range(s) \cup Range(t)
      BY <3>3, <3>4, <3>5, <3>6
    <3>9. Range(s) \subseteq Range(r)
      BY <3>3, <3>4, <3>6
    <3>10. Range(t) \subseteq Range(r)
      BY <3>3, <3>4, <3>7
    <3> QED
      BY <3>8, <3>9, <3>10 DEF r
  <2> QED
    BY <2>1 DEF LettersIn
<1>4. LettersIn(sep) = {}
  BY <1>1 DEF LettersIn
<1>5. ASSUME NEW s \in G, NEW t \in G PROVE (s \o sep) \o t \in G
  <2>1. s \o sep \in Texts /\ (s \o sep) \o t \in Texts
    BY <1>2, TextConcat
  <2>2. LettersIn((s \o sep) \o t) = LettersIn(s) \cup LettersIn(t)
    BY <1>2, <1>3, <1>4, <2>1
  <2> QED
    BY <2>1, <2>2 DEF WithWords
<1>6. ASSUME NEW t \in G PROVE Strip(t) \in G
  <2>1. LettersIn(Strip(t)) = LettersIn(t)
    <3> DEFINE ink == {i \in DOMAIN t : t[i] > 0}
    <3>0. /\ t \in Texts /\ Len(t) \in Nat /\ DOMAIN t = 1..Len(t) /\ t \in Seq(Int)
          /\ Range(t) = {t[i] : i \in 1..Len(t)}
      BY <1>1, <1>2
    <3>1. /\ t \in Texts /\ Len(t) \in Nat /\ DOMAIN t = 1..Len(t) /\ t \in Seq(Int)
          /\ LettersIn(t) = {t[i] : i \in ink}
      <4>1. \A x \in LettersIn(t) : x \in {t[i] : i \in ink}
        BY <3>0 DEF LettersIn
      <4>2. \A i \in ink : t[i] \in LettersIn(t)
        BY <3>0 DEF LettersIn
      <4> HIDE DEF ink
      <4> QED
        BY <3>0, <4>1, <4>2
    <3>2. CASE ink = {}
      <4>1. Strip(t) = <<>>
        BY <3>2 DEF Strip
      <4>2. LettersIn(<<>>) = {}
        BY <1>1, <1>2, EmptySeq DEF LettersIn
      <4> QED
        BY <3>1, <3>2, <4>1, <4>2
    <3>3. CASE ink # {}
      <4>1. ink \in SUBSET (0..Len(t)) /\ ink \in SUBSET Nat /\ ink \in SUBSET (1..Len(t))
        BY <3>1
      <4>2. /\ Min(ink) \in ink /\ \A i \in ink : Min(ink) <= i
            /\ Max(ink) \in ink /\ \A i \in ink : Max(ink) >= i
        <5> HIDE DEF ink
        <5> QED
          BY <3>1, <3>3, <4>1, MinOf, MaxOf
      <4> DEFINE a == Min(ink)
                 b == Max(ink)
                 r == SubSeq(t, a, b)
      <4>3. Strip(t) = r
        BY <3>3 DEF Strip
      <4>4. a \in 1..Len(t) /\ b \in 1..Len(t) /\ a <= b
        BY <4>1, <4>2
      <4>5. \A i \in ink : i \in Nat /\ a <= i /\ i <= b
        BY <4>1, <4>2
      <4> HIDE DEF a, b
      <4>6. r \in Seq(Int) /\ Len(r) = b - a + 1 /\ \A j \in 1..b - a + 1 : r[j] = t[a + j - 1]
        <5>1. \A j \in a..b : t[j] \in Int
          BY <3>1, <4>4
        <5> QED
          BY <4>4, <5>1, SubSeqProperties
      <4> HIDE DEF r
      <4>7. LettersIn(r) = {x \in {r[j] : j \in 1..b - a + 1} : x > 0}
        <5>1. r \in Texts
          BY <4>6 DEF Texts
        <5> QED
          BY <1>1, <4>6, <5>1 DEF LettersIn
      <4>8. \A j \in 1..b - a + 1 : a + j - 1 \in 1..Len(t)
        BY <4>4
      <4>9. LettersIn(r) \subseteq LettersIn(t)
        <5>1. \A j \in 1..b - a + 1 : r[j] > 0 => a + j - 1 \in ink
          BY <3>1, <4>6, <4>8
        <5> HIDE DEF ink
        <5> QED
          BY <3>1, <4>6, <4>7, <5>1
      <4>10. LettersIn(t) \subseteq LettersIn(r)
        <5>1. ASSUME NEW i \in ink PROVE t[i] \in LettersIn(r)
          <6>1. i - a + 1 \in 1..b - a + 1 /\ a + (i - a + 1) - 1 = i
            BY <4>4, <4>5
          <6>2. t[i] > 0
            OBVIOUS
          <6>3. r[i - a + 1] = t[i]
            BY <4>6, <6>1
          <6> QED
            BY <4>7, <6>1, <6>2, <6>3
        <5> HIDE DEF ink
        <5> QED
          BY <3>1, <5>1
      <4> QED
        BY <4>3, <4>9, <4>10
    <3> QED
      BY <3>2, <3>3
  <2>2. Strip(t) \in Texts
    BY <1>2, StripType
  <2> QED
    BY <2>1, <2>2 DEF WithWords
<1> QED
  BY <1>2, <1>5, <1>6 DEF Mergeable, Joinable

\* The letters of an unbroken text.
LEMMA UnbrokenLetters ==
    ASSUME NEW B \in SUBSET (Nat \ {0}), NEW t \in Unbroken(B)
    PROVE  /\ LettersIn(t) = {t[i] : i \in {j \in 1..Len(t) : t[j] > 0}}
           /\ LettersIn(t) \subseteq B
           /\ \A x \in LettersIn(t) : /\ x + 1 \in B => x + 1 \in LettersIn(t)
                                      /\ x - 1 \in B => x - 1 \in LettersIn(t)
<1>1. DOMAIN t = 1..Len(t) /\ \A i \in 1..Len(t) : t[i] \in B \cup {Space, Newline}
  BY UnbrokenAre
<1>2. LettersIn(t) = {t[i] : i \in {j \in 1..Len(t) : t[j] > 0}}
  BY <1>1 DEF LettersIn, Range
<1>3. LettersIn(t) \subseteq B
  BY <1>1, <1>2 DEF Space, Newline
<1>4. ASSUME NEW x \in LettersIn(t)
      PROVE  /\ x + 1 \in B => x + 1 \in LettersIn(t)
             /\ x - 1 \in B => x - 1 \in LettersIn(t)
  <2>1. PICK i \in 1..Len(t) : t[i] > 0 /\ t[i] = x
    BY <1>2
  <2>2. /\ x + 1 \in B => i + 1 \in 1..Len(t) /\ t[i + 1] = x + 1
        /\ x - 1 \in B => i - 1 \in 1..Len(t) /\ t[i - 1] = x - 1
    BY <2>1 DEF Unbroken
  <2>3. \A y \in B : y > 0
    OBVIOUS
  <2> QED
    BY <1>2, <2>2, <2>3
<1> QED
  BY <1>2, <1>3, <1>4

\* The least and the largest of x and y are between which a word is.
LEMMA WordIs ==
    ASSUME NEW B \in SUBSET (Nat \ {0}), NEW x \in Int
    PROVE  WordOf(x, B) = {y \in B : (x <= y => x..y \subseteq B) /\ (y <= x => y..x \subseteq B)}
<1>1. ASSUME NEW y \in B PROVE /\ x <= y => Min({x, y}) = x /\ Max({x, y}) = y
                               /\ y <= x => Min({x, y}) = y /\ Max({x, y}) = x
  <2>1. y \in Int
    OBVIOUS
  <2>2. /\ Min({x, y}) \in {x, y} /\ Min({x, y}) <= x /\ Min({x, y}) <= y
        /\ Max({x, y}) \in {x, y} /\ Max({x, y}) >= x /\ Max({x, y}) >= y
    BY <2>1, MinOfTwo, MaxOfTwo
  <2> QED
    BY <2>1, <2>2
<1>2. \A y \in B : x <= y \/ y <= x
  OBVIOUS
<1> QED
  BY <1>1, <1>2 DEF WordOf

\* An unbroken text has words in whole.
LEMMA UnbrokenWords ==
    ASSUME NEW B \in SUBSET (Nat \ {0}), NEW size
    PROVE  Unbroken(B) \subseteq WithWords(B, size)
<1> SUFFICES ASSUME NEW t \in Unbroken(B), NEW x \in LettersIn(t), NEW y \in WordOf(x, B)
             PROVE  y \in LettersIn(t)
  BY UnbrokenAre DEF WithWords
<1> DEFINE L == LettersIn(t)
<1>1. /\ L \subseteq B /\ x \in L
      /\ \A z \in L : (z + 1 \in B => z + 1 \in L) /\ (z - 1 \in B => z - 1 \in L)
  BY UnbrokenLetters
<1> HIDE DEF L
<1>2. x \in Nat /\ y \in Nat /\ (x <= y => x..y \subseteq B) /\ (y <= x => y..x \subseteq B)
  <2>1. x \in Nat /\ x \in Int
    BY <1>1
  <2>2. WordOf(x, B) = {z \in B : (x <= z => x..z \subseteq B) /\ (z <= x => z..x \subseteq B)}
    BY <2>1, WordIs
  <2> QED
    BY <2>1, <2>2
<1>3. CASE x <= y
  <2> DEFINE n == y - x
             A == {k \in 0..n : x + k \in L}
  <2>1. n \in Nat /\ 0 \in A
    BY <1>1, <1>2, <1>3
  <2>2. ASSUME NEW k \in 0..n, k < n, k \in A PROVE k + 1 \in A
    <3>1. (x + k) + 1 \in x..y /\ k + 1 \in 0..n /\ (x + k) + 1 = x + (k + 1)
      BY <1>2, <2>2
    <3>2. x + k \in L
      BY <2>2
    <3> QED
      BY <1>1, <1>2, <1>3, <3>1, <3>2
  <2>3. n \in A
    <3> HIDE DEF n, A
    <3>1. \A k \in 0..n : k \in A
      BY <2>1, <2>2, Induction
    <3> QED
      BY <2>1, <3>1
  <2> QED
    BY <1>2, <2>3 DEF L
<1>4. CASE y <= x
  <2> DEFINE n == x - y
             A == {k \in 0..n : x - k \in L}
  <2>1. n \in Nat /\ 0 \in A
    BY <1>1, <1>2, <1>4
  <2>2. ASSUME NEW k \in 0..n, k < n, k \in A PROVE k + 1 \in A
    <3>1. (x - k) - 1 \in y..x /\ k + 1 \in 0..n /\ (x - k) - 1 = x - (k + 1)
      BY <1>2, <2>2
    <3>2. x - k \in L
      BY <2>2
    <3> QED
      BY <1>1, <1>2, <1>4, <3>1, <3>2
  <2>3. n \in A
    <3> HIDE DEF n, A
    <3>1. \A k \in 0..n : k \in A
      BY <2>1, <2>2, Induction
    <3> QED
      BY <2>1, <3>1
  <2> QED
    BY <1>2, <2>3 DEF L
<1> QED
  BY <1>2, <1>3, <1>4

\* An unbroken text of letters alone is part of one word.
LEMMA LettersAlone ==
    ASSUME NEW B, IsBody(B), NEW t \in Unbroken(B), \A i \in 1..Len(t) : t[i] > 0,
           NEW x \in LettersIn(t)
    PROVE  Len(t) <= Cardinality(WordOf(x, B)) /\ Cardinality(WordOf(x, B)) \in Nat
<1> DEFINE n == Len(t)
           A == {k \in 0..n - 1 : t[1 + k] = t[1] + k}
           a == t[1]
           I == a..a + n - 1
<1>1. /\ B \in SUBSET (Nat \ {0}) /\ IsFiniteSet(B)
      /\ n \in Nat /\ \A i \in 1..n : t[i] \in B /\ t[i] \in Int
      /\ LettersIn(t) = {t[i] : i \in {j \in 1..n : t[j] > 0}}
  <2>1. B \in SUBSET (Nat \ {0}) /\ IsFiniteSet(B)
    BY DEF IsBody
  <2>2. n \in Nat /\ \A i \in 1..n : t[i] \in B \cup {Space, Newline} /\ t[i] \in Int
    BY <2>1, UnbrokenAre
  <2> QED
    BY <2>1, <2>2, UnbrokenLetters DEF Space, Newline
<1>2. n # 0 /\ 1 \in 1..n /\ n - 1 \in Nat /\ a \in Nat
  <2>1. n # 0
    BY <1>1
  <2> QED
    BY <1>1, <2>1
<1>3. ASSUME NEW i \in 1..n PROVE t[i] = a + i - 1
  <2>1. 0 \in A
    BY <1>1, <1>2
  <2>2. ASSUME NEW k \in 0..n - 1, k < n - 1, k \in A PROVE k + 1 \in A
    <3>1. 1 + k \in 1..n /\ (1 + k) + 1 \in 1..n /\ (1 + k) + 1 = 1 + (k + 1) /\ k + 1 \in 0..n - 1
      BY <1>1, <1>2, <2>2
    <3>2. t[(1 + k) + 1] = t[1 + k] + 1
      BY <3>1 DEF Unbroken
    <3>3. t[1 + k] = a + k
      BY <2>2
    <3> HIDE DEF a
    <3> QED
      BY <1>2, <3>1, <3>2, <3>3 DEF a
  <2>3. \A k \in 0..n - 1 : k \in A
    <3> HIDE DEF n, A
    <3> QED
      BY <1>2, <2>1, <2>2, Induction
  <2>4. i - 1 \in 0..n - 1 /\ 1 + (i - 1) = i
    BY <1>1
  <2> QED
    BY <1>2, <2>3, <2>4
<1>4. \A y \in I : y \in B /\ \E i \in 1..n : y = t[i]
  <2>1. ASSUME NEW y \in I PROVE y - a + 1 \in 1..n /\ y = a + (y - a + 1) - 1
    <3> HIDE DEF a, n
    <3> QED
      BY <1>1, <1>2
  <2> QED
    BY <1>1, <1>3, <2>1, ZenonT(60)
<1>5. x \in I /\ I \subseteq WordOf(x, B)
  <2>1. PICK j \in 1..n : x = t[j]
    BY <1>1
  <2>2. x = a + j - 1
    BY <1>3, <2>1
  <2> HIDE DEF a, n
  <2>3. x \in I
    BY <1>1, <1>2, <2>2
  <2>4. \A y \in I : x..y \subseteq I /\ y..x \subseteq I
    BY <1>1, <1>2, <2>3
  <2> HIDE DEF I
  <2>5. x \in Int
    BY <1>4, <2>3, <1>1
  <2>6. WordOf(x, B) = {z \in B : (x <= z => x..z \subseteq B) /\ (z <= x => z..x \subseteq B)}
    BY <1>1, <2>5, WordIs
  <2> QED
    BY <1>4, <2>3, <2>4, <2>6
<1>6. Cardinality(I) = n
  <2> HIDE DEF a, n
  <2>1. a \in Int /\ a + n - 1 \in Int /\ ~(a > a + n - 1) /\ (a + n - 1) - a + 1 = n
    BY <1>1, <1>2
  <2> QED
    BY <2>1, FS_Interval
<1>7. WordOf(x, B) \subseteq B
  BY DEF WordOf
<1>8. IsFiniteSet(WordOf(x, B)) /\ Cardinality(WordOf(x, B)) \in Nat
  BY <1>1, <1>7, FS_Subset, FS_CardinalityType
<1> HIDE DEF I
<1> QED
  BY <1>5, <1>6, <1>8, FS_Subset

\* What is in a stretch of a text is in the text.
LEMMA PlacesOfStretch ==
    ASSUME NEW sep \in Texts, NEW t \in Texts, sep # <<>>,
           NEW i \in 1..Len(t) + 1, NEW k \in 0..Len(t), i <= k + 1, Places(sep, t) = {}
    PROVE  Places(sep, SubSeq(t, i, k)) = {}
<1> DEFINE s == SubSeq(t, i, k)
           d == Len(sep)
<1> SUFFICES ASSUME NEW q \in Places(sep, s) PROVE FALSE
  OBVIOUS
<1>1. Len(t) \in Nat /\ d \in Nat \ {0}
  BY EmptySeq DEF Texts
<1>2. Len(s) = k - i + 1
  <2>1. i \in Nat /\ i # 0 /\ k \in Int /\ k <= Len(t)
    BY <1>1
  <2>2. Len(s) = IF i <= k THEN k - i + 1 ELSE 0
    BY <2>1, SubText
  <2> HIDE DEF s
  <2> QED
    BY <1>1, <2>2
<1> DEFINE e == q + d - 1
<1>3. q \in 1..(k - i + 1) - d + 1 /\ SubSeq(s, q, e) = sep
  BY <1>2 DEF Places
<1>4. q \in 1..(k - i + 2) /\ e \in 0..(k - i + 1) /\ q <= e + 1
  BY <1>1, <1>3
<1>5. SubSeq(s, q, e) = SubSeq(t, i + q - 1, i + e - 1)
  <2> HIDE DEF e
  <2> QED
    BY <1>4, SubOfSub
<1>6. i + e - 1 = (i + q - 1) + d - 1 /\ i + q - 1 \in 1..(Len(t) - d + 1)
  BY <1>1, <1>3
<1>7. i + q - 1 \in Places(sep, t)
  <2> HIDE DEF e, d, s
  <2> QED
    BY <1>3, <1>5, <1>6 DEF Places, d
<1> QED
  BY <1>7

\* A character is where it occurs.
LEMMA PlaceOfOne ==
    ASSUME NEW t \in Texts, NEW c \in Int, Places(<<c>>, t) = {}
    PROVE  \A i \in 1..Len(t) : t[i] # c
<1> SUFFICES ASSUME NEW i \in 1..Len(t), t[i] = c PROVE FALSE
  OBVIOUS
<1>1. Len(t) \in Nat /\ t \in Seq(Int) /\ t[i] \in Int /\ Len(<<c>>) = 1
  BY DEF Texts
<1>2. SubSeq(t, i, i) = <<c>>
  <2> DEFINE s == SubSeq(t, i, i)
  <2>1. s \in Seq(Int) /\ Len(s) = 1 /\ s[1] = t[i]
    <3>1. \A j \in i..i : t[j] \in Int
      BY <1>1
    <3>2. /\ s \in Seq(Int) /\ Len(s) = (IF i <= i THEN i - i + 1 ELSE 0)
          /\ \A j \in 1..i - i + 1 : s[j] = t[i + j - 1]
      BY <3>1, SubSeqProperties
    <3> HIDE DEF s
    <3>3. i - i + 1 = 1 /\ i + 1 - 1 = i /\ i <= i
      BY <1>1
    <3> QED
      BY <3>2, <3>3
  <2> HIDE DEF s
  <2>2. <<c>> \in Seq(Int) /\ Len(<<c>>) = 1 /\ <<c>>[1] = c
    OBVIOUS
  <2>3. s = <<c>>
    <3> DEFINE r == <<c>>
    <3>1. r \in Seq(Int) /\ Len(r) = 1 /\ r[1] = c
      BY <2>2
    <3> HIDE DEF r
    <3>2. \A j \in 1..1 : s[j] = r[j]
      BY <2>1, <3>1
    <3>3. s = r
      BY <2>1, <3>1, <3>2, SeqEqual
    <3> QED
      BY <3>3 DEF r
  <2> QED
    BY <2>3 DEF s
<1>3. i \in 1..(Len(t) - Len(<<c>>) + 1) /\ i + Len(<<c>>) - 1 = i
  BY <1>1
<1>4. i \in Places(<<c>>, t)
  BY <1>2, <1>3 DEF Places
<1> QED
  BY <1>4

\* The separators but the last are white space.
LEMMA SeparatorsAreSpace ==
    \A i \in 1..3 : /\ Separators[i] \in Texts /\ Separators[i] # <<>>
                    /\ \A j \in DOMAIN Separators[i] : Separators[i][j] <= 0
                    /\ Len(Separators[i]) \in Nat \ {0}
                    /\ DOMAIN Separators[i] = 1..Len(Separators[i])
<1>1. /\ Separators[1] = <<Newline, Newline>> /\ Separators[2] = <<Newline>>
      /\ Separators[3] = <<Space>>
  BY DEF Separators
<1>2. \A i \in 1..3 : i = 1 \/ i = 2 \/ i = 3
  OBVIOUS
<1>3. ASSUME NEW s \in {<<Newline, Newline>>, <<Newline>>, <<Space>>}
      PROVE  /\ s \in Texts /\ s # <<>> /\ \A j \in DOMAIN s : s[j] <= 0
             /\ Len(s) \in Nat \ {0} /\ DOMAIN s = 1..Len(s)
  <2>1. Newline \in Int /\ Space \in Int /\ Newline <= 0 /\ Space <= 0
    BY DEF Space, Newline
  <2>2. /\ s \in Seq(Int) /\ Len(s) \in {1, 2} /\ DOMAIN s = 1..Len(s)
        /\ \A j \in 1..Len(s) : s[j] \in {Newline, Space}
    <3>1. CASE s = <<Newline, Newline>>
      BY <2>1, <3>1
    <3>2. CASE s = <<Newline>>
      BY <2>1, <3>2
    <3>3. CASE s = <<Space>>
      BY <2>1, <3>3
    <3> QED
      BY <1>3, <3>1, <3>2, <3>3
  <2>3. Len(s) \in Nat \ {0}
    BY <2>2
  <2> QED
    BY <2>1, <2>2, <2>3, EmptySeq DEF Texts
<1> QED
  BY <1>1, <1>2, <1>3

\* No separator before the one that is chosen occurs.
LEMMA ChosenFirst ==
    ASSUME NEW t, NEW k \in 1..4, NEW j \in k..4, j < ChooseSeparator(t, k)
    PROVE  Places(Separators[j], t) = {}
<1> DEFINE A == {i \in k..Len(Separators) : Separators[i] = <<>> \/ Places(Separators[i], t) # {}}
<1>1. A \in SUBSET Nat /\ 4 \in A /\ (Places(Separators[j], t) # {} => j \in A)
  BY SeparatorsType
<1>2. \A i \in A : ChooseSeparator(t, k) <= i
  <2>1. \A i \in A : Min(A) <= i
    <3> HIDE DEF A
    <3> QED
      BY <1>1, MinOf
  <2> QED
    BY <2>1 DEF ChooseSeparator
<1>3. ChooseSeparator(t, k) \in Nat
  BY ChooseSeparatorType
<1> HIDE DEF A
<1> QED
  BY <1>1, <1>2, <1>3

\* Unbroken texts in which the separators before the k-th do not occur.
LinesWithout(B, k) ==
    {t \in Unbroken(B) : \A i \in 1..k - 1 : Places(Separators[i], t) = {}}

\* Unbroken texts can be split into chunks that have words in whole: only a word that is
\* longer than a chunk is cut.
LEMMA WordsSplit ==
    ASSUME NEW B, IsBody(B), NEW max \in Nat \ {0}
    PROVE  Splittable([k \in 1..4 |-> LinesWithout(B, k)], WithWords(B, max), max)
<1> DEFINE W == [k \in 1..4 |-> LinesWithout(B, k)]
           G == WithWords(B, max)
<1>1. B \in SUBSET (Nat \ {0}) /\ IsFiniteSet(B)
  BY DEF IsBody
<1>2. \A k \in 1..4 : W[k] = LinesWithout(B, k) /\ W[k] \subseteq Unbroken(B)
  BY DEF LinesWithout
<1> HIDE DEF W
<1>3. \A i \in 1..3 : Mergeable(G, Separators[i])
  BY SeparatorsAreSpace, WordsMerge
<1>4. \A k \in 1..4 : W[k] \subseteq G
  BY <1>1, <1>2, UnbrokenWords
<1>5. ASSUME NEW k \in 1..4, NEW t \in W[k], ~(Len(t) <= max)
      PROVE  LET i == ChooseSeparator(t, k)
             IN IF Separators[i] = <<>>
                THEN \A a, b \in 1..Len(t) : a <= b => SubSeq(t, a, b) \in G
                ELSE PartsOf(t, Separators[i]) \subseteq W[i + 1]
  <2> DEFINE i == ChooseSeparator(t, k)
             sep == Separators[i]
  <2>1. /\ t \in Unbroken(B) /\ t \in Texts /\ Len(t) \in Nat
        /\ \A j \in 1..Len(t) : t[j] \in B \cup {Space, Newline} /\ t[j] \in Int
        /\ \A j \in 1..k - 1 : Places(Separators[j], t) = {}
    BY <1>1, <1>2, UnbrokenAre DEF LinesWithout
  <2>2. i \in k..4 /\ i \in 1..4
    BY ChooseSeparatorType
  <2>3. \A j \in 1..4 : j < i => Places(Separators[j], t) = {}
    <3>1. \A j \in k..4 : j < i => Places(Separators[j], t) = {}
      BY ChosenFirst
    <3>2. \A j \in 1..4 : j \in 1..k - 1 \/ j \in k..4
      OBVIOUS
    <3> QED
      BY <2>1, <3>1, <3>2
  <2> HIDE DEF i
  <2>4. CASE sep = <<>>
    <3> SUFFICES ASSUME NEW a \in 1..Len(t), NEW b \in 1..Len(t), a <= b
                 PROVE  SubSeq(t, a, b) \in G
      BY <2>4 DEF i
    <3> DEFINE s == SubSeq(t, a, b)
    <3>1. i = 4
      BY <2>2, <2>4, SeparatorsAreSpace
    <3>2. \A j \in 1..Len(t) : t[j] > 0
      <4>1. Separators[2] = <<Newline>> /\ Separators[3] = <<Space>> /\ Newline \in Int /\ Space \in Int
        BY DEF Separators, Newline, Space
      <4>2. Places(<<Newline>>, t) = {} /\ Places(<<Space>>, t) = {}
        BY <2>3, <3>1, <4>1
      <4>3. \A j \in 1..Len(t) : t[j] # Newline /\ t[j] # Space
        BY <2>1, <4>1, <4>2, PlaceOfOne
      <4> QED
        BY <1>1, <2>1, <4>3
    <3>3. s \in Seq(Int) /\ Len(s) = b - a + 1 /\ \A j \in 1..b - a + 1 : s[j] = t[a + j - 1]
      <4>1. \A j \in a..b : t[j] \in Int
        BY <2>1
      <4> QED
        BY <4>1, SubSeqProperties
    <3> HIDE DEF s
    <3>4. LettersIn(s) \subseteq LettersIn(t)
      <4>1. LettersIn(t) = {t[j] : j \in {m \in 1..Len(t) : t[m] > 0}}
        BY <1>1, <2>1, UnbrokenLetters
      <4>2. Range(s) = {s[j] : j \in 1..b - a + 1}
        <5>1. DOMAIN s = 1..Len(s)
          BY <3>3, LenProperties
        <5> QED
          BY <3>3, <5>1 DEF Range
      <4>3. \A j \in 1..b - a + 1 : a + j - 1 \in 1..Len(t)
        BY <2>1
      <4> QED
        BY <3>2, <3>3, <4>1, <4>2, <4>3 DEF LettersIn
    <3>5. \A x \in LettersIn(s) : ~(Cardinality(WordOf(x, B)) <= max)
      <4>1. ASSUME NEW x \in LettersIn(s)
            PROVE  Len(t) <= Cardinality(WordOf(x, B)) /\ Cardinality(WordOf(x, B)) \in Nat
        BY <2>1, <3>2, <3>4, LettersAlone
      <4> QED
        BY <1>5, <2>1, <4>1
    <3> QED
      BY <3>3, <3>5 DEF WithWords, Texts, s
  <2>5. CASE sep # <<>>
    <3>1. i \in 1..3 /\ i + 1 \in 1..4
      <4>1. i # 4
        BY <2>5, SeparatorsType
      <4> QED
        BY <2>2, <4>1
    <3>2. ASSUME NEW part \in PartsOf(t, sep) PROVE part \in W[i + 1]
      <4>1. PICK a, c \in Int : IsPart(t, sep, a, c) /\ part = SubSeq(t, a, c)
        BY <3>2 DEF PartsOf
      <4>2. /\ a \in 1..Len(t) + 1 /\ c \in 0..Len(t) /\ a <= c + 1
            /\ a = 1 \/ a - Len(sep) \in Places(sep, t)
            /\ c = Len(t) \/ c + 1 \in Places(sep, t)
            /\ Places(sep, part) = {}
        BY <4>1 DEF IsPart
      <4>3. /\ sep \in Texts /\ \A j \in 1..Len(sep) : sep[j] <= 0
            /\ Len(sep) \in Nat \ {0}
        BY <3>1, SeparatorsAreSpace
      <4> DEFINE d == Len(sep)
      <4>4. ASSUME NEW q \in Places(sep, t) PROVE t[q] <= 0 /\ t[q + d - 1] <= 0
        <5>1. q \in 1..(Len(t) - d + 1) /\ SubSeq(t, q, q + d - 1) = sep
          BY DEF Places
        <5> DEFINE e == q + d - 1
        <5>2. q \in 1..Len(t) /\ e \in 1..Len(t) /\ q <= e /\ e - q + 1 = d
          BY <2>1, <4>3, <5>1
        <5> DEFINE s == SubSeq(t, q, e)
        <5>3. \A j \in 1..e - q + 1 : s[j] = t[q + j - 1]
          <6>1. \A j \in q..e : t[j] \in Int
            BY <2>1, <5>2
          <6> HIDE DEF e
          <6> QED
            BY <5>2, <6>1, SubSeqProperties
        <5>4. s = sep
          BY <5>1
        <5> HIDE DEF s, sep
        <5>5. \A j \in 1..d : t[q + j - 1] = sep[j]
          BY <5>2, <5>3, <5>4
        <5>6. 1 \in 1..d /\ d \in 1..d /\ q + 1 - 1 = q
          BY <4>3, <5>1
        <5> HIDE DEF d, e
        <5>7. t[q + 1 - 1] = sep[1] /\ t[q + d - 1] = sep[d]
          BY <5>5, <5>6
        <5> QED
          BY <4>3, <5>6, <5>7 DEF d
      <4> HIDE DEF sep
      <4>5. a = 1 \/ t[a - 1] <= 0
        <5>1. (a - d) + d - 1 = a - 1
          BY <4>3
        <5> QED
          BY <4>2, <4>4, <5>1
      <4>6. c = Len(t) \/ t[c + 1] <= 0
        BY <4>2, <4>4
      <4>7. part \in Unbroken(B)
        BY <1>1, <2>1, <4>1, <4>2, <4>5, <4>6, StretchUnbroken
      <4>8. ASSUME NEW j \in 1..(i + 1) - 1 PROVE Places(Separators[j], part) = {}
        <5>1. CASE j = i
          BY <4>2, <5>1 DEF sep
        <5>2. CASE j # i
          <6>1. j \in 1..3 /\ j < i /\ j \in 1..4
            BY <3>1, <5>2
          <6>2. Places(Separators[j], t) = {} /\ Separators[j] \in Texts /\ Separators[j] # <<>>
            BY <2>3, <6>1, SeparatorsAreSpace
          <6> QED
            BY <2>1, <4>1, <4>2, <6>2, PlacesOfStretch
        <5> QED
          BY <5>1, <5>2
      <4>9. part \in LinesWithout(B, i + 1)
        BY <4>7, <4>8 DEF LinesWithout
      <4> QED
        BY <1>2, <3>1, <4>9
    <3> QED
      BY <2>5, <3>2 DEF i
  <2> QED
    BY <2>4, <2>5
<1> HIDE DEF G
<1>6. Splittable(W, G, max)
  BY <1>3, <1>4, <1>5 DEF Splittable
<1> QED
  BY <1>6 DEF W, G

-----------------------------------------------------------------------------
(***************************************************************************)
(* The letters of the lines of a page p that are no headings.              *)
(***************************************************************************)
InkOf(l, n) == {Width * n + i : i \in {j \in 1..Len(l.ink) : l.ink[j]}}

BodyOf(p) == UNION {InkOf(p[n], n) : n \in DOMAIN p \ HeadingsOf(p)}

\* The letters of a line are numbered from ten times the number of the line.
LEMMA InkIs ==
    ASSUME NEW l \in Lines, NEW n \in Nat \ {0}
    PROVE  /\ LettersIn(TextOf(l, n)) = InkOf(l, n)
           /\ InkOf(l, n) \subseteq 10 * n + 1..10 * n + 9
           /\ Len(TextOf(l, n)) = Len(l.ink) /\ Len(l.ink) \in 0..9
           /\ \A i \in 1..Len(l.ink) :
                 /\ l.ink[i] => TextOf(l, n)[i] = 10 * n + i
                 /\ ~l.ink[i] => TextOf(l, n)[i] = Space
<1> DEFINE t == TextOf(l, n)
           m == Len(l.ink)
<1>1. l.ink \in Seq(BOOLEAN) /\ m < 10 /\ Width = 10
  BY ChunkingAssumption DEF Width
<1>2. DOMAIN l.ink = 1..m /\ m \in Nat
  BY <1>1, LenProperties
<1> DEFINE e(i) == IF l.ink[i] THEN Width * n + i ELSE Space
<1>3. t = [i \in 1..m |-> e(i)]
  BY <1>2 DEF TextOf
<1>4. \A i \in 1..m : e(i) \in Int
  <2>1. \A i \in 1..m : Width * n + i \in Int /\ Space \in Int
    BY <1>1, <1>2 DEF Space
  <2> QED
    BY <2>1
<1> HIDE DEF e, t
<1>5. t \in [1..m -> Int] /\ DOMAIN t = 1..m /\ \A i \in 1..m : t[i] = e(i)
  BY <1>3, <1>4
<1>6. Len(t) = m
  <2>1. t \in Seq(Int)
    BY TextOfType DEF t, Texts
  <2>2. Len(t) \in Nat /\ DOMAIN t = 1..Len(t)
    BY <2>1, LenProperties
  <2>3. \A i, j \in Nat : 1..i = 1..j => i = j
    <3>1. ASSUME NEW i \in Nat, NEW j \in Nat, 1..i = 1..j PROVE i <= j
      <4>1. i = 0 \/ i \in 1..i
        OBVIOUS
      <4> QED
        BY <3>1, <4>1
    <3>2. ASSUME NEW i \in Nat, NEW j \in Nat, i <= j, j <= i PROVE i = j
      BY <3>2
    <3> QED
      BY <3>1, <3>2
  <2> QED
    BY <1>2, <1>5, <2>2, <2>3
<1>7. \A i \in 1..m : (l.ink[i] => t[i] = 10 * n + i) /\ (~l.ink[i] => t[i] = Space)
  BY <1>1, <1>5 DEF e
<1>8. LettersIn(t) = InkOf(l, n)
  <2>1. Range(t) = {t[i] : i \in 1..m}
    BY <1>5 DEF Range
  <2>2. \A i \in 1..m : 10 * n + i > 0 /\ ~(Space > 0)
    BY <1>2 DEF Space
  <2>3. \A i \in 1..m : t[i] > 0 <=> l.ink[i]
    BY <1>7, <2>2
  <2>4. InkOf(l, n) = {10 * n + i : i \in {j \in 1..m : l.ink[j]}}
    BY <1>1 DEF InkOf
  <2> HIDE DEF m
  <2>5. LettersIn(t) \subseteq InkOf(l, n)
    BY <1>7, <2>1, <2>3, <2>4 DEF LettersIn
  <2>6. InkOf(l, n) \subseteq LettersIn(t)
    BY <1>7, <2>1, <2>3, <2>4 DEF LettersIn
  <2> QED
    BY <2>5, <2>6
<1>9. InkOf(l, n) \subseteq 10 * n + 1..10 * n + 9
  BY <1>1, <1>2 DEF InkOf
<1>10. m \in 0..9
  <2>1. m < 10 /\ m \in Nat
    BY <1>1, <1>2
  <2> HIDE DEF m
  <2> QED
    BY <2>1
<1> QED
  BY <1>6, <1>7, <1>8, <1>9, <1>10 DEF t, m

\* The body of a page is a set of letters, those of its lines.
LEMMA BodyIs ==
    ASSUME NEW p \in Seq(Lines)
    PROVE  IsBody(BodyOf(p)) /\ BodyOf(p) \subseteq 1..10 * Len(p) + 9
<1>1. DOMAIN p = 1..Len(p) /\ Len(p) \in Nat /\ \A n \in 1..Len(p) : p[n] \in Lines
  OBVIOUS
<1>2. ASSUME NEW n \in 1..Len(p) PROVE InkOf(p[n], n) \subseteq 1..10 * Len(p) + 9
  <2>1. InkOf(p[n], n) \subseteq 10 * n + 1..10 * n + 9
    BY <1>1, InkIs
  <2>2. 10 * n + 1..10 * n + 9 \subseteq 1..10 * Len(p) + 9
    BY <1>1
  <2> QED
    BY <2>1, <2>2
<1>3. BodyOf(p) \subseteq 1..10 * Len(p) + 9
  BY <1>1, <1>2 DEF BodyOf
<1>4. IsFiniteSet(1..10 * Len(p) + 9)
  <2>1. 1 \in Int /\ 10 * Len(p) + 9 \in Int
    BY <1>1
  <2> QED
    BY <2>1, FS_Interval
<1>5. IsFiniteSet(BodyOf(p))
  BY <1>3, <1>4, FS_Subset
<1>6. 1..10 * Len(p) + 9 \subseteq Nat \ {0}
  BY <1>1
<1> QED
  BY <1>3, <1>5, <1>6 DEF IsBody

\* It is what the property speaks of.
LEMMA BodyLettersAre ==
    ASSUME page \in Seq(Lines)
    PROVE  BodyLetters = BodyOf(page)
<1>1. HeadingLines = HeadingsOf(page)
  BY HeadingsAre
<1>2. \A n \in DOMAIN page : n \in Nat \ {0} /\ page[n] \in Lines
  BY LenProperties
<1>3. \A n \in DOMAIN page : LettersIn(TextOf(page[n], n)) = InkOf(page[n], n)
  BY <1>2, InkIs
<1>4. {LettersIn(TextOf(page[n], n)) : n \in DOMAIN page \ HeadingsOf(page)}
         = {InkOf(page[n], n) : n \in DOMAIN page \ HeadingsOf(page)}
  BY <1>3
<1> QED
  BY <1>1, <1>4 DEF BodyLetters, BodyOf

\* A new line has letters behind those there are, or none that count.
LEMMA BodyGrows ==
    ASSUME NEW p \in Seq(Lines), NEW l \in Lines
    PROVE  BodyOf(Append(p, l)) = IF l.mark = "heading" /\ Len(p) + 1 \notin Code(p)
                                  THEN BodyOf(p)
                                  ELSE BodyOf(p) \cup InkOf(l, Len(p) + 1)
<1> DEFINE q == Append(p, l)
           m == Len(p) + 1
           new == {k \in {m} : l.mark = "heading" /\ k \notin Code(p)}
<1>1. /\ m \in Nat /\ DOMAIN p = 1..m - 1 /\ DOMAIN q = 1..m
      /\ q[m] = l /\ \A k \in 1..m - 1 : q[k] = p[k]
  OBVIOUS
<1>2. HeadingsOf(q) = HeadingsOf(p) \cup new
  BY HeadingsGrow
<1>3. HeadingsOf(p) \subseteq 1..m - 1
  BY <1>1 DEF HeadingsOf
<1>4. 1..m = (1..m - 1) \cup {m} /\ m \notin 1..m - 1
  BY <1>1
<1> HIDE DEF q, m
<1>5. DOMAIN q \ HeadingsOf(q) = (DOMAIN p \ HeadingsOf(p)) \cup ({m} \ new)
  BY <1>1, <1>2, <1>3, <1>4
<1> DEFINE kept == DOMAIN p \ HeadingsOf(p)
<1>6. \A n \in kept : q[n] = p[n]
  BY <1>1
<1> HIDE DEF kept
<1> DEFINE before == UNION {InkOf(p[n], n) : n \in kept}
           added == UNION {InkOf(l, n) : n \in {m} \ new}
<1>7. BodyOf(q) = before \cup added
  <2>1. BodyOf(q) = UNION {InkOf(q[n], n) : n \in kept \cup ({m} \ new)}
    BY <1>5 DEF BodyOf, kept
  <2> DEFINE last == {m} \ new
  <2>2. \A n \in last : n = m
    OBVIOUS
  <2> HIDE DEF new, last
  <2>3. {InkOf(q[n], n) : n \in kept \cup last}
           = {InkOf(p[n], n) : n \in kept} \cup {InkOf(l, n) : n \in last}
    BY <1>1, <1>6, <2>2
  <2>4. \A X, Y : UNION (X \cup Y) = (UNION X) \cup (UNION Y)
    OBVIOUS
  <2>5. UNION ({InkOf(p[n], n) : n \in kept} \cup {InkOf(l, n) : n \in last}) = before \cup added
    BY <2>4 DEF last
  <2> HIDE DEF before, added
  <2> QED
    BY <2>1, <2>3, <2>5, Zenon DEF last
<1>8. BodyOf(p) = before
  BY DEF BodyOf, kept
<1>9. CASE l.mark = "heading" /\ m \notin Code(p)
  <2>1. {m} \ new = {}
    BY <1>9
  <2>2. added = {}
    BY <2>1
  <2> HIDE DEF before, added
  <2> QED
    BY <1>7, <1>8, <1>9, <2>2 DEF q, m
<1>10. CASE ~(l.mark = "heading" /\ m \notin Code(p))
  <2>1. {m} \ new = {m}
    BY <1>10
  <2> HIDE DEF new
  <2>2. added = InkOf(l, m)
    BY <2>1
  <2> HIDE DEF before, added
  <2>3. BodyOf(q) = BodyOf(p) \cup InkOf(l, m)
    BY <1>7, <1>8, <2>2
  <2> QED
    BY <1>10, <2>3 DEF q, m
<1> QED
  BY <1>9, <1>10

\* Letters of another line are beside none of those there are.
LEMMA UnbrokenGrows ==
    ASSUME NEW p \in Seq(Lines), NEW l \in Lines
    PROVE  Unbroken(BodyOf(p)) \subseteq Unbroken(BodyOf(Append(p, l)))
<1> DEFINE B == BodyOf(p)
           m == Len(p) + 1
           N == InkOf(l, m)
<1>1. B \in SUBSET (Nat \ {0}) /\ B \subseteq 1..10 * m - 1 /\ m \in Nat \ {0}
  <2>1. Len(p) \in Nat /\ 10 * Len(p) + 9 = 10 * m - 1
    OBVIOUS
  <2> QED
    BY <2>1, BodyIs DEF IsBody
<1>2. N \subseteq 10 * m + 1..10 * m + 9
  BY <1>1, InkIs
<1>3. BodyOf(Append(p, l)) \in {B, B \cup N}
  BY BodyGrows
<1> HIDE DEF B, N, m
<1>4. ASSUME NEW t \in Unbroken(B) PROVE t \in Unbroken(B \cup N)
  <2>1. /\ t \in Seq(B \cup {Space, Newline})
        /\ \A i \in 1..Len(t) : t[i] \in B \cup {Space, Newline}
    BY <1>1, UnbrokenAre DEF Unbroken
  <2>2. t \in Seq((B \cup N) \cup {Space, Newline})
    <3>1. B \cup {Space, Newline} \subseteq (B \cup N) \cup {Space, Newline}
      OBVIOUS
    <3> QED
      BY <2>1, <3>1, SeqMonotonic
  <2>3. ASSUME NEW i \in 1..Len(t), t[i] > 0
        PROVE  /\ t[i] + 1 \in B \cup N => t[i] + 1 \in B
               /\ t[i] - 1 \in B \cup N => t[i] - 1 \in B
    <3>1. t[i] \in B
      BY <2>1, <2>3 DEF Space, Newline
    <3>2. t[i] \in Nat /\ t[i] <= 10 * m - 1
      <4> DEFINE top == 10 * m - 1
      <4>1. top \in Int /\ B \subseteq 1..top
        BY <1>1
      <4> HIDE DEF top
      <4>2. t[i] \in 1..top
        BY <3>1, <4>1
      <4>3. t[i] \in Nat /\ t[i] <= top
        BY <4>1, <4>2
      <4> QED
        BY <4>3 DEF top
    <3>3. \A x \in N : x >= 10 * m + 1
      BY <1>1, <1>2
    <3>4. ~(t[i] + 1 >= 10 * m + 1) /\ ~(t[i] - 1 >= 10 * m + 1)
      BY <1>1, <3>2
    <3> QED
      BY <3>3, <3>4
  <2> QED
    BY <2>2, <2>3 DEF Unbroken
<1> QED
  BY <1>3, <1>4 DEF B

\* A line that is no heading is unbroken.
LEMMA LineUnbroken ==
    ASSUME NEW p \in Seq(Lines), NEW l \in Lines,
           ~(l.mark = "heading" /\ Len(p) + 1 \notin Code(p))
    PROVE  TextOf(l, Len(p) + 1) \in Unbroken(BodyOf(Append(p, l)))
<1> DEFINE B == BodyOf(p)
           m == Len(p) + 1
           N == InkOf(l, m)
           t == TextOf(l, m)
           n == Len(l.ink)
<1>1. B \in SUBSET (Nat \ {0}) /\ B \subseteq 1..10 * m - 1 /\ m \in Nat \ {0}
  <2>1. Len(p) \in Nat /\ 10 * Len(p) + 9 = 10 * m - 1
    OBVIOUS
  <2> QED
    BY <2>1, BodyIs DEF IsBody
<1>2. BodyOf(Append(p, l)) = B \cup N
  BY BodyGrows
<1>3. /\ Len(t) = n /\ n \in 0..9
      /\ \A i \in 1..n : (l.ink[i] => t[i] = 10 * m + i) /\ (~l.ink[i] => t[i] = Space)
  BY <1>1, InkIs
<1>4. N = {10 * m + i : i \in {j \in 1..n : l.ink[j]}}
  BY DEF InkOf, Width
<1>5. t \in Seq(Int)
  BY <1>1, TextOfType DEF Texts
<1> HIDE DEF B, N, m, t, n
<1>6. t \in Seq((B \cup N) \cup {Space, Newline})
  <2> DEFINE A == (B \cup N) \cup {Space, Newline}
  <2>1. \A i \in 1..n : t[i] \in A
    BY <1>3, <1>4
  <2> HIDE DEF A
  <2>2. t \in [1..n -> A] /\ n \in Nat
    BY <1>3, <1>5, <2>1
  <2>3. t \in Seq(A)
    BY <2>2, SeqDef
  <2> QED
    BY <2>3 DEF A
<1>7. ASSUME NEW i \in 1..n, t[i] > 0
      PROVE  /\ t[i] + 1 \in B \cup N => i + 1 \in 1..n /\ t[i + 1] = t[i] + 1
             /\ t[i] - 1 \in B \cup N => i - 1 \in 1..n /\ t[i - 1] = t[i] - 1
             /\ i + 1 \in 1..n /\ t[i + 1] > 0 => t[i + 1] = t[i] + 1
  <2>1. t[i] = 10 * m + i /\ l.ink[i]
    BY <1>3, <1>7 DEF Space
  <2>2. t[i] + 1 \notin B /\ t[i] - 1 \notin B
    <3>1. \A x \in B : x <= 10 * m - 1
      BY <1>1
    <3>2. ~((10 * m + i) + 1 <= 10 * m - 1) /\ ~((10 * m + i) - 1 <= 10 * m - 1)
      BY <1>1, <1>3
    <3> QED
      BY <2>1, <3>1, <3>2
  <2>3. ASSUME NEW x \in N PROVE \E j \in 1..n : l.ink[j] /\ x = 10 * m + j /\ x = t[j]
    BY <1>3, <1>4
  <2>4. ASSUME t[i] + 1 \in N PROVE i + 1 \in 1..n /\ t[i + 1] = t[i] + 1
    <3>1. PICK j \in 1..n : t[i] + 1 = 10 * m + j /\ t[i] + 1 = t[j]
      BY <2>3, <2>4
    <3>2. j = i + 1
      BY <1>1, <1>3, <2>1, <3>1
    <3> QED
      BY <3>1, <3>2
  <2>5. ASSUME t[i] - 1 \in N PROVE i - 1 \in 1..n /\ t[i - 1] = t[i] - 1
    <3>1. PICK j \in 1..n : t[i] - 1 = 10 * m + j /\ t[i] - 1 = t[j]
      BY <2>3, <2>5
    <3>2. j = i - 1
      BY <1>1, <1>3, <2>1, <3>1
    <3> QED
      BY <3>1, <3>2
  <2>6. ASSUME i + 1 \in 1..n, t[i + 1] > 0 PROVE t[i + 1] = t[i] + 1
    <3>1. t[i + 1] = 10 * m + (i + 1)
      BY <1>3, <2>6 DEF Space
    <3> QED
      BY <1>1, <1>3, <2>1, <3>1
  <2> QED
    BY <2>2, <2>4, <2>5, <2>6
<1>8. t \in Unbroken(B \cup N)
  BY <1>3, <1>6, <1>7 DEF Unbroken
<1> QED
  BY <1>2, <1>8 DEF B, N, m, t

-----------------------------------------------------------------------------
(***************************************************************************)
(* The invariant of the words.  The lines that are kept, and the sections  *)
(* they become, are unbroken texts of letters of the page; what is made of *)
(* a section has words in whole.  Nothing is chunked while the page grows. *)
(***************************************************************************)
UnbrokenSections(B, ss) == \A i \in DOMAIN ss : ss[i].content \in Unbroken(B)

WholeChunks(B, cs) ==
    \A i \in DOMAIN cs : cs[i].text \in WithWords(B, EffectiveMax(cs[i].path))

WordInv ==
    /\ content_lines \in Seq(Unbroken(BodyOf(page)))
    /\ UnbrokenSections(BodyOf(page), sections)
    /\ WholeChunks(BodyOf(page), chunks)
    /\ next = 0 => chunks = <<>>

\* In the beginning nothing is known.
LEMMA InitWords == Init => WordInv
<1> SUFFICES ASSUME Init PROVE WordInv
  OBVIOUS
<1>1. content_lines = <<>> /\ sections = <<>> /\ chunks = <<>>
  BY DEF Init
<1>2. DOMAIN <<>> = {}
  <2>1. DOMAIN <<>> = 1..0
    BY EmptySeq, LenProperties
  <2>2. 1..0 = {}
    OBVIOUS
  <2> QED
    BY <2>1, <2>2, Zenon
<1> QED
  BY <1>1, <1>2, EmptySeq DEF WordInv, UnbrokenSections, WholeChunks

\* The sections stay unbroken when the page grows.
LEMMA SectionsStay ==
    ASSUME NEW p \in Seq(Lines), NEW l \in Lines, NEW ss, UnbrokenSections(BodyOf(p), ss)
    PROVE  UnbrokenSections(BodyOf(Append(p, l)), ss)
  BY UnbrokenGrows DEF UnbrokenSections

\* A section that ends has an unbroken text.
LEMMA FinalizedUnbroken ==
    ASSUME IInv, WordInv
    PROVE  UnbrokenSections(BodyOf(page), Finalized)
<1> DEFINE B == BodyOf(page)
           content == Strip(Join(content_lines, <<Newline>>))
           section == [path |-> heading_stack, content |-> content]
<1>1. page \in Seq(Lines) /\ sections \in Seq(SectionsOf(page))
  BY TypeParts DEF IInv
<1>2. B \in SUBSET (Nat \ {0})
  BY <1>1, BodyIs DEF IsBody
<1>3. content_lines \in Seq(Unbroken(B)) /\ UnbrokenSections(B, sections)
  BY DEF WordInv
<1> HIDE DEF B
<1>4. content \in Unbroken(B)
  <2>1. Mergeable(Unbroken(B), <<Newline>>)
    BY <1>2, UnbrokenMerge
  <2>2. Join(content_lines, <<Newline>>) \in Unbroken(B)
    BY <1>3, <2>1, JoinType DEF Mergeable
  <2> QED
    BY <2>1, <2>2 DEF Mergeable
<1>5. Finalized = sections \/ Finalized = Append(sections, section)
  BY DEF Finalized
<1> HIDE DEF content
<1>6. section.content = content
  OBVIOUS
<1> HIDE DEF section
<1>7. CASE Finalized = Append(sections, section)
  <2> DEFINE all == Append(sections, section)
             n == Len(sections)
  <2>1. /\ DOMAIN sections = 1..n /\ DOMAIN all = 1..n + 1 /\ n \in Nat
        /\ all[n + 1] = section /\ \A i \in 1..n : all[i] = sections[i]
    BY <1>1
  <2> HIDE DEF all, n
  <2>2. \A i \in DOMAIN all : (i \in DOMAIN sections /\ all[i] = sections[i]) \/ all[i] = section
    BY <2>1
  <2>3. UnbrokenSections(B, all)
    BY <1>3, <1>4, <1>6, <2>2 DEF UnbrokenSections
  <2> QED
    BY <1>7, <2>3 DEF all, B
<1> QED
  BY <1>3, <1>5, <1>7 DEF B

\* A line that becomes text is kept unbroken.
LEMMA LineKeepsWords ==
    ASSUME IInv, PathInv, WordInv, NEW l \in Lines, Reads(l), Keeps(l),
           ~(l.mark = "heading" /\ fence = None),
           UNCHANGED <<sections, next, chunks>>
    PROVE  WordInv'
<1>1. page \in Seq(Lines) /\ page' = Append(page, l) /\ next = 0
  BY TypeParts DEF IInv, Reads
<1>2. ~(l.mark = "heading" /\ Len(page) + 1 \notin Code(page))
  <2> SUFFICES ASSUME fence # None PROVE Len(page) + 1 \in Code(page)
    OBVIOUS
  <2>1. PICK f \in 1..Len(page) : Opens(Code(page), page, f, Len(page) + 1)
    BY DEF PathInv, FenceAt
  <2>2. Len(page) + 1 \in Nat /\ f \in 1..(Len(page) + 1) - 1
    BY <1>1
  <2> QED
    BY <2>1, <2>2, CodeIs
<1>3. content_lines' \in Seq(Unbroken(BodyOf(page')))
  <2>1. content_lines \in Seq(Unbroken(BodyOf(page)))
    BY DEF WordInv
  <2>2. content_lines \in Seq(Unbroken(BodyOf(page')))
    BY <1>1, <2>1, UnbrokenGrows, SeqMonotonic
  <2>3. TextOf(l, Len(page) + 1) \in Unbroken(BodyOf(page'))
    BY <1>1, <1>2, LineUnbroken
  <2>4. content_lines' = Append(content_lines, TextOf(l, Len(page) + 1))
    BY DEF Keeps
  <2> QED
    BY <2>2, <2>3, <2>4, AppendProperties
<1>4. UnbrokenSections(BodyOf(page'), sections')
  BY <1>1, SectionsStay DEF WordInv
<1>5. chunks' = <<>> /\ chunks = <<>>
  BY <1>1 DEF WordInv
<1>6. WholeChunks(BodyOf(page'), chunks')
  <2>1. DOMAIN <<>> = {}
    <3>1. DOMAIN <<>> = 1..0
      BY EmptySeq, LenProperties
    <3>2. 1..0 = {}
      OBVIOUS
    <3> QED
      BY <3>1, <3>2, Zenon
  <2> QED
    BY <1>5, <2>1 DEF WholeChunks
<1> QED
  BY <1>3, <1>4, <1>5, <1>6 DEF WordInv

\* A heading ends a section and none of its letters is text.
LEMMA HeadingKeepsWords ==
    ASSUME IInv, WordInv, NEW l \in Lines, HeadingLine(l)
    PROVE  WordInv'
<1>1. /\ page \in Seq(Lines) /\ page' = Append(page, l) /\ next = 0
      /\ sections' = Finalized /\ content_lines' = <<>> /\ chunks' = chunks
  BY TypeParts DEF IInv, HeadingLine, Reads
<1>2. UnbrokenSections(BodyOf(page'), sections')
  BY <1>1, FinalizedUnbroken, SectionsStay
<1>3. chunks = <<>> /\ DOMAIN <<>> = {}
  <2>1. DOMAIN <<>> = 1..0
    BY EmptySeq, LenProperties
  <2>2. 1..0 = {}
    OBVIOUS
  <2>3. DOMAIN <<>> = {}
    BY <2>1, <2>2, Zenon
  <2> QED
    BY <1>1, <2>3 DEF WordInv
<1> QED
  BY <1>1, <1>2, <1>3, EmptySeq DEF WordInv, WholeChunks

\* A section is divided into chunks that have words in whole.
LEMMA ChunkingKeepsWords ==
    ASSUME IInv, WordInv, ChunkSection
    PROVE  WordInv'
<1> DEFINE B == BodyOf(page)
           section == sections[next]
           texts == TextsOf(section)
           size == EffectiveMax(section.path)
<1>1. /\ page \in Seq(Lines)
      /\ sections \in Seq(SectionsOf(page))
      /\ next \in DOMAIN sections /\ next \in Nat \ {0}
  BY TypeParts, LenProperties DEF IInv, ChunkSection
<1>2. next' = next + 1
      /\ UNCHANGED <<page, content_lines, sections>>
  BY DEF ChunkSection, parserVars
<1>3. IsBody(B) /\ B \in SUBSET (Nat \ {0})
  BY <1>1, BodyIs DEF IsBody
<1>4. section \in SectionsOf(page) /\ section.path \in Seq(DOMAIN page) /\ section.content \in Unbroken(B)
  <2>1. section \in SectionsOf(page) /\ section.content \in Unbroken(B)
    BY <1>1 DEF WordInv, UnbrokenSections
  <2> HIDE DEF section
  <2> QED
    BY <2>1 DEF SectionsOf
<1> HIDE DEF section, B
<1>5. size \in Nat \ {0}
  BY <1>4, EffectiveMaxType
<1>6. texts \in Seq(Pieces(WithWords(B, size), size))
  <2> DEFINE W == [k \in 1..4 |-> LinesWithout(B, k)]
  <2>1. Splittable(W, WithWords(B, size), size)
    <3> HIDE DEF size
    <3> QED
      BY <1>3, <1>5, WordsSplit
  <2>2. section.content \in W[1]
    <3>1. 1..1 - 1 = {}
      OBVIOUS
    <3>2. section.content \in LinesWithout(B, 1)
      BY <1>4, <3>1 DEF LinesWithout
    <3> QED
      BY <3>2
  <2> HIDE DEF W
  <2> QED
    BY <1>4, <2>1, <2>2, TextsOfKind
<1> HIDE DEF texts
<1>7. texts \in Seq(WithWords(B, size))
  <2>1. Pieces(WithWords(B, size), size) \subseteq WithWords(B, size)
    BY DEF Pieces, Short
  <2> QED
    BY <1>6, <2>1, SeqMonotonic
<1>8. \A k \in DOMAIN chunks' :
         \/ k \in DOMAIN chunks /\ chunks'[k] = chunks[k]
         \/ chunks'[k].path = section.path /\ chunks'[k].text \in WithWords(B, size)
  <2> HIDE DEF size
  <2> QED
    BY <1>7, ChunksAdded DEF section, texts
<1>9. WholeChunks(BodyOf(page'), chunks')
  <2>1. WholeChunks(B, chunks) /\ BodyOf(page') = B
    BY <1>2 DEF WordInv, B
  <2> QED
    BY <1>8, <2>1 DEF WholeChunks
<1>10. next' # 0
  BY <1>1, <1>2
<1> QED
  BY <1>2, <1>9, <1>10 DEF WordInv

\* Every step keeps the invariant of the words.
LEMMA NextWords == IInv /\ PathInv /\ WordInv /\ [Next]_vars => WordInv'
<1> SUFFICES ASSUME IInv, PathInv, WordInv, [Next]_vars PROVE WordInv'
  OBVIOUS
<1>1. ASSUME NEW l \in Lines, FenceLine(l) PROVE WordInv'
  <2>1. l.mark # "heading"
    BY <1>1 DEF FenceLine
  <2> QED
    BY <1>1, <2>1, LineKeepsWords DEF FenceLine
<1>2. ASSUME NEW l \in Lines, TextLine(l) PROVE WordInv'
  <2>1. ~(l.mark = "heading" /\ fence = None)
    BY <1>2 DEF TextLine
  <2> QED
    BY <1>2, <2>1, LineKeepsWords DEF TextLine
<1>3. ASSUME NEW l \in Lines, HeadingLine(l) PROVE WordInv'
  BY <1>3, HeadingKeepsWords
<1>4. CASE EndOfPage
  BY <1>4, FinalizedUnbroken, EmptySeq DEF EndOfPage, WordInv
<1>5. CASE ChunkSection
  BY <1>5, ChunkingKeepsWords
<1>6. CASE UNCHANGED vars
  BY <1>6 DEF vars, parserVars, WordInv
<1> QED
  BY <1>1, <1>2, <1>3, <1>4, <1>5, <1>6 DEF Next

\* recursive_split_text: a chunk that has a letter of a word has all of it, unless the word
\* is longer than a chunk: no cut and no overlap goes through a word that could stay whole.
THEOREM WordsAlwaysWhole == Spec => []WordsStayWhole
<1>1. IInv /\ WordInv => WordsStayWhole
  <2> SUFFICES ASSUME IInv, WordInv PROVE WordsStayWhole
    OBVIOUS
  <2>1. BodyLetters = BodyOf(page)
    BY TypeParts, BodyLettersAre DEF IInv
  <2> QED
    BY <2>1 DEF WordsStayWhole, WordInv, WholeChunks, WithWords
<1>2. Init => IInv /\ PathInv /\ WordInv
  BY InitIInv, InitPaths, InitWords
<1>3. IInv /\ PathInv /\ WordInv /\ [Next]_vars => IInv' /\ PathInv' /\ WordInv'
  BY NextIInv, NextPaths, NextWords
<1> QED
  BY <1>1, <1>2, <1>3, PTL DEF Spec

-----------------------------------------------------------------------------
(***************************************************************************)
(* Nothing is lost.  A text retells another one if it has the letters of   *)
(* the other, with white space and repetitions, but no letter before all   *)
(* that come before it in the other have been told.  Cutting, stripping,   *)
(* joining and repeating make texts that retell what they are made of.     *)
(***************************************************************************)
Retells(t, u) ==
    /\ \A j \in DOMAIN u : u[j] > 0 => \E i \in DOMAIN t : t[i] = u[j]
    /\ \A i \in DOMAIN t : t[i] > 0 =>
          \E j \in DOMAIN u : /\ u[j] = t[i]
                              /\ \A m \in 1..j : u[m] > 0 => \E k \in 1..i : t[k] = u[m]

\* The places of a text.
LEMMA PlacesOfText ==
    ASSUME NEW t \in Texts
    PROVE  /\ Len(t) \in Nat /\ DOMAIN t = 1..Len(t)
           /\ \A i \in 1..Len(t) : t[i] \in Int
  BY LenProperties DEF Texts

\* The places of two texts put together.
LEMMA PlacesOfConcat ==
    ASSUME NEW t \in Texts, NEW v \in Texts
    PROVE  /\ t \o v \in Texts
           /\ DOMAIN (t \o v) = 1..Len(t) + Len(v)
           /\ \A i \in 1..Len(t) : (t \o v)[i] = t[i]
           /\ \A i \in 1..Len(v) : (t \o v)[Len(t) + i] = v[i]
<1>1. t \o v \in Texts /\ Len(t \o v) = Len(t) + Len(v)
  BY TextConcat
<1>2. DOMAIN (t \o v) = 1..Len(t) + Len(v)
  BY <1>1, PlacesOfText
<1>3. t \in Seq(Int) /\ v \in Seq(Int) /\ Len(t) \in Nat /\ Len(v) \in Nat
  BY PlacesOfText DEF Texts
<1>4. \A i \in 1..Len(t) + Len(v) : (t \o v)[i] = IF i <= Len(t) THEN t[i] ELSE v[i - Len(t)]
  BY <1>3, ConcatProperties
<1>5. \A i \in 1..Len(t) : i \in 1..Len(t) + Len(v) /\ i <= Len(t)
  BY <1>3
<1>6. \A i \in 1..Len(v) : /\ Len(t) + i \in 1..Len(t) + Len(v)
                           /\ ~(Len(t) + i <= Len(t)) /\ (Len(t) + i) - Len(t) = i
  BY <1>3
<1> QED
  BY <1>1, <1>2, <1>4, <1>5, <1>6

\* A text retells itself.
LEMMA RetellsItself ==
    ASSUME NEW t \in Texts
    PROVE  Retells(t, t)
  BY DEF Retells

\* A text that retells one that retells another retells that one.
LEMMA RetellsTwice ==
    ASSUME NEW t \in Texts, NEW u \in Texts, NEW v \in Texts, Retells(t, u), Retells(u, v)
    PROVE  Retells(t, v)
<1>1. ASSUME NEW k \in DOMAIN v, v[k] > 0 PROVE \E i \in DOMAIN t : t[i] = v[k]
  <2>1. PICK j \in DOMAIN u : u[j] = v[k]
    BY <1>1 DEF Retells
  <2> QED
    BY <1>1, <2>1 DEF Retells
<1>2. ASSUME NEW i \in DOMAIN t, t[i] > 0
      PROVE  \E j \in DOMAIN v : /\ v[j] = t[i]
                                 /\ \A m \in 1..j : v[m] > 0 => \E k \in 1..i : t[k] = v[m]
  <2>1. PICK j \in DOMAIN u : /\ u[j] = t[i]
                              /\ \A m \in 1..j : u[m] > 0 => \E k \in 1..i : t[k] = u[m]
    BY <1>2 DEF Retells
  <2>2. PICK h \in DOMAIN v : /\ v[h] = u[j]
                              /\ \A m \in 1..h : v[m] > 0 => \E k \in 1..j : u[k] = v[m]
    BY <1>2, <2>1 DEF Retells
  <2>3. ASSUME NEW m \in 1..h, v[m] > 0 PROVE \E k \in 1..i : t[k] = v[m]
    <3>1. PICK k \in 1..j : u[k] = v[m]
      BY <2>2, <2>3
    <3> QED
      BY <2>1, <2>3, <3>1
  <2> QED
    BY <2>1, <2>2, <2>3
<1> QED
  BY <1>1, <1>2 DEF Retells

\* Texts put together retell what each of them retells.
LEMMA RetellsConcat ==
    ASSUME NEW t \in Texts, NEW u \in Texts, NEW v \in Texts, NEW w \in Texts,
           Retells(t, u), Retells(v, w)
    PROVE  Retells(t \o v, u \o w)
<1> DEFINE a == t \o v
           b == u \o w
           n == Len(t)
           m == Len(u)
<1>1. /\ n \in Nat /\ Len(v) \in Nat /\ DOMAIN t = 1..n /\ DOMAIN v = 1..Len(v)
      /\ m \in Nat /\ Len(w) \in Nat /\ DOMAIN u = 1..m /\ DOMAIN w = 1..Len(w)
  BY PlacesOfText
<1>2. /\ DOMAIN a = 1..n + Len(v) /\ \A i \in 1..n : a[i] = t[i]
      /\ \A i \in 1..Len(v) : a[n + i] = v[i]
  BY PlacesOfConcat
<1>3. /\ DOMAIN b = 1..m + Len(w) /\ \A i \in 1..m : b[i] = u[i]
      /\ \A i \in 1..Len(w) : b[m + i] = w[i]
  BY PlacesOfConcat
<1> HIDE DEF a, b, n, m
<1>4. ASSUME NEW i \in 1..n + Len(v) PROVE i \in 1..n \/ \E k \in 1..Len(v) : i = n + k
  <2>1. CASE i <= n
    BY <1>1, <2>1
  <2>2. CASE ~(i <= n)
    <3>1. i - n \in 1..Len(v) /\ i = n + (i - n)
      BY <1>1, <2>2
    <3> QED
      BY <3>1
  <2> QED
    BY <2>1, <2>2
<1>5. ASSUME NEW i \in 1..m + Len(w) PROVE i \in 1..m \/ \E k \in 1..Len(w) : i = m + k
  <2>1. CASE i <= m
    BY <1>1, <2>1
  <2>2. CASE ~(i <= m)
    <3>1. i - m \in 1..Len(w) /\ i = m + (i - m)
      BY <1>1, <2>2
    <3> QED
      BY <3>1
  <2> QED
    BY <2>1, <2>2
<1>6. /\ \A i \in 1..n : i \in DOMAIN a
      /\ \A i \in 1..Len(v) : n + i \in DOMAIN a
  BY <1>1, <1>2
<1>7. ASSUME NEW j \in DOMAIN b, b[j] > 0 PROVE \E i \in DOMAIN a : a[i] = b[j]
  <2>1. CASE j \in 1..m
    <3>1. PICK i \in 1..n : t[i] = u[j]
      BY <1>1, <1>3, <1>7, <2>1 DEF Retells
    <3> QED
      BY <1>2, <1>3, <1>6, <2>1, <3>1
  <2>2. ASSUME NEW k \in 1..Len(w), j = m + k PROVE \E i \in DOMAIN a : a[i] = b[j]
    <3>1. PICK i \in 1..Len(v) : v[i] = w[k]
      BY <1>1, <1>3, <1>7, <2>2 DEF Retells
    <3> QED
      BY <1>2, <1>3, <1>6, <2>2, <3>1
  <2> QED
    BY <1>3, <1>5, <2>1, <2>2
<1> DEFINE Told(i, j) == \A h \in 1..j : b[h] > 0 => \E k \in 1..i : a[k] = b[h]
<1>8. ASSUME NEW i \in DOMAIN a, a[i] > 0 PROVE \E j \in DOMAIN b : b[j] = a[i] /\ Told(i, j)
  <2>1. CASE i \in 1..n
    <3>0. i \in DOMAIN t /\ t[i] > 0 /\ a[i] = t[i]
      BY <1>1, <1>2, <1>8, <2>1
    <3>1. PICK j \in DOMAIN u : u[j] = t[i] /\ \A h \in 1..j : u[h] > 0 => \E k \in 1..i : t[k] = u[h]
      BY <3>0, Zenon DEF Retells
    <3>2. j \in DOMAIN b /\ b[j] = a[i] /\ 1..j \subseteq 1..m /\ 1..i \subseteq 1..n
      BY <1>1, <1>3, <2>1, <3>0, <3>1
    <3>3. ASSUME NEW h \in 1..j, b[h] > 0 PROVE \E k \in 1..i : a[k] = b[h]
      <4>1. h \in 1..m /\ b[h] = u[h]
        BY <1>3, <3>2
      <4>2. PICK k \in 1..i : t[k] = u[h]
        BY <3>1, <3>3, <4>1
      <4>3. k \in 1..n /\ a[k] = t[k]
        BY <1>2, <3>2
      <4> QED
        BY <4>1, <4>2, <4>3
    <3> QED
      BY <3>2, <3>3
  <2>2. ASSUME NEW k \in 1..Len(v), i = n + k
        PROVE  \E j \in DOMAIN b : b[j] = a[i] /\ Told(i, j)
    <3>0. k \in DOMAIN v /\ v[k] > 0 /\ a[i] = v[k]
      BY <1>1, <1>2, <1>8, <2>2
    <3>1. PICK j \in DOMAIN w : w[j] = v[k] /\ \A h \in 1..j : w[h] > 0 => \E g \in 1..k : v[g] = w[h]
      BY <3>0, Zenon DEF Retells
    <3>2. m + j \in DOMAIN b /\ b[m + j] = a[i]
      BY <1>1, <1>3, <3>0, <3>1
    <3>3. ASSUME NEW h \in 1..m + j, b[h] > 0 PROVE \E g \in 1..i : a[g] = b[h]
      <4>1. CASE h \in 1..m
        <5>1. PICK g \in 1..n : t[g] = u[h]
          BY <1>1, <1>3, <3>3, <4>1 DEF Retells
        <5>2. g \in 1..i
          BY <1>1, <2>2, <5>1
        <5> QED
          BY <1>2, <1>3, <4>1, <5>1, <5>2
      <4>2. CASE h \notin 1..m
        <5>1. h - m \in 1..j /\ h - m \in 1..Len(w) /\ h = m + (h - m)
          BY <1>1, <4>2
        <5>2. b[h] = w[h - m]
          BY <1>3, <5>1
        <5>3. PICK g \in 1..k : v[g] = w[h - m]
          BY <3>1, <3>3, <5>1, <5>2
        <5>4. n + g \in 1..i /\ g \in 1..Len(v)
          BY <1>1, <2>2
        <5> QED
          BY <1>2, <5>2, <5>3, <5>4
      <4> QED
        BY <4>1, <4>2
    <3> QED
      BY <3>2, <3>3
  <2> QED
    BY <1>2, <1>4, <2>1, <2>2
<1> QED
  BY <1>7, <1>8 DEF Retells, a, b

\* Repeating the end of a text tells nothing new.
LEMMA RetellsRepeated ==
    ASSUME NEW a \in Texts, NEW z \in Texts
    PROVE  Retells((a \o z) \o z, a \o z)
<1> DEFINE u == a \o z
           t == u \o z
           n == Len(a)
           m == Len(z)
<1>1. n \in Nat /\ m \in Nat
  BY PlacesOfText
<1>2. u \in Texts /\ DOMAIN u = 1..n + m /\ \A i \in 1..m : u[n + i] = z[i]
  BY PlacesOfConcat
<1>3. Len(u) = n + m
  BY TextConcat
<1>4. /\ DOMAIN t = 1..(n + m) + m /\ \A i \in 1..n + m : t[i] = u[i]
      /\ \A i \in 1..m : t[(n + m) + i] = z[i]
  BY <1>2, <1>3, PlacesOfConcat
<1> HIDE DEF t, u, n, m
<1>5. ASSUME NEW j \in DOMAIN u PROVE j \in DOMAIN t /\ t[j] = u[j]
  BY <1>1, <1>2, <1>4
<1>6. ASSUME NEW i \in DOMAIN t
      PROVE  \E j \in DOMAIN u : u[j] = t[i] /\ j <= i
  <2>1. CASE i <= n + m
    BY <1>1, <1>2, <1>4, <2>1
  <2>2. CASE ~(i <= n + m)
    <3>1. i - (n + m) \in 1..m /\ i = (n + m) + (i - (n + m))
      BY <1>1, <1>4, <2>2
    <3>2. t[i] = z[i - (n + m)]
      BY <1>4, <3>1
    <3>3. /\ u[n + (i - (n + m))] = z[i - (n + m)]
          /\ n + (i - (n + m)) \in DOMAIN u /\ n + (i - (n + m)) <= i
      BY <1>1, <1>2, <1>4, <3>1
    <3> QED
      BY <3>2, <3>3
  <2> QED
    BY <2>1, <2>2
<1>7. ASSUME NEW i \in DOMAIN t
      PROVE  \E j \in DOMAIN u : u[j] = t[i] /\ \A h \in 1..j : u[h] > 0 => \E k \in 1..i : t[k] = u[h]
  <2>1. PICK j \in DOMAIN u : u[j] = t[i] /\ j <= i
    BY <1>6
  <2>2. \A h \in 1..j : h \in DOMAIN u /\ h \in 1..i
    BY <1>1, <1>2, <1>4, <2>1
  <2> QED
    BY <1>5, <2>1, <2>2
<1> QED
  BY <1>5, <1>7 DEF Retells, t, u

\* White space tells nothing.
LEMMA BlankTellsNothing ==
    ASSUME NEW w \in Texts, \A i \in DOMAIN w : ~(w[i] > 0)
    PROVE  /\ <<>> \in Texts
           /\ Retells(w, <<>>) /\ Retells(<<>>, w)
           /\ w \o <<>> = w /\ <<>> \o w = w
<1>1. <<>> \in Texts /\ DOMAIN <<>> = {}
  <2>1. DOMAIN <<>> = 1..0 /\ <<>> \in Texts
    BY EmptySeq, LenProperties DEF Texts
  <2>2. 1..0 = {}
    OBVIOUS
  <2> QED
    BY <2>1, <2>2, Zenon
<1>2. w \o <<>> = w /\ <<>> \o w = w
  BY ConcatEmptySeq DEF Texts
<1> QED
  BY <1>1, <1>2 DEF Retells

\* A text without the white space around it retells it.
LEMMA StripRetells ==
    ASSUME NEW t \in Texts
    PROVE  Retells(Strip(t), t)
<1> DEFINE ink == {i \in DOMAIN t : t[i] > 0}
           a == Min(ink)
           b == Max(ink)
           s == SubSeq(t, a, b)
<1>1. Len(t) \in Nat /\ DOMAIN t = 1..Len(t) /\ \A i \in 1..Len(t) : t[i] \in Int
  BY PlacesOfText
<1>2. CASE ink = {}
  <2>1. Strip(t) = <<>> /\ \A i \in DOMAIN t : ~(t[i] > 0)
    BY <1>2 DEF Strip
  <2> QED
    BY <2>1, BlankTellsNothing
<1>3. CASE ink # {}
  <2>1. ink \in SUBSET (0..Len(t)) /\ ink \in SUBSET Nat /\ ink \in SUBSET (1..Len(t))
    BY <1>1
  <2>2. a \in ink /\ b \in ink /\ \A i \in ink : a <= i /\ i <= b
    <3> HIDE DEF ink
    <3>1. Min(ink) \in ink /\ \A i \in ink : Min(ink) <= i
      BY <1>3, <2>1, MinOf
    <3>2. Max(ink) \in ink /\ \A i \in ink : Max(ink) >= i
      BY <1>1, <1>3, <2>1, MaxOf
    <3>3. \A i \in ink : i \in Nat /\ Max(ink) \in Nat
      BY <2>1, <3>2
    <3> QED
      BY <3>1, <3>2, <3>3
  <2>3. Strip(t) = s
    BY <1>3 DEF Strip
  <2>4. a \in 1..Len(t) /\ b \in 1..Len(t) /\ a <= b
    <3> HIDE DEF a, b, ink
    <3> QED
      BY <2>1, <2>2
  <2>5. \A i \in 1..Len(t) : t[i] > 0 => a <= i /\ i <= b
    <3>1. \A i \in 1..Len(t) : t[i] > 0 => i \in ink
      BY <1>1
    <3> HIDE DEF a, b, ink
    <3> QED
      BY <2>2, <3>1
  <2> HIDE DEF a, b, ink
  <2>6. DOMAIN s = 1..b - a + 1 /\ \A i \in 1..b - a + 1 : s[i] = t[a + i - 1]
    <3>1. t \in Seq(Int) /\ \A i \in a..b : t[i] \in Int
      BY <1>1, <2>4 DEF Texts
    <3>2. s \in Seq(Int) /\ Len(s) = b - a + 1 /\ \A i \in 1..b - a + 1 : s[i] = t[a + i - 1]
      BY <1>1, <2>4, <3>1, SubSeqProperties, SMTT(60)
    <3> QED
      BY <3>2, LenProperties
  <2> HIDE DEF s
  <2>7. ASSUME NEW i \in 1..Len(t), t[i] > 0
        PROVE  i - a + 1 \in 1..b - a + 1 /\ s[i - a + 1] = t[i]
    <3>1. i - a + 1 \in 1..b - a + 1 /\ a + (i - a + 1) - 1 = i
      BY <1>1, <2>4, <2>5, <2>7
    <3> QED
      BY <2>6, <3>1
  <2>8. ASSUME NEW i \in DOMAIN s
        PROVE  \E j \in DOMAIN t : t[j] = s[i] /\ \A m \in 1..j : t[m] > 0 => \E k \in 1..i : s[k] = t[m]
    <3>1. i \in 1..b - a + 1 /\ a + i - 1 \in 1..Len(t) /\ s[i] = t[a + i - 1]
      BY <1>1, <2>4, <2>6
    <3>2. ASSUME NEW m \in 1..a + i - 1, t[m] > 0 PROVE \E k \in 1..i : s[k] = t[m]
      <4>1. m \in 1..Len(t)
        BY <1>1, <3>1
      <4>2. s[m - a + 1] = t[m] /\ m - a + 1 \in 1..b - a + 1
        BY <2>7, <3>2, <4>1
      <4>3. m - a + 1 \in 1..i
        BY <2>4, <3>1, <4>2
      <4> QED
        BY <4>2, <4>3
    <3> QED
      BY <1>1, <3>1, <3>2
  <2>9. ASSUME NEW j \in DOMAIN t, t[j] > 0 PROVE \E i \in DOMAIN s : s[i] = t[j]
    BY <1>1, <2>6, <2>7, <2>9
  <2> QED
    BY <2>3, <2>8, <2>9 DEF Retells
<1> QED
  BY <1>2, <1>3

-----------------------------------------------------------------------------
(***************************************************************************)
(* FlattenSeq, one sequence after the other.                               *)
(***************************************************************************)

\* Of no sequences, of one more, and of those of two sequences of them.
LEMMA FlattenAppend ==
    ASSUME NEW X, NEW seqs \in Seq(Seq(X)), NEW s \in Seq(X)
    PROVE  /\ FlattenSeq(<<>>) = <<>>
           /\ FlattenSeq(Append(seqs, s)) = FlattenSeq(seqs) \o s
<1> DEFINE all == Append(seqs, s)
           n == Len(seqs)
<1>1. FlattenSeq(<<>>) = <<>>
  BY DEF FlattenSeq
<1>2. /\ all \in Seq(Seq(X)) /\ all # <<>> /\ Len(all) = n + 1 /\ n \in Nat
      /\ all[n + 1] = s /\ \A i \in 1..n : all[i] = seqs[i]
  BY AppendProperties
<1> HIDE DEF all
<1>3. PICK q \in [1..Len(all) -> Seq(X)] : IsFlat(q, all)
  BY <1>2, FlattenRun
<1>4. /\ q[1] = all[1] /\ q[n + 1] = FlattenSeq(all)
      /\ \A i \in 1..n + 1 : i # 1 => q[i] = q[i - 1] \o all[i]
  BY <1>2, <1>3 DEF IsFlat
<1>5. CASE seqs = <<>>
  <2>1. n = 0 /\ FlattenSeq(all) = s
    BY <1>2, <1>4, <1>5
  <2>2. <<>> \o s = s
    BY ConcatEmptySeq
  <2> QED
    BY <1>1, <1>5, <2>1, <2>2 DEF all
<1>6. CASE seqs # <<>>
  <2>1. PICK r \in [1..n -> Seq(X)] : IsFlat(r, seqs)
    BY <1>6, FlattenRun
  <2>2. /\ n # 0 /\ r[1] = seqs[1] /\ r[n] = FlattenSeq(seqs)
        /\ \A i \in 1..n : i # 1 => r[i] = r[i - 1] \o seqs[i]
    <3>1. n # 0
      BY <1>6
    <3> QED
      BY <2>1, <3>1, Zenon DEF IsFlat
  <2> DEFINE A == {i \in 0..n - 1 : q[i + 1] = r[i + 1]}
  <2> HIDE DEF n
  <2>3. 0 \in A
    BY <1>2, <1>4, <2>2
  <2>4. ASSUME NEW k \in 0..n - 1, k < n - 1, k \in A PROVE k + 1 \in A
    <3>1. /\ (k + 1) + 1 \in 1..n /\ (k + 1) + 1 \in 1..n + 1 /\ (k + 1) + 1 # 1
          /\ ((k + 1) + 1) - 1 = k + 1 /\ k + 1 \in 0..n - 1
      BY <1>2, <2>4
    <3>2. q[(k + 1) + 1] = q[k + 1] \o all[(k + 1) + 1]
      BY <1>4, <3>1
    <3>3. r[(k + 1) + 1] = r[k + 1] \o seqs[(k + 1) + 1]
      BY <2>2, <3>1
    <3>4. all[(k + 1) + 1] = seqs[(k + 1) + 1] /\ q[k + 1] = r[k + 1]
      BY <1>2, <2>4, <3>1
    <3>5. q[(k + 1) + 1] = r[(k + 1) + 1]
      BY <3>2, <3>3, <3>4
    <3> QED
      BY <3>1, <3>5
  <2>5. n - 1 \in Nat /\ n - 1 \in 0..n - 1 /\ (n - 1) + 1 = n
    BY <1>2, <2>2
  <2>6. \A k \in 0..n - 1 : k \in A
    <3> HIDE DEF A
    <3> QED
      BY <2>3, <2>4, <2>5, Induction
  <2>7. q[n] = r[n]
    BY <2>5, <2>6
  <2>8. n + 1 \in 1..n + 1 /\ n + 1 # 1 /\ (n + 1) - 1 = n
    BY <1>2, <2>2
  <2>9. q[n + 1] = q[n] \o all[n + 1]
    BY <1>4, <2>8
  <2> QED
    BY <1>1, <1>2, <1>4, <2>2, <2>7, <2>9 DEF all
<1> QED
  BY <1>5, <1>6

\* A sequence is made of its first n elements, one by one.
LEMMA OneByOne ==
    ASSUME NEW X, NEW s \in Seq(X), NEW n \in 0..Len(s)
    PROVE  /\ SubSeq(s, 1, n) \in Seq(X) /\ Len(SubSeq(s, 1, n)) = n
           /\ SubSeq(s, 1, 0) = <<>> /\ SubSeq(s, 1, Len(s)) = s
           /\ n < Len(s) => /\ SubSeq(s, 1, n + 1) = Append(SubSeq(s, 1, n), s[n + 1])
                            /\ s[n + 1] \in X
<1>1. Len(s) \in Nat /\ n \in Nat /\ \A i \in 1..Len(s) : s[i] \in X
  OBVIOUS
<1>2. SubSeq(s, 1, n) \in Seq(X) /\ Len(SubSeq(s, 1, n)) = n /\ \A i \in 1..n : SubSeq(s, 1, n)[i] = s[i]
  <2>1. \A i \in 1..n : s[i] \in X
    BY <1>1
  <2> QED
    BY <1>1, <2>1, SubSeqProperties
<1>3. SubSeq(s, 1, 0) = <<>> /\ SubSeq(s, 1, Len(s)) = s
  BY SubSeqEmpty, SubSeqFull
<1>4. ASSUME n < Len(s) PROVE SubSeq(s, 1, n + 1) = Append(SubSeq(s, 1, n), s[n + 1]) /\ s[n + 1] \in X
  <2> DEFINE a == SubSeq(s, 1, n + 1)
             b == Append(SubSeq(s, 1, n), s[n + 1])
  <2>1. n + 1 \in 1..Len(s) /\ s[n + 1] \in X
    BY <1>1, <1>4
  <2>2. a \in Seq(X) /\ Len(a) = n + 1 /\ \A i \in 1..n + 1 : a[i] = s[i]
    <3>1. \A i \in 1..n + 1 : s[i] \in X
      BY <1>1, <2>1
    <3> QED
      BY <1>1, <2>1, <3>1, SubSeqProperties
  <2>3. b \in Seq(X) /\ Len(b) = n + 1 /\ \A i \in 1..n + 1 : b[i] = s[i]
    <3> DEFINE c == SubSeq(s, 1, n)
    <3>1. c \in Seq(X) /\ Len(c) = n /\ \A i \in 1..n : c[i] = s[i]
      BY <1>2
    <3> HIDE DEF c
    <3>2. b \in Seq(X) /\ Len(b) = n + 1 /\ b[n + 1] = s[n + 1] /\ \A i \in 1..n : b[i] = c[i]
      BY <1>1, <2>1, <3>1, AppendProperties DEF c
    <3> HIDE DEF b
    <3>3. \A i \in 1..n + 1 : i \in 1..n \/ i = n + 1
      BY <1>1
    <3> QED
      BY <3>1, <3>2, <3>3
  <2> HIDE DEF a, b
  <2>4. a = b
    BY <2>2, <2>3, SeqEqual
  <2> QED
    BY <2>1, <2>4 DEF a, b
<1> QED
  BY <1>2, <1>3, <1>4

\* The sequences of two sequences of them, put together one after the other.
LEMMA FlattenConcat ==
    ASSUME NEW X, NEW a \in Seq(Seq(X)), NEW b \in Seq(Seq(X))
    PROVE  FlattenSeq(a \o b) = FlattenSeq(a) \o FlattenSeq(b)
<1> DEFINE n == Len(b)
           part(k) == SubSeq(b, 1, k)
           A == {k \in 0..n : FlattenSeq(a \o part(k)) = FlattenSeq(a) \o FlattenSeq(part(k))}
<1>1. n \in Nat
  OBVIOUS
<1>2. FlattenSeq(a) \in Seq(X)
  BY FlattenType
<1>3. 0 \in A
  <2>1. part(0) = <<>> /\ 0 \in 0..n
    BY <1>1, OneByOne
  <2>2. a \o <<>> = a /\ FlattenSeq(a) \o <<>> = FlattenSeq(a)
    BY <1>2, ConcatEmptySeq
  <2>3. FlattenSeq(<<>>) = <<>>
    BY DEF FlattenSeq
  <2> QED
    BY <2>1, <2>2, <2>3
<1>4. ASSUME NEW k \in 0..n, k < n, k \in A PROVE k + 1 \in A
  <2> DEFINE p == part(k)
             s == b[k + 1]
  <2>1. p \in Seq(Seq(X)) /\ s \in Seq(X) /\ part(k + 1) = Append(p, s)
    BY <1>4, OneByOne
  <2>2. FlattenSeq(a \o p) = FlattenSeq(a) \o FlattenSeq(p)
    BY <1>4
  <2>3. k + 1 \in 0..n
    BY <1>1, <1>4
  <2> HIDE DEF p, s, part
  <2>4. a \o p \in Seq(Seq(X)) /\ a \o Append(p, s) = Append(a \o p, s)
    <3> DEFINE Y == Seq(X)
    <3>1. a \in Seq(Y) /\ p \in Seq(Y) /\ s \in Y
      BY <2>1
    <3> HIDE DEF Y
    <3>2. a \o p \in Seq(Y) /\ <<s>> \in Seq(Y)
      BY <3>1, ConcatProperties
    <3>3. Append(p, s) = p \o <<s>> /\ Append(a \o p, s) = (a \o p) \o <<s>>
      BY <3>1, <3>2, AppendIsConcat
    <3>4. a \o (p \o <<s>>) = (a \o p) \o <<s>>
      BY <3>1, <3>2, ConcatAssociative
    <3> QED
      BY <3>2, <3>3, <3>4 DEF Y
  <2>5. FlattenSeq(a \o Append(p, s)) = FlattenSeq(a \o p) \o s
    BY <2>1, <2>4, FlattenAppend
  <2>6. FlattenSeq(Append(p, s)) = FlattenSeq(p) \o s /\ FlattenSeq(p) \in Seq(X)
    BY <2>1, FlattenAppend, FlattenType
  <2>7. (FlattenSeq(a) \o FlattenSeq(p)) \o s = FlattenSeq(a) \o (FlattenSeq(p) \o s)
    <3> DEFINE fa == FlattenSeq(a)
               fp == FlattenSeq(p)
    <3>1. fa \in Seq(X) /\ fp \in Seq(X) /\ s \in Seq(X)
      BY <1>2, <2>1, <2>6
    <3> HIDE DEF fa, fp, A
    <3>2. (fa \o fp) \o s = fa \o (fp \o s)
      BY <3>1, ConcatAssociative, SMTT(60)
    <3> QED
      BY <3>2 DEF fa, fp
  <2> QED
    BY <2>1, <2>2, <2>3, <2>5, <2>6, <2>7
<1>5. \A k \in 0..n : k \in A
  <2> HIDE DEF A, n
  <2> QED
    BY <1>1, <1>3, <1>4, Induction
<1>6. part(n) = b /\ n \in A
  BY <1>1, <1>5, OneByOne
<1> QED
  BY <1>6

-----------------------------------------------------------------------------
(***************************************************************************)
(* What str.join, str.split, _merge_pieces and recursive_split_text make   *)
(* of a text retells it.                                                   *)
(***************************************************************************)

\* White space.
Blank(sep) == \A i \in DOMAIN sep : ~(sep[i] > 0)

\* Of three texts it does not matter which two are put together first, nor is there anything
\* to be put before a text or behind it.
LEMMA TextsAssociate ==
    ASSUME NEW t \in Texts, NEW u \in Texts, NEW v \in Texts
    PROVE  /\ (t \o u) \o v = t \o (u \o v)
           /\ t \o <<>> = t /\ <<>> \o t = t /\ <<>> \in Texts
  BY ConcatAssociative, ConcatEmptySeq, EmptySeq, SMTT(60) DEF Texts

\* Of three texts it does not matter which two are put together first.
LEMMA ThreeTexts ==
    ASSUME NEW t \in Texts, NEW u \in Texts, NEW v \in Texts
    PROVE  (t \o u) \o v = t \o (u \o v)
  BY TextsAssociate, SMTT(60)

\* Nothing behind a text changes it.
LEMMA NothingAdded ==
    ASSUME NEW t \in Texts
    PROVE  t \o <<>> = t
  BY TextsAssociate

\* A text with white space behind it retells it.
LEMMA RetellsBefore ==
    ASSUME NEW t \in Texts, NEW sep \in Texts, Blank(sep)
    PROVE  Retells(t \o sep, t) /\ Retells(t, t \o sep)
<1>1. /\ Retells(sep, <<>>) /\ Retells(<<>>, sep) /\ <<>> \in Texts
      /\ t \o <<>> = t /\ Retells(t, t)
  BY BlankTellsNothing, TextsAssociate, RetellsItself DEF Blank
<1>2. Retells(t \o sep, t \o <<>>) /\ Retells(t \o <<>>, t \o sep)
  BY <1>1, RetellsConcat
<1> QED
  BY <1>1, <1>2

\* One text.
LEMMA FlattenOne ==
    ASSUME NEW X, NEW s \in Seq(X)
    PROVE  FlattenSeq(<<s>>) = s /\ FlattenSeq(<<>>) = <<>> /\ <<s>> \in Seq(Seq(X))
<1> DEFINE none == <<>>
<1>1. none \in Seq(Seq(X)) /\ Append(none, s) = <<s>>
  OBVIOUS
<1> HIDE DEF none
<1>2. FlattenSeq(Append(none, s)) = FlattenSeq(none) \o s
  BY <1>1, FlattenAppend
<1>3. FlattenSeq(none) = <<>> /\ <<>> \o s = s
  BY <1>1, FlattenAppend, ConcatEmptySeq DEF none
<1>4. <<s>> \in Seq(Seq(X))
  OBVIOUS
<1> QED
  BY <1>1, <1>2, <1>3, <1>4, SMTT(60)

\* Of texts the flat sequence is a text.
LEMMA FlattenTexts ==
    ASSUME NEW pieces \in Seq(Texts)
    PROVE  FlattenSeq(pieces) \in Texts
  BY FlattenType DEF Texts

\* One text more.
LEMMA OneTextMore ==
    ASSUME NEW pieces \in Seq(Texts), NEW t \in Texts
    PROVE  FlattenSeq(Append(pieces, t)) = FlattenSeq(pieces) \o t
  BY FlattenAppend DEF Texts

\* What is joined is retold: separators are white space.
LEMMA JoinRetells ==
    ASSUME NEW pieces \in Seq(Texts), NEW sep \in Texts, Blank(sep)
    PROVE  Retells(Join(pieces, sep), FlattenSeq(pieces))
<1> DEFINE n == Len(pieces)
           part(k) == SubSeq(pieces, 1, k)
           A == {k \in 0..n : Retells(Join(part(k), sep), FlattenSeq(part(k)))}
<1>1. n \in Nat
  OBVIOUS
<1>2. 0 \in A
  <2>1. part(0) = <<>> /\ 0 \in 0..n
    BY <1>1, OneByOne
  <2>2. Join(<<>>, sep) = <<>> /\ FlattenSeq(<<>>) = <<>>
    BY DEF Join, FlattenSeq
  <2>3. Retells(<<>>, <<>>)
    BY RetellsItself, EmptySeq DEF Texts
  <2> QED
    BY <2>1, <2>2, <2>3
<1>3. ASSUME NEW k \in 0..n, k < n, k \in A PROVE k + 1 \in A
  <2> DEFINE p == part(k)
             t == pieces[k + 1]
  <2>1. p \in Seq(Texts) /\ t \in Texts /\ part(k + 1) = Append(p, t)
    BY <1>3, OneByOne
  <2>2. Retells(Join(p, sep), FlattenSeq(p)) /\ k + 1 \in 0..n
    BY <1>1, <1>3
  <2> HIDE DEF p, t, part
  <2>3. Join(Append(p, t), sep) = IF p = <<>> THEN t ELSE (Join(p, sep) \o sep) \o t
    BY <2>1, JoinAppend
  <2>4. FlattenSeq(Append(p, t)) = FlattenSeq(p) \o t
    BY <2>1, OneTextMore
  <2>5. Retells(Join(Append(p, t), sep), FlattenSeq(Append(p, t)))
    <3>1. CASE p = <<>>
      <4>1. FlattenSeq(p) \o t = t
        BY <2>1, <3>1, TextsAssociate DEF FlattenSeq
      <4> QED
        BY <2>1, <2>3, <2>4, <3>1, <4>1, RetellsItself
    <3>2. CASE p # <<>>
      <4>1. Join(p, sep) \in Texts /\ FlattenSeq(p) \in Texts
        BY <2>1, TextsJoin, JoinType, FlattenTexts
      <4>2. Retells(Join(p, sep) \o sep, Join(p, sep)) /\ Join(p, sep) \o sep \in Texts
        BY <4>1, RetellsBefore, TextConcat
      <4>3. Retells(Join(p, sep) \o sep, FlattenSeq(p))
        BY <2>2, <4>1, <4>2, RetellsTwice
      <4>4. Retells((Join(p, sep) \o sep) \o t, FlattenSeq(p) \o t)
        BY <2>1, <4>1, <4>2, <4>3, RetellsItself, RetellsConcat
      <4> QED
        BY <2>3, <2>4, <3>2, <4>4
    <3> QED
      BY <3>1, <3>2
  <2> QED
    BY <2>1, <2>2, <2>5
<1>4. \A k \in 0..n : k \in A
  <2> HIDE DEF A, n
  <2> QED
    BY <1>1, <1>2, <1>3, Induction
<1>5. part(n) = pieces /\ n \in A
  BY <1>1, <1>4, OneByOne
<1> QED
  BY <1>5

\* A text is what is before its first separator, the separator, and what is behind it.
LEMMA FirstAndOthers ==
    ASSUME NEW sep \in Texts, sep # <<>>, NEW t \in Texts, Places(sep, t) # {}
    PROVE  (FirstOf(t, sep) \o sep) \o OthersOf(t, sep) = t
<1> DEFINE m == Min(Places(sep, t))
           d == Len(sep)
<1>1. m \in 1..Len(t) /\ m + d - 1 <= Len(t) /\ d \in Nat \ {0} /\ Len(t) \in Nat
  BY PlacesType DEF Texts
<1>2. SubSeq(t, m, m + d - 1) = sep
  <2>1. Places(sep, t) \in SUBSET Nat
    BY <1>1 DEF Places
  <2>2. m \in Places(sep, t)
    BY <2>1, MinOf
  <2> QED
    BY <2>2 DEF Places
<1>3. FirstOf(t, sep) = SubSeq(t, 1, m - 1) /\ OthersOf(t, sep) = SubSeq(t, m + d, Len(t))
  BY DEF FirstOf, OthersOf
<1> HIDE DEF m, d
<1>4. t \in Seq(Int)
  BY DEF Texts
<1>5. SubSeq(t, 1, m - 1) \o SubSeq(t, m, m + d - 1) = SubSeq(t, 1, m + d - 1)
  <2> DEFINE a == m - 1
             b == m + d - 1
  <2>1. /\ a \in 0..Len(t) /\ b \in a..Len(t) /\ 1 \in 1..Len(t) + 1 /\ 0 = 1 - 1
        /\ a + 1 = m
    BY <1>1
  <2> HIDE DEF a, b
  <2>2. SubSeq(t, 1, a) \o SubSeq(t, a + 1, b) = SubSeq(t, 1, b)
    BY <1>4, <2>1, ConcatAdjacentSubSeq
  <2> QED
    BY <2>1, <2>2 DEF a, b
<1>6. SubSeq(t, 1, m + d - 1) \o SubSeq(t, m + d, Len(t)) = SubSeq(t, 1, Len(t))
  <2> DEFINE a == m + d - 1
             b == Len(t)
  <2>1. /\ a \in 0..Len(t) /\ b \in a..Len(t) /\ 1 \in 1..Len(t) + 1 /\ 0 = 1 - 1
        /\ a + 1 = m + d
    BY <1>1
  <2> HIDE DEF a, b
  <2>2. SubSeq(t, 1, a) \o SubSeq(t, a + 1, b) = SubSeq(t, 1, b)
    BY <1>4, <2>1, ConcatAdjacentSubSeq
  <2> QED
    BY <2>1, <2>2 DEF a, b
<1>7. SubSeq(t, 1, Len(t)) = t
  BY <1>4, SubSeqFull
<1> QED
  BY <1>2, <1>3, <1>5, <1>6, <1>7

\* The parts that str.split makes retell the text.
LEMMA SplitByRetells ==
    ASSUME NEW sep \in Texts, sep # <<>>, Blank(sep), NEW text \in Texts
    PROVE  Retells(FlattenSeq(SplitBy(text, sep)), text)
<1> DEFINE n == Len(text)
           A == {k \in 0..n : \A t \in Texts : Len(t) <= k => Retells(FlattenSeq(SplitBy(t, sep)), t)}
<1>1. n \in Nat
  BY DEF Texts
<1>2. ASSUME NEW t \in Texts, Places(sep, t) = {} PROVE Retells(FlattenSeq(SplitBy(t, sep)), t)
  <2>1. SplitBy(t, sep) = <<t>>
    BY <1>2, SplitByIs
  <2>2. FlattenSeq(<<t>>) = t
    BY FlattenOne DEF Texts
  <2> QED
    BY <2>1, <2>2, RetellsItself
<1>3. 0 \in A
  <2>1. ASSUME NEW t \in Texts, Len(t) <= 0 PROVE Places(sep, t) = {}
    <3> SUFFICES ASSUME Places(sep, t) # {} PROVE FALSE
      OBVIOUS
    <3>1. Min(Places(sep, t)) \in 1..Len(t) /\ Len(t) \in Nat
      BY PlacesType DEF Texts
    <3> QED
      BY <2>1, <3>1
  <2>2. 0 \in 0..n
    BY <1>1
  <2> QED
    BY <1>2, <2>1, <2>2
<1>4. ASSUME NEW k \in 0..n, k < n, k \in A PROVE k + 1 \in A
  <2>1. ASSUME NEW t \in Texts, Len(t) <= k + 1, Places(sep, t) # {}
        PROVE  Retells(FlattenSeq(SplitBy(t, sep)), t)
    <3> DEFINE first == FirstOf(t, sep)
               others == OthersOf(t, sep)
               rest == SplitBy(others, sep)
    <3>1. first \in Texts /\ others \in Texts /\ Len(others) < Len(t)
      BY <2>1, OthersType
    <3>2. SplitBy(t, sep) = <<first>> \o rest
      BY <2>1, SplitByIs
    <3>3. (first \o sep) \o others = t
      BY <2>1, FirstAndOthers
    <3> HIDE DEF first, others
    <3>4. Retells(FlattenSeq(rest), others)
      <4>1. Len(others) \in Nat /\ Len(t) \in Nat /\ k \in Nat
        BY <1>1, <3>1 DEF Texts
      <4>2. Len(others) <= k
        BY <2>1, <3>1, <4>1
      <4> QED
        BY <1>4, <3>1, <4>2
    <3>5. rest \in Seq(Texts) /\ FlattenSeq(rest) \in Texts
      BY <3>1, SplitByType, FlattenTexts
    <3> HIDE DEF rest
    <3>6. FlattenSeq(<<first>> \o rest) = first \o FlattenSeq(rest)
      <4>1. <<first>> \in Seq(Seq(Int)) /\ rest \in Seq(Seq(Int)) /\ FlattenSeq(<<first>>) = first
        BY <3>1, <3>5, FlattenOne DEF Texts
      <4> QED
        BY <4>1, FlattenConcat
    <3>7. Retells(first, first \o sep) /\ first \o sep \in Texts
      BY <3>1, RetellsBefore, TextConcat
    <3>8. Retells(first \o FlattenSeq(rest), (first \o sep) \o others)
      BY <3>1, <3>4, <3>5, <3>7, RetellsConcat
    <3> QED
      BY <3>2, <3>3, <3>6, <3>8
  <2>2. k + 1 \in 0..n
    BY <1>1, <1>4
  <2> QED
    BY <1>2, <2>1, <2>2
<1>5. \A k \in 0..n : k \in A
  <2> HIDE DEF A, n
  <2> QED
    BY <1>1, <1>3, <1>4, Induction
<1>6. n \in A /\ n <= n
  BY <1>1, <1>5
<1> QED
  BY <1>6

\* What a state of _merge_pieces has told: its chunks, and what is to become the next one.
Told(st) == FlattenSeq(st.chunks) \o FlattenSeq(st.acc)

\* What is merged to a chunk is retold, also when it is blank.
LEMMA EmittedRetells ==
    ASSUME NEW sep \in Texts, Blank(sep), NEW cs \in Seq(Texts), NEW acc \in Seq(Texts)
    PROVE  /\ Emitted(cs, acc, sep) \in Seq(Texts)
           /\ Retells(FlattenSeq(Emitted(cs, acc, sep)), FlattenSeq(cs) \o FlattenSeq(acc))
<1> DEFINE joined == Join(acc, sep)
           merged == Strip(joined)
           c == FlattenSeq(cs)
           a == FlattenSeq(acc)
<1>1. joined \in Texts /\ merged \in Texts /\ c \in Texts /\ a \in Texts
  BY TextsJoin, JoinType, StripType, FlattenTexts
<1>2. Retells(merged, a)
  <2>1. Retells(merged, joined) /\ Retells(joined, a)
    BY <1>1, StripRetells, JoinRetells
  <2> HIDE DEF joined, merged, a
  <2> QED
    BY <1>1, <2>1, RetellsTwice
<1>3. Emitted(cs, acc, sep) = IF merged = <<>> THEN cs ELSE Append(cs, merged)
  BY DEF Emitted
<1> HIDE DEF joined, merged, a
<1>4. Emitted(cs, acc, sep) \in Seq(Texts)
  BY <1>1, <1>3, AppendProperties
<1>5. FlattenSeq(Emitted(cs, acc, sep)) = c \o merged
  <2>1. c \o <<>> = c
    BY <1>1, NothingAdded
  <2>2. FlattenSeq(Append(cs, merged)) = c \o merged
    BY <1>1, OneTextMore
  <2> QED
    BY <1>3, <2>1, <2>2
<1>6. Retells(c \o merged, c \o a)
  BY <1>1, <1>2, RetellsItself, RetellsConcat
<1> QED
  BY <1>4, <1>5, <1>6 DEF a

\* The last pieces and those before are all.
LEMMA LastAndBefore ==
    ASSUME NEW acc \in Seq(Texts), NEW m \in 0..Len(acc)
    PROVE  /\ LastOf(acc, m) \in Seq(Texts)
           /\ \E before \in Seq(Texts) :
                 FlattenSeq(acc) = FlattenSeq(before) \o FlattenSeq(LastOf(acc, m))
<1> DEFINE k == Len(acc) - m
           before == SubSeq(acc, 1, k)
           last == SubSeq(acc, k + 1, Len(acc))
<1>1. Len(acc) \in Nat /\ k \in 0..Len(acc) /\ \A i \in 1..Len(acc) : acc[i] \in Texts
  OBVIOUS
<1> HIDE DEF k
<1>2. before \in Seq(Texts) /\ last \in Seq(Texts)
  <2>1. (\A i \in 1..k : acc[i] \in Texts) /\ \A i \in k + 1..Len(acc) : acc[i] \in Texts
    BY <1>1
  <2> QED
    BY <1>1, <2>1, SubSeqProperties
<1>3. before \o last = acc
  <2> DEFINE b == Len(acc)
  <2>1. /\ 1 \in 1..b + 1 /\ k \in 1 - 1..b /\ b \in k..b /\ b = Len(acc)
    BY <1>1
  <2> HIDE DEF b
  <2>2. SubSeq(acc, 1, k) \o SubSeq(acc, k + 1, b) = SubSeq(acc, 1, b)
    BY <2>1, ConcatAdjacentSubSeq
  <2> QED
    BY <2>2, SubSeqFull DEF b
<1>4. LastOf(acc, m) = last
  BY DEF LastOf, k
<1> HIDE DEF before, last
<1>5. FlattenSeq(before \o last) = FlattenSeq(before) \o FlattenSeq(last)
  <2>1. before \in Seq(Seq(Int)) /\ last \in Seq(Seq(Int))
    BY <1>2 DEF Texts
  <2> QED
    BY <2>1, FlattenConcat
<1> QED
  BY <1>2, <1>3, <1>4, <1>5

\* A round of _merge_pieces tells the piece and what was told before: what is kept for the
\* overlap is told twice.
LEMMA AddPieceRetells ==
    ASSUME NEW sep \in Texts, Blank(sep), NEW max, NEW overlap,
           NEW st \in MergeStates, NEW piece \in Texts
    PROVE  Retells(Told(AddPiece(st, piece, sep, max, overlap)), Told(st) \o piece)
<1> DEFINE cs == st.chunks
           acc == st.acc
           c == FlattenSeq(cs)
           a == FlattenSeq(acc)
<1>1. cs \in Seq(Texts) /\ acc \in Seq(Texts)
  BY DEF MergeStates
<1>2. c \in Texts /\ a \in Texts /\ Told(st) = c \o a
  BY <1>1, FlattenTexts DEF Told
<1>3. ASSUME NEW s, NEW t PROVE Told([chunks |-> s, acc |-> t]) = FlattenSeq(s) \o FlattenSeq(t)
  BY DEF Told
<1>4. CASE Len(Join(Append(acc, piece), sep)) <= max
  <2>0. ASSUME NEW t PROVE Told([st EXCEPT !.acc = t]) = FlattenSeq(cs) \o FlattenSeq(t)
    BY DEF Told, MergeStates
  <2>1. AddPiece(st, piece, sep, max, overlap) = [st EXCEPT !.acc = Append(acc, piece)]
    BY <1>4 DEF AddPiece
  <2> HIDE DEF cs, acc
  <2>2. Told(AddPiece(st, piece, sep, max, overlap)) = c \o FlattenSeq(Append(acc, piece))
    BY <2>0, <2>1 DEF acc
  <2>3. FlattenSeq(Append(acc, piece)) = a \o piece
    BY <1>1, OneTextMore
  <2> HIDE DEF c, a
  <2>4. (c \o a) \o piece = c \o (a \o piece)
    BY <1>2, ThreeTexts, Zenon
  <2>5. (c \o a) \o piece \in Texts
    BY <1>2, TextConcat
  <2> QED
    BY <1>2, <2>2, <2>3, <2>4, <2>5, RetellsItself
<1>5. CASE ~(Len(Join(Append(acc, piece), sep)) <= max)
  <2> DEFINE kept == OverlapOf(acc, sep, overlap, piece, max)
             cs_ == Emitted(cs, acc, sep)
             c_ == FlattenSeq(cs_)
             z == FlattenSeq(kept)
  <2>1. AddPiece(st, piece, sep, max, overlap) = [chunks |-> cs_, acc |-> Append(kept, piece)]
    BY <1>5 DEF AddPiece
  <2>2. PICK m \in 0..Len(acc) : kept = LastOf(acc, m)
    BY <1>1, OverlapIs
  <2>3. kept \in Seq(Texts) /\ \E before \in Seq(Texts) : a = FlattenSeq(before) \o z
    BY <1>1, <2>2, LastAndBefore, ZenonT(60)
  <2>4. cs_ \in Seq(Texts) /\ Retells(c_, c \o a)
    BY <1>1, EmittedRetells
  <2> HIDE DEF kept, cs_, cs, acc
  <2>5. PICK before \in Seq(Texts) : a = FlattenSeq(before) \o z
    BY <2>3
  <2> DEFINE b == FlattenSeq(before)
  <2>6. b \in Texts /\ z \in Texts /\ c_ \in Texts /\ a = b \o z
    BY <2>3, <2>4, <2>5, FlattenTexts
  <2>7. Told(AddPiece(st, piece, sep, max, overlap)) = c_ \o (z \o piece)
    <3>1. Told([chunks |-> cs_, acc |-> Append(kept, piece)]) = c_ \o FlattenSeq(Append(kept, piece))
      BY <1>3
    <3>2. FlattenSeq(Append(kept, piece)) = z \o piece
      BY <2>3, OneTextMore
    <3> HIDE DEF c_, z
    <3> QED
      BY <2>1, <3>1, <3>2
  <2> HIDE DEF a, b, c, c_, z
  <2>8. c_ \o (z \o piece) = (c_ \o z) \o piece
    <3>1. c_ \in Texts /\ z \in Texts /\ piece \in Texts
      BY <2>6
    <3>2. (c_ \o z) \o piece = c_ \o (z \o piece)
      BY <3>1, ThreeTexts, ZenonT(60)
    <3> QED
      BY <3>2
  <2>9. Retells(c_ \o z, (c \o a) \o z) /\ c_ \o z \in Texts /\ (c \o a) \o z \in Texts /\ c \o a \in Texts
    BY <1>2, <2>4, <2>6, RetellsItself, RetellsConcat, TextConcat
  <2>10. Retells((c \o a) \o z, c \o a)
    <3>0. c \in Texts /\ b \in Texts /\ z \in Texts
      BY <1>2, <2>6
    <3>1. (c \o b) \o z = c \o (b \o z)
      BY <3>0, ThreeTexts, ZenonT(60)
    <3>2. c \o b \in Texts
      BY <3>0, TextConcat
    <3> QED
      BY <2>6, <3>0, <3>1, <3>2, RetellsRepeated
  <2>11. Retells(c_ \o z, c \o a)
    BY <2>9, <2>10, RetellsTwice
  <2>12. Retells((c_ \o z) \o piece, (c \o a) \o piece)
    BY <2>9, <2>11, RetellsItself, RetellsConcat
  <2> QED
    BY <1>2, <2>7, <2>8, <2>12
<1> QED
  BY <1>4, <1>5

\* _merge_pieces tells all pieces, in their order.
LEMMA MergeRetells ==
    ASSUME NEW sep \in Texts, Blank(sep), NEW pieces \in Seq(Texts), NEW max, NEW overlap
    PROVE  /\ Merge(pieces, sep, max, overlap) \in Seq(Texts)
           /\ Retells(FlattenSeq(Merge(pieces, sep, max, overlap)), FlattenSeq(pieces))
<1> DEFINE n == Len(pieces)
           part(k) == SubSeq(pieces, 1, k)
<1>1. PICK r \in [0..n -> MergeStates] : IsMerge(r, pieces, sep, max, overlap)
  BY MergeRun
<1>2. /\ n \in Nat /\ r[0] = [chunks |-> <<>>, acc |-> <<>>]
      /\ \A i \in 1..n : r[i] = AddPiece(r[i - 1], pieces[i], sep, max, overlap)
      /\ Merge(pieces, sep, max, overlap) = Emitted(r[n].chunks, r[n].acc, sep)
      /\ \A i \in 0..n : r[i] \in MergeStates
  BY <1>1, SMTT(60) DEF IsMerge
<1>3. ASSUME NEW st \in MergeStates PROVE st.chunks \in Seq(Texts) /\ st.acc \in Seq(Texts) /\ Told(st) \in Texts
  BY FlattenTexts, TextConcat DEF MergeStates, Told
<1> HIDE DEF n
<1> DEFINE A == {k \in 0..n : Retells(Told(r[k]), FlattenSeq(part(k)))}
<1>4. 0 \in A
  <2>1. part(0) = <<>> /\ 0 \in 0..n
    BY <1>2, OneByOne DEF n
  <2>2. <<>> \in Texts /\ FlattenSeq(<<>>) = <<>> /\ <<>> \o <<>> = <<>>
    <3>1. <<>> \in Texts
      BY EmptySeq DEF Texts
    <3> QED
      BY <3>1, TextsAssociate DEF FlattenSeq
  <2>3. Told(r[0]) = FlattenSeq(<<>>) \o FlattenSeq(<<>>)
    BY <1>2 DEF Told
  <2> QED
    BY <2>1, <2>2, <2>3, RetellsItself
<1>5. ASSUME NEW k \in 0..n, k < n, k \in A PROVE k + 1 \in A
  <2> DEFINE p == part(k)
             t == pieces[k + 1]
  <2>1. p \in Seq(Texts) /\ t \in Texts /\ part(k + 1) = Append(p, t)
    BY <1>2, <1>5, OneByOne DEF n
  <2>2. Retells(Told(r[k]), FlattenSeq(p)) /\ k + 1 \in 0..n /\ k + 1 \in 1..n /\ (k + 1) - 1 = k
    BY <1>2, <1>5
  <2>3. r[k + 1] = AddPiece(r[k], t, sep, max, overlap)
    BY <1>2, <2>2
  <2> HIDE DEF p, t, part
  <2>4. FlattenSeq(Append(p, t)) = FlattenSeq(p) \o t /\ FlattenSeq(p) \in Texts
    BY <2>1, OneTextMore, FlattenTexts
  <2>5. Retells(Told(r[k + 1]), Told(r[k]) \o t)
    BY <1>2, <2>1, <2>3, AddPieceRetells
  <2>6. Retells(Told(r[k]) \o t, FlattenSeq(p) \o t)
    BY <1>2, <1>3, <2>1, <2>2, <2>4, RetellsItself, RetellsConcat
  <2>7. Told(r[k + 1]) \in Texts /\ Told(r[k]) \o t \in Texts /\ FlattenSeq(p) \o t \in Texts
    BY <1>2, <1>3, <2>1, <2>2, <2>4, TextConcat
  <2>8. Retells(Told(r[k + 1]), FlattenSeq(p) \o t)
    BY <2>5, <2>6, <2>7, RetellsTwice
  <2> QED
    BY <2>1, <2>2, <2>4, <2>8
<1>6. \A k \in 0..n : k \in A
  <2> HIDE DEF A
  <2> QED
    BY <1>2, <1>4, <1>5, Induction
<1>7. part(n) = pieces /\ n \in A /\ n \in 0..n
  BY <1>2, <1>6, OneByOne DEF n
<1>8. Retells(Told(r[n]), FlattenSeq(pieces))
  BY <1>7
<1>9. /\ Emitted(r[n].chunks, r[n].acc, sep) \in Seq(Texts)
      /\ Retells(FlattenSeq(Emitted(r[n].chunks, r[n].acc, sep)), Told(r[n]))
  BY <1>2, <1>3, <1>7, EmittedRetells DEF Told
<1>10. /\ FlattenSeq(Emitted(r[n].chunks, r[n].acc, sep)) \in Texts /\ Told(r[n]) \in Texts
       /\ FlattenSeq(pieces) \in Texts
  BY <1>2, <1>3, <1>7, <1>9, FlattenTexts
<1> QED
  BY <1>2, <1>8, <1>9, <1>10, RetellsTwice

\* Sequences of texts of which each retells a text, one after the other, retell the texts.
LEMMA NestedRetells ==
    ASSUME NEW parts \in Seq(Texts), NEW seqs \in Seq(Seq(Texts)), Len(seqs) = Len(parts),
           \A i \in 1..Len(parts) : Retells(FlattenSeq(seqs[i]), parts[i])
    PROVE  Retells(FlattenSeq(FlattenSeq(seqs)), FlattenSeq(parts))
<1> DEFINE n == Len(parts)
           first(k) == SubSeq(parts, 1, k)
           made(k) == SubSeq(seqs, 1, k)
           A == {k \in 0..n : Retells(FlattenSeq(FlattenSeq(made(k))), FlattenSeq(first(k)))}
<1>1. n \in Nat /\ n = Len(seqs)
  OBVIOUS
<1>2. 0 \in A
  <2>1. first(0) = <<>> /\ made(0) = <<>> /\ 0 \in 0..n
    BY <1>1, OneByOne
  <2>2. FlattenSeq(<<>>) = <<>> /\ <<>> \in Texts
    BY EmptySeq DEF FlattenSeq, Texts
  <2> QED
    BY <2>1, <2>2, RetellsItself
<1>3. ASSUME NEW k \in 0..n, k < n, k \in A PROVE k + 1 \in A
  <2> DEFINE p == first(k)
             q == made(k)
             t == parts[k + 1]
             s == seqs[k + 1]
  <2>1. p \in Seq(Texts) /\ t \in Texts /\ first(k + 1) = Append(p, t)
    BY <1>3, OneByOne
  <2>2. q \in Seq(Seq(Texts)) /\ s \in Seq(Texts) /\ made(k + 1) = Append(q, s)
    BY <1>1, <1>3, OneByOne, SMTT(60)
  <2>3. /\ Retells(FlattenSeq(FlattenSeq(q)), FlattenSeq(p)) /\ k + 1 \in 0..n
        /\ Retells(FlattenSeq(s), t)
    BY <1>1, <1>3
  <2> HIDE DEF p, q, t, s, first, made
  <2>4. FlattenSeq(Append(p, t)) = FlattenSeq(p) \o t /\ FlattenSeq(p) \in Texts
    BY <2>1, OneTextMore, FlattenTexts
  <2>5. FlattenSeq(Append(q, s)) = FlattenSeq(q) \o s /\ FlattenSeq(q) \in Seq(Texts)
    BY <2>2, FlattenAppend, FlattenType
  <2> DEFINE f == FlattenSeq(q)
  <2>6. f \in Seq(Texts) /\ FlattenSeq(Append(q, s)) = f \o s /\ Retells(FlattenSeq(f), FlattenSeq(p))
    BY <2>3, <2>5
  <2> HIDE DEF f
  <2>7. FlattenSeq(f \o s) = FlattenSeq(f) \o FlattenSeq(s)
    <3>1. f \in Seq(Seq(Int)) /\ s \in Seq(Seq(Int))
      BY <2>2, <2>6 DEF Texts
    <3> QED
      BY <3>1, FlattenConcat
  <2>8. FlattenSeq(f) \in Texts /\ FlattenSeq(s) \in Texts
    BY <2>2, <2>6, FlattenTexts
  <2>9. Retells(FlattenSeq(f) \o FlattenSeq(s), FlattenSeq(p) \o t)
    BY <2>1, <2>3, <2>4, <2>6, <2>8, RetellsConcat
  <2> QED
    BY <2>1, <2>2, <2>3, <2>4, <2>6, <2>7, <2>9
<1>4. \A k \in 0..n : k \in A
  <2> HIDE DEF A, n
  <2> QED
    BY <1>1, <1>2, <1>3, Induction
<1>5. first(n) = parts /\ made(n) = seqs /\ n \in A
  BY <1>1, <1>4, OneByOne
<1> QED
  BY <1>5

\* A stretch of a text, cut in two.
LEMMA CutInTwo ==
    ASSUME NEW t \in Texts, NEW m \in 1..Len(t) + 1, NEW k \in m - 1..Len(t), NEW n \in k..Len(t)
    PROVE  /\ SubSeq(t, m, k) \o SubSeq(t, k + 1, n) = SubSeq(t, m, n)
           /\ SubSeq(t, m, k) \in Texts /\ SubSeq(t, k + 1, n) \in Texts /\ SubSeq(t, m, n) \in Texts
<1>1. t \in Seq(Int) /\ Len(t) \in Nat
  BY DEF Texts
<1>2. SubSeq(t, m, k) \o SubSeq(t, k + 1, n) = SubSeq(t, m, n)
  BY <1>1, ConcatAdjacentSubSeq
<1>3. /\ m \in Nat /\ m # 0 /\ k \in Int /\ k <= Len(t) /\ n \in Int /\ n <= Len(t)
      /\ k + 1 \in Nat /\ k + 1 # 0
  BY <1>1
<1>4. SubSeq(t, m, k) \in Texts /\ SubSeq(t, k + 1, n) \in Texts /\ SubSeq(t, m, n) \in Texts
  <2> DEFINE e == k + 1
  <2>1. e \in Nat /\ e # 0
    BY <1>3
  <2> HIDE DEF e
  <2>2. SubSeq(t, m, k) \in Texts /\ SubSeq(t, e, n) \in Texts /\ SubSeq(t, m, n) \in Texts
    BY <1>3, <2>1, SubText
  <2> QED
    BY <2>2 DEF e
<1> QED
  BY <1>2, <1>4

\* The slices of the fallback retell the text: every one begins where the text was told
\* before, or next to it, and the last one ends with it.
LEMMA SlicesRetell ==
    ASSUME NEW t \in Texts, t # <<>>, NEW max \in Nat \ {0}, NEW overlap \in Nat
    PROVE  /\ Slices(t, max, overlap) \in Seq(Texts)
           /\ Retells(FlattenSeq(Slices(t, max, overlap)), t)
<1> DEFINE size == Max({1, max - overlap})
           m == (Len(t) - 1) \div size
           at(k) == (k - 1) * size
           end(k) == Min({(k - 1) * size + max, Len(t)})
           slices == Slices(t, max, overlap)
<1>1. Len(t) \in Nat \ {0}
  BY EmptySeq DEF Texts
<1>2. size \in Nat \ {0} /\ size <= max
  <2> DEFINE a == 1
             b == max - overlap
  <2>1. a \in Int /\ b \in Int /\ a = 1 /\ b <= max /\ a <= max
    OBVIOUS
  <2> HIDE DEF a, b
  <2>2. Max({a, b}) \in {a, b} /\ Max({a, b}) >= a
    BY <2>1, MaxOfTwo
  <2>3. Max({a, b}) \in Nat \ {0} /\ Max({a, b}) <= max
    BY <2>1, <2>2
  <2> QED
    BY <2>3 DEF a, b
<1>3. m \in Nat /\ m * size <= Len(t) - 1 /\ Len(t) <= m * size + size
  <2> HIDE DEF size
  <2>1. \A a \in Nat : \A b \in Nat \ {0} :
           a \div b \in Nat /\ (a \div b) * b <= a /\ a < (a \div b) * b + b
    OBVIOUS
  <2>2. Len(t) - 1 \in Nat
    BY <1>1
  <2>3. m \in Nat /\ m * size <= Len(t) - 1 /\ Len(t) - 1 < m * size + size
    BY <1>2, <2>1, <2>2
  <2> DEFINE x == m * size
  <2>4. x \in Nat
    BY <1>2, <2>3
  <2>5. x <= Len(t) - 1 /\ Len(t) - 1 < x + size
    BY <2>3
  <2> HIDE DEF x
  <2>6. Len(t) <= x + size
    BY <1>1, <1>2, <2>4, <2>5
  <2> QED
    BY <2>3, <2>6 DEF x
<1>4. ASSUME NEW k \in 1..m + 1
      PROVE  /\ at(k) \in Nat /\ at(k) <= Len(t) - 1 /\ at(k) <= m * size /\ m * size \in Nat
             /\ end(k) \in {at(k) + max, Len(t)} /\ end(k) <= at(k) + max /\ end(k) <= Len(t)
  <2> HIDE DEF size, m
  <2>1. k - 1 \in Nat /\ k - 1 <= m /\ m * size \in Nat
    BY <1>2, <1>3
  <2>2. \A a, b \in Nat : \A c \in Nat \ {0} : a <= b => a * c \in Nat /\ b * c \in Nat /\ a * c <= b * c
    OBVIOUS
  <2>3. at(k) \in Nat /\ at(k) <= m * size
    BY <1>2, <1>3, <2>1, <2>2
  <2> DEFINE j == at(k)
             b == j + max
             x == m * size
  <2>4. j \in Nat /\ j <= x /\ x \in Nat /\ x <= Len(t) - 1
    BY <1>3, <2>1, <2>3
  <2>5. end(k) = Min({b, Len(t)})
    OBVIOUS
  <2> HIDE DEF j, x, end
  <2>6. b \in Int /\ Len(t) \in Int
    BY <1>1, <2>4
  <2> HIDE DEF b
  <2>7. Min({b, Len(t)}) \in {b, Len(t)} /\ Min({b, Len(t)}) <= b /\ Min({b, Len(t)}) <= Len(t)
    BY <2>6, MinOfTwo
  <2>8. j <= Len(t) - 1
    BY <1>1, <2>4
  <2> QED
    BY <2>4, <2>5, <2>7, <2>8 DEF b, j, x
<1>5. ASSUME NEW k \in 1..m PROVE at(k + 1) = at(k) + size /\ k + 1 \in 1..m + 1 /\ k \in 1..m + 1
  <2> HIDE DEF size, m
  <2>1. \A a \in Int : \A b \in Int : ((a + 1) - 1) * b = (a - 1) * b + b
    OBVIOUS
  <2>2. k \in Int /\ size \in Int
    BY <1>2, <1>3
  <2> QED
    BY <1>3, <2>1, <2>2
<1>6. at(1) = 0 /\ at(m + 1) = m * size
  <2> HIDE DEF size, m
  <2>1. \A b \in Int : (1 - 1) * b = 0
    OBVIOUS
  <2>2. (m + 1) - 1 = m /\ size \in Int
    BY <1>2, <1>3
  <2> QED
    BY <2>1, <2>2
<1>7. slices = [k \in 1..m + 1 |-> SubSeq(t, at(k) + 1, end(k))]
  BY DEF Slices
<1> HIDE DEF size, m, at, end, slices
<1>8. ASSUME NEW k \in 1..m + 1
      PROVE  at(k) + 1 \in 1..Len(t) /\ end(k) \in 1..Len(t) /\ at(k) + 1 <= end(k)
  BY <1>1, <1>4
<1>9. slices \in Seq(Texts) /\ Len(slices) = m + 1 /\ \A k \in 1..m + 1 : slices[k] = SubSeq(t, at(k) + 1, end(k))
  <2>1. \A k \in 1..m + 1 : SubSeq(t, at(k) + 1, end(k)) \in Texts
    <3> SUFFICES ASSUME NEW k \in 1..m + 1 PROVE SubSeq(t, at(k) + 1, end(k)) \in Texts
      OBVIOUS
    <3> DEFINE a == at(k) + 1
               b == end(k)
    <3>1. a \in Nat /\ a # 0 /\ b \in Int /\ b <= Len(t)
      BY <1>1, <1>8
    <3> HIDE DEF a, b
    <3>2. SubSeq(t, a, b) \in Texts
      BY <3>1, SubText
    <3> QED
      BY <3>2 DEF a, b
  <2>2. m + 1 \in Nat
    BY <1>3
  <2>3. slices \in [1..m + 1 -> Texts]
    BY <1>7, <2>1
  <2>4. slices \in Seq(Texts)
    BY <2>2, <2>3, SeqDef
  <2>5. DOMAIN slices = 1..m + 1
    BY <1>7
  <2>6. Len(slices) = m + 1
    BY <2>2, <2>4, <2>5, LenProperties
  <2> QED
    BY <1>7, <2>4, <2>6
<1> DEFINE part(k) == SubSeq(slices, 1, k)
           A == {k \in 0..m : Retells(FlattenSeq(part(k + 1)), SubSeq(t, 1, end(k + 1)))}
<1>10. 0 \in A
  <2>1. 0 \in 0..m /\ 0 + 1 = 1 /\ 1 \in 1..m + 1 /\ 0 \in 0..Len(slices) /\ 0 < Len(slices)
    BY <1>3, <1>9
  <2>2. slices[1] = SubSeq(t, 1, end(1)) /\ slices[1] \in Texts
    <3>1. at(1) + 1 = 1
      BY <1>6
    <3> QED
      BY <1>9, <2>1, <3>1
  <2>3. part(1) = Append(SubSeq(slices, 1, 0), slices[1]) /\ SubSeq(slices, 1, 0) = <<>>
    BY <1>9, <2>1, OneByOne
  <2>4. FlattenSeq(part(1)) = slices[1]
    <3>1. FlattenSeq(<<slices[1]>>) = slices[1]
      BY <2>2, FlattenOne DEF Texts
    <3>2. Append(<<>>, slices[1]) = <<slices[1]>>
      OBVIOUS
    <3> QED
      BY <2>3, <3>1, <3>2
  <2>5. Retells(FlattenSeq(part(1)), SubSeq(t, 1, end(1)))
    BY <2>2, <2>4, RetellsItself
  <2> HIDE DEF part
  <2> QED
    BY <2>1, <2>5
<1>11. ASSUME NEW k \in 0..m, k < m, k \in A PROVE k + 1 \in A
  <2> DEFINE h == k + 1
             p == part(h)
             x == slices[h + 1]
             a == SubSeq(t, 1, at(h + 1))
             z == SubSeq(t, at(h + 1) + 1, end(h))
             y == SubSeq(t, end(h) + 1, end(h + 1))
  <2>1. h \in 1..m /\ h \in 0..m /\ h \in 1..m + 1 /\ h + 1 \in 1..m + 1 /\ h \in 0..Len(slices) /\ h < Len(slices)
    BY <1>3, <1>9, <1>11
  <2>2. Retells(FlattenSeq(p), SubSeq(t, 1, end(h)))
    BY <1>11
  <2> HIDE DEF h
  <2>3. p \in Seq(Texts) /\ x \in Texts /\ part(h + 1) = Append(p, x)
    BY <1>9, <2>1, OneByOne
  <2>4. /\ at(h + 1) = at(h) + size /\ end(h) \in {at(h) + max, Len(t)}
        /\ end(h) \in 1..Len(t) /\ at(h + 1) \in 0..Len(t) - 1
        /\ end(h + 1) \in {at(h + 1) + max, Len(t)}
        /\ end(h + 1) \in 1..Len(t) /\ at(h + 1) + 1 <= end(h + 1) /\ at(h) \in Nat
        /\ end(h) <= at(h) + max
    BY <1>1, <1>4, <1>5, <1>8, <2>1, SMTT(60)
  <2>5. at(h + 1) \in 0..end(h) /\ end(h) <= end(h + 1)
    BY <1>1, <1>2, <2>4, SMTT(60)
  <2> HIDE DEF p, x, part
  <2> DEFINE b == at(h + 1)
             c == end(h)
             d == end(h + 1)
  <2>6. b \in 0..c /\ c \in 1..Len(t) /\ d \in c..Len(t) /\ Len(t) \in Nat \ {0}
    BY <1>1, <2>4, <2>5
  <2>7. x = SubSeq(t, b + 1, d)
    BY <1>9, <2>1 DEF x
  <2> HIDE DEF b, c, d
  <2>8. SubSeq(t, 1, b) \o SubSeq(t, b + 1, c) = SubSeq(t, 1, c) /\ SubSeq(t, 1, b) \in Texts
    BY <2>6, CutInTwo, SMTT(60)
  <2>9. /\ SubSeq(t, 1, c) \o SubSeq(t, c + 1, d) = SubSeq(t, 1, d)
        /\ SubSeq(t, 1, c) \in Texts /\ SubSeq(t, c + 1, d) \in Texts
    BY <2>6, CutInTwo, SMTT(60)
  <2>10. SubSeq(t, b + 1, c) \o SubSeq(t, c + 1, d) = SubSeq(t, b + 1, d) /\ SubSeq(t, b + 1, c) \in Texts
    <3> DEFINE e == b + 1
    <3>1. e \in 1..Len(t) + 1 /\ c \in e - 1..Len(t)
      BY <2>6
    <3> HIDE DEF e
    <3>2. SubSeq(t, e, c) \o SubSeq(t, c + 1, d) = SubSeq(t, e, d) /\ SubSeq(t, e, c) \in Texts
      BY <2>6, <3>1, CutInTwo
    <3> QED
      BY <3>2 DEF e
  <2>11. /\ a \o z = SubSeq(t, 1, c) /\ (a \o z) \o y = SubSeq(t, 1, d) /\ x = z \o y
         /\ a \in Texts /\ z \in Texts /\ y \in Texts
    BY <2>7, <2>8, <2>9, <2>10 DEF b, c, d
  <2> HIDE DEF a, z, y
  <2>12. a \o z \in Texts /\ (a \o z) \o z \in Texts
    BY <2>11, TextConcat
  <2>13. ((a \o z) \o z) \o y = (a \o z) \o (z \o y)
    <3> DEFINE u == a \o z
    <3>1. u \in Texts /\ z \in Texts /\ y \in Texts
      BY <2>11, <2>12
    <3> HIDE DEF u
    <3>2. (u \o z) \o y = u \o (z \o y)
      BY <3>1, ThreeTexts, Zenon
    <3> QED
      BY <3>2 DEF u
  <2>14. Retells(((a \o z) \o z) \o y, (a \o z) \o y)
    BY <2>11, <2>12, RetellsRepeated, RetellsItself, RetellsConcat
  <2>15. FlattenSeq(Append(p, x)) = FlattenSeq(p) \o x /\ FlattenSeq(p) \in Texts
    BY <2>3, OneTextMore, FlattenTexts
  <2>16. Retells(FlattenSeq(p) \o x, (a \o z) \o x)
    <3>1. Retells(FlattenSeq(p), a \o z)
      BY <2>2, <2>11 DEF c
    <3> QED
      BY <2>3, <2>12, <2>15, <3>1, RetellsItself, RetellsConcat
  <2>17. Retells(FlattenSeq(p) \o x, (a \o z) \o y)
    <3>1. FlattenSeq(p) \o x \in Texts /\ (a \o z) \o x \in Texts /\ (a \o z) \o y \in Texts
      BY <2>3, <2>11, <2>12, <2>15, TextConcat
    <3>2. (a \o z) \o x = ((a \o z) \o z) \o y
      BY <2>11, <2>13
    <3> QED
      BY <2>14, <2>16, <3>1, <3>2, RetellsTwice
  <2>18. Retells(FlattenSeq(part(h + 1)), SubSeq(t, 1, end(h + 1)))
    BY <2>3, <2>11, <2>15, <2>17 DEF d
  <2> QED
    BY <2>1, <2>18 DEF h
<1>12. \A k \in 0..m : k \in A
  <2> HIDE DEF A
  <2> QED
    BY <1>3, <1>10, <1>11, Induction
<1>13. end(m + 1) = Len(t)
  <2>1. m + 1 \in 1..m + 1 /\ at(m + 1) = m * size
    BY <1>3, <1>6
  <2> DEFINE x == m * size
  <2>2. /\ end(m + 1) \in {x + max, Len(t)} /\ end(m + 1) <= Len(t)
        /\ Len(t) <= x + size /\ x \in Nat
    BY <1>3, <1>4, <2>1
  <2> HIDE DEF x
  <2> QED
    BY <1>1, <1>2, <2>2
<1>14. m \in A /\ part(m + 1) = slices
  BY <1>3, <1>9, <1>12, OneByOne
<1>15. SubSeq(t, 1, Len(t)) = t
  BY SubSeqFull DEF Texts
<1>16. Retells(FlattenSeq(slices), t)
  BY <1>13, <1>14, <1>15
<1> QED
  BY <1>9, <1>16 DEF slices

\* The separators that are not empty are white space.
LEMMA SeparatorsBlank ==
    ASSUME NEW i \in 1..3
    PROVE  Blank(Separators[i])
<1>1. /\ Separators[1] = <<Newline, Newline>> /\ Separators[2] = <<Newline>> /\ Separators[3] = <<Space>>
      /\ (i = 1 \/ i = 2 \/ i = 3)
  BY DEF Separators
<1>2. ~(Newline > 0) /\ ~(Space > 0)
  BY DEF Newline, Space
<1> QED
  BY <1>1, <1>2 DEF Blank

\* A text is split into chunks that retell it: by the last separators, then by those before.
LEMMA SplitRetells ==
    ASSUME NEW max \in Nat \ {0}, NEW overlap \in Nat, NEW text \in Texts
    PROVE  /\ Split(text, max, overlap) \in Seq(Texts)
           /\ Retells(FlattenSeq(Split(text, max, overlap)), text)
<1> DEFINE f == CHOOSE f : SplitsAs(f, max, overlap)
           Good(s, t) == s \in Seq(Texts) /\ Retells(FlattenSeq(s), t)
           Fits(k) == \A t \in Texts : Good(f[k][t], t)
<1>1. SplitsAs(f, max, overlap)
  BY SplitExists
<1> HIDE DEF f
<1>2. ASSUME NEW k \in 1..4, NEW t \in Texts PROVE f[k][t] = Level_(f, k, t, max, overlap)
  BY <1>1 DEF SplitsAs
<1>3. ASSUME NEW t \in Texts PROVE Good(<<t>>, t)
  <2>1. FlattenSeq(<<t>>) = t /\ <<t>> \in Seq(Texts)
    BY FlattenOne DEF Texts
  <2> QED
    BY <2>1, RetellsItself
<1>4. ASSUME NEW t \in Texts, Strip(t) = <<>> PROVE Good(<<>>, t)
  <2>1. Retells(<<>>, t)
    BY <1>4, StripRetells
  <2>2. FlattenSeq(<<>>) = <<>> /\ <<>> \in Seq(Texts)
    BY EmptySeq DEF FlattenSeq
  <2> QED
    BY <2>1, <2>2
<1>5. ASSUME NEW k \in 1..4, \A i \in 1..4 : k < i => Fits(i) PROVE Fits(k)
  <2> SUFFICES ASSUME NEW t \in Texts PROVE Good(Level_(f, k, t, max, overlap), t)
    BY <1>2
  <2>0. Len(t) \in Nat
    BY DEF Texts
  <2>1. CASE Len(t) <= max
    <3>1. CASE Strip(t) = <<>>
      <4>1. Level_(f, k, t, max, overlap) = <<>>
        BY <2>1, <3>1 DEF Level_
      <4> QED
        BY <1>4, <3>1, <4>1
    <3>2. CASE Strip(t) # <<>>
      <4>1. Level_(f, k, t, max, overlap) = <<t>>
        BY <2>1, <3>2 DEF Level_
      <4> QED
        BY <1>3, <4>1
    <3> QED
      BY <3>1, <3>2
  <2>2. CASE ~(Len(t) <= max)
    <3> DEFINE i == ChooseSeparator(t, k)
               sep == Separators[i]
               parts == SplitBy(t, sep)
               seqs == AllRefined(f, i, t, max)
    <3>1. i \in k..4 /\ i \in 1..4
      BY ChooseSeparatorType
    <3>2. sep \in Texts
      BY <3>1, SeparatorsType
    <3>3. CASE sep = <<>>
      <4>1. t # <<>>
        BY <2>0, <2>2
      <4>2. Good(Slices(t, max, overlap), t)
        BY <4>1, SlicesRetell
      <4>3. Level_(f, k, t, max, overlap) = Slices(t, max, overlap)
        BY <2>2, <3>3 DEF Level_
      <4> HIDE DEF Good
      <4> QED
        BY <4>2, <4>3
    <3>4. CASE sep # <<>>
      <4>1. i + 1 \in 1..4 /\ k < i + 1 /\ i \in 1..3
        <5>1. i # 4
          BY <3>4, SeparatorsType
        <5> QED
          BY <3>1, <5>1
      <4>2. Blank(sep)
        BY <4>1, SeparatorsBlank
      <4>3. parts \in Seq(Texts) /\ Retells(FlattenSeq(parts), t)
        BY <3>2, <3>4, <4>2, SplitByType, SplitByRetells
      <4>4. seqs = [n \in DOMAIN parts |-> Refined(f, i, parts[n], max)]
        BY DEF AllRefined
      <4>5. Level_(f, k, t, max, overlap) = Merge(FlattenSeq(seqs), sep, max, overlap)
        BY <2>2, <3>4 DEF Level_
      <4>6. Fits(i + 1)
        BY <1>5, <4>1
      <4> HIDE DEF i, sep, parts, seqs
      <4>7. ASSUME NEW n \in DOMAIN parts PROVE Good(Refined(f, i, parts[n], max), parts[n])
        <5>1. parts[n] \in Texts
          BY <4>3
        <5>2. CASE Len(parts[n]) > max
          <6>1. Refined(f, i, parts[n], max) = f[i + 1][parts[n]]
            BY <5>2 DEF Refined
          <6> QED
            BY <4>6, <5>1, <6>1
        <5>3. CASE ~(Len(parts[n]) > max) /\ parts[n] # <<>>
          <6>1. Refined(f, i, parts[n], max) = <<parts[n]>>
            BY <5>3 DEF Refined
          <6> QED
            BY <1>3, <5>1, <6>1
        <5>4. CASE ~(Len(parts[n]) > max) /\ parts[n] = <<>>
          <6>1. Refined(f, i, parts[n], max) = <<>>
            BY <5>4 DEF Refined
          <6>2. Strip(<<>>) = <<>>
            BY DEF Strip
          <6> QED
            BY <1>4, <5>1, <5>4, <6>1, <6>2
        <5> QED
          BY <5>2, <5>3, <5>4
      <4>8. /\ seqs \in Seq(Seq(Texts)) /\ Len(seqs) = Len(parts)
            /\ \A n \in 1..Len(parts) : Retells(FlattenSeq(seqs[n]), parts[n])
        <5>1. DOMAIN parts = 1..Len(parts) /\ Len(parts) \in Nat
          BY <4>3, LenProperties
        <5>2. seqs \in [1..Len(parts) -> Seq(Texts)]
          BY <4>4, <4>7, <5>1
        <5>3. seqs \in Seq(Seq(Texts))
          BY <5>1, <5>2, SeqDef
        <5>4. DOMAIN seqs = 1..Len(parts)
          BY <5>2
        <5>5. Len(seqs) = Len(parts)
          BY <5>1, <5>3, <5>4, LenProperties
        <5> QED
          BY <4>4, <4>7, <5>1, <5>3, <5>5
      <4>9. FlattenSeq(seqs) \in Seq(Texts)
        BY <4>8, FlattenType
      <4>10. Retells(FlattenSeq(FlattenSeq(seqs)), t)
        <5>1. Retells(FlattenSeq(FlattenSeq(seqs)), FlattenSeq(parts))
          BY <4>3, <4>8, NestedRetells
        <5>2. FlattenSeq(FlattenSeq(seqs)) \in Texts /\ FlattenSeq(parts) \in Texts
          BY <4>3, <4>9, FlattenTexts
        <5> QED
          BY <4>3, <5>1, <5>2, RetellsTwice
      <4> DEFINE flat == FlattenSeq(seqs)
                 merged == Merge(flat, sep, max, overlap)
      <4>11. flat \in Seq(Texts) /\ Retells(FlattenSeq(flat), t)
        BY <4>9, <4>10
      <4> HIDE DEF flat
      <4>12. merged \in Seq(Texts) /\ Retells(FlattenSeq(merged), FlattenSeq(flat))
        BY <3>2, <4>2, <4>11, MergeRetells DEF sep
      <4> HIDE DEF merged
      <4>13. Retells(FlattenSeq(merged), t)
        <5>1. FlattenSeq(merged) \in Texts /\ FlattenSeq(flat) \in Texts
          BY <4>11, <4>12, FlattenTexts
        <5> QED
          BY <4>11, <4>12, <5>1, RetellsTwice
      <4> QED
        BY <4>5, <4>12, <4>13 DEF merged, flat
    <3> QED
      BY <3>3, <3>4
  <2> QED
    BY <2>1, <2>2
<1> HIDE DEF Fits
<1>6. Fits(4)
  BY <1>5
<1>7. Fits(3)
  BY <1>5, <1>6
<1>8. Fits(2)
  BY <1>5, <1>6, <1>7
<1>9. Fits(1)
  BY <1>5, <1>6, <1>7, <1>8
<1>10. Split(text, max, overlap) = f[1][text]
  BY SplitIs DEF f
<1> QED
  BY <1>9, <1>10 DEF Fits

\* What a section is divided into retells its text.
LEMMA TextsOfRetells ==
    ASSUME NEW p, NEW section \in SectionsOf(p)
    PROVE  /\ TextsOf(section) \in Seq(Texts)
           /\ Retells(FlattenSeq(TextsOf(section)), section.content)
<1> DEFINE path == section.path
           content == section.content
           size == EffectiveMax(path)
           overlap == Min({ChunkOverlap, size \div 2})
<1>1. path \in Seq(DOMAIN p) /\ content \in Texts
  BY DEF SectionsOf
<1> HIDE DEF path, content
<1>2. size \in Nat \ {0}
  BY <1>1, EffectiveMaxType
<1>3. overlap \in Nat
  <2> DEFINE half == size \div 2
  <2>1. ChunkOverlap \in Nat /\ half \in Nat /\ ChunkOverlap \in Int /\ half \in Int
    <3> HIDE DEF size
    <3> QED
      BY <1>2, ChunkingAssumption
  <2> HIDE DEF half
  <2>2. Min({ChunkOverlap, half}) \in {ChunkOverlap, half}
    BY <2>1, MinOfTwo
  <2> QED
    BY <2>1, <2>2 DEF half
<1>4. CASE content = <<>>
  <2>1. TextsOf(section) = <<>>
    BY <1>4 DEF TextsOf, content
  <2>2. FlattenSeq(<<>>) = <<>> /\ <<>> \in Seq(Texts)
    BY EmptySeq DEF FlattenSeq
  <2> QED
    BY <1>1, <1>4, <2>1, <2>2, RetellsItself DEF content
<1>5. CASE content # <<>> /\ PrefixSize(path) + Len(content) <= MaxChunkSize
  <2>1. TextsOf(section) = <<content>>
    BY <1>5 DEF TextsOf, path, content
  <2>2. FlattenSeq(<<content>>) = content /\ <<content>> \in Seq(Texts)
    BY <1>1, FlattenOne DEF Texts
  <2> QED
    BY <1>1, <2>1, <2>2, RetellsItself DEF content
<1>6. CASE content # <<>> /\ ~(PrefixSize(path) + Len(content) <= MaxChunkSize)
  <2>1. TextsOf(section) = Split(content, size, overlap)
    BY <1>6 DEF TextsOf, path, content
  <2> HIDE DEF size, overlap
  <2>2. /\ Split(content, size, overlap) \in Seq(Texts)
        /\ Retells(FlattenSeq(Split(content, size, overlap)), content)
    BY <1>1, <1>2, <1>3, SplitRetells
  <2> QED
    BY <2>1, <2>2 DEF content
<1> QED
  BY <1>4, <1>5, <1>6

\* A text tells the letters in B: it has them, and each not before all that are less.
Tells(t, B) ==
    /\ \A x \in B : \E i \in DOMAIN t : t[i] = x
    /\ \A i \in DOMAIN t : t[i] > 0 => t[i] \in B
    /\ \A i \in DOMAIN t : \A x \in B : x < t[i] => \E k \in 1..i : t[k] = x

\* So does a text that retells it.
LEMMA RetellsTells ==
    ASSUME NEW t \in Texts, NEW u \in Texts, NEW B \in SUBSET (Nat \ {0}), Retells(t, u), Tells(u, B)
    PROVE  Tells(t, B)
<1>1. ASSUME NEW i \in DOMAIN t, t[i] > 0
      PROVE  \E j \in DOMAIN u : /\ u[j] = t[i]
                                 /\ \A m \in 1..j : u[m] > 0 => \E k \in 1..i : t[k] = u[m]
  BY <1>1, Zenon DEF Retells
<1>2. ASSUME NEW x \in B PROVE \E i \in DOMAIN t : t[i] = x
  <2>1. x > 0
    OBVIOUS
  <2>2. PICK j \in DOMAIN u : u[j] = x
    BY DEF Tells
  <2> QED
    BY <2>1, <2>2 DEF Retells
<1>3. ASSUME NEW i \in DOMAIN t, t[i] > 0 PROVE t[i] \in B
  <2>1. PICK j \in DOMAIN u : u[j] = t[i]
    BY <1>1, <1>3
  <2> QED
    BY <1>3, <2>1 DEF Tells
<1>4. ASSUME NEW i \in DOMAIN t, NEW x \in B, x < t[i] PROVE \E k \in 1..i : t[k] = x
  <2>1. x > 0 /\ t[i] > 0
    <3>1. t[i] \in Int /\ x \in Nat /\ x > 0
      BY PlacesOfText
    <3> QED
      BY <1>4, <3>1
  <2>2. PICK j \in DOMAIN u : /\ u[j] = t[i]
                              /\ \A m \in 1..j : u[m] > 0 => \E k \in 1..i : t[k] = u[m]
    BY <1>1, <2>1
  <2>3. PICK m \in 1..j : u[m] = x
    BY <1>4, <2>2 DEF Tells
  <2> QED
    BY <2>1, <2>2, <2>3
<1> QED
  BY <1>2, <1>3, <1>4 DEF Tells

\* A line that is no heading goes on with the letters that follow.
LEMMA LineTells ==
    ASSUME NEW p \in Seq(Lines), NEW l \in Lines,
           ~(l.mark = "heading" /\ Len(p) + 1 \notin Code(p)),
           NEW t \in Texts, Tells(t, BodyOf(p))
    PROVE  Tells(t \o TextOf(l, Len(p) + 1), BodyOf(Append(p, l)))
<1> DEFINE B == BodyOf(p)
           m == Len(p) + 1
           N == InkOf(l, m)
           w == TextOf(l, m)
           n == Len(l.ink)
           s == t \o w
           h == Len(t)
<1>1. B \in SUBSET (Nat \ {0}) /\ B \subseteq 1..10 * m - 1 /\ m \in Nat \ {0}
  <2>1. Len(p) \in Nat /\ 10 * Len(p) + 9 = 10 * m - 1
    OBVIOUS
  <2> QED
    BY <2>1, BodyIs DEF IsBody
<1>2. BodyOf(Append(p, l)) = B \cup N
  BY BodyGrows
<1>3. /\ Len(w) = n /\ n \in 0..9
      /\ \A i \in 1..n : (l.ink[i] => w[i] = 10 * m + i) /\ (~l.ink[i] => w[i] = Space)
  BY <1>1, InkIs
<1>4. N = {10 * m + i : i \in {j \in 1..n : l.ink[j]}}
  BY DEF InkOf, Width
<1>5. w \in Texts
  BY <1>1, TextOfType
<1>6. /\ h \in Nat /\ DOMAIN s = 1..h + n /\ DOMAIN t = 1..h
      /\ \A i \in 1..h : s[i] = t[i] /\ t[i] \in Int
      /\ \A i \in 1..n : s[h + i] = w[i]
  <2> HIDE DEF w, n
  <2> QED
    BY <1>3, <1>5, PlacesOfConcat, PlacesOfText
<1>7. /\ \A x \in B : \E i \in 1..h : t[i] = x
      /\ \A i \in 1..h : t[i] > 0 => t[i] \in B
      /\ \A i \in 1..h : \A x \in B : x < t[i] => \E k \in 1..i : t[k] = x
  BY <1>6 DEF Tells
<1> HIDE DEF B, N, m, w, n, s, h
<1>8. ASSUME NEW x \in N
      PROVE  \E j \in 1..n : x = 10 * m + j /\ w[j] = x /\ l.ink[j] /\ x > 10 * m /\ x \in Nat
  <2>1. PICK j \in 1..n : x = 10 * m + j /\ l.ink[j]
    BY <1>4
  <2>2. 10 * m + j > 10 * m /\ 10 * m + j \in Nat
    BY <1>1, <1>3
  <2> QED
    BY <1>3, <2>1, <2>2
<1>9. ASSUME NEW j \in 1..n, w[j] > 0 PROVE w[j] \in N /\ w[j] = 10 * m + j
  <2>1. l.ink[j]
    BY <1>3, <1>9 DEF Space
  <2> QED
    BY <1>3, <1>4, <2>1
<1>10. ASSUME NEW i \in 1..h + n PROVE i \in 1..h \/ \E j \in 1..n : i = h + j
  <2>1. CASE i <= h
    BY <1>6, <2>1
  <2>2. CASE ~(i <= h)
    <3>1. i - h \in 1..n /\ i = h + (i - h)
      BY <1>3, <1>6, <2>2
    <3> QED
      BY <3>1
  <2> QED
    BY <2>1, <2>2
<1>11. (\A i \in 1..h : i \in 1..h + n) /\ \A i \in 1..n : h + i \in 1..h + n
  BY <1>3, <1>6
<1>12. ASSUME NEW x \in B \cup N PROVE \E i \in DOMAIN s : s[i] = x
  <2>1. CASE x \in B
    BY <1>6, <1>7, <1>11, <2>1
  <2>2. CASE x \in N
    BY <1>6, <1>8, <1>11, <2>2
  <2> QED
    BY <2>1, <2>2
<1>13. ASSUME NEW i \in DOMAIN s, s[i] > 0 PROVE s[i] \in B \cup N
  <2>1. CASE i \in 1..h
    BY <1>6, <1>7, <1>13, <2>1
  <2>2. ASSUME NEW j \in 1..n, i = h + j PROVE s[i] \in N
    BY <1>6, <1>9, <1>13, <2>2
  <2> QED
    BY <1>6, <1>10, <2>1, <2>2
<1>14. ASSUME NEW i \in DOMAIN s, NEW x \in B \cup N, x < s[i] PROVE \E k \in 1..i : s[k] = x
  <2>0. x \in Nat /\ x > 0
    <3>1. x \in N => x > 10 * m /\ x \in Nat
      BY <1>8
    <3> QED
      BY <1>1, <3>1
  <2>1. CASE i \in 1..h
    <3>1. s[i] = t[i] /\ t[i] \in Int /\ t[i] > 0
      BY <1>6, <1>14, <2>0, <2>1
    <3>2. t[i] \in B
      BY <1>7, <2>1, <3>1
    <3>3. x \notin N
      <4>1. t[i] <= 10 * m - 1
        <5> DEFINE top == 10 * m - 1
        <5>1. top \in Int /\ B \subseteq 1..top
          BY <1>1
        <5> HIDE DEF top
        <5>2. t[i] \in 1..top
          BY <3>2, <5>1
        <5>3. t[i] <= top
          BY <5>1, <5>2
        <5> QED
          BY <5>3 DEF top
      <4>2. ~(x > 10 * m)
        BY <1>1, <1>14, <2>0, <3>1, <4>1
      <4> QED
        BY <1>8, <4>2
    <3>4. PICK k \in 1..i : t[k] = x
      BY <1>7, <1>14, <2>1, <3>1, <3>3
    <3>5. k \in 1..h
      BY <1>6, <2>1
    <3> QED
      BY <1>6, <3>4, <3>5
  <2>2. ASSUME NEW j \in 1..n, i = h + j PROVE \E k \in 1..i : s[k] = x
    <3>1. CASE x \in B
      <4>1. PICK k \in 1..h : t[k] = x
        BY <1>7, <3>1
      <4>2. k \in 1..i
        BY <1>3, <1>6, <2>2
      <4> QED
        BY <1>6, <4>1, <4>2
    <3>2. CASE x \in N
      <4>1. PICK g \in 1..n : x = 10 * m + g /\ w[g] = x
        BY <1>8, <3>2
      <4>2. s[i] = w[j] /\ w[j] > 0
        <5>1. s[i] = w[j] /\ x < w[j]
          BY <1>6, <1>14, <2>2
        <5>2. w[j] \in Int
          BY <1>1, <1>3 DEF Space
        <5> QED
          BY <2>0, <5>1, <5>2
      <4>3. w[j] = 10 * m + j
        BY <1>9, <4>2
      <4>4. g < j
        BY <1>1, <1>3, <1>14, <4>1, <4>2, <4>3
      <4>5. h + g \in 1..i
        BY <1>3, <1>6, <2>2, <4>4
      <4> QED
        BY <1>6, <4>1, <4>5
    <3> QED
      BY <3>1, <3>2
  <2> QED
    BY <1>6, <1>10, <2>1, <2>2
<1> QED
  BY <1>2, <1>12, <1>13, <1>14 DEF Tells, s, w, m

-----------------------------------------------------------------------------
(***************************************************************************)
(* The invariant of what is told.  The texts of the sections and the lines *)
(* that are kept tell the letters of the page; the chunks retell the texts *)
(* of the sections that were gone through.                                 *)
(***************************************************************************)
ContentsOf(ss) == [i \in DOMAIN ss |-> ss[i].content]
TextsIn(cs) == [k \in DOMAIN cs |-> cs[k].text]

LossInv ==
    /\ Tells(FlattenSeq(ContentsOf(sections)) \o FlattenSeq(content_lines), BodyOf(page))
    /\ next # 0 => /\ content_lines = <<>>
                   /\ Retells(FlattenSeq(TextsIn(chunks)),
                              FlattenSeq(ContentsOf(SubSeq(sections, 1, next - 1))))

\* The texts of sections, and of one more.
LEMMA ContentsGrow ==
    ASSUME NEW p, NEW ss \in Seq(SectionsOf(p)), NEW section \in SectionsOf(p)
    PROVE  /\ ContentsOf(ss) \in Seq(Texts) /\ section.content \in Texts
           /\ ContentsOf(Append(ss, section)) = Append(ContentsOf(ss), section.content)
           /\ ContentsOf(<<>>) = <<>>
<1> DEFINE n == Len(ss)
           S == SectionsOf(p)
           all == Append(ss, section)
           e(i) == ss[i].content
<1>1. ASSUME NEW u \in S PROVE u.content \in Texts
  BY DEF SectionsOf
<1> HIDE DEF S
<1>2. ss \in Seq(S) /\ section \in S
  BY DEF S
<1>3. /\ n \in Nat /\ DOMAIN ss = 1..n /\ DOMAIN all = 1..n + 1 /\ Len(all) = n + 1
      /\ all[n + 1] = section /\ \A i \in 1..n : all[i] = ss[i] /\ ss[i] \in S
  BY <1>2
<1> HIDE DEF n, all
<1>4. ASSUME NEW k \in Nat, NEW g, DOMAIN g = 1..k, \A i \in 1..k : g[i].content \in Texts
      PROVE  /\ ContentsOf(g) \in Seq(Texts) /\ Len(ContentsOf(g)) = k
             /\ \A i \in 1..k : ContentsOf(g)[i] = g[i].content
  <2> DEFINE c == ContentsOf(g)
             v(i) == g[i].content
  <2>1. c = [i \in 1..k |-> v(i)] /\ \A i \in 1..k : v(i) \in Texts
    BY <1>4 DEF ContentsOf
  <2> HIDE DEF c, v
  <2>2. c \in [1..k -> Texts] /\ DOMAIN c = 1..k /\ \A i \in 1..k : c[i] = v(i)
    BY <2>1
  <2>3. c \in Seq(Texts)
    BY <2>2, SeqDef
  <2>4. Len(c) = k
    BY <2>2, <2>3, LenProperties
  <2> QED
    BY <2>2, <2>3, <2>4 DEF c, v
<1>5. /\ ContentsOf(ss) \in Seq(Texts) /\ Len(ContentsOf(ss)) = n
      /\ \A i \in 1..n : ContentsOf(ss)[i] = ss[i].content
  BY <1>1, <1>3, <1>4
<1>6. /\ ContentsOf(all) \in Seq(Texts) /\ Len(ContentsOf(all)) = n + 1
      /\ \A i \in 1..n + 1 : ContentsOf(all)[i] = all[i].content
  <2>1. n + 1 \in Nat /\ \A i \in 1..n + 1 : i \in 1..n \/ i = n + 1
    BY <1>3
  <2>2. \A i \in 1..n + 1 : all[i].content \in Texts
    BY <1>1, <1>2, <1>3, <2>1
  <2> HIDE DEF all
  <2> QED
    BY <1>3, <1>4, <2>1, <2>2
<1>7. section.content \in Texts
  BY <1>1, <1>2
<1>8. ContentsOf(all) = Append(ContentsOf(ss), section.content)
  <2> DEFINE c == ContentsOf(ss)
             d == Append(c, section.content)
             x == section.content
  <2>1. /\ d \in Seq(Texts) /\ Len(d) = n + 1 /\ d[n + 1] = x /\ \A i \in 1..n : d[i] = c[i]
    <3>1. c \in Seq(Texts) /\ Len(c) = n /\ x \in Texts
      BY <1>5, <1>7
    <3> HIDE DEF c, x
    <3> QED
      BY <3>1, AppendProperties DEF x
  <2> HIDE DEF c, d, x
  <2>2. \A i \in 1..n + 1 : ContentsOf(all)[i] = d[i]
    <3>1. \A i \in 1..n + 1 : i \in 1..n \/ i = n + 1
      BY <1>3
    <3>2. \A i \in 1..n : i \in 1..n + 1
      BY <1>3
    <3>3. ContentsOf(all)[n + 1] = x
      BY <1>3, <1>6 DEF x
    <3>4. \A i \in 1..n : ContentsOf(all)[i] = c[i]
      BY <1>3, <1>5, <1>6, <3>2 DEF c
    <3> QED
      BY <2>1, <3>1, <3>3, <3>4
  <2>3. ContentsOf(all) = d
    BY <1>6, <2>1, <2>2, SeqEqual
  <2> QED
    BY <2>3 DEF d, c
<1>9. ContentsOf(<<>>) = <<>>
  BY DEF ContentsOf
<1> QED
  BY <1>5, <1>7, <1>8, <1>9 DEF all

\* The texts of the sections are texts.
LEMMA ContentsType ==
    ASSUME NEW p, NEW ss \in Seq(SectionsOf(p))
    PROVE  ContentsOf(ss) \in Seq(Texts)
<1> DEFINE n == Len(ss)
           S == SectionsOf(p)
           c == ContentsOf(ss)
<1>1. ASSUME NEW u \in S PROVE u.content \in Texts
  BY DEF SectionsOf
<1> HIDE DEF S
<1>2. n \in Nat /\ DOMAIN ss = 1..n /\ \A i \in 1..n : ss[i] \in S
  <2>1. ss \in Seq(S)
    BY DEF S
  <2> QED
    BY <2>1
<1> HIDE DEF n
<1>3. c \in [1..n -> Texts]
  BY <1>1, <1>2 DEF ContentsOf
<1> HIDE DEF c
<1>4. c \in Seq(Texts)
  BY <1>2, <1>3, SeqDef
<1> QED
  BY <1>4 DEF c

\* So are those of the chunks.
LEMMA TextsInType ==
    ASSUME NEW p, NEW cs \in Seq(ChunksOf(p))
    PROVE  TextsIn(cs) \in Seq(Texts)
<1> DEFINE n == Len(cs)
           S == ChunksOf(p)
           c == TextsIn(cs)
<1>1. ASSUME NEW u \in S PROVE u.text \in Texts
  BY DEF ChunksOf
<1> HIDE DEF S
<1>2. n \in Nat /\ DOMAIN cs = 1..n /\ \A i \in 1..n : cs[i] \in S
  <2>1. cs \in Seq(S)
    BY DEF S
  <2> QED
    BY <2>1
<1> HIDE DEF n
<1>3. c \in [1..n -> Texts]
  BY <1>1, <1>2 DEF TextsIn
<1> HIDE DEF c
<1>4. c \in Seq(Texts)
  BY <1>2, <1>3, SeqDef
<1> QED
  BY <1>4 DEF c

\* The texts of more chunks.
LEMMA TextsAdded ==
    ASSUME IInv, ChunkSection, TextsOf(sections[next]) \in Seq(Texts)
    PROVE  /\ TextsIn(chunks) \in Seq(Texts)
           /\ TextsIn(chunks') = TextsIn(chunks) \o TextsOf(sections[next])
<1> DEFINE section == sections[next]
           texts == TextsOf(section)
           e(i) == [chunk_index |-> StartIndex + i - 1, path |-> section.path, text |-> texts[i]]
           new == [i \in DOMAIN texts |-> e(i)]
           C == ChunksOf(page)
           n == Len(chunks)
           m == Len(texts)
<1>1. chunks \in Seq(C) /\ texts \in Seq(Texts)
  BY TypeParts DEF IInv
<1>2. chunks' = chunks \o new
  BY DEF ChunkSection
<1>3. ASSUME NEW c \in C PROVE c.text \in Texts
  BY <1>3 DEF ChunksOf
<1> HIDE DEF C, texts
<1>4. n \in Nat /\ m \in Nat /\ DOMAIN chunks = 1..n /\ DOMAIN texts = 1..m
  BY <1>1, LenProperties
<1>5. \A i : e(i).text = texts[i]
  OBVIOUS
<1> HIDE DEF e
<1> DEFINE E == {e(i) : i \in 1..m}
<1>6. new \in Seq(E) /\ Len(new) = m /\ \A i \in 1..m : new[i] = e(i)
  <2>1. new = [i \in 1..m |-> e(i)]
    BY <1>4
  <2>2. new \in [1..m -> E] /\ DOMAIN new = 1..m
    BY <2>1
  <2> HIDE DEF E, new, m
  <2>3. new \in Seq(E)
    BY <1>4, <2>2, SeqDef
  <2>4. Len(new) = m
    BY <1>4, <2>2, <2>3, LenProperties
  <2> QED
    BY <2>1, <2>3, <2>4
<1> DEFINE B == C \cup E
<1> HIDE DEF E, new, n, m
<1>7. chunks \in Seq(B) /\ new \in Seq(B)
  <2>1. C \subseteq B /\ E \subseteq B
    OBVIOUS
  <2> HIDE DEF B
  <2> QED
    BY <1>1, <1>6, <2>1, SeqMonotonic
<1> HIDE DEF B
<1>8. /\ DOMAIN chunks' = 1..n + m
      /\ \A k \in 1..n + m : chunks'[k] = IF k <= n THEN chunks[k] ELSE new[k - n]
  <2>1. /\ chunks \o new \in Seq(B) /\ Len(chunks \o new) = n + m
        /\ \A k \in 1..n + m : (chunks \o new)[k] = IF k <= n THEN chunks[k] ELSE new[k - n]
    BY <1>6, <1>7, ConcatProperties DEF n
  <2> QED
    BY <1>2, <2>1, LenProperties
<1> DEFINE old == TextsIn(chunks)
           all == TextsIn(chunks')
<1>9. old \in Seq(Texts) /\ Len(old) = n /\ \A i \in 1..n : old[i] = chunks[i].text
  <2>1. \A i \in 1..n : chunks[i] \in C
    BY <1>1, <1>4
  <2>2. old \in [1..n -> Texts] /\ DOMAIN old = 1..n /\ \A i \in 1..n : old[i] = chunks[i].text
    BY <1>3, <1>4, <2>1 DEF TextsIn
  <2> HIDE DEF old
  <2>3. old \in Seq(Texts)
    BY <1>4, <2>2, SeqDef
  <2>4. Len(old) = n
    BY <1>4, <2>2, <2>3, LenProperties
  <2> QED
    BY <2>2, <2>3, <2>4
<1>10. DOMAIN all = 1..n + m /\ \A k \in 1..n + m : all[k] = chunks'[k].text
  BY <1>8 DEF TextsIn
<1> DEFINE both == old \o texts
<1>11. /\ both \in Seq(Texts) /\ Len(both) = n + m
       /\ \A k \in 1..n + m : both[k] = IF k <= n THEN old[k] ELSE texts[k - n]
  <2> HIDE DEF old
  <2> QED
    BY <1>1, <1>9, ConcatProperties DEF m
<1> HIDE DEF old, all, both
<1>12. ASSUME NEW k \in 1..n + m PROVE all[k] = both[k]
  <2>1. CASE k <= n
    <3>1. k \in 1..n
      BY <1>4, <2>1
    <3> QED
      BY <1>8, <1>9, <1>10, <1>11, <2>1, <3>1
  <2>2. CASE ~(k <= n)
    <3>1. k - n \in 1..m
      BY <1>4, <2>2
    <3>2. chunks'[k] = e(k - n)
      BY <1>6, <1>8, <2>2, <3>1
    <3> QED
      BY <1>5, <1>10, <1>11, <2>2, <3>2
  <2> QED
    BY <2>1, <2>2
<1>13. all \in Seq(Texts) /\ Len(all) = n + m
  <2>1. n + m \in Nat
    BY <1>4
  <2>2. \A k \in 1..n + m : both[k] \in Texts
    BY <1>11
  <2>3. all = [k \in 1..n + m |-> all[k]]
    BY <1>10 DEF all, TextsIn
  <2>4. all \in [1..n + m -> Texts]
    BY <1>12, <2>2, <2>3
  <2>5. all \in Seq(Texts)
    BY <2>1, <2>4, SeqDef
  <2> QED
    BY <1>10, <2>1, <2>5, LenProperties
<1>14. all = both
  BY <1>11, <1>12, <1>13, SeqEqual
<1> QED
  BY <1>9, <1>14 DEF all, both, old, texts

\* A section that ends has the text of its lines, the white space around it left out.
LEMMA FinalizedTells ==
    ASSUME IInv, LossInv
    PROVE  /\ FlattenSeq(ContentsOf(Finalized)) \in Texts
           /\ Tells(FlattenSeq(ContentsOf(Finalized)), BodyOf(page))
<1> DEFINE lines == FlattenSeq(content_lines)
           content == Strip(Join(content_lines, <<Newline>>))
           section == [path |-> heading_stack, content |-> content]
           told == FlattenSeq(ContentsOf(sections))
<1>1. /\ page \in Seq(Lines) /\ content_lines \in Seq(Texts) /\ sections \in Seq(SectionsOf(page))
      /\ heading_stack \in Seq(DOMAIN page)
  BY TypeParts DEF IInv, HeadingsArePlaces
<1>2. <<Newline>> \in Texts /\ Blank(<<Newline>>)
  <2>1. <<Newline>> = Separators[2] /\ 2 \in 1..3 /\ 2 \in 1..4
    BY DEF Separators
  <2> QED
    BY <2>1, SeparatorsBlank, SeparatorsType
<1>3. Join(content_lines, <<Newline>>) \in Texts /\ content \in Texts /\ lines \in Texts
  BY <1>1, <1>2, TextsJoin, JoinType, StripType, FlattenTexts
<1>4. Retells(content, lines)
  <2>1. Retells(content, Join(content_lines, <<Newline>>))
    BY <1>3, StripRetells
  <2>2. Retells(Join(content_lines, <<Newline>>), lines)
    BY <1>1, <1>2, JoinRetells
  <2> QED
    BY <1>3, <2>1, <2>2, RetellsTwice
<1>5. section \in SectionsOf(page) /\ section.content = content
  <2> HIDE DEF content
  <2> QED
    BY <1>1, <1>3 DEF SectionsOf
<1>6. (Finalized = sections /\ content = <<>>) \/ Finalized = Append(sections, section)
  BY DEF Finalized
<1> HIDE DEF lines, content, section
<1>7. ContentsOf(sections) \in Seq(Texts) /\ told \in Texts
  BY <1>1, <1>5, ContentsGrow, FlattenTexts
<1>8. FlattenSeq(ContentsOf(Finalized)) = told \o content
  <2>1. CASE Finalized = sections /\ content = <<>>
    <3>1. told \o <<>> = told
      BY <1>7, NothingAdded
    <3> QED
      BY <2>1, <3>1
  <2>2. CASE Finalized = Append(sections, section)
    <3>1. ContentsOf(Finalized) = Append(ContentsOf(sections), content)
      BY <1>1, <1>5, <2>2, ContentsGrow
    <3> QED
      BY <1>3, <1>7, <3>1, OneTextMore
  <2> QED
    BY <1>6, <2>1, <2>2
<1> HIDE DEF told
<1>9. Retells(told \o content, told \o lines) /\ told \o content \in Texts /\ told \o lines \in Texts
  BY <1>3, <1>4, <1>7, RetellsItself, RetellsConcat, TextConcat
<1>10. Tells(told \o lines, BodyOf(page))
  BY DEF LossInv, told, lines
<1>11. BodyOf(page) \in SUBSET (Nat \ {0})
  BY <1>1, BodyIs DEF IsBody
<1>12. Tells(told \o content, BodyOf(page))
  BY <1>9, <1>10, <1>11, RetellsTells
<1> QED
  BY <1>8, <1>9, <1>12

\* In the beginning there is nothing to tell.
LEMMA InitLoss == Init => LossInv
<1> SUFFICES ASSUME Init PROVE LossInv
  OBVIOUS
<1>1. content_lines = <<>> /\ sections = <<>> /\ page = <<>> /\ next = 0
  BY DEF Init
<1>2. DOMAIN <<>> = {}
  <2>1. DOMAIN <<>> = 1..0
    BY EmptySeq, LenProperties
  <2>2. 1..0 = {}
    OBVIOUS
  <2> QED
    BY <2>1, <2>2, Zenon
<1>3. BodyOf(<<>>) = {}
  BY <1>2 DEF BodyOf
<1>4. ContentsOf(<<>>) = <<>> /\ FlattenSeq(<<>>) = <<>>
  BY <1>2 DEF ContentsOf, FlattenSeq
<1>5. <<>> \o <<>> = <<>>
  BY TextsAssociate, EmptySeq DEF Texts
<1>6. FlattenSeq(ContentsOf(sections)) \o FlattenSeq(content_lines) = <<>> /\ BodyOf(page) = {}
  BY <1>1, <1>3, <1>4, <1>5
<1>7. Tells(<<>>, {})
  BY <1>2 DEF Tells
<1> QED
  BY <1>1, <1>6, <1>7 DEF LossInv

\* A line that becomes text goes on with the letters of the page.
LEMMA LineKeepsLoss ==
    ASSUME IInv, PathInv, LossInv, NEW l \in Lines, Reads(l), Keeps(l),
           ~(l.mark = "heading" /\ fence = None),
           UNCHANGED <<sections, next, chunks>>
    PROVE  LossInv'
<1> DEFINE told == FlattenSeq(ContentsOf(sections))
           lines == FlattenSeq(content_lines)
           w == TextOf(l, Len(page) + 1)
<1>1. /\ page \in Seq(Lines) /\ page' = Append(page, l) /\ next = 0 /\ next' = 0
      /\ content_lines \in Seq(Texts) /\ sections \in Seq(SectionsOf(page))
  BY TypeParts DEF IInv, Reads
<1>2. ~(l.mark = "heading" /\ Len(page) + 1 \notin Code(page))
  <2> SUFFICES ASSUME fence # None PROVE Len(page) + 1 \in Code(page)
    OBVIOUS
  <2>1. PICK f \in 1..Len(page) : Opens(Code(page), page, f, Len(page) + 1)
    BY DEF PathInv, FenceAt
  <2>2. Len(page) + 1 \in Nat /\ f \in 1..(Len(page) + 1) - 1
    BY <1>1
  <2> QED
    BY <2>1, <2>2, CodeIs
<1>3. w \in Texts
  <2>1. Len(page) + 1 \in Nat
    BY <1>1
  <2> QED
    BY <2>1, TextOfType
<1>4. told \in Texts /\ lines \in Texts
  <2>1. ContentsOf(sections) \in Seq(Texts)
    BY <1>1, ContentsType
  <2> QED
    BY <1>1, <2>1, FlattenTexts
<1>5. content_lines' = Append(content_lines, w) /\ sections' = sections
  BY DEF Keeps
<1> HIDE DEF w
<1>6. FlattenSeq(content_lines') = lines \o w
  BY <1>1, <1>3, <1>5, OneTextMore
<1>7. Tells(told \o lines, BodyOf(page))
  BY DEF LossInv
<1>8. told \o lines \in Texts /\ (told \o lines) \o w = told \o (lines \o w)
  <2> HIDE DEF told, lines
  <2>1. (told \o lines) \o w = told \o (lines \o w)
    BY <1>3, <1>4, ThreeTexts, Zenon
  <2> QED
    BY <1>4, <2>1, TextConcat
<1>9. Tells((told \o lines) \o w, BodyOf(page'))
  <2> HIDE DEF told, lines
  <2> QED
    BY <1>1, <1>2, <1>7, <1>8, LineTells DEF w
<1>10. Tells(FlattenSeq(ContentsOf(sections')) \o FlattenSeq(content_lines'), BodyOf(page'))
  BY <1>5, <1>6, <1>8, <1>9
<1> QED
  BY <1>1, <1>10 DEF LossInv

\* A heading ends a section and none of its letters is told.
LEMMA HeadingKeepsLoss ==
    ASSUME IInv, PathInv, LossInv, NEW l \in Lines, HeadingLine(l)
    PROVE  LossInv'
<1>1. /\ page \in Seq(Lines) /\ page' = Append(page, l) /\ next' = 0
      /\ sections' = Finalized /\ content_lines' = <<>>
      /\ l.mark = "heading" /\ fence = None
  BY TypeParts DEF IInv, HeadingLine, Reads
<1>2. Len(page) + 1 \notin Code(page)
  BY <1>1 DEF PathInv, FenceAt
<1>3. BodyOf(page') = BodyOf(page)
  BY <1>1, <1>2, BodyGrows
<1>4. /\ FlattenSeq(ContentsOf(sections')) \in Texts
      /\ Tells(FlattenSeq(ContentsOf(sections')), BodyOf(page'))
  BY <1>1, <1>3, FinalizedTells
<1>5. FlattenSeq(content_lines') = <<>>
  BY <1>1 DEF FlattenSeq
<1>6. FlattenSeq(ContentsOf(sections')) \o <<>> = FlattenSeq(ContentsOf(sections'))
  BY <1>4, NothingAdded
<1> QED
  BY <1>1, <1>4, <1>5, <1>6 DEF LossInv

\* At the end the last section is added, and no section is gone through.
LEMMA EndKeepsLoss ==
    ASSUME IInv, WordInv, LossInv, EndOfPage
    PROVE  LossInv'
<1>1. /\ next' = 1 /\ sections' = Finalized /\ content_lines' = <<>> /\ page' = page
      /\ chunks' = <<>>
  BY DEF EndOfPage, WordInv
<1>2. /\ FlattenSeq(ContentsOf(sections')) \in Texts
      /\ Tells(FlattenSeq(ContentsOf(sections')), BodyOf(page'))
  BY <1>1, FinalizedTells
<1>3. FlattenSeq(content_lines') = <<>>
  BY <1>1 DEF FlattenSeq
<1>4. FlattenSeq(ContentsOf(sections')) \o <<>> = FlattenSeq(ContentsOf(sections'))
  BY <1>2, NothingAdded
<1>5. SubSeq(sections', 1, next' - 1) = <<>>
  <2>1. sections' \in Seq(SectionsOf(page))
    BY <1>1, FinalizedType DEF IInv
  <2>2. next' - 1 = 0
    BY <1>1
  <2>3. 0 \in 0..Len(sections')
    BY <2>1
  <2> QED
    BY <2>1, <2>2, <2>3, OneByOne
<1>6. TextsIn(<<>>) = <<>> /\ ContentsOf(<<>>) = <<>> /\ FlattenSeq(<<>>) = <<>>
  BY DEF TextsIn, ContentsOf, FlattenSeq
<1>7. Retells(<<>>, <<>>)
  BY RetellsItself, EmptySeq DEF Texts
<1>8. Retells(FlattenSeq(TextsIn(chunks')), FlattenSeq(ContentsOf(SubSeq(sections', 1, next' - 1))))
  BY <1>1, <1>5, <1>6, <1>7
<1> QED
  BY <1>1, <1>2, <1>3, <1>4, <1>8 DEF LossInv

\* The chunks of a section retell its text, behind those of the sections before.
LEMMA ChunkingKeepsLoss ==
    ASSUME IInv, LossInv, ChunkSection
    PROVE  LossInv'
<1> DEFINE section == sections[next]
           texts == TextsOf(section)
           before == SubSeq(sections, 1, next - 1)
           old == TextsIn(chunks)
<1>1. /\ page \in Seq(Lines) /\ sections \in Seq(SectionsOf(page))
      /\ next \in 1..Len(sections) /\ next \in Nat \ {0} /\ Len(sections) \in Nat
  <2>1. sections \in Seq(SectionsOf(page)) /\ page \in Seq(Lines) /\ next \in DOMAIN sections
    BY TypeParts DEF IInv, ChunkSection
  <2> QED
    BY <2>1, LenProperties
<1>2. next' = next + 1 /\ UNCHANGED <<page, content_lines, sections>>
  BY DEF ChunkSection, parserVars
<1>3. section \in SectionsOf(page)
  BY <1>1
<1>4. texts \in Seq(Texts) /\ Retells(FlattenSeq(texts), section.content)
  BY <1>3, TextsOfRetells
<1>5. old \in Seq(Texts) /\ TextsIn(chunks') = old \o texts
  BY <1>4, TextsAdded
<1>6. before \in Seq(SectionsOf(page)) /\ SubSeq(sections, 1, next' - 1) = Append(before, section)
  <2> DEFINE k == next - 1
  <2>1. k \in 0..Len(sections) /\ k < Len(sections) /\ k + 1 = next
    BY <1>1
  <2> HIDE DEF k
  <2>2. SubSeq(sections, 1, k) \in Seq(SectionsOf(page))
        /\ SubSeq(sections, 1, k + 1) = Append(SubSeq(sections, 1, k), sections[k + 1])
    BY <1>1, <2>1, OneByOne
  <2>3. next' - 1 = k + 1
    BY <1>1, <1>2, <2>1
  <2> QED
    BY <2>1, <2>2, <2>3 DEF k
<1>7. Retells(FlattenSeq(old), FlattenSeq(ContentsOf(before)))
  BY <1>1 DEF LossInv
<1> HIDE DEF texts, before, old, section
<1>8. /\ ContentsOf(before) \in Seq(Texts) /\ section.content \in Texts
      /\ ContentsOf(Append(before, section)) = Append(ContentsOf(before), section.content)
  BY <1>3, <1>6, ContentsGrow
<1>9. FlattenSeq(ContentsOf(Append(before, section))) = FlattenSeq(ContentsOf(before)) \o section.content
  BY <1>8, OneTextMore
<1>10. FlattenSeq(old \o texts) = FlattenSeq(old) \o FlattenSeq(texts)
  <2>1. old \in Seq(Seq(Int)) /\ texts \in Seq(Seq(Int))
    BY <1>4, <1>5 DEF Texts
  <2> QED
    BY <2>1, FlattenConcat
<1>11. FlattenSeq(old) \in Texts /\ FlattenSeq(texts) \in Texts /\ FlattenSeq(ContentsOf(before)) \in Texts
  BY <1>4, <1>5, <1>8, FlattenTexts
<1>12. Retells(FlattenSeq(old) \o FlattenSeq(texts), FlattenSeq(ContentsOf(before)) \o section.content)
  BY <1>4, <1>7, <1>8, <1>11, RetellsConcat
<1>13. Retells(FlattenSeq(TextsIn(chunks')), FlattenSeq(ContentsOf(SubSeq(sections', 1, next' - 1))))
  BY <1>2, <1>5, <1>6, <1>9, <1>10, <1>12
<1>14. content_lines = <<>> /\ Tells(FlattenSeq(ContentsOf(sections)) \o FlattenSeq(content_lines), BodyOf(page))
  BY <1>1 DEF LossInv
<1> QED
  BY <1>2, <1>13, <1>14 DEF LossInv

\* Every step keeps the invariant of what is told.
LEMMA NextLoss == IInv /\ PathInv /\ WordInv /\ LossInv /\ [Next]_vars => LossInv'
<1> SUFFICES ASSUME IInv, PathInv, WordInv, LossInv, [Next]_vars PROVE LossInv'
  OBVIOUS
<1>1. ASSUME NEW l \in Lines, FenceLine(l) PROVE LossInv'
  <2>1. l.mark # "heading"
    BY <1>1 DEF FenceLine
  <2> QED
    BY <1>1, <2>1, LineKeepsLoss DEF FenceLine
<1>2. ASSUME NEW l \in Lines, TextLine(l) PROVE LossInv'
  <2>1. ~(l.mark = "heading" /\ fence = None)
    BY <1>2 DEF TextLine
  <2> QED
    BY <1>2, <2>1, LineKeepsLoss DEF TextLine
<1>3. ASSUME NEW l \in Lines, HeadingLine(l) PROVE LossInv'
  BY <1>3, HeadingKeepsLoss
<1>4. CASE EndOfPage
  BY <1>4, EndKeepsLoss
<1>5. CASE ChunkSection
  BY <1>5, ChunkingKeepsLoss
<1>6. CASE UNCHANGED vars
  BY <1>6 DEF vars, parserVars, LossInv
<1> QED
  BY <1>1, <1>2, <1>3, <1>4, <1>5, <1>6 DEF Next

\* When all sections are gone through the chunks tell the letters of the page.
LEMMA NothingLost == IInv /\ LossInv => NothingIsLost
<1> SUFFICES ASSUME IInv, LossInv, Done PROVE LET all == FlattenSeq(TextsIn(chunks))
                                                  body == BodyLetters
                                              IN /\ LettersIn(all) = body
                                                 /\ \A i \in DOMAIN all : \A x \in body :
                                                       x < all[i] => \E k \in 1..i : all[k] = x
  BY DEF NothingIsLost, TextsIn
<1> DEFINE all == FlattenSeq(TextsIn(chunks))
           told == FlattenSeq(ContentsOf(sections))
<1>1. page \in Seq(Lines) /\ sections \in Seq(SectionsOf(page)) /\ chunks \in Seq(ChunksOf(page))
  BY TypeParts DEF IInv
<1>2. BodyLetters = BodyOf(page) /\ BodyOf(page) \in SUBSET (Nat \ {0})
  BY <1>1, BodyLettersAre, BodyIs DEF IsBody
<1>3. next # 0 /\ SubSeq(sections, 1, next - 1) = sections
  <2>1. Len(sections) \in Nat /\ SubSeq(sections, 1, Len(sections)) = sections
    BY <1>1, OneByOne
  <2>2. next # 0 /\ next - 1 = Len(sections)
    BY <2>1 DEF Done
  <2> QED
    BY <2>1, <2>2
<1>4. told \in Texts
  BY <1>1, ContentsType, FlattenTexts
<1>5. all \in Texts
  BY <1>1, TextsInType, FlattenTexts
<1>6. Retells(all, told) /\ Tells(told \o FlattenSeq(content_lines), BodyOf(page)) /\ content_lines = <<>>
  BY <1>3 DEF LossInv
<1>7. told \o FlattenSeq(content_lines) = told
  <2>1. FlattenSeq(content_lines) = <<>>
    BY <1>6 DEF FlattenSeq
  <2> QED
    BY <1>4, <2>1, NothingAdded
<1> HIDE DEF all, told
<1>8. Tells(all, BodyOf(page))
  BY <1>2, <1>4, <1>5, <1>6, <1>7, RetellsTells
<1>9. LettersIn(all) = BodyOf(page)
  <2>1. \A x \in BodyOf(page) : x > 0
    BY <1>2
  <2> QED
    BY <1>8, <2>1 DEF Tells, LettersIn, Range
<1> QED
  BY <1>2, <1>8, <1>9 DEF Tells, all

\* chunk: the overlap and the cuts lose no letter of the page that is not a heading, make
\* none up, and change the order of none: leaving repetitions out, the chunks read like
\* the page.
THEOREM NothingEverLost == Spec => []NothingIsLost
<1>1. Init => IInv /\ PathInv /\ WordInv /\ LossInv
  BY InitIInv, InitPaths, InitWords, InitLoss
<1>2. IInv /\ PathInv /\ WordInv /\ LossInv /\ [Next]_vars
         => IInv' /\ PathInv' /\ WordInv' /\ LossInv'
  BY NextIInv, NextPaths, NextWords, NextLoss
<1> QED
  BY <1>1, <1>2, NothingLost, PTL DEF Spec
=============================================================================
