--------------------------- MODULE EmbeddingProofs --------------------------
(***************************************************************************)
(* Proofs about Embedding, for any documents, numbers of chunks, batch     *)
(* size, retries, deliveries and processes.                                *)
(***************************************************************************)
EXTENDS Embedding, SequenceTheorems, TLAPS

\* The vectors of the first n chunks, each at its own place.
First(n) == [k \in 1..n |-> k]

Storing == {"exists", "create", "info", "doc_id", "docset", "upsert"}

\* What a run has collected when it sends a slice, and when it comes to the vector store.
Collected(r) ==
    /\ pc[r] \in {"post", "backoff"} => next[r] < chunks[r] /\ vectors[r] = First(next[r])
    /\ pc[r] \in Storing => vectors[r] = First(chunks[r])

\* What stands in the vector store for a run: no point is of a later delivery than this one.
Stored(r) ==
    /\ \A i \in 1..Len(points[r]) : points[r][i].chunk = i /\ points[r][i].delivery <= delivery[r]
    /\ \A i, k \in 1..Len(points[r]) : i < k => points[r][k].delivery <= points[r][i].delivery
    /\ pc[r] = "done" =>
          /\ chunks[r] <= Len(points[r])
          /\ \A i \in 1..chunks[r] : points[r][i].delivery = delivery[r]

Placed == \A r \in Runs : Collected(r) /\ Stored(r)

\* What a process knows of the collection, which only grows.
Ready(p) ==
    /\ schema[p] \subseteq collection.indexes
    /\ pc[p] \in {"info", "doc_id", "docset", "upsert"} => collection.exists
    /\ pc[p] \in {"docset", "upsert"} => "doc_id" \in collection.indexes
    /\ pc[p] = "upsert" => "docset" \in collection.indexes

Indexed == PointsAreIndexed /\ \A p \in Processes : Ready(p)

-----------------------------------------------------------------------------
\* The first n chunks are a sequence of n numbers.
LEMMA FirstSeq == \A n \in Nat : First(n) \in Seq(Nat) /\ Len(First(n)) = n
<1> SUFFICES ASSUME NEW n \in Nat PROVE First(n) \in Seq(Nat) /\ Len(First(n)) = n
  OBVIOUS
<1>1. First(n) \in [1..n -> Nat]
  BY DEF First
<1> QED
  BY <1>1 DEF First

\* Chunks n+1 to n+m after the first n.
LEMMA Concatenated ==
    ASSUME NEW n \in Nat, NEW m \in Nat
    PROVE  First(n) \o [k \in 1..m |-> n + k] = First(n + m)
<1> DEFINE t == [k \in 1..m |-> n + k]
<1>1. First(n) \in Seq(Nat) /\ Len(First(n)) = n
  BY FirstSeq
<1>2. t \in Seq(Nat) /\ Len(t) = m
  <2>1. t \in [1..m -> Nat]
    OBVIOUS
  <2> QED
    BY <2>1
<1>3. /\ First(n) \o t \in Seq(Nat) /\ Len(First(n) \o t) = n + m
      /\ \A k \in 1..n + m : (First(n) \o t)[k] = k
  <2> HIDE DEF t
  <2>1. /\ First(n) \o t \in Seq(Nat) /\ Len(First(n) \o t) = n + m
        /\ \A k \in 1..n + m : (First(n) \o t)[k] = IF k <= n THEN First(n)[k] ELSE t[k - n]
    BY <1>1, <1>2, ConcatProperties
  <2>2. ASSUME NEW k \in 1..n + m PROVE (First(n) \o t)[k] = k
    <3>1. CASE k <= n
      BY <2>1, <3>1 DEF First
    <3>2. CASE k > n
      <4>1. k - n \in 1..m
        BY <3>2
      <4>2. t[k - n] = k
        BY <4>1 DEF t
      <4> QED
        BY <2>1, <3>2, <4>2
    <3>3. k <= n \/ k > n
      OBVIOUS
    <3> QED
      BY <3>1, <3>2, <3>3
  <2> QED
    BY <2>1, <2>2
<1>4. First(n + m) \in Seq(Nat) /\ Len(First(n + m)) = n + m /\ \A k \in 1..n + m : First(n + m)[k] = k
  BY FirstSeq DEF First
<1> HIDE DEF t
<1>5. First(n) \o t = First(n + m)
  BY <1>3, <1>4, SeqEqual
<1> QED
  BY <1>5 DEF t

\* A slice is not empty and ends within the chunks.
LEMMA SizeType ==
    ASSUME TypeOK, NEW r \in Runs, next[r] < chunks[r]
    PROVE  Size(r) \in Nat \ {0} /\ next[r] + Size(r) <= chunks[r]
  BY EmbeddingAssumption DEF TypeOK, Size

\* An answer of the embedding server is a sequence of vectors.
LEMMA AnswerType ==
    ASSUME TypeOK, NEW r \in Runs, NEW n \in Nat
    PROVE  Answer(r, n) \in Seq(Nat)
<1>1. Size(r) \in Int
  BY EmbeddingAssumption DEF TypeOK, Size
<1>2. Answer(r, n) \in [1..n -> Nat]
  BY <1>1 DEF Answer, TypeOK
<1> QED
  BY <1>2

\* What Qdrant holds are points.
LEMMA ElementsArePoints ==
    ASSUME TypeOK, NEW r \in Runs, NEW i \in 1..Len(points[r])
    PROVE  /\ points[r][i] \in [delivery : Nat, chunk : Nat]
           /\ points[r][i].delivery \in Nat
<1> DEFINE S == [delivery : Nat, chunk : Nat]
<1>1. points[r] \in Seq(S)
  BY DEF TypeOK
<1>2. points[r][i] \in S
  <2> HIDE DEF S
  <2> QED
    BY <1>1, ElementOfSeq
<1> QED
  BY <1>2

\* What Qdrant holds once this delivery has written its points.
LEMMA WrittenPoints ==
    ASSUME TypeOK, NEW r \in Runs
    PROVE  /\ Written(r) \in Seq([delivery : Nat, chunk : Nat])
           /\ Len(Written(r)) >= Len(vectors[r])
           /\ \A i \in 1..Len(Written(r)) :
                 Written(r)[i] = IF i <= Len(vectors[r])
                                 THEN [delivery |-> delivery[r], chunk |-> vectors[r][i]]
                                 ELSE points[r][i]
           /\ \A i \in 1..Len(Written(r)) : i > Len(vectors[r]) => i \in 1..Len(points[r])
<1> DEFINE new == Len(vectors[r])
           old == Len(points[r])
           size == IF new < old THEN old ELSE new
           Point(i) == IF i <= new THEN [delivery |-> delivery[r], chunk |-> vectors[r][i]]
                       ELSE points[r][i]
<1>1. new \in Nat /\ old \in Nat /\ size \in Nat
  BY DEF TypeOK
<1>2. Written(r) = [i \in 1..size |-> Point(i)]
  BY DEF Written
<1>3. \A i \in 1..size : Point(i) \in [delivery : Nat, chunk : Nat]
  <2> SUFFICES ASSUME NEW i \in 1..size PROVE Point(i) \in [delivery : Nat, chunk : Nat]
    OBVIOUS
  <2>1. CASE i <= new
    <3>1. i \in 1..Len(vectors[r]) /\ vectors[r] \in Seq(Nat) /\ delivery[r] \in Nat
      BY <1>1, <2>1 DEF TypeOK
    <3>2. vectors[r][i] \in Nat
      BY <3>1, ElementOfSeq
    <3> QED
      BY <2>1, <3>1, <3>2
  <2>2. CASE ~(i <= new)
    <3>1. i \in 1..Len(points[r])
      BY <1>1, <2>2
    <3> QED
      BY <2>2, <3>1, ElementsArePoints
  <2> QED
    BY <2>1, <2>2
<1>4. Written(r) \in [1..size -> [delivery : Nat, chunk : Nat]]
  BY <1>2, <1>3
<1>5. Written(r) \in Seq([delivery : Nat, chunk : Nat]) /\ Len(Written(r)) = size
  <2> DEFINE S == [delivery : Nat, chunk : Nat]
  <2>1. Written(r) \in [1..size -> S]
    BY <1>4
  <2> HIDE DEF S, size
  <2>2. Written(r) \in Seq(S) /\ Len(Written(r)) = size
    BY <1>1, <2>1
  <2> QED
    BY <2>2 DEF S, size
<1> QED
  BY <1>1, <1>2, <1>5

\* Going on to another call keeps the types.
LEMMA GoesType ==
    ASSUME TypeOK, NEW p \in Processes, NEW step \in Steps, Goes(p, step)
    PROVE  pc' \in [Processes -> Steps] /\ \A q \in Processes : pc'[q] = IF q = p THEN step ELSE pc[q]
  BY DEF TypeOK, Goes

\* The initial states.
LEMMA InitOK == Init => TypeOK /\ Placed /\ Indexed
<1> SUFFICES ASSUME Init PROVE TypeOK /\ Placed /\ Indexed
  OBVIOUS
<1>1. TypeOK
  <2>1. <<>> \in Seq(Nat) /\ "begin" \in Steps
    BY DEF Steps
  <2>2. collection \in [exists : BOOLEAN, indexes : SUBSET Fields]
    <3>1. {} \in SUBSET Fields /\ {"doc_id"} \in SUBSET Fields
      BY DEF Fields
    <3>2. /\ [exists |-> FALSE, indexes |-> {}] \in [exists : BOOLEAN, indexes : SUBSET Fields]
          /\ [exists |-> TRUE, indexes |-> {}] \in [exists : BOOLEAN, indexes : SUBSET Fields]
          /\ [exists |-> TRUE, indexes |-> {"doc_id"}] \in [exists : BOOLEAN, indexes : SUBSET Fields]
      BY <3>1
    <3> QED
      BY <3>2 DEF Init
  <2>3. pc \in [Processes -> Steps] /\ schema \in [Processes -> SUBSET Fields]
    BY <2>1 DEF Init
  <2>4. 0 \in 0..MaxRetries /\ 0 \in 0..MaxStops
    BY EmbeddingAssumption
  <2>5. attempt \in [Runs -> 0..MaxRetries] /\ stops \in 0..MaxStops
    BY <2>4 DEF Init
  <2>6. next \in [Runs -> Nat] /\ chunks \in [Runs -> 0..MaxChunks]
    BY EmbeddingAssumption DEF Init
  <2>7. /\ vectors \in [Runs -> Seq(Nat)] /\ delivery \in [Runs -> Nat]
        /\ points \in [Runs -> Seq([delivery : Nat, chunk : Nat])]
    BY <2>1 DEF Init
  <2> QED
    BY <2>2, <2>3, <2>5, <2>6, <2>7 DEF TypeOK
<1>2. Placed
  <2> SUFFICES ASSUME NEW r \in Runs PROVE Collected(r) /\ Stored(r)
    BY DEF Placed
  <2>1. Len(points[r]) = 0 /\ pc[r] = "begin"
    BY DEF Init, Processes
  <2>2. 1..Len(points[r]) = {}
    BY <2>1
  <2> QED
    BY <2>1, <2>2 DEF Collected, Stored, Storing
<1>3. Indexed
  BY DEF Init, Indexed, PointsAreIndexed, Ready
<1> QED
  BY <1>1, <1>2, <1>3

-----------------------------------------------------------------------------
(***************************************************************************)
(* Types.                                                                  *)
(***************************************************************************)

\* Every step keeps the types.
LEMMA StepType == TypeOK /\ Placed /\ [Next]_vars => TypeOK'
<1> SUFFICES ASSUME TypeOK, Placed, [Next]_vars PROVE TypeOK'
  OBVIOUS
<1> USE DEF Processes
<1>1. ASSUME NEW r \in Runs, Embed(r) PROVE TypeOK'
  <2>1. CASE Begin(r)
    <3>1. PICK n \in 0..MaxChunks : /\ chunks' = [chunks EXCEPT ![r] = n]
                                    /\ Goes(r, IF n = 0 THEN "done" ELSE "post")
      BY <2>1 DEF Begin
    <3>2. pc' \in [Processes -> Steps]
      <4>1. (IF n = 0 THEN "done" ELSE "post") \in Steps
        BY DEF Steps
      <4> QED
        BY <3>1, <4>1, GoesType
    <3>6. chunks' \in [Runs -> 0..MaxChunks] /\ delivery' \in [Runs -> Nat]
      BY <2>1, <3>1 DEF Begin, TypeOK
    <3>3. <<>> \in Seq(Nat) /\ 0 \in 0..MaxRetries
      BY EmbeddingAssumption
    <3>4. next' \in [Runs -> Nat] /\ attempt' \in [Runs -> 0..MaxRetries]
      BY <2>1, <3>3 DEF Begin, TypeOK
    <3>5. vectors' \in [Runs -> Seq(Nat)]
      BY <2>1, <3>3 DEF Begin, TypeOK
    <3> QED
      BY <2>1, <3>2, <3>4, <3>5, <3>6 DEF Begin, NoStore, TypeOK
  <2>2. CASE Extend(r)
    <3>1. (IF next'[r] < chunks[r] THEN "post" ELSE "exists") \in Steps
      BY DEF Steps
    <3>2. pc' \in [Processes -> Steps]
      BY <2>2, <3>1, GoesType DEF Extend
    <3>3. PICK n \in 0..Size(r) + 1 : vectors' = [vectors EXCEPT ![r] = @ \o Answer(r, n)]
      BY <2>2 DEF Extend
    <3>4. vectors[r] \o Answer(r, n) \in Seq(Nat)
      BY AnswerType, ConcatProperties DEF TypeOK
    <3>5. vectors' \in [Runs -> Seq(Nat)]
      BY <3>3, <3>4 DEF TypeOK
    <3>6. next' \in [Runs -> Nat]
      BY <2>2, EmbeddingAssumption DEF Extend, TypeOK
    <3>7. attempt' \in [Runs -> 0..MaxRetries]
      BY <2>2, EmbeddingAssumption DEF Extend, TypeOK
    <3> QED
      BY <2>2, <3>2, <3>5, <3>6, <3>7 DEF Extend, NoStore, TypeOK
  <2>3. CASE Refuse(r)
    <3>1. pc' \in [Processes -> Steps]
      BY <2>3, GoesType DEF Refuse, Steps
    <3> QED
      BY <2>3, <3>1 DEF Refuse, NoEmbedding, NoStore, TypeOK
  <2>4. CASE Retry(r)
    <3>1. pc' \in [Processes -> Steps]
      BY <2>4, GoesType DEF Retry, Steps
    <3>2. attempt' \in [Runs -> 0..MaxRetries]
      <4>1. attempt[r] < MaxRetries => attempt[r] + 1 \in 0..MaxRetries
        BY EmbeddingAssumption DEF TypeOK
      <4> QED
        BY <2>4, <4>1 DEF Retry, TypeOK
    <3> QED
      BY <2>4, <3>1, <3>2 DEF Retry, NoStore, TypeOK
  <2>5. CASE Wake(r)
    <3>1. pc' \in [Processes -> Steps]
      BY <2>5, GoesType DEF Wake, Steps
    <3> QED
      BY <2>5, <3>1 DEF Wake, NoEmbedding, NoStore, TypeOK
  <2> QED
    BY <1>1, <2>1, <2>2, <2>3, <2>4, <2>5 DEF Embed
<1>2. ASSUME NEW r \in Runs, Upsert(r) \/ UpsertUnanswered(r) PROVE TypeOK'
  <2>1. pc' \in [Processes -> Steps]
    BY <1>2, GoesType DEF Upsert, UpsertUnanswered, Steps
  <2>2. Written(r) \in Seq([delivery : Nat, chunk : Nat])
    BY WrittenPoints
  <2>3. points' = [points EXCEPT ![r] = Written(r)] \/ UNCHANGED points
    BY <1>2 DEF Upsert, UpsertUnanswered
  <2>4. points' \in [Runs -> Seq([delivery : Nat, chunk : Nat])]
    BY <2>2, <2>3 DEF TypeOK
  <2> QED
    BY <1>2, <2>1, <2>4 DEF Upsert, UpsertUnanswered, NoEmbedding, TypeOK
<1>3. ASSUME NEW p \in Processes, Initialize(p) PROVE TypeOK'
  <2>1. CASE CheckExists(p)
    <3>1. (IF collection.exists THEN "info" ELSE "create") \in Steps
      BY DEF Steps
    <3>2. pc' \in [Processes -> Steps]
      BY <2>1, <3>1, GoesType DEF CheckExists
    <3> QED
      BY <2>1, <3>2 DEF CheckExists, NoEmbedding, NoStore, TypeOK
  <2>2. CASE CreateCollection(p)
    <3>1. pc' \in [Processes -> Steps]
      BY <2>2, GoesType DEF CreateCollection, Steps
    <3> QED
      BY <2>2, <3>1 DEF CreateCollection, NoEmbedding, TypeOK
  <2>3. CASE ReadSchema(p)
    <3>1. pc' \in [Processes -> Steps]
      BY <2>3, GoesType DEF ReadSchema, Steps
    <3> QED
      BY <2>3, <3>1 DEF ReadSchema, NoEmbedding, TypeOK
  <2>4. ASSUME NEW f \in Fields, NEW step \in Steps, IndexField(p, f, step) PROVE TypeOK'
    <3>1. pc' \in [Processes -> Steps]
      BY <2>4, GoesType DEF IndexField
    <3>2. collection' \in [exists : BOOLEAN, indexes : SUBSET Fields]
      BY <2>4 DEF IndexField, TypeOK
    <3> QED
      BY <2>4, <3>1, <3>2 DEF IndexField, NoEmbedding, TypeOK
  <2>5. CASE StoreFails(p)
    <3>1. (IF p \in Runs THEN "failed" ELSE "done") \in Steps
      BY DEF Steps
    <3>2. pc' \in [Processes -> Steps]
      BY <2>5, <3>1, GoesType DEF StoreFails
    <3> QED
      BY <2>5, <3>2 DEF StoreFails, NoEmbedding, NoStore, TypeOK
  <2>6. /\ "docset" \in Steps /\ (IF p \in Runs THEN "upsert" ELSE "done") \in Steps
        /\ "doc_id" \in Fields /\ "docset" \in Fields
    BY DEF Steps, Fields
  <2> QED
    BY <1>3, <2>1, <2>2, <2>3, <2>4, <2>5, <2>6 DEF Initialize, IndexDocId, IndexDocset
<1>4. ASSUME NEW p \in Processes, Start(p) \/ Stop(p) PROVE TypeOK'
  <2>1. pc' \in [Processes -> Steps]
    BY <1>4, GoesType DEF Start, Stop, Steps
  <2>2. stops' \in 0..MaxStops
    BY <1>4, EmbeddingAssumption DEF Start, Stop, TypeOK
  <2> QED
    BY <1>4, <2>1, <2>2 DEF Start, Stop, NoEmbedding, NoStore, TypeOK
<1>5. CASE UNCHANGED vars
  BY <1>5 DEF vars, TypeOK
<1> QED
  BY <1>1, <1>2, <1>3, <1>4, <1>5 DEF Next, Step

-----------------------------------------------------------------------------
(***************************************************************************)
(* Every vector at the place of its chunk.                                 *)
(***************************************************************************)

\* A step that changes nothing but the place of a process, and brings no run to an end.
LEMMA KeepPlaced ==
    ASSUME TypeOK, Placed, NEW p \in Processes, NEW step \in Steps, Goes(p, step),
           NoEmbedding, UNCHANGED points,
           \/ step \in {"begin", "failed"}
           \/ pc[p] \in Storing /\ step \in Storing
           \/ pc[p] \in {"post", "backoff"} /\ step \in {"post", "backoff"}
           \/ p \notin Runs
    PROVE  Placed'
<1>1. \A q \in Processes : pc'[q] = IF q = p THEN step ELSE pc[q]
  BY GoesType
<1>2. UNCHANGED <<delivery, chunks, next, vectors, points>>
  BY DEF NoEmbedding
<1>3. \A r \in Runs : r \in Processes
  BY DEF Processes
<1>4. \A r \in Runs : Collected(r)'
  BY <1>1, <1>2, <1>3 DEF Placed, Collected, Storing
<1>5. \A r \in Runs : pc'[r] = "done" => pc[r] = "done"
  BY <1>1, <1>3 DEF Storing
<1>6. \A r \in Runs : Stored(r)'
  BY <1>2, <1>5 DEF Placed, Stored
<1> QED
  BY <1>4, <1>6 DEF Placed

\* A step of run r that leaves the other runs alone and itself with what it needs.
LEMMA RunPlaced ==
    ASSUME TypeOK, Placed, NEW r \in Runs, NEW step \in Steps, Goes(r, step),
           \A q \in Runs \ {r} :
              /\ delivery'[q] = delivery[q] /\ chunks'[q] = chunks[q] /\ next'[q] = next[q]
              /\ vectors'[q] = vectors[q] /\ points'[q] = points[q],
           Collected(r)', Stored(r)'
    PROVE  Placed'
<1>1. \A q \in Processes : pc'[q] = IF q = r THEN step ELSE pc[q]
  BY GoesType DEF Processes
<1>2. \A q \in Runs \ {r} : Collected(q)'
  BY <1>1 DEF Placed, Collected, Processes
<1>3. \A q \in Runs \ {r} : Stored(q)'
  BY <1>1 DEF Placed, Stored, Processes
<1> QED
  BY <1>2, <1>3 DEF Placed

\* The points of a run stay what they are while it is at work.
LEMMA StayStored ==
    ASSUME TypeOK, Placed, NEW r \in Runs, points'[r] = points[r],
           delivery'[r] \in Nat, delivery'[r] >= delivery[r],
           pc'[r] # "done" \/ chunks'[r] = 0
    PROVE  Stored(r)'
<1>1. delivery[r] \in Nat /\ Len(points[r]) \in Nat
  BY DEF TypeOK
<1>2. \A i \in 1..Len(points[r]) : points[r][i].delivery \in Nat
  BY ElementsArePoints
<1>3. \A i \in 1..Len(points[r]) : points[r][i].delivery <= delivery'[r]
  BY <1>1, <1>2 DEF Placed, Stored
<1> QED
  BY <1>1, <1>3 DEF Placed, Stored

\* Every step keeps the vectors at their places.
LEMMA StepPlaced == TypeOK /\ Placed /\ [Next]_vars => Placed'
<1> SUFFICES ASSUME TypeOK, Placed, [Next]_vars PROVE Placed'
  OBVIOUS
<1> USE DEF Processes
<1>1. ASSUME NEW r \in Runs, Embed(r) PROVE Placed'
  <2>1. CASE Begin(r)
    <3>1. PICK n \in 0..MaxChunks : /\ chunks' = [chunks EXCEPT ![r] = n]
                                    /\ Goes(r, IF n = 0 THEN "done" ELSE "post")
      BY <2>1 DEF Begin
    <3> DEFINE step == IF n = 0 THEN "done" ELSE "post"
    <3>2. step \in Steps /\ Goes(r, step) /\ UNCHANGED points
      BY <2>1, <3>1 DEF Begin, Steps, NoStore
    <3>3. \A q \in Runs : /\ next'[q] = IF q = r THEN 0 ELSE next[q]
                          /\ vectors'[q] = IF q = r THEN <<>> ELSE vectors[q]
                          /\ chunks'[q] = IF q = r THEN n ELSE chunks[q]
                          /\ delivery'[q] = IF q = r THEN delivery[q] + 1 ELSE delivery[q]
      BY <2>1, <3>1 DEF Begin, TypeOK
    <3>4. pc'[r] = step
      BY <3>2, GoesType
    <3>5. First(0) = <<>>
      <4>1. First(0) \in Seq(Nat) /\ Len(First(0)) = 0
        BY FirstSeq
      <4> QED
        BY <4>1, EmptySeq
    <3>6. Collected(r)'
      BY <3>2, <3>3, <3>4, <3>5 DEF Collected, Storing, TypeOK
    <3>7. delivery[r] \in Nat
      BY DEF TypeOK
    <3>8. Stored(r)'
      BY <3>2, <3>3, <3>4, <3>7, StayStored
    <3> QED
      BY <3>2, <3>3, <3>6, <3>8, RunPlaced
  <2>2. CASE Extend(r)
    <3> DEFINE step == IF next'[r] < chunks[r] THEN "post" ELSE "exists"
    <3>1. /\ step \in Steps /\ Goes(r, step) /\ pc[r] = "post"
          /\ UNCHANGED <<delivery, chunks, points>>
      BY <2>2 DEF Extend, Steps, NoStore
    <3>2. next[r] < chunks[r] /\ vectors[r] = First(next[r])
      BY <3>1 DEF Placed, Collected
    <3>3. PICK n \in 0..Size(r) + 1 :
             /\ \E fits \in BOOLEAN : Valid(r, n, fits)
             /\ vectors' = [vectors EXCEPT ![r] = @ \o Answer(r, n)]
      BY <2>2 DEF Extend
    <3>4. n = Size(r)
      BY <3>3 DEF Valid
    <3>5. Size(r) \in Nat /\ next[r] \in Nat /\ chunks[r] \in Nat
      BY <3>2, SizeType DEF TypeOK
    <3>6. Answer(r, n) = [k \in 1..Size(r) |-> next[r] + k]
      BY <3>4, <3>5 DEF Answer
    <3>7. vectors[r] \o Answer(r, n) = First(next[r] + Size(r))
      BY <3>2, <3>5, <3>6, Concatenated
    <3>8. \A q \in Runs : vectors'[q] = IF q = r THEN First(next[r] + Size(r)) ELSE vectors[q]
      BY <3>3, <3>7 DEF TypeOK
    <3>9. \A q \in Runs : next'[q] = IF q = r THEN next[r] + BatchSize ELSE next[q]
      BY <2>2 DEF Extend, TypeOK
    <3>10. pc'[r] = step
      BY <3>1, GoesType
    <3>13. Stored(r)'
      <4>1. delivery[r] \in Nat
        BY DEF TypeOK
      <4> QED
        BY <3>1, <3>10, <4>1, StayStored
    <3>11. CASE next[r] + BatchSize < chunks[r]
      <4>1. Size(r) = BatchSize /\ step = "post"
        BY <3>5, <3>9, <3>11, EmbeddingAssumption DEF Size
      <4>2. Collected(r)'
        BY <3>1, <3>8, <3>9, <3>10, <3>11, <4>1 DEF Collected, Storing
      <4> QED
        BY <3>1, <3>8, <3>9, <3>13, <4>2, RunPlaced
    <3>12. CASE ~(next[r] + BatchSize < chunks[r])
      <4>1. next[r] + Size(r) = chunks[r] /\ step = "exists"
        BY <3>5, <3>9, <3>12, EmbeddingAssumption DEF Size
      <4>2. Collected(r)'
        BY <3>1, <3>8, <3>10, <4>1 DEF Collected, Storing
      <4> QED
        BY <3>1, <3>8, <3>9, <3>13, <4>2, RunPlaced
    <3> QED
      BY <3>11, <3>12
  <2>3. CASE Refuse(r)
    BY <2>3, KeepPlaced DEF Refuse, NoStore, Steps
  <2>4. CASE Retry(r)
    <3>1. UNCHANGED <<delivery, chunks, next, vectors, points>>
      BY <2>4 DEF Retry, NoStore
    <3>2. PICK step \in {"failed", "backoff"} : Goes(r, step)
      BY <2>4 DEF Retry
    <3>3. step \in Steps
      BY DEF Steps
    <3>4. pc'[r] = step /\ pc[r] = "post"
      BY <2>4, <3>2, <3>3, GoesType DEF Retry
    <3>5. Collected(r)'
      BY <3>1, <3>4 DEF Placed, Collected, Storing
    <3>6. Stored(r)'
      <4>1. delivery[r] \in Nat
        BY DEF TypeOK
      <4> QED
        BY <3>1, <3>2, <3>4, <4>1, StayStored
    <3> QED
      BY <3>1, <3>2, <3>3, <3>5, <3>6, RunPlaced
  <2>5. CASE Wake(r)
    BY <2>5, KeepPlaced DEF Wake, NoStore, Steps
  <2> QED
    BY <1>1, <2>1, <2>2, <2>3, <2>4, <2>5 DEF Embed
<1>2. ASSUME NEW r \in Runs, Upsert(r) \/ UpsertUnanswered(r) PROVE Placed'
  <2>1. CASE Len(vectors[r]) # chunks[r]
    <3>1. Goes(r, "failed") /\ NoEmbedding /\ UNCHANGED points
      BY <1>2, <2>1 DEF Upsert, UpsertUnanswered
    <3> QED
      BY <3>1, KeepPlaced DEF Steps
  <2>2. CASE Len(vectors[r]) = chunks[r]
    <3>1. PICK step \in {"done", "failed"} : Goes(r, step)
      BY <1>2 DEF Upsert, UpsertUnanswered
    <3>2. /\ step \in Steps /\ UNCHANGED <<delivery, chunks, next, vectors>>
          /\ points' = [points EXCEPT ![r] = Written(r)]
      BY <1>2, <2>2, <3>1 DEF Steps, Upsert, UpsertUnanswered, NoEmbedding
    <3>3. pc'[r] = step /\ \A q \in Runs : points'[q] = IF q = r THEN Written(r) ELSE points[q]
      BY <3>1, <3>2, GoesType DEF TypeOK
    <3>4. Collected(r)'
      BY <3>3 DEF Collected, Storing
    <3>5. Stored(r)'
      <4>1. vectors[r] = First(chunks[r])
        BY <1>2 DEF Upsert, UpsertUnanswered, Placed, Collected, Storing
      <4>2. chunks[r] \in Nat /\ delivery[r] \in Nat
        BY DEF TypeOK
      <4>3. \A i \in 1..chunks[r] : vectors[r][i] = i
        BY <4>1 DEF First
      <4>4. Len(Written(r)) \in Nat /\ Len(Written(r)) >= chunks[r]
        BY <2>2, <4>2, WrittenPoints
      <4>10. \A i \in 1..Len(Written(r)) :
                i <= chunks[r] => Written(r)[i].chunk = i /\ Written(r)[i].delivery = delivery[r]
        <5> SUFFICES ASSUME NEW i \in 1..Len(Written(r)), i <= chunks[r]
                     PROVE  Written(r)[i].chunk = i /\ Written(r)[i].delivery = delivery[r]
          OBVIOUS
        <5>1. Written(r)[i] = [delivery |-> delivery[r], chunk |-> vectors[r][i]]
          BY <2>2, WrittenPoints
        <5>2. i \in 1..chunks[r]
          BY <4>2, <4>4
        <5> QED
          BY <4>3, <5>1, <5>2
      <4>11. \A i \in 1..Len(Written(r)) :
                i > chunks[r] => i \in 1..Len(points[r]) /\ Written(r)[i] = points[r][i]
        <5> SUFFICES ASSUME NEW i \in 1..Len(Written(r)), i > chunks[r]
                     PROVE  i \in 1..Len(points[r]) /\ Written(r)[i] = points[r][i]
          OBVIOUS
        <5>1. i \in 1..Len(points[r])
          BY <2>2, WrittenPoints
        <5>2. ~(i <= Len(vectors[r]))
          BY <2>2, <4>2, <4>4
        <5> QED
          BY <5>1, <5>2, WrittenPoints
      <4>5. \A i \in 1..Len(points[r]) :
               /\ points[r][i].chunk = i
               /\ points[r][i].delivery \in Nat /\ points[r][i].delivery <= delivery[r]
        BY ElementsArePoints DEF Placed, Stored
      <4>6. \A i, k \in 1..Len(Written(r)) :
               i < k => Written(r)[k].delivery <= Written(r)[i].delivery
        <5> SUFFICES ASSUME NEW i \in 1..Len(Written(r)), NEW k \in 1..Len(Written(r)), i < k
                     PROVE  Written(r)[k].delivery <= Written(r)[i].delivery
          OBVIOUS
        <5>1. CASE k <= chunks[r]
          <6>1. i <= chunks[r]
            BY <4>2, <4>4, <5>1
          <6> QED
            BY <4>2, <4>10, <5>1, <6>1
        <5>2. CASE k > chunks[r] /\ i <= chunks[r]
          <6>1. k \in 1..Len(points[r]) /\ Written(r)[k] = points[r][k]
            BY <4>11, <5>2
          <6>2. Written(r)[i].delivery = delivery[r]
            BY <4>10, <5>2
          <6> QED
            BY <4>5, <6>1, <6>2
        <5>3. CASE i > chunks[r]
          <6>1. k > chunks[r]
            BY <4>2, <4>4, <5>3
          <6>2. /\ i \in 1..Len(points[r]) /\ Written(r)[i] = points[r][i]
                /\ k \in 1..Len(points[r]) /\ Written(r)[k] = points[r][k]
            BY <4>11, <5>3, <6>1
          <6> QED
            BY <6>2 DEF Placed, Stored
        <5> QED
          BY <4>2, <4>4, <5>1, <5>2, <5>3
      <4>7. \A i \in 1..Len(Written(r)) :
               Written(r)[i].chunk = i /\ Written(r)[i].delivery <= delivery[r]
        BY <4>2, <4>4, <4>5, <4>10, <4>11
      <4>8. \A i \in 1..chunks[r] : Written(r)[i].delivery = delivery[r]
        BY <4>2, <4>4, <4>10
      <4>9. points'[r] = Written(r) /\ delivery'[r] = delivery[r] /\ chunks'[r] = chunks[r]
        BY <3>2, <3>3
      <4> QED
        BY <4>4, <4>6, <4>7, <4>8, <4>9 DEF Stored
    <3> QED
      BY <3>1, <3>2, <3>3, <3>4, <3>5, RunPlaced
  <2> QED
    BY <2>1, <2>2
<1>3. ASSUME NEW p \in Processes, Initialize(p) PROVE Placed'
  <2>1. CASE CheckExists(p)
    BY <2>1, KeepPlaced DEF CheckExists, NoStore, Steps, Storing
  <2>2. CASE CreateCollection(p)
    BY <2>2, KeepPlaced DEF CreateCollection, Steps, Storing
  <2>3. CASE ReadSchema(p)
    BY <2>3, KeepPlaced DEF ReadSchema, Steps, Storing
  <2>4. CASE IndexDocId(p)
    BY <2>4, KeepPlaced DEF IndexDocId, IndexField, Steps, Storing
  <2>5. CASE IndexDocset(p)
    BY <2>5, KeepPlaced DEF IndexDocset, IndexField, Steps, Storing
  <2>6. CASE StoreFails(p)
    <3>1. CASE p \in Runs
      BY <2>6, <3>1, KeepPlaced DEF StoreFails, NoStore, Steps
    <3>2. CASE p \notin Runs
      BY <2>6, <3>2, KeepPlaced DEF StoreFails, NoStore, Steps
    <3> QED
      BY <3>1, <3>2
  <2> QED
    BY <1>3, <2>1, <2>2, <2>3, <2>4, <2>5, <2>6 DEF Initialize
<1>4. ASSUME NEW p \in Starters, Start(p) PROVE Placed'
  BY <1>4, EmbeddingAssumption, KeepPlaced DEF Start, NoStore, Steps
<1>5. ASSUME NEW p \in Processes, Stop(p) PROVE Placed'
  BY <1>5, KeepPlaced DEF Stop, NoStore, Steps
<1>6. CASE UNCHANGED vars
  BY <1>6 DEF vars, Placed, Collected, Stored, First
<1> QED
  BY <1>1, <1>2, <1>3, <1>4, <1>5, <1>6 DEF Next, Step

-----------------------------------------------------------------------------
(***************************************************************************)
(* No points without both indexes.                                         *)
(***************************************************************************)

\* The collection only grows: what other processes know of it stays true.
LEMMA StayReady ==
    ASSUME Indexed, NEW p \in Processes,
           collection.exists => collection'.exists, collection.indexes \subseteq collection'.indexes,
           collection'.indexes \subseteq Fields, UNCHANGED points,
           \A q \in Processes \ {p} : pc'[q] = pc[q] /\ schema'[q] = schema[q],
           Ready(p)'
    PROVE  Indexed'
<1>1. \A q \in Processes \ {p} : Ready(q)'
  BY DEF Indexed, Ready
<1>2. PointsAreIndexed'
  BY DEF Indexed, PointsAreIndexed
<1> QED
  BY <1>1, <1>2 DEF Indexed

\* A step that leaves the collection alone and goes nowhere that needs more of it.
LEMMA KeepReady ==
    ASSUME TypeOK, Indexed, NEW p \in Processes, NEW step \in Steps,
           Goes(p, step), NoStore,
           step \in {"info", "doc_id"} => collection.exists, step \notin {"docset", "upsert"}
    PROVE  Indexed'
<1>1. \A q \in Processes : pc'[q] = IF q = p THEN step ELSE pc[q]
  BY GoesType
<1>2. UNCHANGED <<collection, schema, points>>
  BY DEF NoStore
<1>3. Ready(p)'
  BY <1>1, <1>2 DEF Indexed, Ready
<1> QED
  BY <1>1, <1>2, <1>3, StayReady DEF TypeOK

\* Every step keeps what a process may rely on.
LEMMA StepIndexed == TypeOK /\ Indexed /\ [Next]_vars => Indexed'
<1> SUFFICES ASSUME TypeOK, Indexed, [Next]_vars PROVE Indexed'
  OBVIOUS
<1> USE DEF Processes
<1>1. ASSUME NEW r \in Runs, Embed(r) PROVE Indexed'
  <2>1. PICK step \in {"done", "post", "exists", "failed", "backoff"} : Goes(r, step)
    BY <1>1 DEF Embed, Begin, Extend, Refuse, Retry, Wake
  <2>2. NoStore
    BY <1>1 DEF Embed, Begin, Extend, Refuse, Retry, Wake
  <2> QED
    BY <2>1, <2>2, KeepReady DEF Steps
<1>2. ASSUME NEW r \in Runs, Upsert(r) \/ UpsertUnanswered(r) PROVE Indexed'
  <2>1. PICK step \in {"done", "failed"} : Goes(r, step)
    BY <1>2 DEF Upsert, UpsertUnanswered
  <2>2. UNCHANGED <<collection, schema>>
    BY <1>2 DEF Upsert, UpsertUnanswered
  <2>3. \A q \in Processes : pc'[q] = IF q = r THEN step ELSE pc[q]
    BY <2>1, GoesType DEF Steps
  <2>4. \A q \in Processes : Ready(q)'
    BY <2>2, <2>3 DEF Indexed, Ready
  <2>5. collection.exists /\ collection.indexes = Fields
    BY <1>2 DEF Upsert, UpsertUnanswered, Indexed, Ready, TypeOK, Fields
  <2> QED
    BY <2>2, <2>4, <2>5 DEF Indexed, PointsAreIndexed
<1>3. ASSUME NEW p \in Processes, Initialize(p) PROVE Indexed'
  <2>1. CASE CheckExists(p)
    <3>1. CASE collection.exists
      BY <2>1, <3>1, KeepReady DEF CheckExists, Steps
    <3>2. CASE ~collection.exists
      BY <2>1, <3>2, KeepReady DEF CheckExists, Steps
    <3> QED
      BY <3>1, <3>2
  <2>2. CASE CreateCollection(p)
    <3>1. \A q \in Processes : pc'[q] = IF q = p THEN "info" ELSE pc[q]
      BY <2>2, GoesType DEF CreateCollection, Steps
    <3>2. collection'.exists /\ collection'.indexes = collection.indexes /\ UNCHANGED <<schema, points>>
      BY <2>2 DEF CreateCollection, TypeOK
    <3>3. Ready(p)'
      BY <3>1, <3>2 DEF Indexed, Ready
    <3> QED
      BY <3>1, <3>2, <3>3, StayReady DEF TypeOK
  <2>3. CASE ReadSchema(p)
    <3>1. \A q \in Processes : pc'[q] = IF q = p THEN "doc_id" ELSE pc[q]
      BY <2>3, GoesType DEF ReadSchema, Steps
    <3>2. /\ \A q \in Processes : schema'[q] = IF q = p THEN collection.indexes ELSE schema[q]
          /\ UNCHANGED <<collection, points>>
      BY <2>3 DEF ReadSchema, TypeOK
    <3>3. collection.exists
      BY <2>3 DEF ReadSchema, Indexed, Ready
    <3>4. Ready(p)'
      BY <3>1, <3>2, <3>3 DEF Ready
    <3> QED
      BY <3>1, <3>2, <3>4, StayReady DEF TypeOK
  <2>4. CASE IndexDocId(p)
    <3>1. \A q \in Processes : pc'[q] = IF q = p THEN "docset" ELSE pc[q]
      BY <2>4, GoesType DEF IndexDocId, IndexField, Steps
    <3>2. /\ collection'.exists = collection.exists /\ UNCHANGED <<schema, points>>
          /\ collection.indexes \subseteq collection'.indexes /\ collection'.indexes \subseteq Fields
      BY <2>4 DEF IndexDocId, IndexField, TypeOK, Fields
    <3>3. "doc_id" \in collection'.indexes
      BY <2>4 DEF IndexDocId, IndexField, TypeOK, Indexed, Ready
    <3>4. collection.exists
      BY <2>4 DEF IndexDocId, IndexField, Indexed, Ready
    <3>5. Ready(p)'
      BY <3>1, <3>2, <3>3, <3>4 DEF Indexed, Ready
    <3> QED
      BY <3>1, <3>2, <3>5, StayReady
  <2>5. CASE IndexDocset(p)
    <3>1. PICK step \in {"upsert", "done"} : Goes(p, step)
      BY <2>5 DEF IndexDocset, IndexField
    <3>2. \A q \in Processes : pc'[q] = IF q = p THEN step ELSE pc[q]
      BY <3>1, GoesType DEF Steps
    <3>3. /\ collection'.exists = collection.exists /\ UNCHANGED <<schema, points>>
          /\ collection.indexes \subseteq collection'.indexes /\ collection'.indexes \subseteq Fields
      BY <2>5 DEF IndexDocset, IndexField, TypeOK, Fields
    <3>4. "docset" \in collection'.indexes
      BY <2>5 DEF IndexDocset, IndexField, TypeOK, Indexed, Ready
    <3>5. collection.exists /\ "doc_id" \in collection.indexes
      BY <2>5 DEF IndexDocset, IndexField, Indexed, Ready
    <3>6. Ready(p)'
      BY <3>2, <3>3, <3>4, <3>5 DEF Indexed, Ready
    <3> QED
      BY <3>2, <3>3, <3>6, StayReady
  <2>6. CASE StoreFails(p)
    BY <2>6, KeepReady DEF StoreFails, Steps
  <2> QED
    BY <1>3, <2>1, <2>2, <2>3, <2>4, <2>5, <2>6 DEF Initialize
<1>4. ASSUME NEW p \in Processes, Start(p) \/ Stop(p) PROVE Indexed'
  BY <1>4, KeepReady DEF Start, Stop, Steps
<1>5. CASE UNCHANGED vars
  BY <1>5 DEF vars, Indexed, PointsAreIndexed, Ready
<1> QED
  BY <1>1, <1>2, <1>3, <1>4, <1>5 DEF Next, Step

-----------------------------------------------------------------------------
IInv == TypeOK /\ Placed /\ Indexed

\* The invariant holds in every reachable state.
LEMMA Inductive == Spec => []IInv
<1>1. Init => IInv
  BY InitOK DEF IInv
<1>2. IInv /\ [Next]_vars => IInv'
  BY StepType, StepPlaced, StepIndexed DEF IInv
<1> QED
  BY <1>1, <1>2, PTL DEF Spec

(* Types, among them: no request is attempted more than max_retries times   *)
(* after the first, for any documents, batch size and number of retries.    *)
THEOREM EmbeddingTypeCorrect == Spec => []TypeOK
<1>1. IInv => TypeOK
  BY DEF IInv
<1> QED
  BY <1>1, Inductive, PTL

(* Every point has the vector of the chunk of its place, a delivery that is *)
(* done has written all its chunks, and what earlier deliveries have left   *)
(* stands behind them in order, for any numbers of chunks that the          *)
(* deliveries of a job find, any batch size, any answers and any stops.     *)
THEOREM VectorsAlwaysMatch == Spec => []VectorsMatchChunks
<1>1. IInv => VectorsMatchChunks
  BY DEF IInv, Placed, Stored, VectorsMatchChunks
<1> QED
  BY <1>1, Inductive, PTL

(* Points are only stored where both payload indexes exist, for any number  *)
(* of processes that create the collection at the same time.                *)
THEOREM PointsAlwaysIndexed == Spec => []PointsAreIndexed
<1>1. IInv => PointsAreIndexed
  BY DEF IInv, Indexed
<1> QED
  BY <1>1, Inductive, PTL
=============================================================================
