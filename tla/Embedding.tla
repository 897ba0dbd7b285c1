----------------------------- MODULE Embedding ------------------------------
(***************************************************************************)
(* From chunks to points: the last stage of the pipeline                   *)
(* (_embed_and_index_chunks), taken apart.  The embedding client           *)
(* (app/services/embeddings/ollama.py) sends the texts of a document to    *)
(* Ollama in slices, one request after the other, each with its retries;   *)
(* then the vector store (app/services/vector_store/qdrant.py) creates the *)
(* collection and its payload indexes where they are missing, and the      *)
(* points are written.  Every process that uses the collection creates it: *)
(* the API and the workers when they start, and every run.                 *)
(*                                                                         *)
(* A job may be delivered again, at any point and after it is done.  Every *)
(* delivery scrapes the page and splits it anew, and may find another      *)
(* number of chunks; its points replace those of the same places only.     *)
(*                                                                         *)
(* Ingestion takes this stage as one step.  A vector is represented by the *)
(* number of the chunk it was made from, 0 for a vector of no chunk, and a *)
(* point by its vector and the delivery that has written it.               *)
(***************************************************************************)
EXTENDS Integers, Sequences

CONSTANTS
    Runs,         \* ingestion jobs, of different documents
    Starters,     \* API and worker processes that start
    MaxChunks,    \* bound: chunks of a document
    BatchSize,    \* OllamaEmbeddingClient.batch_size
    MaxRetries,   \* OllamaEmbeddingClient.max_retries
    MaxStops      \* bound: interruptions

ASSUME EmbeddingAssumption ==
    /\ Runs \cap Starters = {}
    /\ MaxChunks \in Nat
    /\ BatchSize \in Nat \ {0}
    /\ MaxRetries \in Nat
    /\ MaxStops \in Nat

VARIABLES
    pc,          \* the next step of a run or a starting process
    delivery,    \* which delivery of its job a run is
    chunks,      \* number of chunks of the page as this delivery has scraped it
    next,        \* chunks before the slice that embed_batch sends next
    attempt,     \* _post_with_retry: failed attempts of this request
    vectors,     \* all_embeddings
    collection,  \* Qdrant: does the collection exist, the payload fields it has indexed
    schema,      \* payload_schema as a process has read it
    points,      \* Qdrant: the points of a document by chunk_index, [delivery, chunk]
    stops        \* interruptions so far

vars == <<pc, delivery, chunks, next, attempt, vectors, collection, schema, points, stops>>

Processes == Runs \cup Starters
Fields == {"doc_id", "docset"}
Steps == {"begin", "post", "backoff", "exists", "create", "info", "doc_id", "docset", "upsert",
          "done", "failed"}

TypeOK ==
    /\ pc \in [Processes -> Steps]
    /\ delivery \in [Runs -> Nat]
    /\ chunks \in [Runs -> 0..MaxChunks]
    /\ next \in [Runs -> Nat]
    /\ attempt \in [Runs -> 0..MaxRetries]
    /\ vectors \in [Runs -> Seq(Nat)]
    /\ collection \in [exists : BOOLEAN, indexes : SUBSET Fields]
    /\ schema \in [Processes -> SUBSET Fields]
    /\ points \in [Runs -> Seq([delivery : Nat, chunk : Nat])]
    /\ stops \in 0..MaxStops

\* The collection may be missing, or left by an earlier version that had no docsets, or by a
\* process that was stopped while it created the indexes.
Init ==
    /\ pc = [p \in Processes |-> "begin"]
    /\ delivery = [r \in Runs |-> 0]
    /\ chunks = [r \in Runs |-> 0]
    /\ next = [r \in Runs |-> 0]
    /\ attempt = [r \in Runs |-> 0]
    /\ vectors = [r \in Runs |-> <<>>]
    /\ collection \in {[exists |-> FALSE, indexes |-> {}],
                       [exists |-> TRUE, indexes |-> {}],
                       [exists |-> TRUE, indexes |-> {"doc_id"}]}
    /\ schema = [p \in Processes |-> {}]
    /\ points = [r \in Runs |-> <<>>]
    /\ stops = 0

Goes(p, step) == pc' = [pc EXCEPT ![p] = step]

\* What the two halves of the stage leave alone.
NoEmbedding == UNCHANGED <<delivery, chunks, next, attempt, vectors>>
NoStore == UNCHANGED <<collection, schema, points>>

-----------------------------------------------------------------------------
(***************************************************************************)
(* embed_batch.                                                            *)
(***************************************************************************)

\* What this delivery has scraped is split into any number of chunks.  A page without chunks
\* is neither embedded nor indexed.  Chunks are never blank, so embed_batch refuses none.
Begin(r) ==
    /\ pc[r] = "begin"
    /\ \E n \in 0..MaxChunks :
          /\ chunks' = [chunks EXCEPT ![r] = n]
          /\ Goes(r, IF n = 0 THEN "done" ELSE "post")
    /\ delivery' = [delivery EXCEPT ![r] = @ + 1]
    /\ next' = [next EXCEPT ![r] = 0]
    /\ attempt' = [attempt EXCEPT ![r] = 0]
    /\ vectors' = [vectors EXCEPT ![r] = <<>>]
    /\ UNCHANGED stops /\ NoStore

\* The slice texts[i : i + batch_size].
Size(r) == IF next[r] + BatchSize <= chunks[r] THEN BatchSize ELSE chunks[r] - next[r]

\* An answer with n vectors: those of the first texts, and perhaps one too many.
Answer(r, n) == [k \in 1..n |-> IF k <= Size(r) THEN next[r] + k ELSE 0]

\* Mutant: the vectors of an answer are not counted.
AnyNumber(r, n, fits) == fits

\* _validate_embeddings: as many vectors as texts, all of the configured dimension.
Valid(r, n, fits) == n = Size(r) /\ fits

\* Status 200 with an answer that is accepted: the next slice, or the vector store.
Extend(r) ==
    /\ pc[r] = "post"
    /\ \E n \in 0..Size(r) + 1 :
          /\ \E fits \in BOOLEAN : Valid(r, n, fits)
          /\ vectors' = [vectors EXCEPT ![r] = @ \o Answer(r, n)]
    /\ next' = [next EXCEPT ![r] = @ + BatchSize]
    /\ attempt' = [attempt EXCEPT ![r] = 0]
    /\ Goes(r, IF next'[r] < chunks[r] THEN "post" ELSE "exists")
    /\ UNCHANGED <<delivery, chunks, stops>> /\ NoStore

\* The run fails: another number or dimension of vectors, no valid JSON, or a status 4xx
\* other than 429.
Refuse(r) ==
    /\ pc[r] = "post"
    /\ Goes(r, "failed")
    /\ UNCHANGED stops /\ NoEmbedding /\ NoStore

\* Mutant: every request is repeated until it succeeds.
RetryForever(r) ==
    /\ pc[r] = "post"
    /\ Goes(r, "backoff")
    /\ UNCHANGED <<delivery, chunks, next, attempt, vectors, stops>> /\ NoStore

\* No connection, a timeout, or any other status: another attempt after a delay, up to
\* max_retries of them for each slice.
Retry(r) ==
    /\ pc[r] = "post"
    /\ \/ attempt[r] = MaxRetries /\ Goes(r, "failed") /\ UNCHANGED attempt
       \/ /\ attempt[r] < MaxRetries /\ Goes(r, "backoff")
          /\ attempt' = [attempt EXCEPT ![r] = @ + 1]
    /\ UNCHANGED <<delivery, chunks, next, vectors, stops>> /\ NoStore

\* The delay has passed.
Wake(r) ==
    /\ pc[r] = "backoff"
    /\ Goes(r, "post")
    /\ UNCHANGED stops /\ NoEmbedding /\ NoStore

-----------------------------------------------------------------------------
(***************************************************************************)
(* initialize_collection: one step per call to Qdrant.                     *)
(***************************************************************************)

\* lifespan of the API, startup of a worker.
Start(p) ==
    /\ pc[p] = "begin"
    /\ Goes(p, "exists")
    /\ UNCHANGED stops /\ NoEmbedding /\ NoStore

\* Mutant: a collection that exists is taken to have its indexes.
TrustExisting(p) ==
    /\ pc[p] = "exists"
    /\ Goes(p, IF ~collection.exists THEN "create" ELSE IF p \in Runs THEN "upsert" ELSE "done")
    /\ UNCHANGED stops /\ NoEmbedding /\ NoStore

CheckExists(p) ==
    /\ pc[p] = "exists"
    /\ Goes(p, IF collection.exists THEN "info" ELSE "create")
    /\ UNCHANGED stops /\ NoEmbedding /\ NoStore

\* Qdrant refuses to create a collection that another process has created by now.
CreateCollection(p) ==
    /\ pc[p] = "create" /\ ~collection.exists
    /\ collection' = [collection EXCEPT !.exists = TRUE]
    /\ Goes(p, "info")
    /\ UNCHANGED <<schema, points, stops>> /\ NoEmbedding

ReadSchema(p) ==
    /\ pc[p] = "info"
    /\ schema' = [schema EXCEPT ![p] = collection.indexes]
    /\ Goes(p, "doc_id")
    /\ UNCHANGED <<collection, points, stops>> /\ NoEmbedding

\* An index that the schema read did not have is created; creating it twice is harmless.
IndexField(p, f, step) ==
    /\ pc[p] = f
    /\ collection' = [collection EXCEPT !.indexes = IF f \in schema[p] THEN @ ELSE @ \cup {f}]
    /\ Goes(p, step)
    /\ UNCHANGED <<schema, points, stops>> /\ NoEmbedding

IndexDocId(p) == IndexField(p, "doc_id", "docset")

\* A run goes on with its points.
IndexDocset(p) == IndexField(p, "docset", IF p \in Runs THEN "upsert" ELSE "done")

\* Qdrant is not reachable, or refuses: a run fails, a process that starts only logs it.
StoreFails(p) ==
    /\ pc[p] \in {"exists", "create", "info", "doc_id", "docset", "upsert"}
    /\ Goes(p, IF p \in Runs THEN "failed" ELSE "done")
    /\ UNCHANGED stops /\ NoEmbedding /\ NoStore

\* The points of a document once this delivery has written its own: a point is identified by
\* the document and its place, and those of further places stay.
Written(r) ==
    LET new == Len(vectors[r])
        old == Len(points[r])
    IN [i \in 1..(IF new < old THEN old ELSE new) |->
           IF i <= new THEN [delivery |-> delivery[r], chunk |-> vectors[r][i]] ELSE points[r][i]]

\* upsert_chunks: refused before the call if chunks and vectors differ in number; else the
\* points are written, point i with the vector of place i.
Upsert(r) ==
    /\ pc[r] = "upsert"
    /\ \/ /\ Len(vectors[r]) = chunks[r]
          /\ points' = [points EXCEPT ![r] = Written(r)]
          /\ Goes(r, "done")
       \/ /\ Len(vectors[r]) # chunks[r]
          /\ Goes(r, "failed") /\ UNCHANGED points
    /\ UNCHANGED <<collection, schema, stops>> /\ NoEmbedding

\* The points are written and the answer is lost, or the run is stopped before it comes.
UpsertUnanswered(r) ==
    /\ pc[r] = "upsert" /\ Len(vectors[r]) = chunks[r]
    /\ points' = [points EXCEPT ![r] = Written(r)]
    /\ Goes(r, "failed")
    /\ UNCHANGED <<collection, schema, stops>> /\ NoEmbedding

-----------------------------------------------------------------------------
\* A process is stopped, by a crash, a timeout or a shutdown, and starts again: a worker and
\* the API on restart, a run when its job is delivered again, perhaps after all this is done
\* or has failed.
Stop(p) ==
    /\ pc[p] # "begin" /\ stops < MaxStops
    /\ Goes(p, "begin")
    /\ stops' = stops + 1
    /\ NoEmbedding /\ NoStore

Initialize(p) ==
    \/ CheckExists(p) \/ CreateCollection(p) \/ ReadSchema(p)
    \/ IndexDocId(p) \/ IndexDocset(p) \/ StoreFails(p)

Embed(r) == Begin(r) \/ Extend(r) \/ Refuse(r) \/ Retry(r) \/ Wake(r)

Step(p) ==
    \/ p \in Runs /\ (Embed(p) \/ Upsert(p) \/ UpsertUnanswered(p))
    \/ p \in Starters /\ Start(p)
    \/ Initialize(p)

Next == \E p \in Processes : Step(p) \/ Stop(p)

\* Requests to Ollama and Qdrant have timeouts and delays end, so a process goes on; nothing
\* forces an answer to be a good one.
Spec == Init /\ [][Next]_vars /\ \A p \in Processes : WF_vars(Step(p))

-----------------------------------------------------------------------------
(* A point has the vector of the chunk of its own place, in the page as some *)
(* delivery has scraped it: an answer with another number of vectors cannot  *)
(* shift the vectors of the slices that follow, though only the total is     *)
(* checked again before the points are written.  A delivery that is done has *)
(* written all its chunks, and what earlier ones have left stands behind     *)
(* them, the oldest last: nothing removes it, but nothing old stands between *)
(* or before newer points, wherever runs were stopped.                       *)
VectorsMatchChunks ==
    \A r \in Runs :
        /\ \A i \in 1..Len(points[r]) : points[r][i].chunk = i
        /\ \A i, k \in 1..Len(points[r]) :
              i < k => points[r][k].delivery <= points[r][i].delivery
        /\ pc[r] = "done" =>
              /\ chunks[r] <= Len(points[r])
              /\ \A i \in 1..chunks[r] : points[r][i].delivery = delivery[r]

(* Points are only ever written to a collection with both payload indexes,  *)
(* whichever processes create it at the same time and wherever one of them  *)
(* is stopped: deletions and searches filter on both fields.                *)
PointsAreIndexed ==
    (\E r \in Runs : points[r] # <<>>) => collection.exists /\ collection.indexes = Fields

(* Every run comes to an end, whatever Ollama and Qdrant answer.            *)
EveryRunEnds == \A r \in Runs : <>[](pc[r] \in {"done", "failed"})
=============================================================================
