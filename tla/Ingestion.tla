----------------------------- MODULE Ingestion ------------------------------
(***************************************************************************)
(* The ingestion pipeline end to end, one action per step between two      *)
(* awaits that touch shared state:                                         *)
(*   - API handlers that register batches, delete a document and delete a  *)
(*     docset (app/api/v1/endpoints, app/services/repository.py);          *)
(*   - the ARQ queue (app/workers), which delivers a job at least once;    *)
(*   - the worker's run of a job (app/services/pipeline.py);               *)
(*   - the rows of PostgreSQL and the points of Qdrant that they share.    *)
(* A registration is two steps, what it reads and what it commits, so that *)
(* registrations overlap with each other and with deletions.  Every other  *)
(* database transaction is one step here; Registry takes all of them apart *)
(* into their statements.                                                  *)
(***************************************************************************)
EXTENDS Naturals, FiniteSets

CONSTANTS
    Docs,             \* rows of the documents table, one per (docset, URL) pair
    Docsets,          \* docset names
    DocsetOf,         \* the docset of each document
    ReservedDocsets,  \* names DELETE /docsets/{docset} rejects ("default")
    Jobs,             \* identifiers of ingestion jobs
    Clients,          \* API requests in progress at the same time
    MaxChunks,        \* bound: chunks a page may be split into
    MaxTries,         \* bound: deliveries of a job by ARQ (its max_tries)
    None              \* no document, no job, no target

ASSUME DataAssumption ==
    /\ IsFiniteSet(Docs)
    /\ DocsetOf \in [Docs -> Docsets]
    /\ ReservedDocsets \subseteq Docsets
    /\ MaxChunks \in Nat
    /\ MaxTries \in Nat \ {0}

ASSUME NoneAssumption == None \notin Docs \cup Docsets \cup Jobs

VARIABLES
    doc,              \* documents: does the row exist, is deleted_at null
    chunkCount,       \* documents.chunk_count
    docset,           \* docsets: does the row exist, is deleted_at null
    docsetCount,      \* docsets.document_count
    latest,           \* the job of a document with the highest created_at
    jobDoc,           \* ingestion_jobs.document_id
    status,           \* ingestion_jobs.status
    queue,            \* where the job is between commit and the end of its delivery
    tries,            \* deliveries started by ARQ
    stage,            \* the next step of the run that works on the job
    found,            \* chunks the run has extracted
    points,           \* Qdrant: chunk indexes stored under a doc_id
    handler,          \* the next step of a request
    target,           \* the document or docset a request deletes, the docset it submits to
    batch             \* what a registration in progress has read

dbVars == <<doc, chunkCount, docset, docsetCount, latest, jobDoc>>
workerVars == <<status, queue, tries, stage, found>>
apiVars == <<handler, target, batch>>
vars == <<dbVars, workerVars, points, apiVars>>

RowStates == {"absent", "active", "deleted"}
DocsetStates == {"absent", "active", "pruned"}
JobStatuses == {"none", "PENDING", "SCRAPING", "CHUNKING", "EMBEDDING", "INDEXED", "FAILED"}
TerminalStatuses == {"INDEXED", "FAILED"}
QueueStates == {"none", "outbox", "lost", "queued", "running", "done"}
RunStages == {"idle", "start", "extract", "check", "embed", "upsert", "finalize",
              "index", "failing", "stopping", "requeue", "returned"}
HandlerStages == {"idle", "register", "purge", "mark", "purgeDocset"}

\* Stages at which an exception reaches the except clauses of run.
Stoppable == {"start", "extract", "check", "embed", "upsert", "finalize", "index"}

\* Stages of a run that has passed the check for deletion and may still write points.
PastGuard == {"embed", "upsert"}

DocsIn(ds) == {d \in Docs : DocsetOf[d] = ds}
ActiveDocs(ds) == {d \in DocsIn(ds) : doc[d] = "active"}
FreeJobs == {j \in Jobs : status[j] = "none"}

\* What a registration keeps of the rows it has read: whether it creates or revives the
\* docset, the documents it accepts by outcome, and the latest jobs.
Batches == [revives : BOOLEAN, new : SUBSET Docs, revived : SUBSET Docs,
            retried : SUBSET Docs, last : [Docs -> Jobs \cup {None}]]
NoBatch == [revives |-> FALSE, new |-> {}, revived |-> {}, retried |-> {},
            last |-> [d \in Docs |-> None]]
Accepted(c) == batch[c].new \cup batch[c].revived \cup batch[c].retried

\* Chunks are numbered from 0, and a point's identifier is made of the document and the index.
ChunkIndexesFromOne(n) == 1..n
ChunkIndexes(n) == 0..(n - 1)

(* The types of the tables, the queue, the runs, the points and the requests. *)
TypeOK ==
    /\ doc \in [Docs -> RowStates]
    /\ chunkCount \in [Docs -> 0..MaxChunks]
    /\ docset \in [Docsets -> DocsetStates]
    /\ docsetCount \in [Docsets -> Nat]
    /\ latest \in [Docs -> Jobs \cup {None}]
    /\ jobDoc \in [Jobs -> Docs \cup {None}]
    /\ status \in [Jobs -> JobStatuses]
    /\ queue \in [Jobs -> QueueStates]
    /\ tries \in [Jobs -> 0..MaxTries]
    /\ stage \in [Jobs -> RunStages]
    /\ found \in [Jobs -> 0..MaxChunks]
    /\ points \in [Docs -> SUBSET (0..(MaxChunks - 1))]
    /\ handler \in [Clients -> HandlerStages]
    /\ target \in [Clients -> Docs \cup Docsets \cup {None}]
    /\ batch \in [Clients -> Batches]

Init ==
    /\ doc = [d \in Docs |-> "absent"]
    /\ chunkCount = [d \in Docs |-> 0]
    /\ docset = [ds \in Docsets |-> "absent"]
    /\ docsetCount = [ds \in Docsets |-> 0]
    /\ latest = [d \in Docs |-> None]
    /\ jobDoc = [j \in Jobs |-> None]
    /\ status = [j \in Jobs |-> "none"]
    /\ queue = [j \in Jobs |-> "none"]
    /\ tries = [j \in Jobs |-> 0]
    /\ stage = [j \in Jobs |-> "idle"]
    /\ found = [j \in Jobs |-> 0]
    /\ points = [d \in Docs |-> {}]
    /\ handler = [c \in Clients |-> "idle"]
    /\ target = [c \in Clients |-> None]
    /\ batch = [c \in Clients |-> NoBatch]

\* A step of a request; one that has ended forgets what it was about.
HandlerGoes(c, from, to) ==
    /\ handler[c] = from
    /\ handler' = [handler EXCEPT ![c] = to]
    /\ target' = [target EXCEPT ![c] = IF to = "idle" THEN None ELSE target[c]]
    /\ batch' = [batch EXCEPT ![c] = NoBatch]

-----------------------------------------------------------------------------
(***************************************************************************)
(* Submitting a batch: create_batch_and_jobs looks at the docset and at    *)
(* every document, then writes and commits, without a lock on what it has  *)
(* only read; the endpoint sends every accepted job to the queue.          *)
(***************************************************************************)

\* Mutant: a document whose job has not failed is accepted again.
RetriableUnlessIndexed(d) ==
    doc[d] = "active" /\ (latest[d] = None \/ status[latest[d]] # "INDEXED")

\* The outcome "reingest_failed" of _inspect_single_url_status.
Retriable(d) ==
    doc[d] = "active" /\ (latest[d] = None \/ status[latest[d]] = "FAILED")

\* Documents whose rows the SELECT count of create_batch_and_jobs sees.  The session
\* does not autoflush: a new row is flushed as it is added and takes along the rows
\* reactivated before it in the batch, but a row reactivated after the last new one is
\* still pending when the count runs.
FlushedBeforeCount(new, revived) ==
    {new \cup r : r \in IF new = {} THEN {{}} ELSE SUBSET revived}

\* Mutant: a pruned docset stays pruned.
CreateDocsetOnly(ds) == IF docset[ds] = "absent" THEN "active" ELSE docset[ds]

\* _ensure_docset: create the docset or clear its deleted_at.
EnsuredDocset(ds) == "active"

\* A batch that revives or creates the docset keeps its row locked until it commits.
Reviving(ds) ==
    \E c \in Clients : handler[c] = "register" /\ target[c] = ds /\ batch[c].revives

\* The reads of a batch for docset ds; S is what is left of it without duplicates and
\* domains that are not allowed, so it may be empty.
Ingest(c, ds, S) ==
    /\ handler[c] = "idle"
    /\ docset[ds] = "active" \/ ~Reviving(ds)
    /\ handler' = [handler EXCEPT ![c] = "register"]
    /\ target' = [target EXCEPT ![c] = ds]
    /\ batch' = [batch EXCEPT ![c] =
                    [revives |-> docset[ds] # "active",
                     new |-> {d \in S : doc[d] = "absent"},
                     revived |-> {d \in S : doc[d] = "deleted"},
                     retried |-> {d \in S : Retriable(d)},
                     last |-> [d \in Docs |-> IF d \in S THEN latest[d] ELSE None]]]
    /\ UNCHANGED <<dbVars, workerVars, points>>

\* Its writes and its commit: new documents are entered, deleted ones reactivated whatever
\* has become of them, and retried ones not written at all.  Where another batch has
\* committed a job of the document since the look at it, either job may have been created
\* later.
Register(c) ==
    LET ds == target[c]
        accepted == Accepted(c)
        raced == {d \in accepted : latest[d] # batch[c].last[d]}
    IN /\ HandlerGoes(c, "register", "idle")
       /\ batch[c].revives \/ ~Reviving(ds)
       /\ \A d \in batch[c].new : doc[d] = "absent"
       /\ \E id \in [accepted -> FreeJobs], older \in SUBSET raced,
             flushed \in FlushedBeforeCount(batch[c].new, batch[c].revived) :
             LET isNew(j) == \E d \in accepted : id[d] = j
             IN /\ \A d, e \in accepted : id[d] = id[e] => d = e
                /\ doc' = [d \in Docs |-> IF d \in batch[c].new \cup batch[c].revived
                                          THEN "active" ELSE doc[d]]
                /\ chunkCount' = [d \in Docs |-> IF d \in batch[c].revived THEN 0 ELSE chunkCount[d]]
                /\ docset' = [docset EXCEPT ![ds] = IF batch[c].revives THEN EnsuredDocset(ds) ELSE @]
                /\ docsetCount' =
                      [docsetCount EXCEPT ![ds] = Cardinality(ActiveDocs(ds) \cup flushed)]
                /\ latest' = [d \in Docs |-> IF d \in accepted \ older THEN id[d] ELSE latest[d]]
                /\ jobDoc' = [j \in Jobs |->
                      IF isNew(j) THEN CHOOSE d \in accepted : id[d] = j ELSE jobDoc[j]]
                /\ status' = [j \in Jobs |-> IF isNew(j) THEN "PENDING" ELSE status[j]]
                /\ queue' = [j \in Jobs |-> IF isNew(j) THEN "outbox" ELSE queue[j]]
                /\ UNCHANGED <<tries, stage, found, points>>

\* A new document was entered by another batch first and is refused by the unique index, or
\* the transaction fails otherwise: nothing of the batch is left.
RegisterFails(c) ==
    /\ HandlerGoes(c, "register", "idle")
    /\ UNCHANGED <<dbVars, workerVars, points>>

\* enqueue_ingestion_job reaches Redis.
Enqueue(j) ==
    /\ queue[j] = "outbox"
    /\ queue' = [queue EXCEPT ![j] = "queued"]
    /\ UNCHANGED <<dbVars, status, tries, stage, found, points, apiVars>>

\* It raises DispatcherError, or the API process ends first: nothing sends the job again.
EnqueueFails(j) ==
    /\ queue[j] = "outbox"
    /\ queue' = [queue EXCEPT ![j] = "lost"]
    /\ UNCHANGED <<dbVars, status, tries, stage, found, points, apiVars>>

-----------------------------------------------------------------------------
(***************************************************************************)
(* DELETE .../documents/{doc_id}: check the row, purge the points, then    *)
(* soft_delete_document; each is a step of its own.                        *)
(***************************************************************************)
DeleteDoc(c, d) ==
    /\ handler[c] = "idle"
    /\ doc[d] = "active"
    /\ handler' = [handler EXCEPT ![c] = "purge"]
    /\ target' = [target EXCEPT ![c] = d]
    /\ UNCHANGED <<dbVars, workerVars, points, batch>>

PurgeDoc(c) ==
    /\ HandlerGoes(c, "purge", "mark")
    /\ points' = [points EXCEPT ![target[c]] = {}]
    /\ UNCHANGED <<dbVars, workerVars>>

\* delete_by_doc_id raises VectorStoreError and the database is untouched.
PurgeDocFails(c) ==
    /\ HandlerGoes(c, "purge", "idle")
    /\ UNCHANGED <<dbVars, workerVars, points>>

\* The points are purged and the answer is lost.
PurgeDocUnanswered(c) ==
    /\ HandlerGoes(c, "purge", "idle")
    /\ points' = [points EXCEPT ![target[c]] = {}]
    /\ UNCHANGED <<dbVars, workerVars>>

\* Mutant: the row to be deleted is counted before its deleted_at is flushed.
RemainingBeforeFlush(d) == ActiveDocs(DocsetOf[d])

\* Documents _sync_docset_pruning counts after the flush of soft_delete_document.
Remaining(d) == ActiveDocs(DocsetOf[d]) \ {d}

\* soft_delete_document finds the row still active and deletes it, recounts the docset
\* and prunes it when nothing is left.
MarkDeleted(c) ==
    LET d == target[c]
        ds == DocsetOf[d]
        left == Cardinality(Remaining(d))
    IN /\ HandlerGoes(c, "mark", "idle")
       /\ doc[d] = "active" /\ ~Reviving(ds)
       /\ doc' = [doc EXCEPT ![d] = "deleted"]
       /\ docsetCount' = [docsetCount EXCEPT ![ds] = left]
       /\ docset' = [docset EXCEPT ![ds] = IF left = 0 THEN "pruned" ELSE docset[ds]]
       /\ UNCHANGED <<chunkCount, latest, jobDoc, workerVars, points>>

\* Another request has deleted the row in between: 404.
MarkNotFound(c) ==
    /\ HandlerGoes(c, "mark", "idle")
    /\ doc[target[c]] # "active"
    /\ UNCHANGED <<dbVars, workerVars, points>>

\* The transaction fails, or the API process ends.
MarkFails(c) ==
    /\ HandlerGoes(c, "mark", "idle")
    /\ UNCHANGED <<dbVars, workerVars, points>>

-----------------------------------------------------------------------------
(***************************************************************************)
(* DELETE /docsets/{docset}: delete_docset commits first, the points of    *)
(* the docset are purged after.                                            *)
(***************************************************************************)
DeleteDocset(c, ds) ==
    /\ handler[c] = "idle"
    /\ ds \notin ReservedDocsets
    /\ docset[ds] = "active"
    /\ docsetCount[ds] # 0
    /\ doc' = [d \in Docs |-> IF d \in ActiveDocs(ds) THEN "deleted" ELSE doc[d]]
    /\ docset' = [docset EXCEPT ![ds] = "pruned"]
    /\ docsetCount' = [docsetCount EXCEPT ![ds] = 0]
    /\ handler' = [handler EXCEPT ![c] = "purgeDocset"]
    /\ target' = [target EXCEPT ![c] = ds]
    /\ UNCHANGED <<chunkCount, latest, jobDoc, workerVars, points, batch>>

\* Mutant: the purge of a docset matches nothing.
WithoutNothing(ds) == points

\* Every point carries the docset of its document as payload.
WithoutDocset(ds) == [d \in Docs |-> IF DocsetOf[d] = ds THEN {} ELSE points[d]]

PurgeDocset(c) ==
    /\ HandlerGoes(c, "purgeDocset", "idle")
    /\ points' = WithoutDocset(target[c])
    /\ UNCHANGED <<dbVars, workerVars>>

\* delete_by_docset raises, or the API process ends: the deletion stays committed.
PurgeDocsetFails(c) ==
    /\ HandlerGoes(c, "purgeDocset", "idle")
    /\ UNCHANGED <<dbVars, workerVars, points>>

-----------------------------------------------------------------------------
(***************************************************************************)
(* The queue and the worker.  ARQ delivers a job, run executes the stages, *)
(* and every _update_job commits in a session of its own.                  *)
(***************************************************************************)
Take(j) ==
    /\ queue[j] = "queued"
    /\ tries[j] < MaxTries
    /\ queue' = [queue EXCEPT ![j] = "running"]
    /\ tries' = [tries EXCEPT ![j] = tries[j] + 1]
    /\ stage' = [stage EXCEPT ![j] = "start"]
    /\ UNCHANGED <<dbVars, status, found, points, apiVars>>

\* A job delivered too often is dropped without calling run_ingestion_pipeline.
Drop(j) ==
    /\ queue[j] = "queued"
    /\ tries[j] = MaxTries
    /\ queue' = [queue EXCEPT ![j] = "done"]
    /\ UNCHANGED <<dbVars, status, tries, stage, found, points, apiVars>>

\* run_ingestion_pipeline cannot build the service and returns.
SkipRun(j) ==
    /\ stage[j] = "start"
    /\ stage' = [stage EXCEPT ![j] = "returned"]
    /\ UNCHANGED <<dbVars, status, queue, tries, found, points, apiVars>>

StageGoes(j, from, to) ==
    /\ stage[j] = from
    /\ stage' = [stage EXCEPT ![j] = to]

\* The local variables of _execute_pipeline are gone.
ForgetChunks(j) == found' = [found EXCEPT ![j] = 0]

\* _extract_content: the URL is allowed, the job becomes SCRAPING.
Scrape(j) ==
    /\ StageGoes(j, "start", "extract")
    /\ status' = [status EXCEPT ![j] = "SCRAPING"]
    /\ UNCHANGED <<dbVars, queue, tries, found, points, apiVars>>

\* The extractor returns a page that splits into n chunks; the job becomes CHUNKING.
Chunk(j, n) ==
    /\ StageGoes(j, "extract", "check")
    /\ status' = [status EXCEPT ![j] = "CHUNKING"]
    /\ found' = [found EXCEPT ![j] = n]
    /\ UNCHANGED <<dbVars, queue, tries, points, apiVars>>

\* Mutant: deleted_at of the document is not looked at.
IsDocsetActive(d) == doc[d] # "absent" /\ docset[DocsetOf[d]] # "pruned"

IsDocumentActive(d) == doc[d] = "active" /\ docset[DocsetOf[d]] # "pruned"

\* The only check for deletion of a run, before anything is embedded.
CheckActive(j) ==
    /\ \/ /\ StageGoes(j, "check", "embed")
          /\ IsDocumentActive(jobDoc[j])
          /\ UNCHANGED found
       \/ /\ StageGoes(j, "check", "failing")
          /\ ~IsDocumentActive(jobDoc[j])
          /\ ForgetChunks(j)
    /\ UNCHANGED <<dbVars, status, queue, tries, points, apiVars>>

\* Mutant: the chunks are never upserted.
NextStageWithoutVectors(j) == "finalize"

\* Without chunks the vector store is not touched.
StageAfterEmbedding(j) == IF found[j] = 0 THEN "finalize" ELSE "upsert"

\* Mutant: the job keeps the status CHUNKING while it embeds.
EmbedSilently(j) ==
    /\ StageGoes(j, "embed", StageAfterEmbedding(j))
    /\ UNCHANGED <<dbVars, status, queue, tries, found, points, apiVars>>

\* _embed_and_index_chunks: the job becomes EMBEDDING.
Embed(j) ==
    /\ StageGoes(j, "embed", StageAfterEmbedding(j))
    /\ status' = [status EXCEPT ![j] = "EMBEDDING"]
    /\ UNCHANGED <<dbVars, queue, tries, found, points, apiVars>>

\* The points of one request are written together, over points with the same index.
WithChunks(j) == [points EXCEPT ![jobDoc[j]] = @ \cup ChunkIndexes(found[j])]

Upsert(j) ==
    /\ StageGoes(j, "upsert", "finalize")
    /\ points' = WithChunks(j)
    /\ UNCHANGED <<dbVars, status, queue, tries, found, apiVars>>

\* The points are written and the answer is lost.
UpsertUnanswered(j) ==
    /\ StageGoes(j, "upsert", "failing")
    /\ points' = WithChunks(j)
    /\ ForgetChunks(j)
    /\ UNCHANGED <<dbVars, status, queue, tries, apiVars>>

\* update_document_metadata, whether or not the document is deleted.
Finalize(j) ==
    /\ StageGoes(j, "finalize", "index")
    /\ chunkCount' = [chunkCount EXCEPT ![jobDoc[j]] = found[j]]
    /\ ForgetChunks(j)
    /\ UNCHANGED <<doc, docset, docsetCount, latest, jobDoc, status, queue, tries,
                   points, apiVars>>

Index(j) ==
    /\ StageGoes(j, "index", "returned")
    /\ status' = [status EXCEPT ![j] = "INDEXED"]
    /\ UNCHANGED <<dbVars, queue, tries, found, points, apiVars>>

\* The URL is not allowed, a stage raises, or job_timeout cancels the run.
StageFails(j) ==
    /\ stage[j] \in Stoppable
    /\ stage' = [stage EXCEPT ![j] = "failing"]
    /\ ForgetChunks(j)
    /\ UNCHANGED <<dbVars, status, queue, tries, points, apiVars>>

\* The worker shuts down and cancels the run; ARQ delivers the job again.
Stop(j) ==
    /\ stage[j] \in Stoppable
    /\ stage' = [stage EXCEPT ![j] = "stopping"]
    /\ ForgetChunks(j)
    /\ UNCHANGED <<dbVars, status, queue, tries, points, apiVars>>

\* Where a run stands once _handle_failure has returned.
StageAfterFailure(j) == IF stage[j] = "stopping" THEN "requeue" ELSE "returned"

\* _handle_failure cannot update the job: it logs and swallows the exception.
FailSwallowed(j) ==
    /\ stage[j] \in {"failing", "stopping"}
    /\ stage' = [stage EXCEPT ![j] = StageAfterFailure(j)]
    /\ UNCHANGED <<dbVars, status, queue, tries, found, points, apiVars>>

\* _handle_failure commits FAILED.
Fail(j) ==
    /\ stage[j] \in {"failing", "stopping"}
    /\ stage' = [stage EXCEPT ![j] = StageAfterFailure(j)]
    /\ status' = [status EXCEPT ![j] = "FAILED"]
    /\ UNCHANGED <<dbVars, queue, tries, found, points, apiVars>>

\* ARQ records the result of a run that returned.
Ack(j) ==
    /\ StageGoes(j, "returned", "idle")
    /\ queue' = [queue EXCEPT ![j] = "done"]
    /\ UNCHANGED <<dbVars, status, tries, found, points, apiVars>>

Requeue(j) ==
    /\ StageGoes(j, "requeue", "idle")
    /\ queue' = [queue EXCEPT ![j] = "queued"]
    /\ UNCHANGED <<dbVars, status, tries, found, points, apiVars>>

\* The worker process dies at any stage, or is shut down while it records a failure or a
\* result; the job is delivered again, at the latest once its in-progress key expires.
Crash(j) ==
    /\ stage[j] # "idle"
    /\ stage' = [stage EXCEPT ![j] = "idle"]
    /\ queue' = [queue EXCEPT ![j] = "queued"]
    /\ ForgetChunks(j)
    /\ UNCHANGED <<dbVars, status, tries, points, apiVars>>

-----------------------------------------------------------------------------
RunStep(j) ==
    \/ Scrape(j) \/ (\E n \in 0..MaxChunks : Chunk(j, n)) \/ CheckActive(j)
    \/ Embed(j) \/ Upsert(j) \/ UpsertUnanswered(j) \/ Finalize(j) \/ Index(j)
    \/ Fail(j)

JobStep(j) ==
    \/ Enqueue(j) \/ Take(j) \/ Drop(j) \/ RunStep(j)
    \/ StageFails(j) \/ Stop(j) \/ Ack(j) \/ Requeue(j)

JobFault(j) == EnqueueFails(j) \/ SkipRun(j) \/ FailSwallowed(j) \/ Crash(j)

HandlerStep(c) ==
    \/ Register(c) \/ RegisterFails(c)
    \/ PurgeDoc(c) \/ PurgeDocFails(c) \/ MarkDeleted(c) \/ MarkNotFound(c) \/ PurgeDocset(c)

HandlerFault(c) == PurgeDocUnanswered(c) \/ MarkFails(c) \/ PurgeDocsetFails(c)

Request ==
    \/ \E c \in Clients, ds \in Docsets : \E S \in SUBSET DocsIn(ds) : Ingest(c, ds, S)
    \/ \E c \in Clients, d \in Docs : DeleteDoc(c, d)
    \/ \E c \in Clients, ds \in Docsets : DeleteDocset(c, ds)

Next ==
    \/ Request
    \/ \E j \in Jobs : JobStep(j) \/ JobFault(j)
    \/ \E c \in Clients : HandlerStep(c) \/ HandlerFault(c)

Spec == Init /\ [][Next]_vars

-----------------------------------------------------------------------------
(***************************************************************************)
(* What holds under every interleaving, crash, cancellation and lost       *)
(* request.                                                                *)
(***************************************************************************)
Running(j) == queue[j] = "running"

\* A run and the row it reports to agree (_update_job is called before the work of each
\* stage), a job that was not delivered yet is PENDING, and rows point at each other:
\* a job has a document, a document has a latest job of its own, a document has a docset.
RunMatchesRow ==
    /\ \A j \in Jobs :
          /\ Running(j) <=> stage[j] # "idle"
          /\ stage[j] = "extract" => status[j] = "SCRAPING"
          /\ stage[j] \in {"check", "embed"} => status[j] = "CHUNKING"
          /\ stage[j] \in {"upsert", "finalize", "index"} => status[j] = "EMBEDDING"
          /\ status[j] = "none" <=> queue[j] = "none"
          /\ status[j] = "none" <=> jobDoc[j] = None
          /\ queue[j] \in {"outbox", "lost"} => status[j] = "PENDING"
          /\ jobDoc[j] # None => doc[jobDoc[j]] # "absent"
    /\ \A d \in Docs :
          /\ doc[d] = "absent" <=> latest[d] = None
          /\ latest[d] # None => jobDoc[latest[d]] = d

\* A docset that is pruned or was never created has no active document and counts none:
\* delete_docset, _sync_docset_pruning and _ensure_docset keep the two tables together
\* when requests for one docset do not overlap (and only then, see Registry).
PrunedDocsetIsEmpty ==
    \A ds \in Docsets :
        docset[ds] # "active" => ActiveDocs(ds) = {} /\ docsetCount[ds] = 0

\* document_count may fall behind the active documents of the docset (rows reactivated
\* without a flush), but while requests for one docset do not overlap it never exceeds
\* them: no listed docset turns out to be empty.
CountNeverExceedsActive ==
    \A ds \in Docsets : docsetCount[ds] <= Cardinality(ActiveDocs(ds))

\* Nothing is left of a deleted document and no run that passed the check may write.
Clean(d) ==
    /\ doc[d] = "deleted"
    /\ points[d] = {}
    /\ \A j \in Jobs : jobDoc[j] = d => stage[j] \notin PastGuard

\* What the check for deletion in _execute_pipeline achieves: once a deleted document
\* is clean, no queued, running, redelivered or restarted job brings its vectors back;
\* only a request that reactivates the document ends this.
CleanStaysClean == [][\A d \in Docs : Clean(d) => Clean(d)' \/ doc'[d] = "active"]_vars

\* The right to write the row of a job, as JobLifecycle names it.
Lease(j) ==
    IF queue[j] = "none" THEN "unused"
    ELSE IF queue[j] \in {"outbox", "queued"} THEN "waiting"
    ELSE IF queue[j] \in {"lost", "done"} THEN "settled"
    ELSE IF stage[j] = "start" THEN "claimed"
    ELSE IF stage[j] \in {"returned", "requeue"} THEN "ended"
    ELSE "working"

Life == INSTANCE JobLifecycle WITH state <- status, lease <- [j \in Jobs |-> Lease(j)]

\* Every run, retry, cancellation and redelivery of the pipeline is a behaviour of
\* JobLifecycle: one writer at a time, one stage forward at a time, one terminal write
\* per run, and no write to a settled job.
LifecycleSpec == Life!Spec

\* Ingestion pipeline specification, "Cancellation/deletion guard prevents ghost vector
\* upsert": no vectors are written for a document that has been deleted.
NoGhostUpsert == [][\A d \in Docs : doc[d] = "deleted" => points'[d] \subseteq points[d]]_vars
=============================================================================
