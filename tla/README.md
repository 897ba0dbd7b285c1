# TLA+ specifications of the librarian pipeline

The repository is a service that ingests web pages: a FastAPI application registers
batches of URLs in PostgreSQL and sends one job per URL to Redis, an ARQ worker scrapes,
chunks and embeds each page and stores the vectors in Qdrant, and the API lists, deletes
and reports on what was ingested.  PostgreSQL and Qdrant are never updated together, jobs
are delivered at least once, and every await is a point where another request or run may
step in.  These modules say what holds nevertheless, and what does not.

## 1. The system

| part | source | state | operations |
| --- | --- | --- | --- |
| endpoints | `app/api/v1/endpoints` | none of their own; a request keeps the rows it read | submit a batch, delete a document, delete a docset, list, check, poll a batch |
| registry | `app/services/repository.py`, `app/models` | `documents`, `docsets`, `ingestion_jobs`, `batch_ingestion_jobs` | register, revive, count, soft-delete, prune, update a job, finalize a document |
| batch status | `repository.py` 299-400 | `batch_ingestion_jobs.status`, `finished_at` | aggregate the jobs, store the result |
| dispatcher | `app/workers/dispatcher.py` | Redis pool | send a job |
| worker | `app/workers/tasks.py`, ARQ | queue, deliveries, in-progress keys | deliver, retry, time out, shut down |
| pipeline | `app/services/pipeline.py` | local variables of a run | scrape, chunk, check, embed, upsert, finalize, fail |
| vector store | `app/services/vector_store/qdrant.py` | points by document and chunk index | create, upsert, purge, search |
| extractor | `app/services/extractors/web.py` | attempt counter | crawl, validate, back off, retry |
| rate limiter | `app/services/extractors/limiter.py` | one semaphore per domain | acquire, release |
| strategies, cleaning | `app/services/extractors/strategies`, `cleaning.py` | a registry filled at import | resolve, clean |
| chunker | `app/services/chunkers/hybrid.py` | parser state while a page is read | parse sections, split, merge |
| embedding client | `app/services/embeddings/ollama.py` | HTTP client | batch, post, retry, validate |
| allowlist | `app/core/security.py` | none | match a URL |
| application | `app/main.py` | dispatcher and vector store of the process | start, stop, turn exceptions into answers |
| settings, logging, sessions, migrations, scripts | `app/core`, `alembic`, `scripts` | configuration | none that changes shared state |

How they work together.  A request to ingest registers documents and jobs in one
transaction (`create_batch_and_jobs`) and, after the commit, sends one job per accepted URL
to the ARQ queue.  A worker takes a job, opens a short session for every status update, and
between those sessions awaits the extractor (which awaits the limiter), the embedding
server and Qdrant.  Requests that delete a document or a docset touch the same rows and
points from another process.  Nothing locks a document across these steps: what protects it
is the status read at submission (`_inspect_single_url_status`) and one look at
`deleted_at` in the middle of a run (`_is_document_active`).

### What is hard about it

- **Two stores, no common transaction.**  Deleting a document purges Qdrant first and marks
  the row second; deleting a docset does it the other way round.  Either half may fail, and
  a run may upsert in between.
- **Delivery at least once.**  ARQ delivers a job again after a shutdown or a crash, on a
  row that may be in any status, the terminal ones included.
- **Cancellation at every await**, by `job_timeout` (the delivery is over) and by a shutdown
  (the job comes back); `_handle_failure` shields one last write and swallows its errors.
- **Stale reads.**  The check for deletion is followed by the embedding; the count of a
  docset runs in a session without autoflush; a poll computes the status of a batch from
  rows read by several statements.
- **Slots held for long.**  A run holds its slot of a domain through every retry and pause
  while others queue for it and may be cancelled in the queue, or after they were handed a
  slot and before they know.
- **Transactions that overlap.**  A request reads, counts and writes in several statements at
  READ COMMITTED; requests lock a document and its docset in either order, and a unique index
  may refuse what a look before found free.
- **Sending in parallel.**  The jobs of a batch are sent all at once by `asyncio.gather`, the
  first failure is answered while the other calls go on, and the client tries again.
- **Everybody creates the collection**: the API, the workers and every run, each with several
  calls between which another one acts or the process ends.

### What makes each part correct

| part | what must hold |
| --- | --- |
| registry | one active document per URL; one writer per document; no document without a job; a pruned docset is empty; `document_count` says how many documents are active; requests do not wait for each other for good |
| submission and dispatcher | the answer says what happened; a repeated request ingests nothing twice; one failing call does not stop another; what was sent is settled |
| allowlist and strategies | only URLs in the scope of an allowed prefix are taken; a strategy extracts what is in its scope, and the one registered last counts |
| pipeline and delivery | rows and runs agree; stages in order; one terminal write per run; no write to a settled job; every job ends |
| deletion and vector store | a deleted document leaves no vectors; an indexed one can be found; what is clean stays clean |
| batch status | the aggregate means what it says; the stored status converges to it; outcomes are dated |
| extractor and limiter | no slot lost or used twice; no waiting for another domain; first come, first served; everybody is served; attempts and pauses bounded |
| chunker | every chunk within its limit, no text lost, no word cut that fits, every chunk under its headings, numbers without gaps |
| embedding client and collection | one vector per chunk, in order; points only in a collection with both indexes; every run ends |

## 2. The modules

| module | what it is | lines of code it stands for |
| --- | --- | --- |
| `JobLifecycle` | abstract specification of one job: its row and the right to write it | none: the promise `Ingestion` keeps |
| `Ingestion` | endpoints, registry, queue, worker, pipeline and vector store together | `documents.py`, `docsets.py`, `repository.py`, `tasks.py`, `pipeline.py`, `qdrant.py`, `dispatcher.py` |
| `IngestionUse` | the same under restrictions on clients and environment, with the fairness | adds no code |
| `Registry` | the transactions of one docset statement by statement, as they overlap | `repository.py`, `db.py`, `models/document.py` |
| `Allowlist` | matching of URLs, registration and lookup of strategies, pure operators | `security.py`, `strategies/registry.py` |
| `Submission` | both submitting endpoints, the dispatcher, clients that try again; EXTENDS `Allowlist` | `documents.py`, `docsets.py`, `dispatcher.py`, `main.py` |
| `Embedding` | from chunks to points: embedding client, creation of the collection, upsert | `ollama.py`, `qdrant.py`, `main.py` |
| `Crawl` | retries of the extractor and the semaphores of the limiter | `web.py`, `limiter.py` |
| `Splitting` | splitting and merging of one long text, pure operators | `hybrid.py` 118-243 |
| `Chunking` | the chunker: sections, headings, code, chunks; EXTENDS `Splitting` | `hybrid.py` |
| `BatchStatus` | status updates of the jobs of a batch, and the polls | `repository.py` |
| `IngestionProofs`, `RegistryProofs`, `SubmissionProofs`, `EmbeddingProofs`, `BatchStatusProofs`, `CrawlProofs`, `ChunkingProofs` | theorems | |
| `FoldProofs` | induction and folds, for the proofs about data | |
| `MCIngestion`, `MCRegistry`, `MCSubmission`, `MCEmbedding`, `MCCrawl`, `MCBatchStatus`, `MCChunking` | constants for TLC | |

`Ingestion` is the whole at the grain of one step per transaction, call or stage; a registration
is two steps, what it reads and what it commits.  Three modules
take such a step apart where its inside matters: `Registry` its transactions, `Submission` the
way from the request to the queue, `Embedding` the stage `EMBEDDING`.  They are connected by
what they leave out, not by a formal refinement: `Registry` and `Submission` see of a run only the status it
writes, `Submission` takes a run, and `Ingestion` the embedding, as one step.

### Ingestion

Variables of the database: `doc` (is the row there, is `deleted_at` null), `chunkCount`,
`docset` and `docsetCount` (the same for docsets and their `document_count`), `latest` (the
job with the highest `created_at` of a document), `jobDoc`, `status`.  Of the queue: `queue`
(`outbox` is a job that is committed and not yet sent, `lost` one that never will be),
`tries`.  Of a run: `stage`, named after what it does next, and `found`, the number of
chunks it holds.  Of Qdrant: `points`, the chunk indexes stored under a document.  Of a
request: `handler`, its next step, `target`, what it deletes or submits to, and `batch`, what a
registration has read: which documents it takes for new, deleted or failed, and their latest jobs.

| actions | code |
| --- | --- |
| `Ingest` | what `create_batch_and_jobs` reads: `_ensure_docset`, `_inspect_single_url_status` |
| `Register`, `RegisterFails` | what it writes and commits, or not: `_prepare_document_for_job`, the jobs, the count; `FlushedBeforeCount` is what the session without autoflush has written when the count runs |
| `Enqueue`, `EnqueueFails` | the loop of the endpoint over `enqueue_ingestion_job` |
| `DeleteDoc`, `PurgeDoc*`, `Mark*` | `delete_document`: check, `delete_by_doc_id`, `soft_delete_document` with `_sync_docset_pruning` |
| `DeleteDocset`, `PurgeDocset*` | `delete_docset`, then `delete_by_docset` |
| `Take`, `Drop`, `SkipRun`, `Ack`, `Requeue`, `Crash` | delivery by ARQ (external) and `run_ingestion_pipeline` |
| `Scrape`, `Chunk`, `CheckActive`, `Embed`, `Upsert*`, `Finalize`, `Index` | `_execute_pipeline`, one action per await that touches shared state |
| `StageFails`, `Stop`, `Fail`, `FailSwallowed` | the `except` clauses of `run` and `_handle_failure` |

A fault has an action of its own: a purge or an upsert whose answer is lost after Qdrant
has done the work, a transaction that does not commit, a request that dies half way.
Between the two steps of a registration anything may be committed by others: a document that
was new may be there (the unique index refuses it), one that was deleted is reactivated whatever
has become of it, and one whose job had failed gets another job although it has got one by now.
The row of a docset that is created or revived stays locked until the commit (`Reviving`).
Every other transaction is one step in this module (`Registry` takes all of them apart); progress, messages and `finished_at` are left to
`BatchStatus`, the outcomes of extraction, chunking and embedding are choices (a page with
0 to `MaxChunks` chunks, or a failure).

### Registry

`row`, `docset`, `jobDoc`, `jobStatus` are the committed tables of one docset; `wrote` and
`wroteDocset` what each open transaction has flushed; `tx` its session: the next statement
(`stage`), the items left, the document it is at, what it has loaded, changed and not flushed
(`dirty`), added and counted.  `reopened`, `alone` and `late` are history for the properties.
A statement sees `View`, the committed rows under the transaction's own; it waits
(`WaitsFor`) for the row another transaction has written and for a URL another one is entering
into the index; `KeyTaken` is the index refusing.

| actions | code |
| --- | --- |
| `SubmitBatch`, `DeleteDocument`, `DeleteDocset` | the requests begin with the rows they need |
| `ReadDocset`, `CreateDocset`, `ReviveDocset` | `_ensure_docset` |
| `InspectActive`, `InspectJob`, `InspectDeleted` | the SELECTs of `_inspect_single_url_status`, with the reactivation of `_prepare_document_for_job` |
| `FlushDocument`, `InsertDocument` | `session.flush`: UPDATEs of what is dirty, then the INSERT |
| `CountActive`, `WriteTotals`, `Commit` | the end of `create_batch_and_jobs`; the count precedes the last flush |
| `MarkDeleted`, `FindDocset`, `CountRemaining`, `Prune` | `soft_delete_document`, `_sync_docset_pruning` |
| `SelectMembers`, `DiscardDocset` | `delete_docset` |
| `Refused`, `DeadlockVictim`, `Abort` | failures, all ending in `Rollback` of `get_async_session` |
| `Work` | the status a worker writes, also that of a job delivered again |

### Allowlist and Submission

A URL is the record `urlsplit` makes of it.  `pc` is where the handler of a client's request is
(looking at the items, registering, about to gather, sending), `answer` what the client got;
`outcome` and `seen` are what it has found of each item and the latest job it has seen of it;
`status`, `place` and
`latest` are jobs, their documents and the latest job of each document; `send` is how far the
call of `enqueue_ingestion_job` for a job is, `connected` whether the dispatcher has a pool.
`raced` is history: the documents that got a job by a registration that had not seen the latest.
`Refusal` and `Outcome` are the checks before the registration and for every item, in their
order; `Inspect` looks at one item, `RegisterBatch` commits, whatever others have committed
since the look, and is refused only where a document it takes for new is there; `Gather`,
`Succeed`, `GiveUp` are the rest of the handler; `Connect`, `EnqueueJob`,
`CallFails` one call, which may fail although Redis stored the job; `Crash` ends handlers and
calls.  A run of a job is one step that fails if the URL is not allowed or has no strategy.

### Embedding

`pc` of a run or a starting process is its next call; `delivery` counts the deliveries of its
job, each of which finds `chunks` anew (`Begin`); `next`, `attempt`, `vectors` are the
local variables of `embed_batch` and `_post_with_retry`, `collection` is what Qdrant has,
`schema` what a process has read of it.  A vector is the number of the chunk it was made from,
so that a shift is seen; a point is a vector with the delivery that has written it, and `Written`
puts the points of a delivery over those of earlier ones, place by place.  `Extend`, `Refuse`, `Retry` are the ends of a request to Ollama with
any number of vectors; `CheckExists` to `IndexDocset` the calls of `initialize_collection`;
`UpsertUnanswered` is an upsert whose answer is lost; `Stop` ends a process anywhere, and a job is
delivered again, also after it has failed or is done.

### Crawl

`phase` of a run is what the coroutine awaits: nothing, the queue of the semaphore
(`waiting`), the event loop although its slot is already its own (`granted`), the crawler,
or `asyncio.sleep`.  `value` and `waiters` are the fields of `asyncio.Semaphore`: a release
adds a slot and wakes the first in the queue whose future is pending, and the slot is taken
off at that moment; the run leaves the queue when it is resumed, and passes on what is left
(`Rouse`).  `Acquire`, `Wait`, `Resume` are `acquire`; `CrawlSucceeds`, `CrawlRejected`,
`CrawlRetried`, `CrawlGivesUp`, `WakeUp` are the ends of an attempt in `_crawl_with_retry`;
`CancelWaiting`, `CancelGranted`, `CancelHolding` are a cancellation at each await.

### BatchStatus

`status`, `progress`, `failure`, `finished` are columns of a job as `update_job_status`
writes them, `runs` counts deliveries, `batch` and `batchFinished` are the row of the batch,
`step` and `held` the local state of a poll.  `Scrape`, `Advance`, `Fail` are the updates a
pipeline makes; `ReadBatch`, `ReadJobs`, `Answer`, `Store` the statements of
`get_batch_job_status` under READ COMMITTED; `Aggregate` is `_calculate_batch_aggregate`.

### Chunking and Splitting

A page is read one line per step, so that every page of the given lines is explored.
`heading_stack`, `content_lines` (`current_content_lines`) and `fence` (`code_fence_marker`
while `in_code_block`) are the fields of `_MarkdownSectionParser`; `FenceLine`, `TextLine` and
`HeadingLine` are the branches of `process_line`, `EndOfPage` is the last
`finalize_section`, `ChunkSection` one round of the loop of `chunk`.  `page` is a history
variable: the lines read.  What is a heading in it is defined again for the properties, from the
fences alone: `InCode` are the blocks as the code finds them, and `InBlock` those of Markdown, where
a fence ends a block if it is at least as long as the one that opened it and has nothing behind.  A character is a number: each letter of
a page has its own, so that a property can say of every letter where it went, and white
space is a space or a newline.  `Split`, `Merge`, `OverlapOf`, `Slices`, `ChooseSeparator`
follow `recursive_split_text` and its helpers on these texts; the recursion is a
recursive function over the separators.  Prefixes only have a length.

## 3. The runs

| run | configuration | shows |
| --- | --- | --- |
| `storm` | `MCIngestionStorm.cfg`: 1 document, 2 jobs, 2 deliveries in all, 2 requests at a time, 1 chunk | under every interleaving, overlapping registration, crash, cancellation and lost call: rows and runs agree (`RunMatchesRow`), a clean deleted document stays clean (`CleanStaysClean`), every job is a behaviour of `JobLifecycle` |
| `serial` | `MCIngestionSerial.cfg`: 2 documents of one docset, 2 jobs delivered twice, 2 requests, 2 chunks | used one thing at a time, PostgreSQL and Qdrant agree: no vectors of deleted documents, indexed documents searchable, one live job per document, docsets and counts sound |
| `settle` | `MCIngestionSettle.cfg`: 1 document, 2 jobs delivered twice each, 1 request at a time, 1 chunk, with fairness | every job ends, `INDEXED` or `FAILED` |
| `crawl` | `MCCrawl.cfg`: 4 runs on one host and 1 on another, 2 slots, 2 retries, cap 2 s, `Retry-After` 1, 3 or none | slots, queues, order and service |
| `batch` | `MCBatchStatus.cfg`: 2 jobs delivered twice, 2 overlapping polls | aggregate, dates, convergence |
| `registry` | `MCRegistry.cfg`: 2 overlapping transactions, 2 URLs, 3 keys, 2 jobs, a docset that is new, empty, or pruned with a deleted document | a URL stays unique, a new one is accepted once, no document without a job, counts heal, a request alone succeeds, somebody always moves |
| `submission` | `MCSubmission.cfg`: a client with 2 requests of 5 kinds and one with 1 of 2, batches of up to 2 items, 1 crash | answers, repeated and overlapping requests, scopes, calls that outlive their handler, and in the end every job that was sent |
| `embedding` | `MCEmbedding.cfg`: a job of up to 3 chunks, another number at each delivery, 2 starting processes, slices of 2, 1 retry, 2 interruptions | vectors and chunks match over deliveries, points are indexed, every run ends |
| `chunking` | `MCChunking.cfg`: pages of up to 5 of 11 lines, chunks of 6 characters, overlap 2, at least 3 beside the prefix | no text lost or moved, chunks fit, words whole, headings and numbers right |
| `ghost`, `undercount`, `prune_race` | one property each | what a document or comment says and the code does not do, see section 6 |

The type invariants of `Registry`, `Submission`, `Embedding` and `BatchStatus` are proved and
not checked again by a run.

**Bounds.**  Two jobs are enough for two writers of one document and for a job that outlives
its document; two registrations overlap on one document in `storm`, which has two deliveries in
all (one of each job, or the delivery and redelivery of one: `MCTwoDeliveries`), while `serial` and
`settle` deliver both jobs twice; two deliveries are enough for a run that starts on any status an earlier run
left; one chunk distinguishes points from none, two a long page from a shorter one; two
documents let a docset lose one and keep one, and let a batch create one and revive the
other, where the flush matters.  Two delete requests meet on one document and on a docset
and its document.  For the limiter, four runs on two slots fill the domain and leave a
queue of two, so that one run can be woken or cancelled in front of another; a second domain
is there to be waited for wrongly.  The cap of 2 s is the first backoff without
jitter and lies between the delays a server asks for, and 2 retries give a first, a middle and a last
attempt.  For the batch, two jobs give every mixture of outcomes that the cases of the
aggregate tell apart, two polls the overwriting of a newer by an older snapshot.
For the registry, two transactions meet at every statement; two keys of one URL let a deleted
document and a new one of the same URL exist side by side, a third key of another URL lets
batches meet in opposite orders; `Earlier` makes a docset that was pruned before, so that a
revival and a reactivation meet everything else; `MaxJobs` limits the jobs, and a request that
would need more is rolled back (`GiveUp`), as it could be by any failure.  For submissions,
two requests of one client and one of another repeat and overlap each other, in docset names
that are cleaned to the same, with items repeated within a request, too many of them (more than
two), and URLs
at, below, above and beside an allowed path, on another port and on a host that is not allowed;
one crash comes at any point.  For the embedding, three chunks make a full and a partial slice,
and three deliveries (two interruptions) a short one between long ones, or one that
is stopped before or after it has written; the run and two starting processes meet in the creation
of the collection, and an interruption leaves it half made.  Runs of different documents share
nothing but the collection.
For the chunker, the lines are a blank one, one of white space, two short words,
a word longer than what a prefix leaves, headings of three levels and four fences: of two
characters, a longer one, and one with text behind; five of them
make two neighbouring sections with text or one with nested headings, texts that are split
at each separator and by characters, and, with 6 characters for prefix and text, prefixes
that leave the whole, a part, and nothing but the minimum.
`MaxTries` and `MaxRuns` bound the deliveries, `MaxChunks` the chunks, `MaxSends` the requests,
`MaxCrashes` and `MaxStops` the ends of processes, `Rows` and `MaxJobs` keys and jobs, `RetryAfters` the
delays asked for, `Lines` and `MaxLines` the pages; nothing else is bounded.  Jobs are symmetric in the
safety runs of `Ingestion`, clients in those of `Ingestion` and `Registry`; liveness runs use no symmetry.

**Fairness.**  `IngestionUse!Fairness` asks that a job that is committed is sent (the
endpoint awaits `enqueue_ingestion_job` next), that ARQ polls its queue, and that what a run
awaits ends, in the worst case by the timeouts of the HTTP clients and `job_timeout`: the
event loops run every task that is ready.  It asks nothing of clients, failures, shutdowns
or crashes; crashes are kept below the limit of deliveries (`BoundedCrash`), because a job
that has used them up is dropped wherever it stands.  `Crawl!Fairness` asks that the event
loop resumes a run that was given a slot, that a request ends by the page timeout and a
sleep by its delay; nobody needs to be cancelled for another to be served.  `PollingSpec`
asks that a client keeps asking for the status, for nothing else stores it.  `Embedding` asks
that every process goes on (requests to Ollama and Qdrant have timeouts, delays end), whatever
the answers; `Submission` that the event loop goes on with the handlers and with the calls it
has started, and that workers take jobs from the queue.  Nothing is asked of Redis but an end
of each call, and that the outcome of a run is recorded is assumed as in `settle`.

**The restriction of `serial`.**  Of the requests that register in a docset or delete from it,
a registration comes alone; clients delete only what is not being ingested, and do not submit a
document again while the worker still has a failed job of it (one that is not acknowledged, or that
a shutdown has failed and that is delivered again); a delete request runs to its end.  Each part is
needed, `ghost` and the observations in section 6 show what happens without.  The worker is not
restricted: jobs fail, are swallowed, cancelled, stopped at any point, also between the last write
of a run and its acknowledgement, crash, are lost and delivered again; requests for different
docsets overlap, and so do deletions.

## 4. What is proved

TLAPS proves the following for all values of the constants that satisfy the assumptions
named in the modules (`DataAssumption`, `NoneAssumption`, `BatchAssumption`,
`CrawlAssumption`, `BackoffAssumption`, `RegistryAssumption`, `EmbeddingAssumption`,
`SubmissionAssumption`, `UrlAssumption`, `ChunkingAssumption`: finite sets, positive limits, a
placeholder that is no value, URLs as `HttpUrl` and `urlsplit` make them, pages of lines;
`BackoffAssumption` is plain arithmetic, for the provers know nothing of `^`).

- `IngestionProofs`: `TypeCorrect`, `RunsMatchRows`, `PrunedDocsetsAreEmpty`,
  `CountsNeverExceed`.  The inductive invariant `IInv` adds to the types and `RunMatchesRow`
  that a request knows what it deletes or submits to (`TargetsOK`; without it a step could mark a
  document that is none) and what a registration still knows at its commit of what it has read
  (`BatchesOK`: a document it found absent has no job, one it found has a row), and takes the two properties of docsets together: a docset is
  pruned only where its count is 0, and its count never exceeds its active documents, so
  each of them needs the other.  These two are theorems of `SerialSpec`: overlapping registrations
  and deletions break them (`prune_race`).
- There too: `ImplementsLifecycle`, every initial state and step of `Ingestion`
  is one of `JobLifecycle` or a stutter, under the mapping `Lease`, from `IInv` (the status
  that `JobLifecycle` expects before an advance is the one `RunMatchesRow` records for the
  stage); and `CleanDocumentsStayClean`.
- And for `IngestionUse`: `OneWriter`, `NoGhosts`, `IndexedAreSearchable`, and
  `SerialIsIngestion`, by which everything above holds under the restriction, too.
  None of the three properties is inductive.  `SerialInv` says of every job that is live that
  it is the latest of a document that is active (`LiveIsLatest`); of every run that what it has
  counted is stored (`RunsVectors`); of every request that nobody works on what it deletes and
  that what it purged is empty until it marks the row (`RequestsAlone`); of every registration that
  what it has read is still so when it commits (`RegistersAlone`); of docsets what `PrunedDocsetsAreEmpty`
  and `CountsNeverExceed` say (`DocsetsOK`); and of every document
  that its points follow from its row, or that a request between its two halves accounts for the
  difference (`VectorsFollowRows`).  Each is needed by another: the upsert of a run cannot
  reach a purged document because the run would be live, and a live run excludes the request.
- `BatchStatusProofs`: `TypeCorrect`, `AggregateAlwaysFaithful`, `SettledJobsAreDated`,
  `EndedBatchesAreDated`, `CompleteBatchesShowAll`.  The counts of the aggregate are turned into
  quantifiers by facts about cardinality; `IInv` adds that a poll in progress holds a status
  (`HeldOK`).  For the progress of a batch, a job that is INDEXED has reached 100
  (`IndexedShowsAll`), and a sum of n times 100, taken over any set of jobs, is 100 * n.
- `CrawlProofs`: `TypeCorrect`, `SlotsAlwaysAccounted`, `WaitsOnlyForItsDomain`,
  `NobodyIsOvertaken`.  `IInv`
  adds `QueuesOK`: the queue of a domain holds, once each, exactly its runs that wait or
  were granted a slot.  Without it a run that is woken might already hold a slot, and a run
  that waits might be in no queue.  `RouseKeeps` is the core of the argument: whoever goes
  on and wakes as many as it leaves slots for keeps the accounts; the woken are as many as
  the semaphore takes off, because the places of the queue have distinct ranks
  (`FirstPendingBound`), and somebody is woken if anybody waits (`FirstPendingSome`).  A step
  of the queue removes one run or adds one at its end, so that nobody passes another.
- `RegistryProofs`: `RegistryTypeCorrect`, `RegistryKeepsUrlsUnique`,
  `RegistryDocumentsHaveJobs`, for any number of overlapping transactions.  Types need
  `KeysOK`: a transaction at a statement about a document has one, and no job is added by two
  transactions.  Uniqueness among committed documents is not inductive, for it says nothing of
  what is flushed; `Unique` adds that a document has one writer, that no transaction sees two
  active documents of a URL, and that no two enter one URL into the index (`KeysExclusive`:
  this is what waiting for the index is for).  For the jobs, `AllPrepared` says that a
  document a transaction has written is in the table already or has a job that commits with it.
- There too: `RegistryAcceptsOnce`, `RegistryCountsHeal`, `RegistryLoneSucceeds`.  `Accepted`
  extends the first to what open transactions have prepared, so that a second batch finds the
  document, the job, or the index in its way, whichever statement it is at.  `Alone` says what a
  transaction that overlaps with none knows at each statement: what it has loaded, counted and
  not flushed is what the tables and its own writes say, whatever wrong count it began with.
- And there: `RegistryNeverStuck`.  Whoever ends, unlocks, so that one waits only for requests
  in progress (`WaitsForProgress`); if all of them wait, the fewest who wait for each other are
  a circle in which everybody is also waited for, because nobody waits for itself (`SomeCircle`).
  `SerialRequestsAgree` is about requests that come one at a time (`OneAtATime`), with workers,
  failures and redeliveries in between: a pruned docset is empty and `document_count` is never
  above the active documents.  It says of single statements what `PrunedDocsetsAreEmpty` and
  `CountsNeverExceed` say of `Ingestion`, and that `prune_race` takes an overlap.  `Serially`
  adds to `Alone` what such a request knows of the docset: a document is only deleted from one
  that is not pruned, and a batch has one that is not when it adds a document.
- `EmbeddingProofs`: `EmbeddingTypeCorrect`, `VectorsAlwaysMatch`, `PointsAlwaysIndexed`.
  `Placed` says what a run has collected before each slice (`First(next)`, the vectors of the
  first chunks at their places), so that the comparison of totals before the upsert never
  decides; and of the points, that each is of its place and of no later delivery than this one,
  and none older than one behind it (`Stored`), which the next delivery keeps because it writes the
  first places without a gap.  `Indexed` says what a process may rely on at each call, which stays true because
  the collection only grows.
- `SubmissionProofs`: `SubmissionTypeCorrect`, `AnswersAreTrue`, `OneLiveJobPerDocument`,
  `ScopesAlwaysRespected`.  `Flow` connects the step of a handler with its answer and the
  jobs that can exist at that step (a job that is sent was registered); `Inspected` says of a
  registration in progress that it accepts only items that are allowed and not repeated, whose
  document had no job when it was looked at, or one that has failed; and `Current` that an unfinished job is the latest of its document unless
  registrations have raced on it, so that whoever commits without being overtaken adds a job only
  beside those that are over.  For the scopes, `Scoped` says of jobs and outcomes what the code
  computes, and the lemmas what that means: comparing characters up to a slash is comparing
  segments (`ScopeIs`: where two paths have the same first segments they go on with the same
  character, `SameNext`), prefixes with the same stem are those `register` takes for the same
  (`StemTells`), and the list of strategies holds the one registered last of each prefix
  (`StrategiesAreNewest`).
- `ChunkingProofs`: `ChunkingInvariant`, `ChunksAreValid`, `ChunksAlwaysFit`,
  `ChunksKeepNumbers`, `PathsAlwaysHeadings`, `WordsAlwaysWhole`, `NothingEverLost`, for pages and
  texts of any length.  What splitting and merging return is proved for a kind of texts: if a kind is closed
  under what the splitter does to a text (`Splittable`, `Mergeable`), its results are of that kind, and fit.  The
  letters of the page (`AlphabetSplits`) are such a kind, and so are the texts in which no word is
  broken.  `PathInv` relates the stack of headings to the headings among the lines read
  (`StackAt`), the open fence to the fences (`FenceAt`; `BlocksAgree` then says that these blocks are
  those of Markdown as far as no fence ends one for the code only), and every section and chunk to the lines
  its letters are from (`KnownSections`, `KnownChunks`); `WordInv` says that the text of a
  section is unbroken and that a chunk has a word in whole if it fits: splitting at a separator
  breaks no word, and only texts without white space are sliced.
- `NothingEverLost` is about the order of letters.  A text `Retells` another one if it has the
  same letters, and before each of its letters all that the other one had before it: that is
  reading the same, once repetitions are left out.  It is kept by putting texts one after the
  other and by putting one into the place of another (`RetellsRepeated`, `FlattenAppend`), and
  each operation of the splitter makes texts that retell theirs: stripping (`StripRetells`),
  splitting at a separator and joining (`SplitByRetells`, `JoinRetells`), slices that overlap
  (`SlicesRetell`, from `CutInTwo`), and merging with what is repeated of the piece before
  (`AddPieceRetells`, `MergeRetells`); `SplitRetells` takes them together along the recursion.
  `LossInv` then says that the sections so far and the lines that are kept tell the letters
  of the page that are no headings, all of them and none before a smaller one (`Tells`), and that
  the chunks retell the texts of the sections gone through.

Proofs about data need induction, and the induction theorems of the library take an operator,
which the provers cannot instantiate.  `FoldProofs` states it of sets instead: a set of numbers
has a least element (`LeastNumber`), and a fold over a sequence is the end of a run of functions
(`FoldExists`, `FoldRuns`).  The recursion of `Splitting`, a function chosen for its equations, is
shown to exist in the same way (`RecursionExists`), by the length of the text.

Only model-checked:

- the liveness properties (`EveryJobSettles`, `EveryRunIsServed`, `StatusConverges`,
  `EveryRunEnds`, `AcceptedJobsSettle`, `CallsOutliveTheirHandler`): fairness is beyond the prover;
- `SomeRequestMoves`, which speaks of ENABLED: `RegistryNeverStuck` proves it of the guards of
  the statements (`MayMove`), and what is left to the run is that a statement whose guard holds
  can be taken.

## 5. What is not modelled

- **`max_jobs`** of the worker: it only removes interleavings.
- **Listing, paging, checking, searching** only read; the second read of a poll changes only
  its answer.
- **Cleaning**: regular expressions over the text of one page, without state.
- **Prefixes in other spellings.**  `register` compares the strings of two prefixes, and the
  matching of URLs their parsed parts, with scheme and host in lower case; the model has the parts
  only, and so takes prefixes to be written in lower case, as the one in the code is.
- **What is a fence** is left to `_CODE_FENCE_PATTERN`; Markdown takes a few of these lines for
  something else (indented by four, or with the character again behind it).
- **An upsert on its way** from a run that was stopped reaches Qdrant before that run's job is
  delivered again, or not at all.
- **Splitting a URL** into its parts is left to `urlsplit`, the definition of a URL in `Allowlist`.
- **Clients of other services** are opened and closed with the process.  The calls of one batch
  that find no Redis pool open one each (`Connect`), and only the last is kept; the model does
  not count the ones that stay open.
- **`create_document_and_job`** (`repository.py` 403-437) is called by tests only.
- Settings, logging, request identifiers, migrations, scripts and the notebook do not take
  part in the running system's shared state.
- A **formal refinement** from `Registry`, `Submission` and `Embedding` to `Ingestion`: the
  transactions of `Registry` do not implement the single steps of `Ingestion` (`prune_race`),
  so `PrunedDocsetIsEmpty` and `CountNeverExceedsActive` and their theorems hold for
  transactions that do not overlap, for which `SerialRequestsAgree` proves them of `Registry`,
  too; `LoneRequestCounts` says what is left of them under overlap.

## 6. Where the code and its documents disagree

Three runs show a disagreement:

- `ghost`: the specification of the pipeline promises that a deleted document gets no
  vectors; the only check runs before the embedding, so a document deleted during it does.
- `undercount`: `document_count` is documented as the active documents; a deleted URL that
  is submitted again is counted before its row is flushed, and the docset stays at 0.
- `prune_race`: a docset is documented as revived when documents are added and pruned when
  all are deleted; a batch that overlaps with the deletion of the last document, or of the
  docset, leaves an active document in a pruned docset.

Others were met while modelling and have no run of their own:

- `chunk_count` is documented as the chunks indexed (`models/document.py:47`); a rerun that
  finds fewer leaves the higher indexes of the earlier run in Qdrant (`VectorsMatchChunks` says what
  stands there).
- `README.md:391` promises `FAILED` after any exception; if the failure cannot be recorded
  (`FailSwallowed`), the job keeps its stage for good and its URL is refused as
  `currently_ingesting`.  The same holds for a job that was committed and never sent.
- `hybrid.py:103` promises that comments in blocks of code are not taken for headings; a
  block opened by four characters is closed by three, and by a fence with text behind, and the
  next comment is.  `PathsAreHeadings` therefore ends at the first such fence (`FalseEnd`).
- Documents listed as indexed in the vector store may have no points there, after a purge that
  overlapped a run or was not followed by the update of the row: `IndexedIsSearchable` needs
  the restriction of `serial`.
- Two overlapping deletions of the last two documents each count the other: the docset stays
  active with `document_count` 1 and no document, although it should be pruned and left out
  of the listing (`metadata-registry/spec.md:90`).  The next request that is alone corrects it.
- Two batches that overlap can both reactivate a deleted document, or both retry a failed
  one, and put two live jobs on it, as they do in `storm` and `submission`; `NewUrlAcceptedOnce`
  therefore speaks of new URLs, `OneWriterPerDocument` of registrations that do not overlap, and
  `RetriesDoNotDouble` excepts the documents they meet on.
- The design of the batches says that the integrity error of two batches with one new URL
  is caught (`openspec/changes/archive/2026-09-10-batch-document-ingestion/design.md:60`);
  it is not, and the whole second batch fails with 500 (`Refused`).

## 7. The plan

1. Done: all modules of section 2 and the theorems of section 4.
2. A refinement for requests that do not overlap: the transactions of `Registry`, taken one
   at a time, implement the steps of `Ingestion`.
3. Reads: the pages of a listing that is changed between two requests.
