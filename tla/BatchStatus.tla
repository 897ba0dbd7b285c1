---------------------------- MODULE BatchStatus -----------------------------
(***************************************************************************)
(* The status of a batch (app/services/repository.py): runs update the     *)
(* jobs of the batch one transaction at a time, and every request for the  *)
(* status reads the batch, reads its jobs and stores the aggregate when it *)
(* differs from what it read, each a statement of its own that others may  *)
(* come between (READ COMMITTED).                                          *)
(***************************************************************************)
EXTENDS Integers, FiniteSets, FiniteSetsExt

CONSTANTS
    Jobs,      \* the accepted jobs of one batch
    Polls,     \* requests for its status in progress at the same time
    MaxRuns,   \* bound: deliveries of a job
    None       \* no progress given, no status held

VARIABLES
    status,         \* ingestion_jobs.status
    progress,       \* ingestion_jobs.progress_percentage
    failure,        \* ingestion_jobs.error_message is set
    finished,       \* ingestion_jobs.finished_at is set
    runs,           \* deliveries of the job so far
    batch,          \* batch_ingestion_jobs.status
    batchFinished,  \* batch_ingestion_jobs.finished_at is set
    step,           \* the next statement of get_batch_job_status
    held            \* the status of the batch a poll has read, then its aggregate

jobVars == <<status, progress, failure, finished, runs>>
batchVars == <<batch, batchFinished>>
pollVars == <<step, held>>
vars == <<jobVars, batchVars, pollVars>>

JobStatuses == {"PENDING", "SCRAPING", "CHUNKING", "EMBEDDING", "INDEXED", "FAILED"}
Settled == {"INDEXED", "FAILED"}
InProgress == {"SCRAPING", "CHUNKING", "EMBEDDING"}
Ended == {"COMPLETED", "PARTIALLY_FAILED", "FAILED"}
BatchStatuses == {"PENDING", "PROCESSING", "COMPLETED", "PARTIALLY_FAILED", "FAILED"}
Steps == {"idle", "readJobs", "store"}

ASSUME BatchAssumption ==
    /\ IsFiniteSet(Jobs)
    /\ MaxRuns \in Nat
    /\ None \notin 0..100
    /\ None \notin BatchStatuses

\* The columns of the two tables and the local variables of the polls.
TypeOK ==
    /\ status \in [Jobs -> JobStatuses]
    /\ progress \in [Jobs -> 0..100]
    /\ failure \in [Jobs -> BOOLEAN]
    /\ finished \in [Jobs -> BOOLEAN]
    /\ runs \in [Jobs -> 0..MaxRuns]
    /\ batch \in BatchStatuses
    /\ batchFinished \in BOOLEAN
    /\ step \in [Polls -> Steps]
    /\ held \in [Polls -> BatchStatuses \cup {None}]

\* create_batch_and_jobs: a batch without accepted jobs is complete.
Init ==
    /\ status = [j \in Jobs |-> "PENDING"]
    /\ progress = [j \in Jobs |-> 0]
    /\ failure = [j \in Jobs |-> FALSE]
    /\ finished = [j \in Jobs |-> FALSE]
    /\ runs = [j \in Jobs |-> 0]
    /\ batch = IF Jobs = {} THEN "COMPLETED" ELSE "PENDING"
    /\ batchFinished = (Jobs = {})
    /\ step = [p \in Polls |-> "idle"]
    /\ held = [p \in Polls |-> None]

-----------------------------------------------------------------------------
(***************************************************************************)
(* update_job_status, called by the pipeline                               *)
(***************************************************************************)

\* Mutant: a job that ends keeps the progress it has made.
ProgressKeptAtEnd(j, s, given) == IF s \in Settled THEN progress[j] ELSE given

NewProgress(j, s, given) ==
    IF given # None THEN given
    ELSE IF s = "INDEXED" /\ progress[j] < 100 THEN 100 ELSE progress[j]

\* Mutant: only success sets finished_at.
FinishedBy(s) == s = "INDEXED"

\* finished_at is set by the first terminal status and never cleared.
Finishes(s) == s \in Settled

UpdateJob(j, s, given, message) ==
    /\ status' = [status EXCEPT ![j] = s]
    /\ progress' = [progress EXCEPT ![j] = NewProgress(j, s, given)]
    /\ failure' = [failure EXCEPT ![j] = failure[j] \/ message]
    /\ finished' = [finished EXCEPT ![j] = finished[j] \/ Finishes(s)]
    /\ UNCHANGED <<batchVars, pollVars>>

\* A delivery begins, the first or a later one.
Scrape(j) ==
    /\ runs[j] < MaxRuns
    /\ runs' = [runs EXCEPT ![j] = runs[j] + 1]
    /\ UpdateJob(j, "SCRAPING", 20, FALSE)

Advance(j, from, to, given) ==
    /\ status[j] = from
    /\ UpdateJob(j, to, given, FALSE)
    /\ UNCHANGED runs

\* A failure, a timeout or a shutdown, which may also strike before the first stage or
\* after the last.
Fail(j) ==
    /\ status[j] # "FAILED"
    /\ UpdateJob(j, "FAILED", None, TRUE)
    /\ UNCHANGED runs

JobStep(j) ==
    \/ Scrape(j)
    \/ Advance(j, "SCRAPING", "CHUNKING", 40)
    \/ Advance(j, "CHUNKING", "EMBEDDING", 70)
    \/ Advance(j, "EMBEDDING", "INDEXED", 100)
    \/ Fail(j)

-----------------------------------------------------------------------------
(***************************************************************************)
(* get_batch_job_status                                                    *)
(***************************************************************************)
Counted(statuses) == Cardinality({j \in Jobs : status[j] \in statuses})

\* Mutant: a batch is partially failed as soon as a job has failed.
AggregateAtFirstFailure ==
    LET total == Cardinality(Jobs)
        completed == Counted({"INDEXED"})
        failed == Counted({"FAILED"})
    IN IF completed = total THEN "COMPLETED"
       ELSE IF failed = total THEN "FAILED"
       ELSE IF failed > 0 THEN "PARTIALLY_FAILED"
       ELSE IF Counted(InProgress) > 0 \/ completed > 0 THEN "PROCESSING"
       ELSE "PENDING"

\* _calculate_batch_aggregate; the case of no jobs coincides with the first.
Aggregate ==
    LET total == Cardinality(Jobs)
        completed == Counted({"INDEXED"})
        failed == Counted({"FAILED"})
    IN IF completed = total THEN "COMPLETED"
       ELSE IF failed = total THEN "FAILED"
       ELSE IF completed + failed = total /\ failed > 0 THEN "PARTIALLY_FAILED"
       ELSE IF Counted(InProgress) > 0 \/ completed > 0 \/ failed > 0 THEN "PROCESSING"
       ELSE "PENDING"

\* overall_progress_percentage
OverallProgress ==
    IF Jobs = {} THEN 100
    ELSE MapThenSumSet(LAMBDA j : progress[j], Jobs) \div Cardinality(Jobs)

StepGoes(p, from, to) ==
    /\ step[p] = from
    /\ step' = [step EXCEPT ![p] = to]

ReadBatch(p) ==
    /\ StepGoes(p, "idle", "readJobs")
    /\ held' = [held EXCEPT ![p] = batch]
    /\ UNCHANGED <<jobVars, batchVars>>

\* Mutant: a batch that has ended is not looked at again.
DiffersUnlessEnded(p) == held[p] \notin Ended /\ held[p] # Aggregate

\* The aggregate differs from the status the poll has read.
Differs(p) == held[p] # Aggregate

ReadJobs(p) ==
    /\ StepGoes(p, "readJobs", "store")
    /\ Differs(p)
    /\ held' = [held EXCEPT ![p] = Aggregate]
    /\ UNCHANGED <<jobVars, batchVars>>

Answer(p) ==
    /\ StepGoes(p, "readJobs", "idle")
    /\ ~Differs(p)
    /\ held' = [held EXCEPT ![p] = None]
    /\ UNCHANGED <<jobVars, batchVars>>

\* Mutant: only a complete success ends a batch.
EndsWithSuccess(s) == s = "COMPLETED"

Ends(s) == s \in Ended

\* The row is read once more for the answer, which changes nothing.
Store(p) ==
    /\ StepGoes(p, "store", "idle")
    /\ batch' = held[p]
    /\ batchFinished' = (batchFinished \/ Ends(held[p]))
    /\ held' = [held EXCEPT ![p] = None]
    /\ UNCHANGED jobVars

PollStep(p) == ReadBatch(p) \/ ReadJobs(p) \/ Answer(p) \/ Store(p)

-----------------------------------------------------------------------------
Next == (\E j \in Jobs : JobStep(j)) \/ (\E p \in Polls : PollStep(p))

Spec == Init /\ [][Next]_vars

\* The statements of a request are executed, and clients keep asking for the status.
PollingSpec == Spec /\ \A p \in Polls : WF_vars(PollStep(p))

-----------------------------------------------------------------------------
All(s) == \A j \in Jobs : status[j] = s

\* What each status of a batch promises about its jobs, by quantifiers instead of counts:
\* a poll that stops at COMPLETED, FAILED or PARTIALLY_FAILED leaves no job in progress.
AggregateIsFaithful ==
    /\ Aggregate = "COMPLETED" <=> All("INDEXED")
    /\ Aggregate = "FAILED" <=> Jobs # {} /\ All("FAILED")
    /\ Aggregate = "PARTIALLY_FAILED" <=>
          /\ \A j \in Jobs : status[j] \in Settled
          /\ ~All("INDEXED") /\ ~All("FAILED")
    /\ Aggregate = "PENDING" <=> Jobs # {} /\ All("PENDING")

\* An indexed job has made all its progress and a complete batch shows 100 percent, also
\* after redelivered runs that started again at 20.
CompleteShowsAllProgress == Aggregate = "COMPLETED" => OverallProgress = 100

\* README "Stepwise Lifecycle Overview": a job that ended has finished_at, and one that
\* failed has an error_message, however often it was delivered.
SettledJobIsDated ==
    \A j \in Jobs :
        /\ status[j] \in Settled => finished[j]
        /\ status[j] = "FAILED" => failure[j]

\* A stored terminal status of the batch comes with finished_at, although polls with
\* older snapshots may store other statuses over it and it may end more than once.
EndedBatchIsDated == batch \in Ended => batchFinished

\* As long as clients poll, the stored status ends up at the aggregate of the jobs: a
\* stale snapshot stored last does not survive, nor does an outcome that a redelivered
\* job has overturned.
StatusConverges == <>[](batch = Aggregate)
=============================================================================
