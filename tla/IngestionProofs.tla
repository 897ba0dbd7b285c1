-------------------------- MODULE IngestionProofs ---------------------------
(***************************************************************************)
(* Proofs about Ingestion, for any number of documents, docsets, jobs and  *)
(* requests: its invariants, that it implements JobLifecycle, and what it  *)
(* guarantees when it is used as IngestionUse restricts it.                *)
(***************************************************************************)
EXTENDS IngestionUse, FiniteSetTheorems, TLAPS

\* A request knows what it deletes or submits to.
TargetsOK ==
    \A c \in Clients :
        /\ handler[c] \in {"purge", "mark"} => target[c] \in Docs
        /\ handler[c] \in {"purgeDocset", "register"} => target[c] \in Docsets

\* What a registration has read stays true as far as it must: the documents are of its
\* docset, what had a row has one, and what had none had no job.
BatchesOK ==
    \A c \in Clients : handler[c] = "register" =>
        /\ Accepted(c) \subseteq DocsIn(target[c])
        /\ \A d \in batch[c].new : batch[c].last[d] = None
        /\ \A d \in batch[c].revived \cup batch[c].retried : doc[d] # "absent"

\* The inductive invariant: the types, the agreement of runs and rows, the targets of
\* requests, and what registrations in progress have read.
IInv == TypeOK /\ RunMatchesRow /\ TargetsOK /\ BatchesOK

-----------------------------------------------------------------------------
\* The active documents of a docset are finitely many.
LEMMA ActiveFinite ==
    ASSUME NEW ds
    PROVE  /\ IsFiniteSet(ActiveDocs(ds))
           /\ Cardinality(ActiveDocs(ds)) \in Nat
<1>1. ActiveDocs(ds) \subseteq Docs
  BY DEF ActiveDocs, DocsIn
<1>2. IsFiniteSet(ActiveDocs(ds))
  BY <1>1, FS_Subset, DataAssumption
<1>3. QED
  BY <1>2, FS_CardinalityType

\* A request without a registration in progress has an empty batch.
LEMMA NoBatchIsBatch == NoBatch \in Batches
  BY DEF NoBatch, Batches

\* The initial state satisfies the invariant.
LEMMA InitIInv == Init => IInv
<1> SUFFICES ASSUME Init PROVE IInv
  OBVIOUS
<1> USE DataAssumption, NoneAssumption DEF Init
<1>1. TypeOK
  <2>1. batch \in [Clients -> Batches]
    BY NoBatchIsBatch
  <2>2. QED
    BY <2>1 DEF TypeOK, RowStates, DocsetStates, JobStatuses, QueueStates, RunStages,
           HandlerStages
<1>2. RunMatchesRow
  BY DEF RunMatchesRow, Running
<1>3. TargetsOK /\ BatchesOK
  BY DEF TargetsOK, BatchesOK
<1>4. QED
  BY <1>1, <1>2, <1>3 DEF IInv

-----------------------------------------------------------------------------
\* The reads of a batch keep the invariant.
LEMMA IngestIInv ==
    ASSUME IInv, NEW c \in Clients, NEW ds \in Docsets, NEW S \in SUBSET DocsIn(ds),
           Ingest(c, ds, S)
    PROVE  IInv'
<1> DEFINE read == [revives |-> docset[ds] # "active",
                    new |-> {d \in S : doc[d] = "absent"},
                    revived |-> {d \in S : doc[d] = "deleted"},
                    retried |-> {d \in S : Retriable(d)},
                    last |-> [d \in Docs |-> IF d \in S THEN latest[d] ELSE None]]
<1>1. /\ handler' = [handler EXCEPT ![c] = "register"]
      /\ target' = [target EXCEPT ![c] = ds]
      /\ batch' = [batch EXCEPT ![c] = read]
      /\ UNCHANGED <<dbVars, workerVars, points>>
  BY Zenon DEF Ingest
<1>2. S \subseteq Docs /\ S \subseteq DocsIn(ds)
  BY DEF DocsIn
<1>3. read \in Batches
  BY <1>2 DEF IInv, TypeOK, Batches
<1>4. /\ read.new \cup read.revived \cup read.retried \subseteq S
      /\ \A d \in read.new : read.last[d] = None
      /\ \A d \in read.revived \cup read.retried : doc[d] # "absent"
  BY <1>2 DEF IInv, RunMatchesRow, Retriable
<1> HIDE DEF read
<1>5. /\ handler'[c] = "register" /\ target'[c] = ds /\ batch'[c] = read
      /\ \A b \in Clients : b # c => /\ handler'[b] = handler[b] /\ target'[b] = target[b]
                                     /\ batch'[b] = batch[b]
  BY <1>1 DEF IInv, TypeOK
<1>6. TypeOK'
  BY <1>1, <1>3 DEF IInv, TypeOK, dbVars, workerVars, HandlerStages
<1>7. RunMatchesRow'
  BY <1>1 DEF IInv, RunMatchesRow, Running, dbVars, workerVars
<1>8. TargetsOK'
  BY <1>5 DEF IInv, TargetsOK
<1>9. BatchesOK'
  <2> SUFFICES ASSUME NEW b \in Clients, handler'[b] = "register"
               PROVE  /\ Accepted(b)' \subseteq DocsIn(target'[b])
                      /\ \A d \in batch'[b].new : batch'[b].last[d] = None
                      /\ \A d \in batch'[b].revived \cup batch'[b].retried : doc'[d] # "absent"
    BY DEF BatchesOK, DocsIn
  <2>1. doc' = doc
    BY <1>1 DEF dbVars
  <2>2. CASE b = c
    BY <2>1, <2>2, <1>2, <1>4, <1>5 DEF Accepted
  <2>3. CASE b # c
    BY <2>1, <2>3, <1>5 DEF IInv, BatchesOK, Accepted
  <2>4. QED
    BY <2>2, <2>3
<1>10. QED
  BY <1>6, <1>7, <1>8, <1>9 DEF IInv

\* What a registration commits, without the LET of its definition.
Commits(c, id, older, flushed) ==
    /\ \A d, e \in Accepted(c) : id[d] = id[e] => d = e
    /\ doc' = [d \in Docs |-> IF d \in batch[c].new \cup batch[c].revived
                              THEN "active" ELSE doc[d]]
    /\ chunkCount' = [d \in Docs |-> IF d \in batch[c].revived THEN 0 ELSE chunkCount[d]]
    /\ docset' = [docset EXCEPT ![target[c]] = IF batch[c].revives THEN "active" ELSE @]
    /\ docsetCount' =
          [docsetCount EXCEPT ![target[c]] = Cardinality(ActiveDocs(target[c]) \cup flushed)]
    /\ latest' = [d \in Docs |-> IF d \in Accepted(c) \ older THEN id[d] ELSE latest[d]]
    /\ jobDoc' = [j \in Jobs |-> IF \E d \in Accepted(c) : id[d] = j
                                 THEN CHOOSE d \in Accepted(c) : id[d] = j ELSE jobDoc[j]]
    /\ status' = [j \in Jobs |-> IF \E d \in Accepted(c) : id[d] = j
                                 THEN "PENDING" ELSE status[j]]
    /\ queue' = [j \in Jobs |-> IF \E d \in Accepted(c) : id[d] = j
                                THEN "outbox" ELSE queue[j]]
    /\ UNCHANGED <<tries, stage, found, points>>

\* The jobs a registration may create and the places where another one came in between.
LEMMA RegisterCommits ==
    ASSUME NEW c \in Clients, Register(c)
    PROVE  /\ HandlerGoes(c, "register", "idle")
           /\ batch[c].revives \/ ~Reviving(target[c])
           /\ \A d \in batch[c].new : doc[d] = "absent"
           /\ \E id \in [Accepted(c) -> FreeJobs],
                 older \in SUBSET {d \in Accepted(c) : latest[d] # batch[c].last[d]},
                 flushed \in FlushedBeforeCount(batch[c].new, batch[c].revived) :
                 Commits(c, id, older, flushed)
  BY DEF Register, Commits, EnsuredDocset

\* Registering a batch gives its documents jobs of their own.
LEMMA NewJobs ==
    ASSUME IInv, NEW c \in Clients, NEW id \in [Accepted(c) -> FreeJobs], NEW older, NEW flushed,
           Commits(c, id, older, flushed), Accepted(c) \subseteq Docs
    PROVE  /\ \A d \in Accepted(c) :
                 /\ id[d] \in Jobs /\ status[id[d]] = "none" /\ queue[id[d]] = "none"
                 /\ stage[id[d]] = "idle" /\ stage'[id[d]] = "idle"
                 /\ jobDoc'[id[d]] = d
                 /\ status'[id[d]] = "PENDING" /\ queue'[id[d]] = "outbox"
           /\ \A j \in Jobs : (~\E d \in Accepted(c) : id[d] = j) =>
                 /\ jobDoc'[j] = jobDoc[j] /\ status'[j] = status[j]
                 /\ queue'[j] = queue[j] /\ stage'[j] = stage[j]
<1>1. ASSUME NEW d \in Accepted(c)
      PROVE  /\ id[d] \in Jobs /\ status[id[d]] = "none" /\ queue[id[d]] = "none"
             /\ stage[id[d]] = "idle" /\ stage'[id[d]] = "idle"
             /\ jobDoc'[id[d]] = d
             /\ status'[id[d]] = "PENDING" /\ queue'[id[d]] = "outbox"
  <2>1. id[d] \in Jobs /\ status[id[d]] = "none"
    BY DEF FreeJobs
  <2>2. queue[id[d]] = "none" /\ stage[id[d]] = "idle"
    BY <2>1 DEF IInv, RunMatchesRow, Running
  <2>3. jobDoc'[id[d]] = d
    BY <2>1 DEF Commits
  <2>4. QED
    BY <2>1, <2>2, <2>3 DEF Commits
<1>2. ASSUME NEW j \in Jobs, ~\E d \in Accepted(c) : id[d] = j
      PROVE  /\ jobDoc'[j] = jobDoc[j] /\ status'[j] = status[j]
             /\ queue'[j] = queue[j] /\ stage'[j] = stage[j]
  BY <1>2 DEF Commits
<1>3. QED
  BY <1>1, <1>2

\* A step that loses no row and begins no registration leaves what registrations have
\* read true.
LEMMA BatchesKept ==
    ASSUME BatchesOK,
           \A d \in Docs : doc[d] # "absent" => doc'[d] # "absent",
           \A c \in Clients : handler'[c] = "register" =>
               handler[c] = "register" /\ target'[c] = target[c] /\ batch'[c] = batch[c]
    PROVE  BatchesOK'
<1> SUFFICES ASSUME NEW c \in Clients, handler'[c] = "register"
             PROVE  /\ Accepted(c)' \subseteq DocsIn(target'[c])
                    /\ \A d \in batch'[c].new : batch'[c].last[d] = None
                    /\ \A d \in batch'[c].revived \cup batch'[c].retried : doc'[d] # "absent"
  BY DEF BatchesOK, DocsIn
<1>1. /\ Accepted(c) \subseteq DocsIn(target[c])
      /\ \A d \in batch[c].new : batch[c].last[d] = None
      /\ \A d \in batch[c].revived \cup batch[c].retried : doc[d] # "absent"
  BY DEF BatchesOK
<1>2. batch[c].revived \cup batch[c].retried \subseteq Docs
  BY <1>1 DEF Accepted, DocsIn
<1>3. QED
  BY <1>1, <1>2 DEF Accepted

\* The writes of a batch keep the invariant.
LEMMA RegisterIInv ==
    ASSUME IInv, NEW c \in Clients, Register(c)
    PROVE  IInv'
<1>0. PICK id \in [Accepted(c) -> FreeJobs],
           older \in SUBSET {d \in Accepted(c) : latest[d] # batch[c].last[d]},
           flushed \in FlushedBeforeCount(batch[c].new, batch[c].revived) :
           Commits(c, id, older, flushed)
  BY RegisterCommits
<1> DEFINE acc == Accepted(c)
           ds == target[c]
           isNew(j) == \E d \in acc : id[d] = j
<1>1. /\ handler[c] = "register"
      /\ handler' = [handler EXCEPT ![c] = "idle"]
      /\ target' = [target EXCEPT ![c] = None]
      /\ batch' = [batch EXCEPT ![c] = NoBatch]
      /\ \A d \in batch[c].new : doc[d] = "absent"
  BY RegisterCommits DEF HandlerGoes
<1>2. /\ acc \subseteq Docs /\ ds \in Docsets
      /\ acc = batch[c].new \cup batch[c].revived \cup batch[c].retried
      /\ \A d \in batch[c].new : batch[c].last[d] = None
      /\ \A d \in batch[c].revived \cup batch[c].retried : doc[d] # "absent"
      /\ flushed \subseteq acc
  BY <1>1 DEF IInv, TargetsOK, BatchesOK, Accepted, DocsIn, FlushedBeforeCount
<1>3. /\ \A d \in acc :
            /\ id[d] \in Jobs /\ status[id[d]] = "none" /\ queue[id[d]] = "none"
            /\ stage[id[d]] = "idle" /\ stage'[id[d]] = "idle"
            /\ jobDoc'[id[d]] = d
            /\ status'[id[d]] = "PENDING" /\ queue'[id[d]] = "outbox"
      /\ \A j \in Jobs : ~isNew(j) =>
            /\ jobDoc'[j] = jobDoc[j] /\ status'[j] = status[j]
            /\ queue'[j] = queue[j] /\ stage'[j] = stage[j]
  BY <1>0, <1>2, NewJobs
<1>4. /\ \A d \in Docs : doc'[d] = IF d \in batch[c].new \cup batch[c].revived
                                   THEN "active" ELSE doc[d]
      /\ \A d \in Docs : latest'[d] = IF d \in acc \ older THEN id[d] ELSE latest[d]
  BY <1>0 DEF Commits
<1>5. \A d \in acc : doc'[d] # "absent"
  BY <1>2, <1>4
<1>6. \A d \in Docs : doc[d] # "absent" => doc'[d] # "absent"
  BY <1>4
<1>7. TypeOK'
  <2>1. doc' \in [Docs -> RowStates] /\ chunkCount' \in [Docs -> 0..MaxChunks]
    BY <1>0, DataAssumption DEF Commits, IInv, TypeOK, RowStates
  <2>2. docset' \in [Docsets -> DocsetStates]
    BY <1>0, <1>2 DEF Commits, IInv, TypeOK, DocsetStates
  <2>3. docsetCount' \in [Docsets -> Nat]
    <3>1. ActiveDocs(ds) \cup flushed \subseteq Docs
      BY <1>2 DEF ActiveDocs, DocsIn
    <3>2. IsFiniteSet(ActiveDocs(ds) \cup flushed)
      BY <3>1, FS_Subset, DataAssumption
    <3>3. Cardinality(ActiveDocs(ds) \cup flushed) \in Nat
      BY <3>2, FS_CardinalityType
    <3>4. QED
      BY <1>0, <3>3 DEF Commits, IInv, TypeOK
  <2>4. latest' \in [Docs -> Jobs \cup {None}]
    <3>1. ASSUME NEW d \in Docs PROVE latest'[d] \in Jobs \cup {None}
      BY <1>3, <1>4 DEF IInv, TypeOK
    <3>2. QED
      BY <3>1, <1>0 DEF Commits
  <2>5. jobDoc' \in [Jobs -> Docs \cup {None}]
    <3>1. ASSUME NEW j \in Jobs PROVE jobDoc'[j] \in Docs \cup {None}
      BY <1>2, <1>3 DEF IInv, TypeOK
    <3>2. QED
      BY <3>1, <1>0 DEF Commits
  <2>6. status' \in [Jobs -> JobStatuses] /\ queue' \in [Jobs -> QueueStates]
    BY <1>0 DEF Commits, IInv, TypeOK, JobStatuses, QueueStates
  <2>7. /\ handler' \in [Clients -> HandlerStages]
        /\ target' \in [Clients -> Docs \cup Docsets \cup {None}]
        /\ batch' \in [Clients -> Batches]
    BY <1>1, NoBatchIsBatch DEF IInv, TypeOK, HandlerStages
  <2>8. UNCHANGED <<tries, stage, found, points>>
    BY <1>0 DEF Commits
  <2>9. QED
    BY <2>1, <2>2, <2>3, <2>4, <2>5, <2>6, <2>7, <2>8 DEF IInv, TypeOK
<1>8. RunMatchesRow'
  <2>1. ASSUME NEW j \in Jobs
        PROVE  /\ Running(j)' <=> stage'[j] # "idle"
               /\ stage'[j] = "extract" => status'[j] = "SCRAPING"
               /\ stage'[j] \in {"check", "embed"} => status'[j] = "CHUNKING"
               /\ stage'[j] \in {"upsert", "finalize", "index"} => status'[j] = "EMBEDDING"
               /\ status'[j] = "none" <=> queue'[j] = "none"
               /\ status'[j] = "none" <=> jobDoc'[j] = None
               /\ queue'[j] \in {"outbox", "lost"} => status'[j] = "PENDING"
               /\ jobDoc'[j] # None => doc'[jobDoc'[j]] # "absent"
    <3>1. CASE isNew(j)
      <4>1. PICK d \in acc : id[d] = j
        BY <3>1
      <4>2. /\ stage'[j] = "idle" /\ status'[j] = "PENDING" /\ queue'[j] = "outbox"
            /\ jobDoc'[j] = d /\ doc'[d] # "absent" /\ d # None
        BY <4>1, <1>2, <1>3, <1>5, NoneAssumption
      <4>3. QED
        BY <4>2 DEF Running
    <3>2. CASE ~isNew(j)
      <4>1. /\ jobDoc'[j] = jobDoc[j] /\ status'[j] = status[j]
            /\ queue'[j] = queue[j] /\ stage'[j] = stage[j]
        BY <3>2, <1>3
      <4>2. jobDoc[j] # None => doc'[jobDoc[j]] # "absent"
        BY <1>6 DEF IInv, TypeOK, RunMatchesRow
      <4>3. QED
        BY <4>1, <4>2 DEF Running, IInv, RunMatchesRow
    <3>3. QED
      BY <3>1, <3>2
  <2>2. ASSUME NEW d \in Docs
        PROVE  /\ doc'[d] = "absent" <=> latest'[d] = None
               /\ latest'[d] # None => jobDoc'[latest'[d]] = d
    <3>1. CASE d \in acc \ older
      <4>1. latest'[d] = id[d] /\ doc'[d] # "absent" /\ id[d] \in Jobs /\ jobDoc'[id[d]] = d
        BY <3>1, <1>3, <1>4, <1>5
      <4>2. QED
        BY <4>1, NoneAssumption
    <3>2. CASE d \notin acc \ older
      <4>1. latest'[d] = latest[d]
        BY <3>2, <1>4
      <4>2. doc'[d] = "absent" <=> doc[d] = "absent"
        <5>1. CASE d \in older
          <6>1. d \in acc /\ latest[d] # batch[c].last[d]
            BY <5>1
          <6>2. d \notin batch[c].new
            BY <6>1, <1>1, <1>2 DEF IInv, RunMatchesRow
          <6>3. QED
            BY <6>1, <6>2, <1>2, <1>5
        <5>2. CASE d \notin older
          BY <5>2, <3>2, <1>2, <1>4
        <5>3. QED
          BY <5>1, <5>2
      <4>3. ASSUME latest[d] # None PROVE jobDoc'[latest[d]] = d
        <5>1. latest[d] \in Jobs /\ jobDoc[latest[d]] = d
          BY <4>3 DEF IInv, TypeOK, RunMatchesRow
        <5>2. status[latest[d]] # "none"
          BY <5>1, NoneAssumption DEF IInv, RunMatchesRow
        <5>3. ~isNew(latest[d])
          BY <5>2, <1>3
        <5>4. QED
          BY <5>1, <5>3, <1>3
      <4>4. QED
        BY <4>1, <4>2, <4>3 DEF IInv, RunMatchesRow
    <3>3. QED
      BY <3>1, <3>2
  <2> HIDE DEF acc, isNew
  <2>3. QED
    BY <2>1, <2>2 DEF RunMatchesRow
<1>9. \A b \in Clients : handler'[b] = "register" =>
          handler[b] = "register" /\ target'[b] = target[b] /\ batch'[b] = batch[b]
  BY <1>1 DEF IInv, TypeOK
<1>10. TargetsOK'
  BY <1>1 DEF IInv, TypeOK, TargetsOK
<1>11. BatchesOK'
  BY <1>6, <1>9, BatchesKept DEF IInv
<1>12. QED
  BY <1>7, <1>8, <1>10, <1>11 DEF IInv

-----------------------------------------------------------------------------
\* The steps of the queue and the worker.
WorkerStep(j) == JobStep(j) \/ JobFault(j)

\* What no step of the worker touches.
LEMMA WorkerFrame ==
    ASSUME NEW j \in Jobs, WorkerStep(j)
    PROVE  UNCHANGED <<doc, docset, docsetCount, latest, jobDoc, apiVars>>
  BY Zenon DEF WorkerStep, JobStep, JobFault, RunStep, Enqueue, EnqueueFails, Take, Drop, SkipRun,
     Scrape, Chunk, CheckActive, Embed, Upsert, UpsertUnanswered, Finalize, Index,
     StageFails, Stop, Fail, FailSwallowed, Ack, Requeue, Crash, dbVars

\* The worker keeps the types.
LEMMA WorkerTypeOK ==
    ASSUME IInv, NEW j \in Jobs, WorkerStep(j)
    PROVE  TypeOK'
<1> USE DataAssumption, WorkerFrame
    DEF IInv, TypeOK, dbVars, workerVars, apiVars, QueueStates, RunStages, JobStatuses,
        StageGoes, ForgetChunks, Stoppable
<1>1. CASE Enqueue(j) BY <1>1 DEF Enqueue
<1>2. CASE EnqueueFails(j) BY <1>2 DEF EnqueueFails
<1>3. CASE Take(j) BY <1>3 DEF Take
<1>4. CASE Drop(j) BY <1>4 DEF Drop
<1>5. CASE SkipRun(j) BY <1>5 DEF SkipRun
<1>6. CASE Scrape(j) BY <1>6 DEF Scrape
<1>7. CASE \E n \in 0..MaxChunks : Chunk(j, n) BY <1>7 DEF Chunk
<1>8. CASE CheckActive(j) BY <1>8 DEF CheckActive
<1>9. CASE Embed(j) BY <1>9 DEF Embed, StageAfterEmbedding
<1>10. CASE Upsert(j) \/ UpsertUnanswered(j)
  <2>1. points' \in [Docs -> SUBSET (0..(MaxChunks - 1))]
    BY <1>10 DEF Upsert, UpsertUnanswered, WithChunks, ChunkIndexes
  <2>2. CASE Upsert(j)
    BY <2>1, <2>2 DEF Upsert
  <2>3. CASE UpsertUnanswered(j)
    BY <2>1, <2>3 DEF UpsertUnanswered
  <2>4. QED
    BY <1>10, <2>2, <2>3
<1>11. CASE Finalize(j)
  <2>1. chunkCount' \in [Docs -> 0..MaxChunks]
    BY <1>11 DEF Finalize
  <2>2. stage' \in [Jobs -> RunStages] /\ found' \in [Jobs -> 0..MaxChunks]
    BY <1>11 DEF Finalize
  <2>3. QED
    BY <1>11, <2>1, <2>2 DEF Finalize
<1>12. CASE Index(j) BY <1>12 DEF Index
<1>13. CASE StageFails(j) \/ Stop(j) BY <1>13 DEF StageFails, Stop
<1>14. CASE Fail(j) \/ FailSwallowed(j)
  BY <1>14 DEF Fail, FailSwallowed, StageAfterFailure
<1>15. CASE Ack(j) \/ Requeue(j) BY <1>15 DEF Ack, Requeue
<1>16. CASE Crash(j) BY <1>16 DEF Crash
<1>17. QED
  BY <1>1, <1>2, <1>3, <1>4, <1>5, <1>6, <1>7, <1>8, <1>9, <1>10, <1>11, <1>12, <1>13,
     <1>14, <1>15, <1>16 DEF WorkerStep, JobStep, JobFault, RunStep

\* The worker keeps runs and rows in agreement.
LEMMA WorkerRunMatchesRow ==
    ASSUME IInv, NEW j \in Jobs, WorkerStep(j)
    PROVE  RunMatchesRow'
<1> USE WorkerFrame
    DEF IInv, TypeOK, RunMatchesRow, Running, dbVars, workerVars, StageGoes, Stoppable
<1>1. CASE Enqueue(j) BY <1>1 DEF Enqueue
<1>2. CASE EnqueueFails(j) BY <1>2 DEF EnqueueFails
<1>3. CASE Take(j) BY <1>3 DEF Take
<1>4. CASE Drop(j) BY <1>4 DEF Drop
<1>5. CASE SkipRun(j) BY <1>5 DEF SkipRun
<1>6. CASE Scrape(j) BY <1>6 DEF Scrape
<1>7. CASE \E n \in 0..MaxChunks : Chunk(j, n) BY <1>7 DEF Chunk
<1>8. CASE CheckActive(j) BY <1>8 DEF CheckActive
<1>9. CASE Embed(j) BY <1>9 DEF Embed, StageAfterEmbedding
<1>10. CASE Upsert(j) \/ UpsertUnanswered(j) BY <1>10 DEF Upsert, UpsertUnanswered
<1>11. CASE Finalize(j) BY <1>11 DEF Finalize
<1>12. CASE Index(j) BY <1>12 DEF Index
<1>13. CASE StageFails(j) \/ Stop(j) BY <1>13 DEF StageFails, Stop
<1>14. CASE Fail(j) \/ FailSwallowed(j)
  BY <1>14 DEF Fail, FailSwallowed, StageAfterFailure
<1>15. CASE Ack(j) \/ Requeue(j) BY <1>15 DEF Ack, Requeue
<1>16. CASE Crash(j) BY <1>16 DEF Crash
<1>17. QED
  BY <1>1, <1>2, <1>3, <1>4, <1>5, <1>6, <1>7, <1>8, <1>9, <1>10, <1>11, <1>12, <1>13,
     <1>14, <1>15, <1>16 DEF WorkerStep, JobStep, JobFault, RunStep

\* The worker keeps the invariant.
LEMMA WorkerIInv ==
    ASSUME IInv, NEW j \in Jobs, WorkerStep(j)
    PROVE  IInv'
<1>1. TargetsOK'
  BY WorkerFrame DEF IInv, TargetsOK, apiVars
<1>2. BatchesOK'
  BY WorkerFrame, BatchesKept DEF IInv, apiVars
<1>3. QED
  BY <1>1, <1>2, WorkerTypeOK, WorkerRunMatchesRow DEF IInv

-----------------------------------------------------------------------------
\* Steps of a request that leave the tables alone.
HandlerQuiet(c) ==
    \/ RegisterFails(c)
    \/ PurgeDoc(c) \/ PurgeDocFails(c) \/ PurgeDocUnanswered(c)
    \/ MarkNotFound(c) \/ MarkFails(c) \/ PurgeDocset(c) \/ PurgeDocsetFails(c)
    \/ \E d \in Docs : DeleteDoc(c, d)

\* Purging, failing and starting a delete request keep the invariant.
LEMMA HandlerQuietIInv ==
    ASSUME IInv, NEW c \in Clients, HandlerQuiet(c)
    PROVE  IInv'
<1>1. UNCHANGED <<dbVars, workerVars>>
  BY Zenon DEF HandlerQuiet, RegisterFails, PurgeDoc, PurgeDocFails, PurgeDocUnanswered,
         MarkNotFound, MarkFails, PurgeDocset, PurgeDocsetFails, DeleteDoc
<1>2. points' \in [Docs -> SUBSET (0..(MaxChunks - 1))]
  <2>1. ASSUME NEW x PROVE [points EXCEPT ![x] = {}] \in [Docs -> SUBSET (0..(MaxChunks - 1))]
    BY DEF IInv, TypeOK
  <2>2. points \in [Docs -> SUBSET (0..(MaxChunks - 1))]
    BY DEF IInv, TypeOK
  <2>3. WithoutDocset(target[c]) \in [Docs -> SUBSET (0..(MaxChunks - 1))]
    BY <2>2 DEF WithoutDocset
  <2>4. QED
    BY <2>1, <2>2, <2>3
       DEF HandlerQuiet, RegisterFails, PurgeDoc, PurgeDocFails, PurgeDocUnanswered,
           MarkNotFound, MarkFails, PurgeDocset, PurgeDocsetFails, DeleteDoc
<1>3. \/ /\ handler' = [handler EXCEPT ![c] = "idle"]
         /\ target' = [target EXCEPT ![c] = None]
         /\ batch' = [batch EXCEPT ![c] = NoBatch]
      \/ /\ handler[c] = "purge"
         /\ handler' = [handler EXCEPT ![c] = "mark"]
         /\ target' = [target EXCEPT ![c] = target[c]]
         /\ batch' = [batch EXCEPT ![c] = NoBatch]
      \/ \E d \in Docs : /\ handler' = [handler EXCEPT ![c] = "purge"]
                         /\ target' = [target EXCEPT ![c] = d]
                         /\ UNCHANGED batch
  BY DEF HandlerQuiet, RegisterFails, PurgeDoc, PurgeDocFails, PurgeDocUnanswered,
         MarkNotFound, MarkFails, PurgeDocset, PurgeDocsetFails, DeleteDoc, HandlerGoes
<1>4. /\ handler' \in [Clients -> HandlerStages]
      /\ target' \in [Clients -> Docs \cup Docsets \cup {None}]
      /\ batch' \in [Clients -> Batches]
  BY <1>3, NoBatchIsBatch DEF IInv, TypeOK, HandlerStages
<1>5. TypeOK'
  BY <1>1, <1>2, <1>4 DEF IInv, TypeOK, dbVars, workerVars
<1>6. RunMatchesRow'
  BY <1>1 DEF IInv, RunMatchesRow, Running, dbVars, workerVars
<1>7. TargetsOK'
  BY <1>3 DEF IInv, TypeOK, TargetsOK
<1>8. \A b \in Clients : handler'[b] = "register" =>
          handler[b] = "register" /\ target'[b] = target[b] /\ batch'[b] = batch[b]
  BY <1>3 DEF IInv, TypeOK
<1>9. BatchesOK'
  BY <1>1, <1>8, BatchesKept DEF IInv, dbVars
<1>10. QED
  BY <1>5, <1>6, <1>7, <1>9 DEF IInv

\* Soft-deleting a document keeps the invariant.
LEMMA MarkDeletedIInv ==
    ASSUME IInv, NEW c \in Clients, MarkDeleted(c)
    PROVE  IInv'
<1>0. PICK d \in Docs : d = target[c]
  BY DEF IInv, TargetsOK, MarkDeleted, HandlerGoes
<1> DEFINE ds == DocsetOf[d]
           left == Cardinality(Remaining(d))
<1>1. /\ doc[d] = "active"
      /\ doc' = [doc EXCEPT ![d] = "deleted"]
      /\ docsetCount' = [docsetCount EXCEPT ![ds] = left]
      /\ docset' = [docset EXCEPT ![ds] = IF left = 0 THEN "pruned" ELSE docset[ds]]
      /\ handler' = [handler EXCEPT ![c] = "idle"]
      /\ target' = [target EXCEPT ![c] = None]
      /\ batch' = [batch EXCEPT ![c] = NoBatch]
      /\ UNCHANGED <<chunkCount, latest, jobDoc, workerVars, points>>
  BY <1>0 DEF MarkDeleted, HandlerGoes
<1>2. left \in Nat /\ ds \in Docsets
  BY ActiveFinite, FS_Subset, FS_CardinalityType, DataAssumption DEF Remaining
<1>3. TypeOK'
  <2>1. doc' \in [Docs -> RowStates] /\ docset' \in [Docsets -> DocsetStates]
    BY <1>1, <1>2 DEF IInv, TypeOK, RowStates, DocsetStates
  <2>2. docsetCount' \in [Docsets -> Nat]
    BY <1>1, <1>2 DEF IInv, TypeOK
  <2>3. /\ handler' \in [Clients -> HandlerStages]
        /\ target' \in [Clients -> Docs \cup Docsets \cup {None}]
        /\ batch' \in [Clients -> Batches]
    BY <1>1, NoBatchIsBatch DEF IInv, TypeOK, HandlerStages
  <2>4. QED
    BY <1>1, <2>1, <2>2, <2>3 DEF IInv, TypeOK, workerVars
<1>4. RunMatchesRow'
  BY <1>1 DEF IInv, TypeOK, RunMatchesRow, Running, workerVars
<1>5. TargetsOK'
  BY <1>1 DEF IInv, TypeOK, TargetsOK
<1>6. BatchesOK'
  <2>1. \A e \in Docs : doc[e] # "absent" => doc'[e] # "absent"
    BY <1>1 DEF IInv, TypeOK
  <2>2. \A b \in Clients : handler'[b] = "register" =>
            handler[b] = "register" /\ target'[b] = target[b] /\ batch'[b] = batch[b]
    BY <1>1 DEF IInv, TypeOK
  <2>3. QED
    BY <2>1, <2>2, BatchesKept DEF IInv
<1>7. QED
  BY <1>3, <1>4, <1>5, <1>6 DEF IInv

\* Deleting a docset keeps the invariant.
LEMMA DeleteDocsetIInv ==
    ASSUME IInv, NEW c \in Clients, NEW ds \in Docsets, DeleteDocset(c, ds)
    PROVE  IInv'
<1>1. /\ doc' = [d \in Docs |-> IF d \in ActiveDocs(ds) THEN "deleted" ELSE doc[d]]
      /\ docset' = [docset EXCEPT ![ds] = "pruned"]
      /\ docsetCount' = [docsetCount EXCEPT ![ds] = 0]
      /\ handler' = [handler EXCEPT ![c] = "purgeDocset"]
      /\ target' = [target EXCEPT ![c] = ds]
      /\ UNCHANGED <<chunkCount, latest, jobDoc, workerVars, points, batch>>
  BY DEF DeleteDocset
<1>2. TypeOK'
  <2>1. doc' \in [Docs -> RowStates] /\ docset' \in [Docsets -> DocsetStates]
    BY <1>1 DEF IInv, TypeOK, RowStates, DocsetStates
  <2>2. docsetCount' \in [Docsets -> Nat]
    BY <1>1 DEF IInv, TypeOK
  <2>3. /\ handler' \in [Clients -> HandlerStages]
        /\ target' \in [Clients -> Docs \cup Docsets \cup {None}]
    BY <1>1 DEF IInv, TypeOK, HandlerStages
  <2>4. QED
    BY <1>1, <2>1, <2>2, <2>3 DEF IInv, TypeOK, workerVars
<1>3. RunMatchesRow'
  BY <1>1 DEF IInv, TypeOK, RunMatchesRow, Running, workerVars, ActiveDocs, DocsIn
<1>4. TargetsOK'
  BY <1>1 DEF IInv, TypeOK, TargetsOK
<1>5. BatchesOK'
  <2>1. \A e \in Docs : doc[e] # "absent" => doc'[e] # "absent"
    BY <1>1
  <2>2. \A b \in Clients : handler'[b] = "register" =>
            handler[b] = "register" /\ target'[b] = target[b] /\ batch'[b] = batch[b]
    BY <1>1 DEF IInv, TypeOK
  <2>3. QED
    BY <2>1, <2>2, BatchesKept DEF IInv
<1>6. QED
  BY <1>2, <1>3, <1>4, <1>5 DEF IInv

-----------------------------------------------------------------------------
\* The invariant is inductive.
LEMMA NextIInv == IInv /\ [Next]_vars => IInv'
<1> SUFFICES ASSUME IInv, [Next]_vars PROVE IInv'
  OBVIOUS
<1>1. ASSUME NEW c \in Clients, NEW ds \in Docsets, NEW S \in SUBSET DocsIn(ds),
             Ingest(c, ds, S)
      PROVE  IInv'
  BY <1>1, IngestIInv
<1>2. ASSUME NEW c \in Clients, NEW d \in Docs, DeleteDoc(c, d) PROVE IInv'
  BY <1>2, HandlerQuietIInv DEF HandlerQuiet
<1>3. ASSUME NEW c \in Clients, NEW ds \in Docsets, DeleteDocset(c, ds) PROVE IInv'
  BY <1>3, DeleteDocsetIInv
<1>4. ASSUME NEW j \in Jobs, JobStep(j) \/ JobFault(j) PROVE IInv'
  BY <1>4, WorkerIInv DEF WorkerStep
<1>5. ASSUME NEW c \in Clients, HandlerStep(c) \/ HandlerFault(c) PROVE IInv'
  BY <1>5, RegisterIInv, HandlerQuietIInv, MarkDeletedIInv
     DEF HandlerStep, HandlerFault, HandlerQuiet
<1>6. CASE UNCHANGED vars
  <2>1. TypeOK' /\ RunMatchesRow' /\ TargetsOK'
    BY <1>6 DEF IInv, TypeOK, RunMatchesRow, Running, TargetsOK, vars, dbVars, workerVars,
                apiVars
  <2>2. BatchesOK'
    BY <1>6, BatchesKept DEF IInv, vars, dbVars, apiVars
  <2>3. QED
    BY <2>1, <2>2 DEF IInv
<1>7. QED
  BY <1>1, <1>2, <1>3, <1>4, <1>5, <1>6 DEF Next, Request

\* The inductive invariant holds in every reachable state.
THEOREM IInvAlways == Spec => []IInv
  BY InitIInv, NextIInv, PTL DEF Spec

\* Every variable keeps its type, whatever the interleaving and the faults.
THEOREM TypeCorrect == Spec => []TypeOK
  BY IInvAlways, PTL DEF IInv

\* A run and the row of its job agree at every stage, for any number of jobs.
THEOREM RunsMatchRows == Spec => []RunMatchesRow
  BY IInvAlways, PTL DEF IInv

-----------------------------------------------------------------------------
(***************************************************************************)
(* The two action properties of Ingestion: the pipeline implements         *)
(* JobLifecycle, and a deleted document that is clean stays so.            *)
(***************************************************************************)

\* What JobLifecycle sees of the jobs.
LeaseMap == [j \in Jobs |-> Lease(j)]

\* A step of one job changes the lease of that job only.
LEMMA LeaseFrame ==
    ASSUME NEW j \in Jobs,
           \A k \in Jobs \ {j} : queue'[k] = queue[k] /\ stage'[k] = stage[k]
    PROVE  LeaseMap' = [LeaseMap EXCEPT ![j] = Lease(j)']
<1>1. ASSUME NEW k \in Jobs, k # j PROVE Lease(k)' = Lease(k)
  BY <1>1 DEF Lease
<1>2. QED
  BY <1>1 DEF LeaseMap

\* The initial state is the initial state of JobLifecycle.
LEMMA InitRefines == Init => Life!Init
  BY DEF Init, Life!Init, Lease

\* The commit of a batch is a submission.
LEMMA RegisterRefines ==
    ASSUME IInv, NEW c \in Clients, Register(c)
    PROVE  \E N \in SUBSET Jobs : Life!Submit(N)
<1>1. PICK id \in [Accepted(c) -> FreeJobs],
           older \in SUBSET {d \in Accepted(c) : latest[d] # batch[c].last[d]},
           flushed \in FlushedBeforeCount(batch[c].new, batch[c].revived) :
           Commits(c, id, older, flushed)
  BY RegisterCommits
<1>2. handler[c] = "register"
  BY RegisterCommits DEF HandlerGoes
<1>3. Accepted(c) \subseteq Docs
  BY <1>2 DEF IInv, BatchesOK, DocsIn
<1> DEFINE N == {j \in Jobs : \E d \in Accepted(c) : id[d] = j}
<1>4. /\ \A j \in N : queue[j] = "none" /\ queue'[j] = "outbox"
      /\ \A j \in Jobs \ N : queue'[j] = queue[j] /\ stage'[j] = stage[j]
  BY <1>1, <1>3, NewJobs
<1>5. status' = [j \in Jobs |-> IF j \in N THEN "PENDING" ELSE status[j]]
  BY <1>1 DEF Commits
<1>6. \A j \in N : Lease(j) = "unused" /\ Lease(j)' = "waiting"
  BY <1>4 DEF Lease
<1>7. \A j \in Jobs \ N : Lease(j)' = Lease(j)
  BY <1>4 DEF Lease
<1>8. Life!Submit(N)
  BY <1>5, <1>6, <1>7 DEF Life!Submit
<1>9. QED
  BY <1>8

\* The lease of one job moves, and nothing else is seen to move.
LEMMA MoveLease ==
    ASSUME IInv, NEW j \in Jobs, WorkerStep(j), NEW from, NEW to,
           Lease(j) \in from, Lease(j)' = to
    PROVE  Life!Move(j, from, to)
<1>1. \A k \in Jobs \ {j} : queue'[k] = queue[k] /\ stage'[k] = stage[k]
  BY DEF IInv, TypeOK, WorkerStep, JobStep, JobFault, RunStep, Enqueue, EnqueueFails, Take,
     Drop, SkipRun, Scrape, Chunk, CheckActive, Embed, Upsert, UpsertUnanswered, Finalize,
     Index, StageFails, Stop, Fail, FailSwallowed, Ack, Requeue, Crash, StageGoes
<1>2. LeaseMap' = [LeaseMap EXCEPT ![j] = to]
  BY <1>1, LeaseFrame
<1>3. QED
  BY <1>2 DEF Life!Move, LeaseMap

\* A step of a job that moves neither its lease nor its status is invisible.
LEMMA Invisible ==
    ASSUME IInv, NEW j \in Jobs, WorkerStep(j), Lease(j)' = Lease(j), UNCHANGED status
    PROVE  UNCHANGED Life!jobVars
<1>1. Life!Move(j, {Lease(j)}, Lease(j))
  BY MoveLease
<1>2. QED
  BY <1>1 DEF Life!Move, Life!jobVars

\* Every step of the queue and the worker is a step of JobLifecycle or invisible.
LEMMA WorkerRefines ==
    ASSUME IInv, NEW j \in Jobs, WorkerStep(j)
    PROVE  Life!Next \/ UNCHANGED Life!jobVars
<1>1. /\ queue[j] = "running" <=> stage[j] # "idle"
      /\ stage[j] = "extract" => status[j] = "SCRAPING"
      /\ stage[j] \in {"check", "embed"} => status[j] = "CHUNKING"
      /\ stage[j] \in {"upsert", "finalize", "index"} => status[j] = "EMBEDDING"
      /\ status[j] \in Life!States
  BY DEF IInv, TypeOK, RunMatchesRow, Running, JobStatuses, Life!States, Life!Stages,
     Life!Terminal
<1>2. /\ status \in [Jobs -> JobStatuses] /\ queue \in [Jobs -> QueueStates]
      /\ stage \in [Jobs -> RunStages]
  BY DEF IInv, TypeOK
<1>3. CASE Enqueue(j)
  BY <1>2, <1>3, Invisible DEF Enqueue, Lease
<1>4. CASE EnqueueFails(j) \/ Drop(j)
  <2>1. Lease(j) = "waiting" /\ Lease(j)' = "settled" /\ UNCHANGED status
    BY <1>2, <1>4 DEF EnqueueFails, Drop, Lease
  <2>2. Life!Settle(j)
    BY <2>1, MoveLease DEF Life!Settle
  <2>3. QED
    BY <2>2 DEF Life!Next
<1>5. CASE Take(j)
  <2>1. Lease(j) = "waiting" /\ Lease(j)' = "claimed" /\ UNCHANGED status
    BY <1>2, <1>5 DEF Take, Lease
  <2>2. Life!Claim(j)
    BY <2>1, MoveLease DEF Life!Claim
  <2>3. QED
    BY <2>2 DEF Life!Next
<1>6. CASE SkipRun(j)
  <2>1. Lease(j) = "claimed" /\ Lease(j)' = "ended" /\ UNCHANGED status
    BY <1>1, <1>2, <1>6 DEF SkipRun, Lease
  <2>2. Life!Skip(j)
    BY <2>1, MoveLease DEF Life!Skip
  <2>3. QED
    BY <2>2 DEF Life!Next
<1>7. CASE Scrape(j)
  <2>1. /\ Lease(j) = "claimed" /\ Lease(j)' = "working"
        /\ status' = [status EXCEPT ![j] = "SCRAPING"]
    BY <1>1, <1>2, <1>7 DEF Scrape, StageGoes, Lease
  <2>2. Life!Begin(j)
    BY <1>1, <2>1, MoveLease DEF Life!Begin, Life!Write
  <2>3. QED
    BY <2>2 DEF Life!Next
<1>8. CASE (\E n \in 0..MaxChunks : Chunk(j, n)) \/ Embed(j)
  <2>1. /\ Lease(j) = "working" /\ Lease(j)' = "working"
        /\ \/ status[j] = "SCRAPING" /\ status' = [status EXCEPT ![j] = "CHUNKING"]
           \/ status[j] = "CHUNKING" /\ status' = [status EXCEPT ![j] = "EMBEDDING"]
    BY <1>1, <1>2, <1>8 DEF Chunk, Embed, StageGoes, StageAfterEmbedding, Lease
  <2>2. Life!Advance(j)
    BY <2>1, MoveLease DEF Life!Advance, Life!Write
  <2>3. QED
    BY <2>2 DEF Life!Next
<1>9. CASE CheckActive(j) \/ Upsert(j) \/ UpsertUnanswered(j) \/ Finalize(j)
  <2>1. Lease(j)' = Lease(j) /\ UNCHANGED status
    BY <1>1, <1>2, <1>9 DEF CheckActive, Upsert, UpsertUnanswered, Finalize, StageGoes, Lease
  <2>2. QED
    BY <2>1, Invisible
<1>10. CASE StageFails(j) \/ Stop(j)
  <2>1. /\ Lease(j) \in {"claimed", "working"} /\ Lease(j)' = "working"
        /\ UNCHANGED status
    BY <1>1, <1>2, <1>10 DEF StageFails, Stop, Stoppable, Lease
  <2>2. CASE Lease(j) = "working"
    BY <2>1, <2>2, Invisible
  <2>3. CASE Lease(j) = "claimed"
    BY <2>1, <2>3, MoveLease DEF Life!Abort, Life!Next
  <2>4. QED
    BY <2>1, <2>2, <2>3
<1>11. CASE Index(j) \/ Fail(j) \/ FailSwallowed(j)
  <2>1. Lease(j) = "working" /\ Lease(j)' = "ended"
    BY <1>1, <1>2, <1>11
       DEF Index, Fail, FailSwallowed, StageAfterFailure, StageGoes, Lease
  <2>2. \/ status[j] = "EMBEDDING" /\ status' = [status EXCEPT ![j] = "INDEXED"]
        \/ status' = [status EXCEPT ![j] = "FAILED"]
        \/ UNCHANGED status
    BY <1>1, <1>11 DEF Index, Fail, FailSwallowed, StageGoes
  <2>3. Life!Finish(j)
    BY <1>1, <2>1, <2>2, MoveLease DEF Life!Finish, Life!Write
  <2>4. QED
    BY <2>3 DEF Life!Next
<1>12. CASE Ack(j)
  <2>1. Lease(j) = "ended" /\ Lease(j)' = "settled" /\ UNCHANGED status
    BY <1>1, <1>2, <1>12 DEF Ack, StageGoes, Lease
  <2>2. Life!Settle(j)
    BY <2>1, MoveLease DEF Life!Settle
  <2>3. QED
    BY <2>2 DEF Life!Next
<1>13. CASE Requeue(j) \/ Crash(j)
  <2>1. /\ Lease(j) \in {"claimed", "working", "ended"} /\ Lease(j)' = "waiting"
        /\ UNCHANGED status
    BY <1>1, <1>2, <1>13 DEF Requeue, Crash, StageGoes, Lease
  <2>2. Life!Redeliver(j)
    BY <2>1, MoveLease DEF Life!Redeliver
  <2>3. QED
    BY <2>2 DEF Life!Next
<1>14. QED
  BY <1>3, <1>4, <1>5, <1>6, <1>7, <1>8, <1>9, <1>10, <1>11, <1>12, <1>13
     DEF WorkerStep, JobStep, JobFault, RunStep

\* Requests that register nothing are invisible to the life of a job.
LEMMA HandlerInvisible ==
    ASSUME UNCHANGED workerVars
    PROVE  UNCHANGED Life!jobVars
  BY DEF workerVars, Life!jobVars, Lease

\* Every step of the pipeline is a step of JobLifecycle or invisible to it.
LEMMA NextRefines == IInv /\ [Next]_vars => [Life!Next]_(Life!jobVars)
<1> SUFFICES ASSUME IInv, [Next]_vars
             PROVE  Life!Next \/ UNCHANGED Life!jobVars
  OBVIOUS
<1>1. ASSUME NEW c \in Clients, Register(c)
      PROVE  Life!Next
  BY <1>1, RegisterRefines DEF Life!Next
<1>2. ASSUME NEW j \in Jobs, JobStep(j) \/ JobFault(j)
      PROVE  Life!Next \/ UNCHANGED Life!jobVars
  BY <1>2, WorkerRefines DEF WorkerStep
<1>3. ASSUME NEW c \in Clients,
             \/ HandlerStep(c) /\ ~Register(c)
             \/ HandlerFault(c)
             \/ \E ds \in Docsets : \E S \in SUBSET DocsIn(ds) : Ingest(c, ds, S)
             \/ \E d \in Docs : DeleteDoc(c, d)
             \/ \E ds \in Docsets : DeleteDocset(c, ds)
      PROVE  UNCHANGED Life!jobVars
  <2>1. UNCHANGED workerVars
    BY <1>3, Zenon DEF HandlerStep, HandlerFault, RegisterFails, PurgeDoc, PurgeDocFails,
       PurgeDocUnanswered, MarkDeleted, MarkNotFound, MarkFails, PurgeDocset,
       PurgeDocsetFails, Ingest, DeleteDoc, DeleteDocset
  <2>2. QED
    BY <2>1, HandlerInvisible
<1>4. CASE UNCHANGED vars
  BY <1>4, HandlerInvisible DEF vars
<1>5. QED
  BY <1>1, <1>2, <1>3, <1>4 DEF Next, Request

\* The pipeline implements JobLifecycle for any number of jobs, deliveries and faults.
THEOREM ImplementsLifecycle == Spec => LifecycleSpec
<1>1. Spec => []IInv
  BY IInvAlways
<1>2. QED
  BY <1>1, InitRefines, NextRefines, PTL DEF Spec, LifecycleSpec, Life!Spec

-----------------------------------------------------------------------------
\* A run reaches the stages past the guard only from the check, on an active document.
LEMMA GuardedRun ==
    ASSUME IInv, NEW j \in Jobs, WorkerStep(j), stage'[j] \in PastGuard
    PROVE  stage[j] \in PastGuard \/ doc[jobDoc[j]] = "active"
  BY DEF IInv, TypeOK, PastGuard, WorkerStep, JobStep, JobFault, RunStep, Enqueue,
     EnqueueFails, Take, Drop, SkipRun, Scrape, Chunk, CheckActive, IsDocumentActive, Embed,
     StageAfterEmbedding, Upsert, UpsertUnanswered, Finalize, Index, StageFails, Stop, Fail,
     FailSwallowed, StageAfterFailure, Ack, Requeue, Crash, StageGoes

\* A worker writes points of the document of its job only, and only past the guard.
LEMMA GuardedWrite ==
    ASSUME IInv, NEW j \in Jobs, WorkerStep(j), NEW d \in Docs, points'[d] # points[d]
    PROVE  jobDoc[j] = d /\ stage[j] \in PastGuard
  BY DEF IInv, TypeOK, PastGuard, WorkerStep, JobStep, JobFault, RunStep, Enqueue,
     EnqueueFails, Take, Drop, SkipRun, Scrape, Chunk, CheckActive, Embed, Upsert,
     UpsertUnanswered, WithChunks, Finalize, Index, StageFails, Stop, Fail, FailSwallowed,
     Ack, Requeue, Crash, StageGoes

\* A step of the worker leaves a clean document clean.
LEMMA WorkerKeepsClean ==
    ASSUME IInv, NEW d \in Docs, Clean(d), NEW j \in Jobs, WorkerStep(j)
    PROVE  Clean(d)'
<1>1. doc'[d] = "deleted" /\ UNCHANGED jobDoc
  BY WorkerFrame DEF Clean
<1>2. points'[d] = {}
  BY GuardedWrite DEF Clean
<1>3. ASSUME NEW k \in Jobs, jobDoc[k] = d PROVE stage'[k] \notin PastGuard
  <2>1. CASE k = j
    BY <1>3, <2>1, GuardedRun DEF Clean
  <2>2. CASE k # j
    <3>1. stage'[k] = stage[k]
      BY <2>2 DEF IInv, TypeOK, WorkerStep, JobStep, JobFault, RunStep, Enqueue,
         EnqueueFails, Take, Drop, SkipRun, Scrape, Chunk, CheckActive, Embed, Upsert,
         UpsertUnanswered, Finalize, Index, StageFails, Stop, Fail, FailSwallowed, Ack,
         Requeue, Crash, StageGoes
    <3>2. QED
      BY <1>3, <3>1 DEF Clean
  <2>3. QED
    BY <2>1, <2>2
<1>4. QED
  BY <1>1, <1>2, <1>3 DEF Clean

\* A step of a request that registers nothing leaves a clean document clean.
LEMMA HandlerKeepsClean ==
    ASSUME IInv, NEW d \in Docs, Clean(d), NEW c \in Clients,
           \/ HandlerStep(c) /\ ~Register(c)
           \/ HandlerFault(c)
           \/ \E ds \in Docsets : \E S \in SUBSET DocsIn(ds) : Ingest(c, ds, S)
           \/ \E e \in Docs : DeleteDoc(c, e)
           \/ \E ds \in Docsets : DeleteDocset(c, ds)
    PROVE  Clean(d)'
<1>1. UNCHANGED <<jobDoc, stage>>
  BY Zenon DEF HandlerStep, HandlerFault, RegisterFails, PurgeDoc, PurgeDocFails,
     PurgeDocUnanswered, MarkDeleted, MarkNotFound, MarkFails, PurgeDocset,
     PurgeDocsetFails, Ingest, DeleteDoc, DeleteDocset, dbVars, workerVars
<1>2. doc'[d] = "deleted"
  <2>1. \/ doc' = doc
        \/ doc' = [doc EXCEPT ![target[c]] = "deleted"]
        \/ \E ds \in Docsets :
              doc' = [e \in Docs |-> IF e \in ActiveDocs(ds) THEN "deleted" ELSE doc[e]]
    BY Zenon DEF HandlerStep, HandlerFault, RegisterFails, PurgeDoc, PurgeDocFails,
       PurgeDocUnanswered, MarkDeleted, MarkNotFound, MarkFails, PurgeDocset,
       PurgeDocsetFails, Ingest, DeleteDoc, DeleteDocset, dbVars
  <2>2. QED
    BY <2>1 DEF Clean, IInv, TypeOK
<1>3. points'[d] = {}
  <2>1. \/ points' = points
        \/ points' = [points EXCEPT ![target[c]] = {}]
        \/ points' = WithoutDocset(target[c])
    BY Zenon DEF HandlerStep, HandlerFault, RegisterFails, PurgeDoc, PurgeDocFails,
       PurgeDocUnanswered, MarkDeleted, MarkNotFound, MarkFails, PurgeDocset,
       PurgeDocsetFails, Ingest, DeleteDoc, DeleteDocset
  <2>2. QED
    BY <2>1 DEF Clean, IInv, TypeOK, WithoutDocset
<1>4. QED
  BY <1>1, <1>2, <1>3 DEF Clean

\* The commit of a batch leaves a clean document clean or reactivates it.
LEMMA RegisterKeepsClean ==
    ASSUME IInv, NEW d \in Docs, Clean(d), NEW c \in Clients, Register(c)
    PROVE  Clean(d)' \/ doc'[d] = "active"
<1>1. PICK id \in [Accepted(c) -> FreeJobs],
           older \in SUBSET {e \in Accepted(c) : latest[e] # batch[c].last[e]},
           flushed \in FlushedBeforeCount(batch[c].new, batch[c].revived) :
           Commits(c, id, older, flushed)
  BY RegisterCommits
<1>2. doc'[d] = "deleted" \/ doc'[d] = "active"
  BY <1>1 DEF Clean, Commits
<1>3. ASSUME NEW j \in Jobs, stage'[j] \in PastGuard PROVE jobDoc'[j] = jobDoc[j]
  <2>1. status[j] # "none"
    BY <1>1, <1>3 DEF Commits, IInv, RunMatchesRow, Running, PastGuard
  <2>2. QED
    BY <1>1, <2>1 DEF Commits, FreeJobs
<1>4. QED
  BY <1>1, <1>2, <1>3 DEF Clean, Commits

\* Once a deleted document is clean, only its reactivation ends this: no delivery,
\* retry, crash or restart of any job brings its vectors back.
THEOREM CleanDocumentsStayClean == Spec => CleanStaysClean
<1> DEFINE Stays == \A d \in Docs : Clean(d) => Clean(d)' \/ doc'[d] = "active"
<1>1. IInv /\ [Next]_vars => [Stays]_vars
  <2> SUFFICES ASSUME IInv, Next, NEW d \in Docs, Clean(d)
               PROVE  Clean(d)' \/ doc'[d] = "active"
    OBVIOUS
  <2>1. QED
    BY WorkerKeepsClean, HandlerKeepsClean, RegisterKeepsClean
       DEF Next, Request, WorkerStep, HandlerStep
<1>2. QED
  BY <1>1, IInvAlways, PTL DEF Spec, CleanStaysClean

-----------------------------------------------------------------------------
(***************************************************************************)
(* One thing at a time: what the restriction of IngestionUse guarantees.   *)
(***************************************************************************)

\* The chunks of a run are in the vector store before the run counts them, and the
\* counted ones before the job becomes INDEXED.
RunVectors(j) ==
    /\ stage[j] = "finalize" => ChunkIndexes(found[j]) \subseteq points[jobDoc[j]]
    /\ stage[j] = "index" => ChunkIndexes(chunkCount[jobDoc[j]]) \subseteq points[jobDoc[j]]

\* Only the latest job of an active document is live.
LiveIsLatest ==
    \A j \in Jobs : Live(j) => latest[jobDoc[j]] = j /\ doc[jobDoc[j]] = "active"

RunsVectors == \A j \in Jobs : RunVectors(j)

\* Nobody works on what a request deletes, and what it has purged stays purged until
\* it marks the row.
RequestsAlone ==
    \A c \in Clients :
        /\ handler[c] \in {"purge", "mark"} => ~Busy(target[c])
        /\ handler[c] = "mark" => points[target[c]] = {}
        /\ handler[c] = "purgeDocset" =>
              \A d \in DocsIn(target[c]) : ~Busy(d) /\ doc[d] # "active"

\* What a registration has read is still so when it commits: it is the only one for its
\* docset, nobody deletes from it, and nobody works on the documents it accepts.
Undisturbed(c) ==
    /\ ~Deleting(target[c])
    /\ \A b \in Clients \ {c} : ~(handler[b] = "register" /\ target[b] = target[c])
    /\ ~batch[c].revives => docset[target[c]] = "active"
    /\ \A d \in Accepted(c) : ~Busy(d) /\ latest[d] = batch[c].last[d]
    /\ \A d \in batch[c].retried : doc[d] = "active"

RegistersAlone == \A c \in Clients : handler[c] = "register" => Undisturbed(c)

\* The vectors of a document follow from its row, except while a request that deletes
\* the document or its docset is between its two halves.
VectorsFollowRows ==
    \A d \in Docs :
        /\ doc[d] = "deleted" =>
              \/ points[d] = {}
              \/ \E c \in Clients : handler[c] = "purgeDocset" /\ target[c] = DocsetOf[d]
        /\ doc[d] = "active" /\ status[latest[d]] = "INDEXED" =>
              \/ ChunkIndexes(chunkCount[d]) \subseteq points[d]
              \/ \E c \in Clients : handler[c] = "mark" /\ target[c] = d

\* The two tables that the registry keeps together.
DocsetsOK == PrunedDocsetIsEmpty /\ CountNeverExceedsActive

\* The inductive invariant of serial use, on top of the one of Ingestion.
SerialInv ==
    /\ IInv
    /\ DocsetsOK
    /\ LiveIsLatest
    /\ RunsVectors
    /\ RequestsAlone
    /\ RegistersAlone
    /\ VectorsFollowRows

-----------------------------------------------------------------------------
\* Serial use is a restriction: each of its steps is a step of Ingestion.
LEMMA SerialIsNext == SerialNext => Next
  BY Zenon DEF SerialNext, SerialRequest, Request, Next

\* The initial state satisfies the invariant.
LEMMA InitSerialInv == Init => SerialInv
<1> SUFFICES ASSUME Init PROVE SerialInv
  OBVIOUS
<1>1. IInv
  BY InitIInv
<1>2. DocsetsOK
  <2>1. ASSUME NEW ds \in Docsets PROVE ActiveDocs(ds) = {} /\ docsetCount[ds] = 0
    BY DEF Init, ActiveDocs, DocsIn
  <2>2. QED
    BY <2>1, ActiveFinite DEF DocsetsOK, PrunedDocsetIsEmpty, CountNeverExceedsActive
<1>3. LiveIsLatest /\ RunsVectors
  BY DEF Init, LiveIsLatest, RunsVectors, RunVectors, Live
<1>4. RequestsAlone /\ RegistersAlone /\ VectorsFollowRows
  BY DEF Init, RequestsAlone, RegistersAlone, VectorsFollowRows
<1>5. QED
  BY <1>1, <1>2, <1>3, <1>4 DEF SerialInv

\* Steps that leave the documents and the docsets alone keep them in agreement.
LEMMA DocsetsUntouched ==
    ASSUME DocsetsOK, UNCHANGED <<doc, docset, docsetCount>>
    PROVE  DocsetsOK'
  BY DEF DocsetsOK, PrunedDocsetIsEmpty, CountNeverExceedsActive, ActiveDocs, DocsIn

\* Steps that begin no request, make nobody busy and leave the rows of a docset and of its
\* documents alone do not disturb a registration there.
LEMMA StaysUndisturbed ==
    ASSUME IInv, NEW c \in Clients, handler[c] = "register", Undisturbed(c),
           target'[c] = target[c], batch'[c] = batch[c],
           docset'[target[c]] = docset[target[c]],
           ~Deleting(target[c])',
           \A b \in Clients \ {c} : handler'[b] = "register" =>
               handler[b] = "register" /\ target'[b] = target[b],
           \A d \in DocsIn(target[c]) :
               /\ Busy(d)' => Busy(d)
               /\ doc'[d] = doc[d] /\ latest'[d] = latest[d]
    PROVE  Undisturbed(c)'
<1>1. Accepted(c) \subseteq DocsIn(target[c]) /\ batch[c].retried \subseteq DocsIn(target[c])
  BY DEF IInv, BatchesOK, Accepted
<1>2. \A d \in Accepted(c) : ~Busy(d)' /\ latest'[d] = batch[c].last[d]
  BY <1>1 DEF Undisturbed
<1>3. \A d \in batch[c].retried : doc'[d] = "active"
  BY <1>1 DEF Undisturbed
<1>4. QED
  BY <1>2, <1>3 DEF Undisturbed, Accepted

\* A request that only goes on leaves registrations undisturbed, if it neither makes
\* anybody busy nor touches the rows of their docsets.
LEMMA RegistersLeftAlone ==
    ASSUME IInv, RegistersAlone,
           \A c \in Clients : handler'[c] = "register" =>
               /\ handler[c] = "register" /\ target'[c] = target[c] /\ batch'[c] = batch[c]
               /\ docset'[target[c]] = docset[target[c]]
               /\ ~Deleting(target[c])'
               /\ \A d \in DocsIn(target[c]) :
                     /\ Busy(d)' => Busy(d)
                     /\ doc'[d] = doc[d] /\ latest'[d] = latest[d]
    PROVE  RegistersAlone'
<1> SUFFICES ASSUME NEW c \in Clients, handler'[c] = "register" PROVE Undisturbed(c)'
  BY DEF RegistersAlone
<1>1. Undisturbed(c)
  BY DEF RegistersAlone
<1>2. QED
  BY <1>1, StaysUndisturbed

-----------------------------------------------------------------------------
\* A step of the worker concerns one job: the rows, the queue entries and the runs of
\* the others stay as they are.
LEMMA WorkerOthers ==
    ASSUME IInv, NEW j \in Jobs, WorkerStep(j), NEW k \in Jobs, k # j
    PROVE  /\ status'[k] = status[k] /\ queue'[k] = queue[k]
           /\ stage'[k] = stage[k] /\ found'[k] = found[k]
<1> USE DEF IInv, TypeOK, StageGoes, ForgetChunks
<1>1. CASE Enqueue(j) \/ EnqueueFails(j) \/ Take(j) \/ Drop(j) \/ SkipRun(j)
  BY <1>1 DEF Enqueue, EnqueueFails, Take, Drop, SkipRun
<1>2. CASE Scrape(j) \/ (\E n \in 0..MaxChunks : Chunk(j, n)) \/ CheckActive(j) \/ Embed(j)
  BY <1>2 DEF Scrape, Chunk, CheckActive, Embed
<1>3. CASE Upsert(j) \/ UpsertUnanswered(j) \/ Finalize(j) \/ Index(j)
  BY <1>3 DEF Upsert, UpsertUnanswered, Finalize, Index
<1>4. CASE StageFails(j) \/ Stop(j) \/ Fail(j) \/ FailSwallowed(j)
  BY <1>4 DEF StageFails, Stop, Fail, FailSwallowed
<1>5. CASE Ack(j) \/ Requeue(j) \/ Crash(j)
  BY <1>5 DEF Ack, Requeue, Crash
<1>6. QED
  BY <1>1, <1>2, <1>3, <1>4, <1>5 DEF WorkerStep, JobStep, JobFault, RunStep

\* What the worker does to the tables and the vectors: only the upsert of a run adds
\* points, to its own document, and only the end of a run counts the chunks.
LEMMA WorkerWrites ==
    ASSUME IInv, NEW j \in Jobs, WorkerStep(j)
    PROVE  /\ \/ points' = points
              \/ stage[j] = "upsert" /\ points' = WithChunks(j)
           /\ chunkCount' = chunkCount \/ Finalize(j)
<1>1. points' = points \/ Upsert(j) \/ UpsertUnanswered(j)
  BY Zenon DEF WorkerStep, JobStep, JobFault, RunStep, Enqueue, EnqueueFails, Take, Drop,
     SkipRun, Scrape, Chunk, CheckActive, Embed, Finalize, Index, StageFails, Stop, Fail,
     FailSwallowed, Ack, Requeue, Crash
<1>2. chunkCount' = chunkCount \/ Finalize(j)
  BY Zenon DEF WorkerStep, JobStep, JobFault, RunStep, Enqueue, EnqueueFails, Take, Drop,
     SkipRun, Scrape, Chunk, CheckActive, Embed, Upsert, UpsertUnanswered, Index,
     StageFails, Stop, Fail, FailSwallowed, Ack, Requeue, Crash, dbVars
<1>3. QED
  BY <1>1, <1>2 DEF Upsert, UpsertUnanswered, StageGoes

\* A step of the worker never makes a job live again.
LEMMA WorkerOwnJob ==
    ASSUME IInv, NEW j \in Jobs, WorkerStep(j)
    PROVE  Live(j)' => Live(j)
<1> USE DEF IInv, TypeOK, RunMatchesRow, Live, Running, StageGoes
<1>1. CASE Enqueue(j) \/ EnqueueFails(j)
  BY <1>1 DEF Enqueue, EnqueueFails
<1>2. CASE Take(j) \/ Drop(j)
  BY <1>2 DEF Take, Drop
<1>3. CASE SkipRun(j) \/ Scrape(j) \/ (\E n \in 0..MaxChunks : Chunk(j, n))
  BY <1>3 DEF SkipRun, Scrape, Chunk
<1>4. CASE CheckActive(j) \/ Embed(j) \/ Upsert(j) \/ UpsertUnanswered(j)
  BY <1>4 DEF CheckActive, Embed, Upsert, UpsertUnanswered
<1>5. CASE Finalize(j) \/ Index(j) \/ StageFails(j) \/ Stop(j)
  BY <1>5 DEF Finalize, Index, StageFails, Stop
<1>6. CASE Fail(j) \/ FailSwallowed(j) \/ Ack(j)
  BY <1>6 DEF Fail, FailSwallowed, Ack
<1>7. CASE Requeue(j) \/ Crash(j)
  BY <1>7 DEF Requeue, Crash
<1>8. QED
  BY <1>1, <1>2, <1>3, <1>4, <1>5, <1>6, <1>7 DEF WorkerStep, JobStep, JobFault, RunStep

\* The worker keeps the agreement of runs, jobs and documents.
LEMMA WorkerLiveIsLatest ==
    ASSUME SerialInv, NEW j \in Jobs, WorkerStep(j)
    PROVE  /\ LiveIsLatest'
           /\ \A k \in Jobs : Live(k)' => Live(k)
           /\ \A d : Busy(d)' => Busy(d)
<1>1. UNCHANGED <<doc, latest, jobDoc>>
  BY WorkerFrame
<1>2. ASSUME NEW k \in Jobs PROVE Live(k)' => Live(k)
  <2>1. CASE k = j
    BY <2>1, WorkerOwnJob DEF SerialInv
  <2>2. CASE k # j
    BY <2>2, WorkerOthers DEF SerialInv, Live
  <2>3. QED
    BY <2>1, <2>2
<1>3. LiveIsLatest'
  BY <1>1, <1>2 DEF SerialInv, LiveIsLatest
<1>4. QED
  BY <1>1, <1>2, <1>3 DEF Busy

\* The worker keeps the vectors of runs: those of its own run are where the run says,
\* and no other run works on the same document.
LEMMA WorkerRunsVectors ==
    ASSUME SerialInv, NEW j \in Jobs, WorkerStep(j)
    PROVE  RunsVectors'
<1>1. jobDoc' = jobDoc
  BY WorkerFrame
<1>2. ASSUME NEW d \in Docs PROVE points[d] \subseteq points'[d]
  BY WorkerWrites DEF SerialInv, IInv, TypeOK, WithChunks
<1>3. ASSUME NEW k \in Jobs, stage[k] # "idle" PROVE jobDoc[k] \in Docs /\ Running(k)
  BY <1>3 DEF SerialInv, IInv, TypeOK, RunMatchesRow, Running
<1>4. ASSUME NEW k \in Jobs, k # j PROVE RunVectors(k)'
  <2>1. stage'[k] = stage[k] /\ found'[k] = found[k]
    BY <1>4, WorkerOthers DEF SerialInv
  <2>2. stage[k] = "finalize" => RunVectors(k)'
    BY <2>1, <1>1, <1>2, <1>3 DEF SerialInv, RunsVectors, RunVectors, ChunkIndexes
  <2>3. ASSUME stage[k] = "index" PROVE chunkCount'[jobDoc[k]] = chunkCount[jobDoc[k]]
    <3>1. CASE chunkCount' = chunkCount
      BY <3>1
    <3>2. CASE Finalize(j)
      <4>1. stage[j] = "finalize" /\ Live(j) /\ Live(k)
        BY <3>2, <2>3, <1>3 DEF Finalize, StageGoes, Live, Running, SerialInv, IInv, RunMatchesRow
      <4>2. jobDoc[j] # jobDoc[k]
        BY <4>1, <1>4 DEF SerialInv, LiveIsLatest
      <4>3. QED
        BY <3>2, <4>2, <4>1, <1>3, <2>3 DEF Finalize, SerialInv, IInv, TypeOK
    <3>3. QED
      BY <3>1, <3>2, WorkerWrites DEF SerialInv
  <2>4. stage[k] = "index" => RunVectors(k)'
    BY <2>1, <2>3, <1>1, <1>2, <1>3 DEF SerialInv, RunsVectors, RunVectors, ChunkIndexes
  <2>5. QED
    BY <2>1, <2>2, <2>4 DEF RunVectors
<1>5. RunVectors(j)'
  <2>1. CASE Embed(j)
    BY <2>1, <1>1, <1>3
       DEF Embed, StageGoes, StageAfterEmbedding, RunVectors, ChunkIndexes, SerialInv, IInv, TypeOK
  <2>2. CASE Upsert(j)
    <3>1. stage[j] = "upsert" /\ stage'[j] = "finalize" /\ found'[j] = found[j]
      BY <2>2 DEF Upsert, StageGoes, SerialInv, IInv, TypeOK
    <3>2. ChunkIndexes(found[j]) \subseteq points'[jobDoc[j]]
      BY <2>2, <3>1, <1>3 DEF Upsert, WithChunks, SerialInv, IInv, TypeOK
    <3>3. QED
      BY <3>1, <3>2, <1>1 DEF RunVectors, ChunkIndexes
  <2>3. CASE Finalize(j)
    <3>1. stage[j] = "finalize" /\ stage'[j] = "index" /\ points' = points
      BY <2>3 DEF Finalize, StageGoes, SerialInv, IInv, TypeOK
    <3>2. chunkCount'[jobDoc[j]] = found[j]
      BY <2>3, <3>1, <1>3 DEF Finalize, SerialInv, IInv, TypeOK
    <3>3. QED
      BY <3>1, <3>2, <1>1 DEF SerialInv, RunsVectors, RunVectors, ChunkIndexes
  <2>4. CASE ~(Embed(j) \/ Upsert(j) \/ Finalize(j))
    <3>1. stage'[j] \notin {"finalize", "index"}
      <4> USE DEF SerialInv, IInv, TypeOK, RunMatchesRow, Running, StageGoes
      <4>1. CASE Enqueue(j) \/ EnqueueFails(j) \/ Drop(j)
        BY <4>1 DEF Enqueue, EnqueueFails, Drop
      <4>2. CASE Take(j) \/ SkipRun(j) \/ Scrape(j) \/ CheckActive(j)
        BY <4>2 DEF Take, SkipRun, Scrape, CheckActive
      <4>3. CASE \E n \in 0..MaxChunks : Chunk(j, n)
        BY <4>3 DEF Chunk
      <4>4. CASE UpsertUnanswered(j) \/ Index(j) \/ StageFails(j) \/ Stop(j)
        BY <4>4 DEF UpsertUnanswered, Index, StageFails, Stop
      <4>5. CASE Fail(j) \/ FailSwallowed(j)
        BY <4>5 DEF Fail, FailSwallowed, StageAfterFailure
      <4>6. CASE Ack(j) \/ Requeue(j) \/ Crash(j)
        BY <4>6 DEF Ack, Requeue, Crash
      <4>7. QED
        BY <2>4, <4>1, <4>2, <4>3, <4>4, <4>5, <4>6
           DEF WorkerStep, JobStep, JobFault, RunStep
    <3>2. QED
      BY <3>1 DEF RunVectors
  <2>5. QED
    BY <2>1, <2>2, <2>3, <2>4
<1>6. QED
  BY <1>4, <1>5 DEF RunsVectors

\* The worker leaves the documents of delete requests alone.
LEMMA WorkerRequestsAlone ==
    ASSUME SerialInv, NEW j \in Jobs, WorkerStep(j)
    PROVE  RequestsAlone'
<1>1. UNCHANGED <<doc, handler, target>>
  BY WorkerFrame DEF apiVars
<1>2. \A d : Busy(d)' => Busy(d)
  BY WorkerLiveIsLatest
<1>3. ASSUME NEW c \in Clients, handler[c] = "mark"
      PROVE  points'[target[c]] = points[target[c]]
  <2>1. CASE points' = points
    BY <2>1
  <2>2. CASE stage[j] = "upsert" /\ points' = WithChunks(j)
    <3>1. Live(j)
      BY <2>2 DEF SerialInv, IInv, RunMatchesRow, Running, Live
    <3>2. jobDoc[j] # target[c]
      BY <3>1, <1>3 DEF SerialInv, RequestsAlone, Busy
    <3>3. QED
      BY <2>2, <3>2, <1>3 DEF WithChunks, SerialInv, IInv, TypeOK, TargetsOK
  <2>3. QED
    BY <2>1, <2>2, WorkerWrites DEF SerialInv
<1>4. QED
  BY <1>1, <1>2, <1>3 DEF SerialInv, RequestsAlone, DocsIn

\* The worker keeps rows and vectors in agreement.
LEMMA WorkerVectorsFollowRows ==
    ASSUME SerialInv, NEW j \in Jobs, WorkerStep(j)
    PROVE  VectorsFollowRows'
<1>1. UNCHANGED <<doc, latest, jobDoc, handler, target>>
  BY WorkerFrame DEF apiVars
<1>2. ASSUME NEW d \in Docs PROVE points[d] \subseteq points'[d]
  BY WorkerWrites DEF SerialInv, IInv, TypeOK, WithChunks
<1>3. ASSUME NEW d \in Docs, doc[d] = "deleted" PROVE points'[d] = points[d]
  <2>1. CASE points' = points
    BY <2>1
  <2>2. CASE stage[j] = "upsert" /\ points' = WithChunks(j)
    <3>1. Live(j)
      BY <2>2 DEF SerialInv, IInv, RunMatchesRow, Running, Live
    <3>2. jobDoc[j] # d
      BY <3>1, <1>3 DEF SerialInv, LiveIsLatest
    <3>3. QED
      BY <2>2, <3>2 DEF WithChunks, SerialInv, IInv, TypeOK
  <2>3. QED
    BY <2>1, <2>2, WorkerWrites DEF SerialInv
<1>4. ASSUME NEW d \in Docs, doc[d] = "active", status'[latest[d]] = "INDEXED"
      PROVE  \/ ChunkIndexes(chunkCount'[d]) \subseteq points'[d]
             \/ \E c \in Clients : handler[c] = "mark" /\ target[c] = d
  <2>0. latest[d] \in Jobs /\ jobDoc[latest[d]] = d
    BY <1>4 DEF SerialInv, IInv, TypeOK, RunMatchesRow
  <2>1. CASE Index(j)
    <3>1. stage[j] = "index" /\ points' = points /\ chunkCount' = chunkCount
      BY <2>1 DEF Index, StageGoes, dbVars
    <3>2. CASE latest[d] = j
      BY <3>1, <3>2, <2>0 DEF SerialInv, RunsVectors, RunVectors
    <3>3. CASE latest[d] # j
      BY <3>1, <3>3, <2>0, <1>4, WorkerOthers DEF SerialInv, VectorsFollowRows
    <3>4. QED
      BY <3>2, <3>3
  <2>2. CASE Finalize(j)
    <3>1. /\ stage[j] = "finalize" /\ status' = status /\ points' = points
          /\ chunkCount' = [chunkCount EXCEPT ![jobDoc[j]] = found[j]]
      BY <2>2 DEF Finalize, StageGoes
    <3>2. Live(j) /\ status[j] = "EMBEDDING"
      BY <3>1 DEF SerialInv, IInv, RunMatchesRow, Running, Live
    <3>3. jobDoc[j] # d
      BY <3>1, <3>2, <1>4 DEF SerialInv, LiveIsLatest
    <3>4. chunkCount'[d] = chunkCount[d]
      BY <3>1, <3>3 DEF SerialInv, IInv, TypeOK
    <3>5. QED
      BY <3>1, <3>4, <1>4 DEF SerialInv, VectorsFollowRows
  <2>3. CASE ~Index(j) /\ ~Finalize(j)
    <3>1. chunkCount' = chunkCount
      BY <2>3, WorkerWrites DEF SerialInv
    <3>2. status[latest[d]] = "INDEXED"
      <4>1. status'[j] = "INDEXED" => status[j] = "INDEXED"
        BY <2>3 DEF WorkerStep, JobStep, JobFault, RunStep, Enqueue, EnqueueFails, Take,
           Drop, SkipRun, Scrape, Chunk, CheckActive, Embed, Upsert, UpsertUnanswered,
           StageFails, Stop, Fail, FailSwallowed, Ack, Requeue, Crash, SerialInv, IInv, TypeOK
      <4>2. QED
        BY <4>1, <2>0, <1>4, WorkerOthers DEF SerialInv
    <3>3. QED
      BY <3>1, <3>2, <1>2, <1>4 DEF SerialInv, VectorsFollowRows
  <2>4. QED
    BY <2>1, <2>2, <2>3
<1>5. QED
  BY <1>1, <1>3, <1>4 DEF SerialInv, VectorsFollowRows

\* The worker leaves registrations undisturbed.
LEMMA WorkerRegistersAlone ==
    ASSUME SerialInv, NEW j \in Jobs, WorkerStep(j)
    PROVE  RegistersAlone'
<1>1. UNCHANGED <<doc, docset, latest, handler, target, batch>>
  BY WorkerFrame DEF apiVars
<1>2. \A d : Busy(d)' => Busy(d)
  BY WorkerLiveIsLatest
<1>3. \A c \in Clients : handler[c] = "register" => ~Deleting(target[c])'
  BY <1>1 DEF SerialInv, RegistersAlone, Undisturbed, Deleting, DocsIn
<1>4. QED
  BY <1>1, <1>2, <1>3, RegistersLeftAlone DEF SerialInv

\* The worker keeps the invariant of serial use.
LEMMA WorkerSerialInv ==
    ASSUME SerialInv, NEW j \in Jobs, WorkerStep(j)
    PROVE  SerialInv'
<1>1. IInv' /\ DocsetsOK'
  BY WorkerIInv, WorkerFrame, DocsetsUntouched DEF SerialInv
<1>2. QED
  BY <1>1, WorkerLiveIsLatest, WorkerRunsVectors, WorkerRequestsAlone,
     WorkerRegistersAlone, WorkerVectorsFollowRows DEF SerialInv

-----------------------------------------------------------------------------
\* Delete requests leave queue and runs alone: nobody becomes busy.
LEMMA RequestsKeepLive ==
    ASSUME UNCHANGED workerVars, UNCHANGED jobDoc
    PROVE  /\ \A j : Live(j)' <=> Live(j)
           /\ \A d : Busy(d)' <=> Busy(d)
  BY DEF workerVars, Live, Busy

\* Beginning a registration and giving one up touch neither rows nor points.
LEMMA RegistrationLeavesRows ==
    ASSUME SerialInv, NEW c \in Clients, UNCHANGED <<dbVars, workerVars, points>>,
           handler[c] \in {"idle", "register"}, handler'[c] \in {"idle", "register"},
           \A b \in Clients \ {c} : /\ handler'[b] = handler[b] /\ target'[b] = target[b]
                                    /\ batch'[b] = batch[b]
    PROVE  /\ DocsetsOK' /\ LiveIsLatest' /\ RunsVectors'
           /\ RequestsAlone' /\ VectorsFollowRows'
           /\ \A d : Busy(d)' <=> Busy(d)
           /\ \A ds : Deleting(ds)' <=> Deleting(ds)
<1>1. (\A j : Live(j)' <=> Live(j)) /\ (\A d : Busy(d)' <=> Busy(d))
  BY RequestsKeepLive DEF dbVars
<1>2. \A b \in Clients :
          /\ handler'[b] \in {"purge", "mark", "purgeDocset"} <=>
                handler[b] \in {"purge", "mark", "purgeDocset"}
          /\ handler[b] \in {"purge", "mark", "purgeDocset"} =>
                handler'[b] = handler[b] /\ target'[b] = target[b]
  OBVIOUS
<1>3. DocsetsOK' /\ LiveIsLatest' /\ RunsVectors'
  BY <1>1, DocsetsUntouched
     DEF SerialInv, LiveIsLatest, RunsVectors, RunVectors, dbVars, workerVars
<1>4. RequestsAlone'
  BY <1>1, <1>2 DEF SerialInv, RequestsAlone, DocsIn, dbVars
<1>5. VectorsFollowRows'
  BY <1>2 DEF SerialInv, VectorsFollowRows, ChunkIndexes, dbVars, workerVars
<1>6. \A ds : Deleting(ds)' <=> Deleting(ds)
  BY <1>2 DEF Deleting, DocsIn
<1>7. QED
  BY <1>1, <1>3, <1>4, <1>5, <1>6

\* A registration that fails leaves nothing behind.
LEMMA RegisterFailsSerialInv ==
    ASSUME SerialInv, NEW c \in Clients, RegisterFails(c)
    PROVE  SerialInv'
<1>1. /\ handler[c] = "register" /\ handler'[c] = "idle"
      /\ \A b \in Clients \ {c} : /\ handler'[b] = handler[b] /\ target'[b] = target[b]
                                  /\ batch'[b] = batch[b]
      /\ UNCHANGED <<dbVars, workerVars, points>>
  BY DEF RegisterFails, HandlerGoes, SerialInv, IInv, TypeOK
<1>2. IInv'
  BY HandlerQuietIInv DEF SerialInv, HandlerQuiet
<1>3. /\ DocsetsOK' /\ LiveIsLatest' /\ RunsVectors'
      /\ RequestsAlone' /\ VectorsFollowRows'
      /\ \A d : Busy(d)' <=> Busy(d)
      /\ \A ds : Deleting(ds)' <=> Deleting(ds)
  BY <1>1, RegistrationLeavesRows
<1>4. RegistersAlone'
  <2> SUFFICES ASSUME NEW b \in Clients, handler'[b] = "register" PROVE Undisturbed(b)'
    BY DEF RegistersAlone
  <2>1. b # c /\ handler[b] = "register" /\ target'[b] = target[b] /\ batch'[b] = batch[b]
    BY <1>1
  <2>2. Undisturbed(b)
    BY <2>1 DEF SerialInv, RegistersAlone
  <2>3. ~Deleting(target[b])'
    BY <1>3, <2>1, <2>2 DEF Undisturbed
  <2>4. QED
    BY <1>1, <1>3, <2>1, <2>2, <2>3, StaysUndisturbed DEF SerialInv, dbVars
<1>5. QED
  BY <1>2, <1>3, <1>4 DEF SerialInv

\* Starting a deletion, purging the points of a document that nobody works on and
\* giving up keep the invariant of serial use.
LEMMA DocumentRequestSerialInv ==
    ASSUME SerialInv, NEW c \in Clients, NEW d \in Docs,
           \/ ~Registering(DocsetOf[d]) /\ ~Busy(d) /\ DeleteDoc(c, d)
           \/ target[c] = d /\ (PurgeDoc(c) \/ PurgeDocFails(c) \/ MarkNotFound(c))
    PROVE  SerialInv'
<1>1. UNCHANGED <<dbVars, workerVars>>
  BY DEF DeleteDoc, PurgeDoc, PurgeDocFails, MarkNotFound
<1>2. (\A j : Live(j)' <=> Live(j)) /\ (\A e : Busy(e)' <=> Busy(e))
  BY <1>1, RequestsKeepLive DEF dbVars
<1>3. IInv'
  BY HandlerQuietIInv DEF SerialInv, HandlerQuiet
<1>4. LiveIsLatest'
  BY <1>1, <1>2 DEF SerialInv, LiveIsLatest, dbVars, workerVars
<1>5. \/ points' = points
      \/ ~Busy(d) /\ handler[c] = "purge" /\ handler'[c] = "mark" /\ target'[c] = d
         /\ points' = [points EXCEPT ![d] = {}]
  <2>1. CASE PurgeDoc(c) /\ target[c] = d
    BY <2>1 DEF PurgeDoc, HandlerGoes, SerialInv, RequestsAlone, IInv, TypeOK
  <2>2. QED
    BY <2>1 DEF DeleteDoc, PurgeDocFails, MarkNotFound
<1>6. \/ handler'[c] = "idle"
      \/ handler'[c] = "purge" /\ target'[c] = d /\ ~Busy(d)
      \/ handler'[c] = "mark" /\ target'[c] = d /\ ~Busy(d) /\ points'[d] = {}
  BY DEF DeleteDoc, PurgeDoc, PurgeDocFails, MarkNotFound, HandlerGoes, SerialInv,
         RequestsAlone, IInv, TypeOK
<1>7. ASSUME NEW b \in Clients, b # c
      PROVE  /\ handler'[b] = handler[b] /\ target'[b] = target[b]
             /\ batch'[b] = batch[b]
  BY <1>7 DEF DeleteDoc, PurgeDoc, PurgeDocFails, MarkNotFound, HandlerGoes, SerialInv,
              IInv, TypeOK
<1>8. RunsVectors'
  <2>1. ASSUME NEW j \in Jobs, stage[j] \in {"finalize", "index"}
        PROVE  points'[jobDoc[j]] = points[jobDoc[j]]
    <3>1. Live(j) /\ jobDoc[j] \in Docs /\ Busy(jobDoc[j])
      BY <2>1 DEF SerialInv, IInv, TypeOK, RunMatchesRow, Live, Running, Busy
    <3>2. QED
      BY <3>1, <1>5 DEF SerialInv, IInv, TypeOK
  <2>2. QED
    BY <1>1, <2>1 DEF SerialInv, RunsVectors, RunVectors, ChunkIndexes, dbVars, workerVars
<1>9. RequestsAlone'
  <2>1. ASSUME NEW b \in Clients, handler'[b] \in {"purge", "mark"} PROVE ~Busy(target[b])'
    BY <2>1, <1>2, <1>6, <1>7 DEF SerialInv, RequestsAlone
  <2>2. ASSUME NEW b \in Clients, handler'[b] = "mark" PROVE points'[target'[b]] = {}
    BY <2>2, <1>5, <1>6, <1>7 DEF SerialInv, RequestsAlone, IInv, TypeOK, TargetsOK
  <2>3. ASSUME NEW b \in Clients, handler'[b] = "purgeDocset", NEW e \in DocsIn(target'[b])
        PROVE  ~Busy(e)' /\ doc'[e] # "active"
    BY <2>3, <1>1, <1>2, <1>6, <1>7 DEF SerialInv, RequestsAlone, DocsIn, dbVars
  <2>4. QED
    BY <2>1, <2>2, <2>3 DEF RequestsAlone, DocsIn
<1>10. VectorsFollowRows'
  <2>1. ASSUME NEW e \in Docs, doc'[e] = "deleted"
        PROVE  \/ points'[e] = {}
               \/ \E b \in Clients : handler'[b] = "purgeDocset" /\ target'[b] = DocsetOf[e]
    <3>1. CASE points[e] = {}
      BY <3>1, <1>5 DEF SerialInv, IInv, TypeOK
    <3>2. ASSUME NEW b \in Clients, handler[b] = "purgeDocset", target[b] = DocsetOf[e]
          PROVE  handler'[b] = "purgeDocset" /\ target'[b] = DocsetOf[e]
      <4>1. b # c
        BY <3>2 DEF DeleteDoc, PurgeDoc, PurgeDocFails, MarkNotFound, HandlerGoes
      <4>2. QED
        BY <4>1, <3>2, <1>7
    <3>3. QED
      BY <2>1, <3>1, <3>2, <1>1 DEF SerialInv, VectorsFollowRows, dbVars
  <2>2. ASSUME NEW e \in Docs, doc'[e] = "active", status'[latest'[e]] = "INDEXED"
        PROVE  \/ ChunkIndexes(chunkCount'[e]) \subseteq points'[e]
               \/ \E b \in Clients : handler'[b] = "mark" /\ target'[b] = e
    <3>1. CASE ChunkIndexes(chunkCount[e]) \subseteq points[e]
      <4>1. e = d /\ points' # points => handler'[c] = "mark" /\ target'[c] = e
        BY <1>5
      <4>2. e # d \/ points' = points => points'[e] = points[e]
        BY <1>5 DEF SerialInv, IInv, TypeOK
      <4>3. QED
        BY <3>1, <4>1, <4>2, <1>1 DEF dbVars
    <3>2. ASSUME NEW b \in Clients, handler[b] = "mark", target[b] = e
          PROVE  handler'[b] = "mark" /\ target'[b] = e
      <4>1. CASE b = c
        BY <4>1, <3>2, <2>2, <1>1
           DEF DeleteDoc, PurgeDoc, PurgeDocFails, MarkNotFound, HandlerGoes, dbVars
      <4>2. CASE b # c
        BY <4>2, <3>2, <1>7
      <4>3. QED
        BY <4>1, <4>2
    <3>3. QED
      BY <2>2, <3>1, <3>2, <1>1 DEF SerialInv, VectorsFollowRows, dbVars, workerVars
  <2>3. QED
    BY <2>1, <2>2 DEF VectorsFollowRows
<1>11. DocsetsOK'
  BY <1>1, DocsetsUntouched DEF SerialInv, dbVars
<1>12. RegistersAlone'
  <2>1. ASSUME NEW b \in Clients, handler'[b] = "register"
        PROVE  /\ b # c /\ handler[b] = "register"
               /\ target'[b] = target[b] /\ batch'[b] = batch[b]
    BY <2>1, <1>6, <1>7 DEF DeleteDoc, PurgeDoc, PurgeDocFails, MarkNotFound, HandlerGoes,
                            SerialInv, IInv, TypeOK
  <2>2. ASSUME NEW b \in Clients, handler'[b] = "register" PROVE ~Deleting(target[b])'
    <3>1. ~Deleting(target[b]) /\ handler[b] = "register"
      BY <2>1, <2>2 DEF SerialInv, RegistersAlone, Undisturbed
    <3>2. d \notin DocsIn(target[b])
      <4>1. CASE ~Registering(DocsetOf[d])
        BY <3>1, <4>1 DEF Registering, DocsIn
      <4>2. CASE target[c] = d /\ handler[c] \in {"purge", "mark"}
        BY <3>1, <4>2 DEF Deleting
      <4>3. QED
        BY <4>1, <4>2 DEF PurgeDoc, PurgeDocFails, MarkNotFound, HandlerGoes
    <3>3. QED
      <4>1. target'[b] = target[b]
        BY <2>1, <2>2
      <4>2. QED
        BY <4>1, <3>1, <3>2, <1>6, <1>7 DEF Deleting, DocsIn
  <2>3. QED
    BY <1>1, <1>2, <2>1, <2>2, RegistersLeftAlone DEF SerialInv, dbVars
<1>13. QED
  BY <1>3, <1>4, <1>8, <1>9, <1>10, <1>11, <1>12 DEF SerialInv

\* Soft-deleting a document keeps the docset and its documents in agreement: the docset is
\* recounted, and pruned exactly when no document is left.
LEMMA MarkDocsetsOK ==
    ASSUME IInv, DocsetsOK, NEW c \in Clients, MarkDeleted(c)
    PROVE  DocsetsOK'
<1>0. PICK d \in Docs : d = target[c]
  BY DEF IInv, TargetsOK, MarkDeleted, HandlerGoes
<1> DEFINE ds == DocsetOf[d]
           left == Cardinality(Remaining(d))
<1>1. ds \in Docsets
  BY DataAssumption
<1>2. /\ doc[d] = "active"
      /\ doc' = [doc EXCEPT ![d] = "deleted"]
      /\ docsetCount' = [docsetCount EXCEPT ![ds] = left]
      /\ docset' = [docset EXCEPT ![ds] = IF left = 0 THEN "pruned" ELSE docset[ds]]
  BY <1>0 DEF MarkDeleted
<1>3. ActiveDocs(ds)' = Remaining(d)
  BY <1>1, <1>2 DEF IInv, TypeOK, ActiveDocs, DocsIn, Remaining
<1>4. ASSUME NEW e \in Docsets, e # ds
      PROVE  ActiveDocs(e)' = ActiveDocs(e)
  BY <1>1, <1>2, <1>4 DEF IInv, TypeOK, ActiveDocs, DocsIn
<1>5. IsFiniteSet(Remaining(d)) /\ left \in Nat
  BY ActiveFinite, FS_Subset, FS_CardinalityType DEF Remaining
<1>6. left = 0 => Remaining(d) = {}
  BY <1>5, FS_EmptySet
<1>7. docset[ds] = "active"
  BY <1>1, <1>2 DEF DocsetsOK, PrunedDocsetIsEmpty, ActiveDocs, DocsIn
<1>8. docsetCount'[ds] = left
  BY <1>1, <1>2 DEF IInv, TypeOK
<1>9. docset'[ds] = IF left = 0 THEN "pruned" ELSE "active"
  BY <1>1, <1>2, <1>7 DEF IInv, TypeOK
<1>10. ASSUME NEW e \in Docsets, e # ds
       PROVE  docset'[e] = docset[e] /\ docsetCount'[e] = docsetCount[e]
  BY <1>2, <1>10 DEF IInv, TypeOK
<1>11. PrunedDocsetIsEmpty'
  BY <1>3, <1>4, <1>6, <1>8, <1>9, <1>10 DEF DocsetsOK, PrunedDocsetIsEmpty
<1>12. CountNeverExceedsActive'
  BY <1>3, <1>4, <1>5, <1>8, <1>10 DEF DocsetsOK, CountNeverExceedsActive
<1>13. QED
  BY <1>11, <1>12 DEF DocsetsOK

\* Marking a purged document keeps the invariant of serial use: its points are gone.
LEMMA MarkSerialInv ==
    ASSUME SerialInv, NEW c \in Clients, MarkDeleted(c)
    PROVE  SerialInv'
<1>0. PICK d \in Docs : d = target[c]
  BY DEF SerialInv, IInv, TargetsOK, MarkDeleted, HandlerGoes
<1>1. /\ handler[c] = "mark" /\ handler'[c] = "idle"
      /\ doc' = [doc EXCEPT ![d] = "deleted"]
      /\ UNCHANGED <<chunkCount, latest, jobDoc, workerVars, points>>
  BY <1>0 DEF MarkDeleted, HandlerGoes, SerialInv, IInv, TypeOK
<1>2. (\A j : Live(j)' <=> Live(j)) /\ (\A e : Busy(e)' <=> Busy(e))
  BY <1>1, RequestsKeepLive
<1>3. IInv'
  BY MarkDeletedIInv DEF SerialInv
<1>4. ~Busy(d) /\ points[d] = {}
  BY <1>0, <1>1 DEF SerialInv, RequestsAlone
<1>5. ASSUME NEW b \in Clients, b # c
      PROVE  handler'[b] = handler[b] /\ target'[b] = target[b]
  BY <1>5 DEF MarkDeleted, HandlerGoes, SerialInv, IInv, TypeOK
<1>6. LiveIsLatest'
  BY <1>1, <1>2, <1>4 DEF SerialInv, LiveIsLatest, IInv, TypeOK, Busy, workerVars
<1>7. RunsVectors'
  BY <1>1 DEF SerialInv, RunsVectors, RunVectors, ChunkIndexes, workerVars
<1>8. RequestsAlone'
  BY <1>1, <1>2, <1>5 DEF SerialInv, RequestsAlone, DocsIn, IInv, TypeOK
<1>9. VectorsFollowRows'
  <2>1. doc'[d] = "deleted" /\ points'[d] = {}
    BY <1>1, <1>4 DEF SerialInv, IInv, TypeOK
  <2>2. ASSUME NEW e \in Docs, e # d PROVE doc'[e] = doc[e]
    BY <1>1, <2>2 DEF SerialInv, IInv, TypeOK
  <2>3. ASSUME NEW e \in Docs, e # d, NEW b \in Clients, handler[b] = "mark", target[b] = e
        PROVE  handler'[b] = "mark" /\ target'[b] = e
    BY <2>3, <1>0, <1>5
  <2>4. ASSUME NEW b \in Clients, handler[b] = "purgeDocset"
        PROVE  handler'[b] = "purgeDocset" /\ target'[b] = target[b]
    BY <2>4, <1>1, <1>5
  <2>5. QED
    BY <1>1, <2>1, <2>2, <2>3, <2>4
       DEF SerialInv, VectorsFollowRows, ChunkIndexes, workerVars
<1>10. DocsetsOK'
  BY MarkDocsetsOK DEF SerialInv
<1>11. RegistersAlone'
  <2>1. ASSUME NEW b \in Clients, handler'[b] = "register"
        PROVE  /\ handler[b] = "register" /\ target'[b] = target[b] /\ batch'[b] = batch[b]
               /\ target[b] # DocsetOf[d] /\ ~Deleting(target[b])
    <3>1. b # c
      BY <2>1, <1>1
    <3>2. handler[b] = "register" /\ target'[b] = target[b] /\ batch'[b] = batch[b]
      BY <2>1, <3>1 DEF MarkDeleted, HandlerGoes, SerialInv, IInv, TypeOK
    <3>3. ~Deleting(target[b])
      BY <3>2 DEF SerialInv, RegistersAlone, Undisturbed
    <3>4. QED
      BY <3>2, <3>3, <1>0, <1>1 DEF Deleting, DocsIn
  <2>2. ASSUME NEW ds, Deleting(ds)' PROVE Deleting(ds)
    BY <2>2, <1>1, <1>5 DEF Deleting, DocsIn
  <2>3. ASSUME NEW b \in Clients, handler'[b] = "register"
        PROVE  /\ docset'[target[b]] = docset[target[b]]
               /\ \A e \in DocsIn(target[b]) : doc'[e] = doc[e]
    BY <2>1, <2>3, <1>0, <1>1 DEF MarkDeleted, DocsIn, SerialInv, IInv, TypeOK
  <2>4. ASSUME NEW b \in Clients, handler'[b] = "register" PROVE ~Deleting(target[b])'
    BY <2>1, <2>2, <2>4 DEF Deleting
  <2>5. QED
    BY <1>1, <1>2, <2>1, <2>3, <2>4, RegistersLeftAlone DEF SerialInv
<1>12. QED
  BY <1>3, <1>6, <1>7, <1>8, <1>9, <1>10, <1>11 DEF SerialInv

\* Deleting a docset nobody works on keeps the invariant of serial use: the request
\* still owes the purge of every document it has marked.
LEMMA DeleteDocsetSerialInv ==
    ASSUME SerialInv, NEW c \in Clients, NEW ds \in Docsets,
           ~Registering(ds), \A d \in DocsIn(ds) : ~Busy(d), DeleteDocset(c, ds)
    PROVE  SerialInv'
<1>1. /\ handler[c] = "idle" /\ handler'[c] = "purgeDocset" /\ target'[c] = ds
      /\ doc' = [d \in Docs |-> IF d \in ActiveDocs(ds) THEN "deleted" ELSE doc[d]]
      /\ UNCHANGED <<chunkCount, latest, jobDoc, workerVars, points>>
  BY DEF DeleteDocset, SerialInv, IInv, TypeOK
<1>2. (\A j : Live(j)' <=> Live(j)) /\ (\A e : Busy(e)' <=> Busy(e))
  BY <1>1, RequestsKeepLive
<1>3. IInv'
  BY DeleteDocsetIInv DEF SerialInv
<1>4. ASSUME NEW b \in Clients, b # c
      PROVE  handler'[b] = handler[b] /\ target'[b] = target[b]
  BY <1>4 DEF DeleteDocset, SerialInv, IInv, TypeOK
<1>5. ASSUME NEW d \in Docs
      PROVE  IF d \in ActiveDocs(ds) THEN doc'[d] = "deleted" ELSE doc'[d] = doc[d]
  BY <1>1
<1>6. LiveIsLatest'
  <2>1. ASSUME NEW j \in Jobs, Live(j) PROVE doc'[jobDoc[j]] = "active"
    <3>1. doc[jobDoc[j]] = "active" /\ jobDoc[j] \in Docs /\ Busy(jobDoc[j])
      BY <2>1 DEF SerialInv, LiveIsLatest, Busy, IInv, TypeOK, RunMatchesRow, Live, Running
    <3>2. QED
      BY <3>1, <1>5 DEF ActiveDocs
  <2>2. QED
    BY <1>1, <1>2, <2>1 DEF SerialInv, LiveIsLatest, workerVars
<1>7. RunsVectors'
  BY <1>1 DEF SerialInv, RunsVectors, RunVectors, ChunkIndexes, workerVars
<1>8. RequestsAlone'
  <2>1. ASSUME NEW d \in DocsIn(ds) PROVE ~Busy(d)' /\ doc'[d] # "active"
    BY <1>2, <1>5 DEF ActiveDocs, DocsIn
  <2>2. ASSUME NEW b \in Clients, b # c, handler[b] = "purgeDocset", NEW d \in DocsIn(target[b])
        PROVE  ~Busy(d)' /\ doc'[d] # "active"
    BY <2>2, <1>2, <1>5 DEF SerialInv, RequestsAlone, DocsIn
  <2>3. QED
    BY <1>1, <1>2, <1>4, <2>1, <2>2 DEF SerialInv, RequestsAlone, DocsIn
<1>9. VectorsFollowRows'
  <2>1. ASSUME NEW d \in ActiveDocs(ds) PROVE target'[c] = DocsetOf[d]
    BY <1>1 DEF ActiveDocs, DocsIn
  <2>2. ASSUME NEW b \in Clients, handler[b] # "idle"
        PROVE  handler'[b] = handler[b] /\ target'[b] = target[b]
    BY <2>2, <1>1, <1>4
  <2>3. ASSUME NEW d \in Docs, doc'[d] = "deleted"
        PROVE  \/ points'[d] = {}
               \/ \E b \in Clients : handler'[b] = "purgeDocset" /\ target'[b] = DocsetOf[d]
    BY <2>3, <1>1, <1>5, <2>1, <2>2 DEF SerialInv, VectorsFollowRows
  <2>4. ASSUME NEW d \in Docs, doc'[d] = "active", status'[latest'[d]] = "INDEXED"
        PROVE  \/ ChunkIndexes(chunkCount'[d]) \subseteq points'[d]
               \/ \E b \in Clients : handler'[b] = "mark" /\ target'[b] = d
    BY <2>4, <1>1, <1>5, <2>2 DEF SerialInv, VectorsFollowRows, workerVars
  <2>5. QED
    BY <2>3, <2>4 DEF VectorsFollowRows
<1>10. DocsetsOK'
  <2>1. docset'[ds] = "pruned" /\ docsetCount'[ds] = 0
    BY DEF DeleteDocset, SerialInv, IInv, TypeOK
  <2>2. ActiveDocs(ds)' = {}
    BY <1>1 DEF ActiveDocs, DocsIn
  <2>3. ASSUME NEW e \in Docsets, e # ds
        PROVE  /\ docset'[e] = docset[e] /\ docsetCount'[e] = docsetCount[e]
               /\ ActiveDocs(e)' = ActiveDocs(e)
    BY <1>1, <2>3 DEF DeleteDocset, ActiveDocs, DocsIn, SerialInv, IInv, TypeOK
  <2>4. Cardinality(ActiveDocs(ds)') = 0
    BY <2>2, FS_EmptySet
  <2>5. PrunedDocsetIsEmpty'
    BY <2>1, <2>2, <2>3 DEF SerialInv, DocsetsOK, PrunedDocsetIsEmpty
  <2>6. CountNeverExceedsActive'
    BY <2>1, <2>2, <2>3, <2>4 DEF SerialInv, DocsetsOK, CountNeverExceedsActive
  <2>7. QED
    BY <2>5, <2>6 DEF DocsetsOK
<1>11. RegistersAlone'
  <2>1. ASSUME NEW b \in Clients, handler'[b] = "register"
        PROVE  /\ handler[b] = "register" /\ target'[b] = target[b] /\ batch'[b] = batch[b]
               /\ target[b] # ds /\ ~Deleting(target[b])
    <3>1. b # c
      BY <2>1, <1>1
    <3>2. handler[b] = "register" /\ target'[b] = target[b] /\ batch'[b] = batch[b]
      BY <2>1, <3>1, <1>4 DEF DeleteDocset
    <3>3. QED
      BY <3>2 DEF Registering, SerialInv, RegistersAlone, Undisturbed
  <2>2. ASSUME NEW e, e # ds, Deleting(e)' PROVE Deleting(e)
    BY <2>2, <1>1, <1>4 DEF Deleting, DocsIn
  <2>3. ASSUME NEW b \in Clients, handler'[b] = "register"
        PROVE  /\ docset'[target[b]] = docset[target[b]]
               /\ \A e \in DocsIn(target[b]) : doc'[e] = doc[e]
    BY <2>1, <2>3, <1>1 DEF DeleteDocset, ActiveDocs, DocsIn, SerialInv, IInv, TypeOK
  <2>4. ASSUME NEW b \in Clients, handler'[b] = "register" PROVE ~Deleting(target[b])'
    BY <2>1, <2>2, <2>4 DEF Deleting
  <2>5. QED
    BY <1>1, <1>2, <2>1, <2>3, <2>4, RegistersLeftAlone DEF SerialInv
<1>12. QED
  BY <1>3, <1>6, <1>7, <1>8, <1>9, <1>10, <1>11 DEF SerialInv

\* Purging a deleted docset keeps the invariant of serial use: nothing in it is active.
LEMMA PurgeDocsetSerialInv ==
    ASSUME SerialInv, NEW c \in Clients, PurgeDocset(c)
    PROVE  SerialInv'
<1>0. PICK ds \in Docsets : ds = target[c]
  BY DEF SerialInv, IInv, TargetsOK, PurgeDocset, HandlerGoes
<1>1. /\ handler[c] = "purgeDocset" /\ handler'[c] = "idle"
      /\ points' = [d \in Docs |-> IF DocsetOf[d] = ds THEN {} ELSE points[d]]
      /\ UNCHANGED <<dbVars, workerVars>>
  BY <1>0 DEF PurgeDocset, HandlerGoes, WithoutDocset, SerialInv, IInv, TypeOK
<1>2. (\A j : Live(j)' <=> Live(j)) /\ (\A e : Busy(e)' <=> Busy(e))
  BY <1>1, RequestsKeepLive DEF dbVars
<1>3. IInv'
  BY HandlerQuietIInv DEF SerialInv, HandlerQuiet
<1>4. ASSUME NEW d \in Docs, DocsetOf[d] = ds PROVE ~Busy(d) /\ doc[d] # "active"
  BY <1>0, <1>1, <1>4 DEF SerialInv, RequestsAlone, DocsIn
<1>5. ASSUME NEW b \in Clients, b # c
      PROVE  /\ handler'[b] = handler[b] /\ target'[b] = target[b]
             /\ batch'[b] = batch[b]
  BY <1>5 DEF PurgeDocset, HandlerGoes, SerialInv, IInv, TypeOK
<1>6. LiveIsLatest'
  BY <1>1, <1>2 DEF SerialInv, LiveIsLatest, dbVars, workerVars
<1>7. RunsVectors'
  <2>1. ASSUME NEW j \in Jobs, stage[j] \in {"finalize", "index"}
        PROVE  points'[jobDoc[j]] = points[jobDoc[j]]
    <3>1. jobDoc[j] \in Docs /\ Busy(jobDoc[j])
      BY <2>1 DEF SerialInv, IInv, TypeOK, RunMatchesRow, Live, Running, Busy
    <3>2. QED
      BY <3>1, <1>1, <1>4
  <2>2. QED
    BY <1>1, <2>1 DEF SerialInv, RunsVectors, RunVectors, ChunkIndexes, dbVars, workerVars
<1>8. RequestsAlone'
  <2>1. ASSUME NEW b \in Clients, handler[b] = "mark", points[target[b]] = {}
        PROVE  points'[target[b]] = {}
    BY <2>1, <1>1 DEF SerialInv, IInv, TargetsOK
  <2>2. QED
    BY <1>1, <1>2, <1>5, <2>1 DEF SerialInv, RequestsAlone, DocsIn, dbVars
<1>9. VectorsFollowRows'
  <2>1. ASSUME NEW d \in Docs, doc'[d] = "deleted"
        PROVE  \/ points'[d] = {}
               \/ \E b \in Clients : handler'[b] = "purgeDocset" /\ target'[b] = DocsetOf[d]
    <3>1. CASE DocsetOf[d] = ds
      BY <3>1, <1>1
    <3>2. CASE DocsetOf[d] # ds
      BY <3>2, <2>1, <1>0, <1>1, <1>5 DEF SerialInv, VectorsFollowRows, dbVars
    <3>3. QED
      BY <3>1, <3>2
  <2>2. ASSUME NEW d \in Docs, doc'[d] = "active", status'[latest'[d]] = "INDEXED"
        PROVE  \/ ChunkIndexes(chunkCount'[d]) \subseteq points'[d]
               \/ \E b \in Clients : handler'[b] = "mark" /\ target'[b] = d
    <3>1. points'[d] = points[d]
      BY <2>2, <1>1, <1>4 DEF dbVars
    <3>2. QED
      BY <2>2, <3>1, <1>1, <1>5 DEF SerialInv, VectorsFollowRows, dbVars, workerVars
  <2>3. QED
    BY <2>1, <2>2 DEF VectorsFollowRows
<1>10. DocsetsOK'
  BY <1>1, DocsetsUntouched DEF SerialInv, dbVars
<1>11. RegistersAlone'
  <2>1. ASSUME NEW e, Deleting(e)' PROVE Deleting(e)
    BY <2>1, <1>1, <1>5 DEF Deleting, DocsIn
  <2>2. ASSUME NEW b \in Clients, handler'[b] = "register"
        PROVE  /\ handler[b] = "register" /\ target'[b] = target[b] /\ batch'[b] = batch[b]
               /\ ~Deleting(target[b])
    BY <2>2, <1>1, <1>5 DEF SerialInv, RegistersAlone, Undisturbed
  <2>3. ASSUME NEW b \in Clients, handler'[b] = "register" PROVE ~Deleting(target[b])'
    BY <2>1, <2>2, <2>3 DEF Deleting
  <2>4. QED
    BY <1>1, <1>2, <2>2, <2>3, RegistersLeftAlone DEF SerialInv, dbVars
<1>12. QED
  BY <1>3, <1>6, <1>7, <1>8, <1>9, <1>10, <1>11 DEF SerialInv

-----------------------------------------------------------------------------
\* A document that a batch accepts is not being ingested: nobody has worked on a new
\* one, a deleted one is left alone, and the latest job of a retriable one has failed.
LEMMA AcceptedIsNotBusy ==
    ASSUME SerialInv, NEW d \in Docs, ~FailedAlive(d),
           doc[d] = "absent" \/ doc[d] = "deleted" \/ Retriable(d)
    PROVE  ~Busy(d)
<1> SUFFICES ASSUME NEW j \in Jobs, jobDoc[j] = d, Live(j) PROVE FALSE
  BY DEF Busy
<1>1. doc[d] = "active" /\ latest[d] = j /\ status[j] # "FAILED"
  BY DEF SerialInv, LiveIsLatest, FailedAlive
<1>2. latest[d] # None /\ status[latest[d]] # "FAILED"
  BY <1>1, NoneAssumption
<1>3. QED
  BY <1>1, <1>2 DEF Retriable

\* The reads of a batch for a docset where no other request registers or deletes keep the
\* invariant of serial use.
LEMMA IngestSerialInv ==
    ASSUME SerialInv, NEW c \in Clients, NEW ds \in Docsets, ~Registering(ds), ~Deleting(ds),
           NEW S \in SUBSET DocsIn(ds), \A d \in S : ~FailedAlive(d), Ingest(c, ds, S)
    PROVE  SerialInv'
<1>1. /\ handler[c] = "idle" /\ handler'[c] = "register" /\ target'[c] = ds
      /\ \A b \in Clients \ {c} : /\ handler'[b] = handler[b] /\ target'[b] = target[b]
                                  /\ batch'[b] = batch[b]
      /\ UNCHANGED <<dbVars, workerVars, points>>
  BY DEF Ingest, SerialInv, IInv, TypeOK
<1>2. /\ batch'[c].revives = (docset[ds] # "active")
      /\ batch'[c].new = {d \in S : doc[d] = "absent"}
      /\ batch'[c].revived = {d \in S : doc[d] = "deleted"}
      /\ batch'[c].retried = {d \in S : Retriable(d)}
      /\ batch'[c].last = [d \in Docs |-> IF d \in S THEN latest[d] ELSE None]
  BY DEF Ingest, SerialInv, IInv, TypeOK
<1>3. S \subseteq Docs
  BY DEF DocsIn
<1>4. IInv'
  BY IngestIInv DEF SerialInv
<1>5. /\ DocsetsOK' /\ LiveIsLatest' /\ RunsVectors'
      /\ RequestsAlone' /\ VectorsFollowRows'
      /\ \A d : Busy(d)' <=> Busy(d)
      /\ \A e : Deleting(e)' <=> Deleting(e)
  BY <1>1, RegistrationLeavesRows
<1>6. Undisturbed(c)'
  <2>1. ~Deleting(target[c])'
    BY <1>1, <1>5
  <2>2. \A b \in Clients \ {c} : ~(handler'[b] = "register" /\ target'[b] = target'[c])
    BY <1>1 DEF Registering
  <2>3. ~batch'[c].revives => docset'[target'[c]] = "active"
    BY <1>1, <1>2 DEF dbVars
  <2>4. ASSUME NEW d \in Accepted(c)' PROVE ~Busy(d)' /\ latest'[d] = batch'[c].last[d]
    <3>1. d \in S /\ (doc[d] = "absent" \/ doc[d] = "deleted" \/ Retriable(d))
      BY <1>2 DEF Accepted
    <3>2. ~Busy(d)
      BY <3>1, <1>3, AcceptedIsNotBusy
    <3>3. QED
      BY <3>1, <3>2, <1>1, <1>2, <1>3, <1>5 DEF dbVars
  <2>5. \A d \in batch'[c].retried : doc'[d] = "active"
    BY <1>1, <1>2 DEF Retriable, dbVars
  <2>6. QED
    BY <2>1, <2>2, <2>3, <2>4, <2>5 DEF Undisturbed
<1>7. RegistersAlone'
  <2> SUFFICES ASSUME NEW b \in Clients, handler'[b] = "register" PROVE Undisturbed(b)'
    BY DEF RegistersAlone
  <2>1. CASE b = c
    BY <2>1, <1>6
  <2>2. CASE b # c
    <3>1. handler[b] = "register" /\ target'[b] = target[b] /\ batch'[b] = batch[b]
      BY <2>2, <1>1
    <3>2. Undisturbed(b) /\ target[b] # ds
      BY <3>1 DEF SerialInv, RegistersAlone, Registering
    <3>3. \A e \in Clients \ {b} :
              ~(handler'[e] = "register" /\ target'[e] = target'[b])
      BY <3>1, <3>2, <1>1 DEF Undisturbed
    <3>4. ~Deleting(target[b])'
      BY <3>1, <3>2, <1>5 DEF Undisturbed
    <3>5. QED
      BY <3>1, <3>2, <3>3, <3>4, <1>1, <1>5 DEF Undisturbed, Accepted, dbVars
  <2>3. QED
    BY <2>1, <2>2
<1>8. QED
  BY <1>4, <1>5, <1>7 DEF SerialInv

\* The writes of an undisturbed batch keep the invariant of serial use.
LEMMA RegisterSerialInv ==
    ASSUME SerialInv, NEW c \in Clients, Register(c)
    PROVE  SerialInv'
<1>0. PICK id \in [Accepted(c) -> FreeJobs],
           older \in SUBSET {d \in Accepted(c) : latest[d] # batch[c].last[d]},
           flushed \in FlushedBeforeCount(batch[c].new, batch[c].revived) :
           Commits(c, id, older, flushed)
  BY RegisterCommits
<1>a. PICK ds \in Docsets : ds = target[c]
  BY RegisterCommits DEF HandlerGoes, SerialInv, IInv, TargetsOK
<1> DEFINE acc == Accepted(c)
           isNew(j) == \E d \in acc : id[d] = j
<1>1. /\ handler[c] = "register" /\ handler'[c] = "idle"
      /\ \A b \in Clients \ {c} : /\ handler'[b] = handler[b] /\ target'[b] = target[b]
                                  /\ batch'[b] = batch[b]
  BY RegisterCommits DEF HandlerGoes, SerialInv, IInv, TypeOK
<1>2. Undisturbed(c)
  BY <1>1 DEF SerialInv, RegistersAlone
<1>3. /\ acc \subseteq Docs /\ acc \subseteq DocsIn(ds) /\ ds \in Docsets
      /\ acc = batch[c].new \cup batch[c].revived \cup batch[c].retried
      /\ flushed \subseteq batch[c].new \cup batch[c].revived
  BY <1>1, <1>a DEF SerialInv, IInv, BatchesOK, Accepted, DocsIn, FlushedBeforeCount
<1>4. older = {}
  BY <1>2 DEF Undisturbed
<1>5. /\ \A d \in acc :
            /\ id[d] \in Jobs /\ status[id[d]] = "none" /\ queue[id[d]] = "none"
            /\ stage[id[d]] = "idle" /\ stage'[id[d]] = "idle"
            /\ jobDoc'[id[d]] = d
            /\ status'[id[d]] = "PENDING" /\ queue'[id[d]] = "outbox"
      /\ \A j \in Jobs : ~isNew(j) =>
            /\ jobDoc'[j] = jobDoc[j] /\ status'[j] = status[j]
            /\ queue'[j] = queue[j] /\ stage'[j] = stage[j]
  BY <1>0, <1>3, NewJobs DEF SerialInv
<1>6. /\ \A d \in acc : doc'[d] = "active" /\ latest'[d] = id[d]
      /\ \A d \in Docs : d \notin acc =>
            doc'[d] = doc[d] /\ latest'[d] = latest[d] /\ chunkCount'[d] = chunkCount[d]
      /\ UNCHANGED <<found, points, stage>>
  BY <1>0, <1>2, <1>3, <1>4 DEF Commits, Undisturbed
<1>7. \A d \in acc : ~Busy(d)
  BY <1>2 DEF Undisturbed
<1>8. IInv'
  BY RegisterIInv DEF SerialInv
<1> HIDE DEF acc, isNew
<1>9. ASSUME NEW j \in Jobs, ~isNew(j)
      PROVE  /\ Live(j)' <=> Live(j)
             /\ Live(j) => jobDoc[j] \in Docs /\ jobDoc[j] \notin acc
  <2>1. Live(j)' <=> Live(j)
    BY <1>9, <1>5 DEF Live
  <2>2. Live(j) => jobDoc[j] \in Docs /\ jobDoc[j] \notin acc
    BY <1>7 DEF Busy, SerialInv, IInv, TypeOK, RunMatchesRow, Live
  <2>3. QED
    BY <2>1, <2>2
<1>10. ASSUME NEW d, d \notin acc PROVE Busy(d)' <=> Busy(d)
  <2>1. ASSUME NEW j \in Jobs PROVE jobDoc'[j] = d /\ Live(j)' <=> jobDoc[j] = d /\ Live(j)
    <3>1. CASE isNew(j)
      BY <3>1, <1>5, <1>10, NoneAssumption DEF SerialInv, IInv, RunMatchesRow, Live, isNew
    <3>2. CASE ~isNew(j)
      BY <3>2, <1>5, <1>9
    <3>3. QED
      BY <3>1, <3>2
  <2>2. QED
    BY <2>1 DEF Busy
<1>11. LiveIsLatest'
  <2>1. ASSUME NEW j \in Jobs, Live(j)'
        PROVE  latest'[jobDoc'[j]] = j /\ doc'[jobDoc'[j]] = "active"
    <3>1. CASE isNew(j)
      BY <3>1, <1>5, <1>6 DEF isNew
    <3>2. CASE ~isNew(j)
      BY <2>1, <3>2, <1>5, <1>6, <1>9 DEF SerialInv, LiveIsLatest
    <3>3. QED
      BY <3>1, <3>2
  <2>2. QED
    BY <2>1 DEF LiveIsLatest
<1>12. RunsVectors'
  <2>1. ASSUME NEW j \in Jobs, stage[j] \in {"finalize", "index"} PROVE RunVectors(j)'
    <3>1. ~isNew(j)
      BY <2>1, <1>5 DEF isNew
    <3>2. Live(j)
      BY <2>1 DEF SerialInv, IInv, RunMatchesRow, Running, Live
    <3>3. jobDoc'[j] = jobDoc[j] /\ chunkCount'[jobDoc[j]] = chunkCount[jobDoc[j]]
      BY <3>1, <3>2, <1>5, <1>6, <1>9
    <3>4. QED
      BY <3>3, <1>6 DEF SerialInv, RunsVectors, RunVectors, ChunkIndexes
  <2>2. QED
    BY <2>1, <1>6 DEF RunsVectors, RunVectors
<1>13. ASSUME NEW b \in Clients,
              \/ handler[b] \in {"purge", "mark", "purgeDocset"}
              \/ handler'[b] \in {"purge", "mark", "purgeDocset"}
       PROVE  handler'[b] = handler[b] /\ target'[b] = target[b]
  BY <1>1, <1>13
<1>14. ASSUME NEW b \in Clients
       PROVE  /\ handler[b] \in {"purge", "mark"} => target[b] \notin acc
              /\ handler[b] = "purgeDocset" => \A d \in DocsIn(target[b]) : d \notin acc
  BY <1>2, <1>3, <1>a DEF Undisturbed, Deleting, DocsIn
<1>15. RequestsAlone'
  <2>1. ASSUME NEW b \in Clients, handler[b] = "purgeDocset", NEW d \in DocsIn(target[b])
        PROVE  ~Busy(d)' /\ doc'[d] # "active"
    <3>1. d \in Docs /\ d \notin acc /\ ~Busy(d) /\ doc[d] # "active"
      BY <2>1, <1>14 DEF SerialInv, RequestsAlone, DocsIn
    <3>2. QED
      BY <3>1, <1>6, <1>10
  <2>2. ASSUME NEW b \in Clients, handler[b] \in {"purge", "mark"} PROVE ~Busy(target[b])'
    <3>1. target[b] \notin acc /\ ~Busy(target[b]) /\ target'[b] = target[b]
      BY <2>2, <1>13, <1>14 DEF SerialInv, RequestsAlone
    <3>2. QED
      BY <3>1, <1>10
  <2>3. ASSUME NEW b \in Clients, handler[b] = "mark" PROVE points'[target[b]] = {}
    BY <2>3, <1>6 DEF SerialInv, RequestsAlone
  <2>4. QED
    BY <2>1, <2>2, <2>3, <1>13 DEF RequestsAlone, DocsIn
<1>16. VectorsFollowRows'
  <2>1. ASSUME NEW d \in acc
        PROVE  doc'[d] = "active" /\ status'[latest'[d]] # "INDEXED"
    BY <1>5, <1>6
  <2>2. ASSUME NEW d \in Docs, d \notin acc
        PROVE  /\ doc'[d] = doc[d] /\ chunkCount'[d] = chunkCount[d]
               /\ doc[d] = "active" => status'[latest'[d]] = status[latest[d]]
    <3>1. doc'[d] = doc[d] /\ chunkCount'[d] = chunkCount[d] /\ latest'[d] = latest[d]
      BY <2>2, <1>6
    <3>2. ASSUME doc[d] = "active" PROVE status'[latest[d]] = status[latest[d]]
      <4>1. latest[d] \in Jobs /\ status[latest[d]] # "none"
        BY <3>2, NoneAssumption DEF SerialInv, IInv, TypeOK, RunMatchesRow
      <4>2. ~isNew(latest[d])
        BY <4>1, <1>5 DEF isNew
      <4>3. QED
        BY <4>1, <4>2, <1>5
    <3>3. QED
      BY <3>1, <3>2
  <2>3. ASSUME NEW d \in Docs, doc'[d] = "deleted"
        PROVE  \/ points'[d] = {}
               \/ \E b \in Clients : handler'[b] = "purgeDocset" /\ target'[b] = DocsetOf[d]
    BY <2>1, <2>2, <2>3, <1>6, <1>13 DEF SerialInv, VectorsFollowRows
  <2>4. ASSUME NEW d \in Docs, doc'[d] = "active", status'[latest'[d]] = "INDEXED"
        PROVE  \/ ChunkIndexes(chunkCount'[d]) \subseteq points'[d]
               \/ \E b \in Clients : handler'[b] = "mark" /\ target'[b] = d
    <3>1. doc[d] = "active" /\ status[latest[d]] = "INDEXED" /\ chunkCount'[d] = chunkCount[d]
      BY <2>1, <2>2, <2>4
    <3>2. QED
      BY <3>1, <1>6, <1>13 DEF SerialInv, VectorsFollowRows
  <2>5. QED
    BY <2>3, <2>4 DEF VectorsFollowRows
<1>17. DocsetsOK'
  <2>1. /\ docset'[ds] = IF batch[c].revives THEN "active" ELSE docset[ds]
        /\ docsetCount'[ds] = Cardinality(ActiveDocs(ds) \cup flushed)
    BY <1>0, <1>3, <1>a DEF Commits, SerialInv, IInv, TypeOK
  <2>2. docset'[ds] = "active"
    BY <2>1, <1>2, <1>a DEF Undisturbed
  <2>3. ASSUME NEW e \in Docsets, e # ds
        PROVE  /\ docset'[e] = docset[e] /\ docsetCount'[e] = docsetCount[e]
               /\ ActiveDocs(e)' = ActiveDocs(e)
    <3>1. docset'[e] = docset[e] /\ docsetCount'[e] = docsetCount[e]
      BY <1>0, <2>3, <1>a DEF Commits, SerialInv, IInv, TypeOK
    <3>2. \A d \in DocsIn(e) : d \in Docs /\ d \notin acc
      BY <1>3, <2>3 DEF DocsIn
    <3>3. QED
      BY <3>1, <3>2, <1>6 DEF ActiveDocs, DocsIn
  <2>4. ActiveDocs(ds) \cup flushed \subseteq ActiveDocs(ds)'
    <3>1. ASSUME NEW d \in ActiveDocs(ds) \cup flushed PROVE d \in DocsIn(ds) /\ doc'[d] = "active"
      BY <1>3, <1>6 DEF ActiveDocs, DocsIn
    <3>2. QED
      BY <3>1 DEF ActiveDocs, DocsIn
  <2>5. IsFiniteSet(ActiveDocs(ds)')
    <3>1. ActiveDocs(ds)' \subseteq Docs
      BY DEF ActiveDocs, DocsIn
    <3>2. QED
      BY <3>1, FS_Subset, DataAssumption
  <2>6. Cardinality(ActiveDocs(ds) \cup flushed) <= Cardinality(ActiveDocs(ds)')
    BY <2>4, <2>5, FS_Subset
  <2>7. PrunedDocsetIsEmpty'
    BY <2>2, <2>3 DEF SerialInv, DocsetsOK, PrunedDocsetIsEmpty
  <2>8. CountNeverExceedsActive'
    BY <2>1, <2>3, <2>6 DEF SerialInv, DocsetsOK, CountNeverExceedsActive
  <2>9. QED
    BY <2>7, <2>8 DEF DocsetsOK
<1>18. RegistersAlone'
  <2> SUFFICES ASSUME NEW b \in Clients, handler'[b] = "register" PROVE Undisturbed(b)'
    BY DEF RegistersAlone
  <2>1. /\ b # c /\ handler[b] = "register"
        /\ target'[b] = target[b] /\ batch'[b] = batch[b]
    BY <1>1
  <2>2. Undisturbed(b) /\ target[b] # ds /\ target[b] \in Docsets
    BY <2>1, <1>1, <1>2, <1>a DEF SerialInv, RegistersAlone, IInv, TargetsOK, Undisturbed
  <2>3. \A d \in DocsIn(target[b]) :
            /\ Busy(d)' => Busy(d)
            /\ doc'[d] = doc[d] /\ latest'[d] = latest[d]
    <3>1. \A d \in DocsIn(target[b]) : d \in Docs /\ d \notin acc
      BY <2>2, <1>3 DEF DocsIn
    <3>2. QED
      BY <3>1, <1>6, <1>10
  <2>4. docset'[target[b]] = docset[target[b]]
    BY <1>0, <2>2, <1>a DEF Commits, SerialInv, IInv, TypeOK
  <2>5. ~Deleting(target[b])'
    BY <2>1, <2>2, <1>13 DEF Undisturbed, Deleting, DocsIn
  <2>6. QED
    BY <1>1, <2>1, <2>2, <2>3, <2>4, <2>5, StaysUndisturbed DEF SerialInv
<1>19. QED
  BY <1>8, <1>11, <1>12, <1>15, <1>16, <1>17, <1>18 DEF SerialInv

-----------------------------------------------------------------------------
\* The invariant of serial use is inductive.
LEMMA SerialNextInv == SerialInv /\ [SerialNext]_vars => SerialInv'
<1> SUFFICES ASSUME SerialInv, [SerialNext]_vars PROVE SerialInv'
  OBVIOUS
<1>1. CASE SerialRequest
  <2>1. ASSUME NEW c \in Clients, NEW ds \in Docsets, ~Registering(ds), ~Deleting(ds),
               NEW S \in SUBSET DocsIn(ds), \A d \in S : ~FailedAlive(d), Ingest(c, ds, S)
        PROVE  SerialInv'
    BY <2>1, IngestSerialInv
  <2>2. ASSUME NEW c \in Clients, NEW d \in Docs, ~Registering(DocsetOf[d]), ~Busy(d),
               DeleteDoc(c, d)
        PROVE  SerialInv'
    BY <2>2, DocumentRequestSerialInv
  <2>3. ASSUME NEW c \in Clients, NEW ds \in Docsets, ~Registering(ds),
               \A d \in DocsIn(ds) : ~Busy(d), DeleteDocset(c, ds)
        PROVE  SerialInv'
    BY <2>3, DeleteDocsetSerialInv
  <2>4. QED
    BY <1>1, <2>1, <2>2, <2>3 DEF SerialRequest
<1>2. ASSUME NEW j \in Jobs, WorkerStep(j) PROVE SerialInv'
  BY <1>2, WorkerSerialInv
<1>3. ASSUME NEW c \in Clients, HandlerStep(c) PROVE SerialInv'
  <2>1. CASE MarkDeleted(c)
    BY <2>1, MarkSerialInv
  <2>2. CASE PurgeDocset(c)
    BY <2>2, PurgeDocsetSerialInv
  <2>3. CASE PurgeDoc(c) \/ PurgeDocFails(c) \/ MarkNotFound(c)
    <3>1. target[c] \in Docs
      BY <2>3 DEF PurgeDoc, PurgeDocFails, MarkNotFound, HandlerGoes, SerialInv, IInv, TargetsOK
    <3>2. QED
      BY <2>3, <3>1, DocumentRequestSerialInv
  <2>4. CASE Register(c)
    BY <2>4, RegisterSerialInv
  <2>5. CASE RegisterFails(c)
    BY <2>5, RegisterFailsSerialInv
  <2>6. QED
    BY <1>3, <2>1, <2>2, <2>3, <2>4, <2>5 DEF HandlerStep
<1>4. CASE UNCHANGED vars
  <2>1. IInv' /\ DocsetsOK'
    BY <1>4, NextIInv, DocsetsUntouched DEF SerialInv, vars, dbVars
  <2>2. (\A j : Live(j)' <=> Live(j)) /\ (\A d : Busy(d)' <=> Busy(d))
    BY <1>4, RequestsKeepLive DEF vars, dbVars
  <2>3. LiveIsLatest' /\ RunsVectors'
    BY <1>4, <2>2
       DEF SerialInv, LiveIsLatest, RunsVectors, RunVectors, vars, dbVars, workerVars
  <2>4. RequestsAlone' /\ VectorsFollowRows'
    BY <1>4, <2>2
       DEF SerialInv, RequestsAlone, VectorsFollowRows, DocsIn, vars, dbVars, workerVars, apiVars
  <2>5. \A c \in Clients : handler[c] = "register" => ~Deleting(target[c])'
    BY <1>4 DEF SerialInv, RegistersAlone, Undisturbed, Deleting, DocsIn, vars, apiVars
  <2>6. RegistersAlone'
    BY <1>4, <2>2, <2>5, RegistersLeftAlone DEF SerialInv, vars, dbVars, apiVars
  <2>7. QED
    BY <2>1, <2>3, <2>4, <2>6 DEF SerialInv
<1>5. QED
  BY <1>1, <1>2, <1>3, <1>4 DEF SerialNext, WorkerStep

\* The inductive invariant of serial use holds in every reachable state.
THEOREM SerialInvAlways == SerialSpec => []SerialInv
  BY InitSerialInv, SerialNextInv, PTL DEF SerialSpec

\* The invariant excludes two live jobs for one document.
LEMMA SerialOneWriter == SerialInv => OneWriterPerDocument
  BY DEF SerialInv, LiveIsLatest, OneWriterPerDocument

\* Without a delete request in progress the vectors follow the rows.
LEMMA SerialVectors == SerialInv => NoGhostVectors /\ IndexedIsSearchable
<1> SUFFICES ASSUME SerialInv PROVE NoGhostVectors /\ IndexedIsSearchable
  OBVIOUS
<1>1. ASSUME NEW d \in Docs, ~Deleting(DocsetOf[d]), NEW c \in Clients
      PROVE  /\ ~(handler[c] = "purgeDocset" /\ target[c] = DocsetOf[d])
             /\ ~(handler[c] = "mark" /\ target[c] = d)
  BY <1>1, NoneAssumption, DataAssumption DEF Deleting, DocsIn
<1>2. NoGhostVectors
  BY <1>1 DEF NoGhostVectors, SerialInv, VectorsFollowRows
<1>3. IndexedIsSearchable
  BY <1>1 DEF IndexedIsSearchable, SerialInv, VectorsFollowRows
<1>4. QED
  BY <1>2, <1>3

\* While the registrations for a docset do not overlap, no two jobs of a document are ever
\* live together, however its runs fail, are shut down, crash and are delivered again between
\* the look of a registration at the latest job and its commit.
THEOREM OneWriter == SerialSpec => []OneWriterPerDocument
  BY SerialInvAlways, SerialOneWriter, PTL

\* While the requests for a docset do not overlap, a pruned docset has no active document.
THEOREM PrunedDocsetsAreEmpty == SerialSpec => []PrunedDocsetIsEmpty
  BY SerialInvAlways, PTL DEF SerialInv, DocsetsOK

\* While the requests for a docset do not overlap, it never counts more documents than it
\* has.
THEOREM CountsNeverExceed == SerialSpec => []CountNeverExceedsActive
  BY SerialInvAlways, PTL DEF SerialInv, DocsetsOK

\* Under serial use a deleted document leaves no vectors behind.
THEOREM NoGhosts == SerialSpec => []NoGhostVectors
  BY SerialInvAlways, SerialVectors, PTL

\* Under serial use every chunk that an indexed document counts is in the vector store.
THEOREM IndexedAreSearchable == SerialSpec => []IndexedIsSearchable
  BY SerialInvAlways, SerialVectors, PTL

\* Serial use refines free use, so all that holds of Ingestion holds there.
THEOREM SerialIsIngestion == SerialSpec => Spec
<1>1. [SerialNext]_vars => [Next]_vars
  BY SerialIsNext
<1>2. QED
  BY <1>1, PTL DEF SerialSpec, Spec
=============================================================================
