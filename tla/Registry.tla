------------------------------ MODULE Registry ------------------------------
(***************************************************************************)
(* The tables of one docset (app/services/repository.py) under requests    *)
(* that overlap: one action per SQL statement, each request a transaction  *)
(* of its own at PostgreSQL's default isolation, READ COMMITTED.  A        *)
(* statement sees what is committed and what its own transaction has       *)
(* flushed; a row that another transaction has written, and a URL that     *)
(* another transaction is entering into the partial unique index of active *)
(* documents, makes it wait.  Changes of the session that are not flushed  *)
(* (autoflush is off) are seen by nobody.                                  *)
(*                                                                         *)
(* Ingestion takes each of these transactions as one step; here they are   *)
(* taken apart, and what the worker does is only the status it writes.     *)
(***************************************************************************)
EXTENDS Naturals, FiniteSets

CONSTANTS
    Clients,     \* requests in progress at the same time
    Urls,        \* URLs submitted to the docset
    Rows,        \* bound: primary keys of documents, in the order of the key
    UrlOf,       \* documents.source_url of the row that gets a key
    Earlier,     \* bound: a document that may have been ingested and deleted before
    MaxJobs,     \* bound: jobs created, in the order of created_at
    None         \* no URL, nothing written

ASSUME RegistryAssumption ==
    /\ IsFiniteSet(Clients)
    /\ Rows \subseteq Nat \ {0}
    /\ IsFiniteSet(Rows)
    /\ UrlOf \in [Rows -> Urls]
    /\ Earlier \subseteq Rows
    /\ MaxJobs \in Nat
    /\ None \notin Urls \cup {"absent", "active", "deleted"}
    /\ None \notin [state : {"absent", "active", "pruned"}, count : Nat]

VARIABLES
    row,         \* committed documents: does the row exist, is deleted_at null
    docset,      \* committed docsets row: its state and document_count
    jobDoc,      \* ingestion_jobs.document_id, 0 before the job is created
    jobStatus,   \* ingestion_jobs.status: "live" stands for all but FAILED
    wrote,       \* documents a transaction has flushed, not yet committed
    wroteDocset, \* the docsets row a transaction has flushed, not yet committed
    tx,          \* the transaction of each client: its next statement and its session
    reopened     \* history: documents that were deleted or had a job that failed

vars == <<row, docset, jobDoc, jobStatus, wrote, wroteDocset, tx, reopened>>

\* Job 0 is the job of the earlier document.
Jobs == 0..MaxJobs
RowStates == {"absent", "active", "deleted"}
DocsetRows == [state : {"absent", "active", "pruned"}, count : Nat]
JobStatuses == {"none", "uncommitted", "live", "FAILED", "void"}
Stages == {"idle", "docset", "create", "revive", "item", "latest", "lookup", "insert",
           "totals", "rows", "mark", "find", "count", "prune", "members", "discard",
           "markAll"}
Transactions ==
    [stage : Stages,
     todo : SUBSET Urls,          \* items of the batch still to inspect
     url : Urls \cup {None},      \* the item inspected now
     cur : Rows \cup {0},         \* the document found or created for it, or to delete
     loaded : Nat,                \* document_count as the session has read it
     dirty : SUBSET Rows,         \* documents changed in the session, not flushed
     added : SUBSET Jobs,         \* jobs added to the session
     counted : Nat,               \* result of SELECT count
     alone : BOOLEAN,             \* history: no other request overlapped so far
     late : SUBSET Rows]          \* history, while alone: dirty when the documents were counted

NoDocset == [state |-> "absent", count |-> 0]
EmptyDocset == [state |-> "active", count |-> 0]
PrunedDocset == [state |-> "pruned", count |-> 0]
NoTransaction ==
    [stage |-> "idle", todo |-> {}, url |-> None, cur |-> 0, loaded |-> 0,
     dirty |-> {}, added |-> {}, counted |-> 0, late |-> {}, alone |-> FALSE]

(* The types of the tables and of the sessions. *)
TypeOK ==
    /\ row \in [Rows -> RowStates]
    /\ docset \in DocsetRows
    /\ jobDoc \in [Jobs -> Rows \cup {0}]
    /\ jobStatus \in [Jobs -> JobStatuses]
    /\ wrote \in [Clients -> [Rows -> RowStates \cup {None}]]
    /\ wroteDocset \in [Clients -> DocsetRows \cup {None}]
    /\ tx \in [Clients -> Transactions]
    /\ reopened \in SUBSET Rows

\* Before the first submission a docset has no row; the "default" docset has one, with no
\* documents, from the migration.  Or a document has been ingested and deleted before, and
\* its docset was pruned with it.
Init ==
    \E gone \in Earlier \cup {0} :
       /\ row = [r \in Rows |-> IF r = gone THEN "deleted" ELSE "absent"]
       /\ docset \in IF gone = 0 THEN {NoDocset, EmptyDocset} ELSE {PrunedDocset}
       /\ jobDoc = [j \in Jobs |-> IF j = 0 THEN gone ELSE 0]
       /\ jobStatus = [j \in Jobs |-> IF j # 0 THEN "none" ELSE IF gone = 0 THEN "void" ELSE "live"]
       /\ wrote = [c \in Clients |-> [r \in Rows |-> None]]
       /\ wroteDocset = [c \in Clients |-> None]
       /\ tx = [c \in Clients |-> NoTransaction]
       /\ reopened = {gone} \ {0}

-----------------------------------------------------------------------------
(***************************************************************************)
(* What a statement sees, and what it waits for.                           *)
(***************************************************************************)

\* READ COMMITTED: the committed rows under the ones the transaction wrote itself.
View(c) == [r \in Rows |-> IF wrote[c][r] = None THEN row[r] ELSE wrote[c][r]]
DocsetView(c) == IF wroteDocset[c] = None THEN docset ELSE wroteDocset[c]

Active(rows) == {r \in Rows : rows[r] = "active"}
SameUrl(r) == {s \in Rows \ {r} : UrlOf[s] = UrlOf[r]}

\* Mutant: no partial unique index.
NoKeyTaken(c, r) == FALSE

\* uq_documents_active_docset_source_url: another active document has the URL.
KeyTaken(c, r) == \E s \in SameUrl(r) : View(c)[s] = "active"

\* The row that the next statement of c inserts or updates.  A flush emits the UPDATEs of
\* documents in the order of their keys, before any INSERT.
NextWrite(c) ==
    LET t == tx[c]
    IN IF t.stage \in {"insert", "rows", "markAll"} /\ t.dirty # {}
       THEN {r \in t.dirty : \A s \in t.dirty : r <= s}
       ELSE IF t.stage \in {"insert", "mark"} THEN {t.cur} ELSE {}

\* A batch makes documents active, the deletions mark them.
Activates(c) == tx[c].stage \in {"insert", "rows"}

WritesDocset(c) == tx[c].stage \in {"create", "revive", "totals", "prune", "discard"}

\* The next statement of c waits for the end of the transaction of d.
WaitsFor(c, d) ==
    /\ c # d
    /\ \/ WritesDocset(c) /\ wroteDocset[d] # None
       \/ \E r \in NextWrite(c) :
             \/ wrote[d][r] # None
             \/ Activates(c) /\ \E s \in SameUrl(r) : wrote[d][s] # None

Free(c) == \A d \in Clients : ~WaitsFor(c, d)

\* c waits in a circle of transactions, each waiting for another one of them.
InDeadlock(c) ==
    \E circle \in SUBSET Clients :
       /\ c \in circle
       /\ \A x \in circle : (\E y \in circle : WaitsFor(x, y)) /\ (\E y \in circle : WaitsFor(y, x))

-----------------------------------------------------------------------------
(***************************************************************************)
(* Jobs in the session and in the table.                                   *)
(***************************************************************************)

CommittedJobs(r) ==
    {j \in Jobs : jobDoc[j] = r /\ jobStatus[j] \in {"live", "FAILED"}}

\* The job of highest created_at that the transaction can see: at most one.
LatestJob(r) == {j \in CommittedJobs(r) : \A i \in CommittedJobs(r) : i <= j}

\* created_at is set when the object is made, so the jobs are numbered then.
NewJob == {j \in Jobs : jobStatus[j] = "none" /\ \A i \in Jobs : i < j => jobStatus[i] # "none"}

FreeKeys(u) ==
    {r \in Rows : /\ UrlOf[r] = u /\ row[r] = "absent"
                  /\ \A d \in Clients : wrote[d][r] = None /\ tx[d].cur # r}

Goes(c, t) == tx' = [tx EXCEPT ![c] = t]

\* The item is done; the next one is inspected.
NextItem(c) == [tx[c] EXCEPT !.stage = "item", !.todo = @ \ {tx[c].url}, !.url = None, !.cur = 0]

\* The item is accepted: a job for document r is added to the session.
Accept(c, r, t) ==
    \E j \in NewJob :
       /\ jobDoc' = [jobDoc EXCEPT ![j] = r]
       /\ jobStatus' = [jobStatus EXCEPT ![j] = "uncommitted"]
       /\ Goes(c, [t EXCEPT !.added = @ \cup {j}])

FlushesRow(c, r, s) == wrote' = [wrote EXCEPT ![c][r] = s]
FlushesDocset(c, ds) == wroteDocset' = [wroteDocset EXCEPT ![c] = ds]

\* Only the session of a client moves on.
Reads == UNCHANGED <<row, docset, jobDoc, jobStatus, wrote, wroteDocset, reopened>>
NoJob == UNCHANGED <<jobDoc, jobStatus>>
NotCommitted == UNCHANGED <<row, docset, reopened>>

-----------------------------------------------------------------------------
(***************************************************************************)
(* Requests begin.                                                         *)
(***************************************************************************)

\* A new request overlaps with every request in progress.
Begins(c, t) ==
    /\ tx[c].stage = "idle"
    /\ tx' = [d \in Clients |->
                 IF d = c
                 THEN [t EXCEPT !.alone = \A e \in Clients \ {c} : tx[e].stage = "idle"]
                 ELSE [tx[d] EXCEPT !.alone = FALSE, !.late = {}]]
    /\ Reads

\* POST of a batch: S is what is left of it without duplicates and domains that are not
\* allowed, so it may be empty.
SubmitBatch(c, S) ==
    /\ Cardinality(S) <= Cardinality({j \in Jobs : jobStatus[j] = "none"})
    /\ Begins(c, [NoTransaction EXCEPT !.stage = "docset", !.todo = S])

\* DELETE of a document that is found active.
DeleteDocument(c, r) ==
    /\ row[r] = "active"
    /\ Begins(c, [NoTransaction EXCEPT !.stage = "mark", !.cur = r])

\* DELETE of a docset that is neither absent, nor pruned, nor counted empty.
DeleteDocset(c) ==
    /\ docset.state = "active" /\ docset.count # 0
    /\ Begins(c, [NoTransaction EXCEPT !.stage = "members", !.loaded = docset.count])

-----------------------------------------------------------------------------
(***************************************************************************)
(* create_batch_and_jobs.                                                  *)
(***************************************************************************)

\* _ensure_docset, SELECT.
ReadDocset(c) ==
    /\ tx[c].stage = "docset"
    /\ Goes(c, [tx[c] EXCEPT !.loaded = docset.count,
                             !.stage = IF docset.state = "absent" THEN "create"
                                       ELSE IF docset.state = "pruned" THEN "revive"
                                       ELSE "item"])
    /\ Reads

\* _ensure_docset, INSERT, unless another request has inserted the docset in the meantime.
CreateDocset(c) ==
    /\ tx[c].stage = "create" /\ Free(c) /\ docset.state = "absent"
    /\ FlushesDocset(c, EmptyDocset)
    /\ Goes(c, [tx[c] EXCEPT !.stage = "item"])
    /\ NotCommitted /\ NoJob /\ UNCHANGED wrote

\* _ensure_docset, UPDATE: deleted_at is cleared, nothing else of the row changes.
ReviveDocset(c) ==
    /\ tx[c].stage = "revive" /\ Free(c)
    /\ FlushesDocset(c, [docset EXCEPT !.state = "active"])
    /\ Goes(c, [tx[c] EXCEPT !.stage = "item"])
    /\ NotCommitted /\ NoJob /\ UNCHANGED wrote

\* Mutant: active documents are not looked for.
SkipActive(c) ==
    /\ tx[c].stage = "item"
    /\ \E u \in tx[c].todo : Goes(c, [tx[c] EXCEPT !.stage = "lookup", !.url = u])
    /\ Reads

\* _inspect_single_url_status, first SELECT: is there an active document for an item?
InspectActive(c) ==
    /\ tx[c].stage = "item"
    /\ \E u \in tx[c].todo :
          LET found == {r \in Active(View(c)) : UrlOf[r] = u}
          IN \/ found = {} /\ Goes(c, [tx[c] EXCEPT !.stage = "lookup", !.url = u])
             \/ \E r \in found : Goes(c, [tx[c] EXCEPT !.stage = "latest", !.url = u, !.cur = r])
    /\ Reads

\* Mutant: a URL whose job is still running is ingested again.
RetriesAll(r) == LatestJob(r) # {}

\* Outcome "reingest_failed": no job, or the latest one has failed.
Retries(r) == \A j \in LatestJob(r) : jobStatus[j] = "FAILED"

\* Second SELECT, for an active document: its latest job.
InspectJob(c) ==
    /\ tx[c].stage = "latest"
    /\ \/ /\ Retries(tx[c].cur)
          /\ Accept(c, tx[c].cur, NextItem(c))
       \/ /\ ~Retries(tx[c].cur)
          /\ Goes(c, NextItem(c)) /\ NoJob
    /\ NotCommitted /\ UNCHANGED <<wrote, wroteDocset>>

\* Second SELECT, without an active document: some document of the URL, deleted or not.
\* A deleted one is reactivated in the session, without a flush.  One that has become
\* active since the first SELECT is passed over, and a new document is made.
InspectDeleted(c) ==
    LET seen == {r \in Rows : UrlOf[r] = tx[c].url /\ View(c)[r] # "absent"}
    IN /\ tx[c].stage = "lookup"
       /\ \/ \E r \in seen :
                /\ View(c)[r] = "deleted"
                /\ Accept(c, r, [NextItem(c) EXCEPT !.dirty = @ \cup {r}])
          \/ /\ seen = {} \/ \E r \in seen : View(c)[r] = "active"
             /\ \E r \in FreeKeys(tx[c].url) : Goes(c, [tx[c] EXCEPT !.stage = "insert", !.cur = r])
             /\ NoJob
       /\ NotCommitted /\ UNCHANGED <<wrote, wroteDocset>>

\* A flush: UPDATE of the next document changed in the session.
FlushDocument(c) ==
    /\ tx[c].stage \in {"insert", "rows", "markAll"} /\ tx[c].dirty # {} /\ Free(c)
    /\ \E r \in NextWrite(c) :
          /\ Activates(c) => ~KeyTaken(c, r)
          /\ FlushesRow(c, r, IF Activates(c) THEN "active" ELSE "deleted")
          /\ Goes(c, [tx[c] EXCEPT !.dirty = @ \ {r}])
    /\ NotCommitted /\ NoJob /\ UNCHANGED wroteDocset

\* Mutant: the new document is committed at once.
InsertAndCommit(c) ==
    /\ tx[c].stage = "insert" /\ tx[c].dirty = {} /\ Free(c) /\ ~KeyTaken(c, tx[c].cur)
    /\ row' = [row EXCEPT ![tx[c].cur] = "active"]
    /\ Accept(c, tx[c].cur, NextItem(c))
    /\ UNCHANGED <<docset, reopened, wrote, wroteDocset>>

\* _prepare_document_for_job: the flush ends with the INSERT of the new document.
InsertDocument(c) ==
    /\ tx[c].stage = "insert" /\ tx[c].dirty = {} /\ Free(c) /\ ~KeyTaken(c, tx[c].cur)
    /\ FlushesRow(c, tx[c].cur, "active")
    /\ Accept(c, tx[c].cur, NextItem(c))
    /\ NotCommitted /\ UNCHANGED wroteDocset

\* After the last item: SELECT count.  What is dirty now is not counted.
CountActive(c) ==
    /\ tx[c].stage = "item" /\ tx[c].todo = {}
    /\ Goes(c, [tx[c] EXCEPT !.counted = Cardinality(Active(View(c))),
                             !.late = IF tx[c].alone THEN tx[c].dirty ELSE {},
                             !.stage = "totals"])
    /\ Reads

\* The session writes document_count only if it differs from the value it has loaded.
NewCount(c, ds) == IF tx[c].counted = tx[c].loaded THEN ds.count ELSE tx[c].counted

\* commit flushes the docset first, then the documents that are still dirty.
WriteTotals(c) ==
    /\ tx[c].stage = "totals" /\ Free(c)
    /\ FlushesDocset(c, [DocsetView(c) EXCEPT !.count = NewCount(c, DocsetView(c))])
    /\ Goes(c, [tx[c] EXCEPT !.stage = "rows", !.counted = 0, !.loaded = 0])
    /\ NotCommitted /\ NoJob /\ UNCHANGED wrote

-----------------------------------------------------------------------------
(***************************************************************************)
(* soft_delete_document.                                                   *)
(***************************************************************************)

\* UPDATE of deleted_at, flushed before the count.
MarkDeleted(c) ==
    /\ tx[c].stage = "mark" /\ Free(c)
    /\ FlushesRow(c, tx[c].cur, "deleted")
    /\ Goes(c, [tx[c] EXCEPT !.stage = "find"])
    /\ NotCommitted /\ NoJob /\ UNCHANGED wroteDocset

\* _sync_docset_pruning, SELECT of the docset.
FindDocset(c) ==
    /\ tx[c].stage = "find"
    /\ Goes(c, [tx[c] EXCEPT !.loaded = docset.count, !.stage = "count"])
    /\ Reads

\* Mutant: the documents are counted as if nothing had been flushed.
CountCommitted(c) ==
    /\ tx[c].stage = "count"
    /\ Goes(c, [tx[c] EXCEPT !.counted = Cardinality(Active(row)), !.stage = "prune"])
    /\ Reads

\* _sync_docset_pruning, SELECT count.
CountRemaining(c) ==
    /\ tx[c].stage = "count"
    /\ Goes(c, [tx[c] EXCEPT !.counted = Cardinality(Active(View(c))), !.stage = "prune"])
    /\ Reads

\* commit flushes the docset: its count, and deleted_at if nothing was left.
Prune(c) ==
    /\ tx[c].stage = "prune" /\ Free(c)
    /\ FlushesDocset(c, [state |-> IF tx[c].counted = 0 THEN "pruned" ELSE docset.state,
                         count |-> NewCount(c, docset)])
    /\ Goes(c, [tx[c] EXCEPT !.stage = "markAll", !.cur = 0, !.counted = 0, !.loaded = 0])
    /\ NotCommitted /\ NoJob /\ UNCHANGED wrote

-----------------------------------------------------------------------------
(***************************************************************************)
(* delete_docset.                                                          *)
(***************************************************************************)

\* SELECT of the active documents; they are marked in the session.
SelectMembers(c) ==
    /\ tx[c].stage = "members"
    /\ Goes(c, [tx[c] EXCEPT !.dirty = Active(row), !.stage = "discard"])
    /\ Reads

\* commit flushes the docset, then the documents.
DiscardDocset(c) ==
    /\ tx[c].stage = "discard" /\ Free(c)
    /\ FlushesDocset(c, PrunedDocset)
    /\ Goes(c, [tx[c] EXCEPT !.stage = "markAll", !.loaded = 0])
    /\ NotCommitted /\ NoJob /\ UNCHANGED wrote

-----------------------------------------------------------------------------
(***************************************************************************)
(* Requests end.                                                           *)
(***************************************************************************)

Unlocks(c) ==
    /\ wrote' = [wrote EXCEPT ![c] = [r \in Rows |-> None]]
    /\ wroteDocset' = [wroteDocset EXCEPT ![c] = None]

\* COMMIT, with nothing left to flush.
Commit(c) ==
    /\ tx[c].stage \in {"rows", "markAll"} /\ tx[c].dirty = {}
    /\ row' = View(c)
    /\ docset' = DocsetView(c)
    /\ jobStatus' = [j \in Jobs |-> IF j \in tx[c].added THEN "live" ELSE jobStatus[j]]
    /\ reopened' = reopened \cup {r \in Rows : wrote[c][r] = "deleted"}
    /\ Unlocks(c) /\ Goes(c, NoTransaction)
    /\ UNCHANGED jobDoc

\* Mutant: the connection goes back to the pool with its transaction open.
LeaveOpen(c) ==
    /\ jobStatus' = [j \in Jobs |-> IF j \in tx[c].added THEN "void" ELSE jobStatus[j]]
    /\ jobDoc' = [j \in Jobs |-> IF j \in tx[c].added THEN 0 ELSE jobDoc[j]]
    /\ Goes(c, NoTransaction)
    /\ NotCommitted /\ UNCHANGED <<wrote, wroteDocset>>

\* get_async_session rolls back on every exception.
Rollback(c) ==
    /\ jobStatus' = [j \in Jobs |-> IF j \in tx[c].added THEN "void" ELSE jobStatus[j]]
    /\ jobDoc' = [j \in Jobs |-> IF j \in tx[c].added THEN 0 ELSE jobDoc[j]]
    /\ Unlocks(c) /\ Goes(c, NoTransaction)
    /\ NotCommitted

\* A unique index refuses the statement: the whole request fails with IntegrityError.
Refused(c) ==
    /\ Free(c)
    /\ \/ tx[c].stage = "create" /\ docset.state # "absent"
       \/ Activates(c) /\ \E r \in NextWrite(c) : KeyTaken(c, r)
    /\ Rollback(c)

\* PostgreSQL ends a circle of waiting transactions by failing one of them.
DeadlockVictim(c) == InDeadlock(c) /\ Rollback(c)

\* The connection or the request itself fails at some statement.
Abort(c) == tx[c].stage # "idle" /\ Rollback(c)

\* Bound: the request needs a job or a key that the instance does not have.
GiveUp(c) ==
    /\ \/ NewJob = {} /\ tx[c].stage \in {"latest", "lookup", "insert"}
       \/ tx[c].stage = "lookup" /\ FreeKeys(tx[c].url) = {}
    /\ Rollback(c)

\* The worker writes the status of a committed job; a job that is delivered again is live
\* again.
Work(j, s) ==
    /\ jobStatus[j] \in {"live", "FAILED"} /\ s # jobStatus[j]
    /\ jobStatus' = [jobStatus EXCEPT ![j] = s]
    /\ reopened' = IF s = "FAILED" THEN reopened \cup {jobDoc[j]} ELSE reopened
    /\ UNCHANGED <<row, docset, jobDoc, wrote, wroteDocset, tx>>

\* The next statement of a request, or its end.
Statement(c) ==
    \/ ReadDocset(c) \/ CreateDocset(c) \/ ReviveDocset(c)
    \/ InspectActive(c) \/ InspectJob(c) \/ InspectDeleted(c)
    \/ FlushDocument(c) \/ InsertDocument(c) \/ CountActive(c) \/ WriteTotals(c)
    \/ MarkDeleted(c) \/ FindDocset(c) \/ CountRemaining(c) \/ Prune(c)
    \/ SelectMembers(c) \/ DiscardDocset(c)
    \/ Commit(c) \/ Refused(c) \/ DeadlockVictim(c) \/ GiveUp(c)

Request(c) ==
    \/ \E S \in SUBSET Urls : SubmitBatch(c, S)
    \/ \E r \in Rows : DeleteDocument(c, r)
    \/ DeleteDocset(c)

Next ==
    \/ \E c \in Clients : Request(c) \/ Statement(c) \/ Abort(c)
    \/ \E j \in Jobs, s \in {"live", "FAILED"} : Work(j, s)

Spec == Init /\ [][Next]_vars

-----------------------------------------------------------------------------
(* One URL never has two active documents, whatever requests overlap: two   *)
(* batches that both found no document race for the partial unique index.  *)
OneActivePerUrl ==
    \A r, s \in Rows : row[r] = "active" /\ row[s] = "active" /\ UrlOf[r] = UrlOf[s] => r = s

(* A URL that is new is accepted once: as long as a document was never      *)
(* deleted and none of its jobs has failed, it is the only document of its  *)
(* URL and has exactly one job, however many batches contained the URL.     *)
NewUrlAcceptedOnce ==
    \A r \in Rows \ reopened :
       row[r] # "absent" => /\ Cardinality(CommittedJobs(r)) = 1
                            /\ \A s \in SameUrl(r) : row[s] # "active"

(* No request leaves a document without a job behind, so the check of a URL *)
(* always has a status to report: a batch commits all it has prepared or    *)
(* nothing.                                                                 *)
DocumentsHaveJobs == \A r \in Rows : row[r] # "absent" => CommittedJobs(r) # {}

(* Wrong counts heal: a request that overlaps with no other one is about to *)
(* commit the number of active documents, less the reactivated ones it has  *)
(* counted before their flush, whatever overlapping requests left behind.   *)
LoneRequestCounts ==
    \A c \in Clients :
       tx[c].alone /\ tx[c].stage \in {"rows", "markAll"} /\ tx[c].dirty = {} =>
          DocsetView(c).count + Cardinality(tx[c].late) = Cardinality(Active(View(c)))

(* A request fails on a unique index or as the victim of a deadlock only if *)
(* it overlapped with another request.                                      *)
LoneRequestSucceeds ==
    \A c \in Clients :
       tx[c].alone => ~InDeadlock(c) /\ ~(Free(c) /\ Activates(c) /\ \E r \in NextWrite(c) : KeyTaken(c, r))

(* Requests never wait for one another for good, though documents and their *)
(* docset are locked in either order: while a request is in progress, some  *)
(* request has a next statement, or is the victim of a deadlock.            *)
SomeRequestMoves ==
    (\E c \in Clients : tx[c].stage # "idle") => \E c \in Clients : ENABLED Statement(c)

(* A pruned docset has no active document.  It does not hold: a batch adds  *)
(* a document between the count and the commit of the deletion of the last  *)
(* one, or of the whole docset.                                             *)
PrunedMeansEmpty == docset.state = "pruned" => Active(row) = {}
=============================================================================
