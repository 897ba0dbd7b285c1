---------------------------- MODULE IngestionUse ----------------------------
(***************************************************************************)
(* Ingestion under restrictions on what clients and the environment do.    *)
(* Every step of these specifications is a step of Ingestion: they say     *)
(* under which use the system keeps PostgreSQL and Qdrant in agreement,    *)
(* and how far its jobs are certain to end.                                *)
(***************************************************************************)
EXTENDS Ingestion

\* A delivery of the job is on its way, in progress, or not yet acknowledged.
Live(j) == queue[j] \in {"outbox", "queued", "running"}

Busy(d) == \E j \in Jobs : jobDoc[j] = d /\ Live(j)

\* A job of the document has failed, but is not acknowledged or is delivered again.
FailedAlive(d) == \E j \in Jobs : jobDoc[j] = d /\ Live(j) /\ status[j] = "FAILED"

\* A request that deletes the docset or one of its documents is in progress.
Deleting(ds) ==
    \E c \in Clients :
        \/ handler[c] \in {"purge", "mark"} /\ target[c] \in DocsIn(ds)
        \/ handler[c] = "purgeDocset" /\ target[c] = ds

\* A registration for the docset is in progress.
Registering(ds) == \E c \in Clients : handler[c] = "register" /\ target[c] = ds

(***************************************************************************)
(* One thing at a time in a docset: clients submit to it only while no     *)
(* other request registers there or deletes from it, delete only what is   *)
(* not being ingested, and do not submit a document again while the worker *)
(* still has a failed job of it; a delete request does not fail half way.  *)
(* Jobs may fail, be cancelled, crash, be lost and be delivered again at   *)
(* any point, requests for different docsets overlap, and so do deletions. *)
(***************************************************************************)
SerialRequest ==
    \/ \E c \in Clients, ds \in Docsets :
          /\ ~Registering(ds) /\ ~Deleting(ds)
          /\ \E S \in SUBSET DocsIn(ds) : (\A d \in S : ~FailedAlive(d)) /\ Ingest(c, ds, S)
    \/ \E c \in Clients, d \in Docs :
          ~Registering(DocsetOf[d]) /\ ~Busy(d) /\ DeleteDoc(c, d)
    \/ \E c \in Clients, ds \in Docsets :
          ~Registering(ds) /\ (\A d \in DocsIn(ds) : ~Busy(d)) /\ DeleteDocset(c, ds)

SerialNext ==
    \/ SerialRequest
    \/ \E j \in Jobs : JobStep(j) \/ JobFault(j)
    \/ \E c \in Clients : HandlerStep(c)

SerialSpec == Init /\ [][SerialNext]_vars

\* A deleted document leaves no vectors behind (DELETE purges before or after the rows
\* are marked, in both endpoints).
NoGhostVectors ==
    \A d \in Docs :
        doc[d] = "deleted" /\ ~Deleting(DocsetOf[d]) => points[d] = {}

\* A document listed as indexed can be found: all chunks it counts are in the vector
\* store, although jobs fail half way, are delivered again at any point and write over what
\* an earlier delivery has written.
IndexedIsSearchable ==
    \A d \in Docs :
        (doc[d] = "active" /\ status[latest[d]] = "INDEXED" /\ ~Deleting(DocsetOf[d]))
            => ChunkIndexes(chunkCount[d]) \subseteq points[d]

\* The outcome "currently_ingesting" of _inspect_single_url_status keeps a document
\* from being ingested by two jobs at the same time, through every shutdown, crash and
\* redelivery between the look at its latest job and the commit of the next one, as long as
\* registrations for its docset do not overlap.
OneWriterPerDocument ==
    \A j, k \in Jobs : j # k /\ jobDoc[j] = jobDoc[k] => ~(Live(j) /\ Live(k))

\* models/docset.py, document_count: "Total active documents tracked under this docset".
CountIsActive ==
    \A ds \in Docsets :
        docset[ds] = "active" => docsetCount[ds] = Cardinality(ActiveDocs(ds))

(***************************************************************************)
(* Requests are sent, updates of a job succeed, and a worker crashes fewer *)
(* times than ARQ delivers the job.                                        *)
(***************************************************************************)
BoundedCrash(j) == tries[j] < MaxTries /\ Crash(j)

SettleNext ==
    \/ Request
    \/ \E j \in Jobs : JobStep(j) \/ BoundedCrash(j)
    \/ \E c \in Clients : HandlerStep(c) \/ HandlerFault(c)

\* The event loops of the API and the worker run every task that is ready, ARQ polls its
\* queue, and each call awaited by a run ends, at the latest by its timeout.
Fairness ==
    \A j \in Jobs :
        /\ WF_vars(Enqueue(j))
        /\ WF_vars(Take(j))
        /\ WF_vars(Drop(j))
        /\ WF_vars(RunStep(j))
        /\ WF_vars(Ack(j))
        /\ WF_vars(Requeue(j))

SettleSpec == Init /\ [][SettleNext]_vars /\ Fairness

\* Every registered job ends, INDEXED or FAILED and out of the queue, through any number
\* of deletions, failures, timeouts and shutdowns.
EveryJobSettles ==
    \A j \in Jobs :
        status[j] = "PENDING" ~> queue[j] = "done" /\ status[j] \in TerminalStatuses
=============================================================================
