---------------------------- MODULE JobLifecycle ----------------------------
(***************************************************************************)
(* What the pipeline promises about one ingestion job, seen from outside:  *)
(* the row of the ingestion_jobs table (state) and the right to write it   *)
(* (lease).  The queue delivers a job at least once; every delivery is one *)
(* run, only the run that holds the lease writes the row, a run moves the  *)
(* row one stage forward at a time and ends with at most one terminal      *)
(* write, and a settled job is never written again.                        *)
(*                                                                         *)
(* Ingestion implements this specification.                                *)
(***************************************************************************)
CONSTANT Jobs          \* identifiers of ingestion jobs

VARIABLES
    state,             \* the status column of the job's row
    lease              \* who may write the row

jobVars == <<state, lease>>

Stages == {"SCRAPING", "CHUNKING", "EMBEDDING"}
Terminal == {"INDEXED", "FAILED"}
States == {"none", "PENDING"} \cup Stages \cup Terminal

\* waiting: committed, in the queue or about to be; claimed: picked up by a
\* worker that has written nothing yet; working: a run is in progress; ended: the
\* run wrote its last update; settled: the queue is done with the job.
Leases == {"unused", "waiting", "claimed", "working", "ended", "settled"}

\* The type of a job as seen from outside.
LifecycleTypeOK ==
    /\ state \in [Jobs -> States]
    /\ lease \in [Jobs -> Leases]

Init ==
    /\ state = [j \in Jobs |-> "none"]
    /\ lease = [j \in Jobs |-> "unused"]

(***************************************************************************)
(* A request registers a set of jobs in one transaction.                   *)
(***************************************************************************)
Submit(S) ==
    /\ \A j \in S : lease[j] = "unused"
    /\ state' = [j \in Jobs |-> IF j \in S THEN "PENDING" ELSE state[j]]
    /\ lease' = [j \in Jobs |-> IF j \in S THEN "waiting" ELSE lease[j]]

Move(j, from, to) ==
    /\ lease[j] \in from
    /\ lease' = [lease EXCEPT ![j] = to]

Write(j, from, to) ==
    /\ state[j] \in from
    /\ state' = [state EXCEPT ![j] = to]

Claim(j) == Move(j, {"waiting"}, "claimed") /\ UNCHANGED state

\* A run starts from the beginning, whatever an earlier delivery left behind.
Begin(j) == Move(j, {"claimed"}, "working") /\ Write(j, States, "SCRAPING")

\* A run that goes wrong before its first update.
Abort(j) == Move(j, {"claimed"}, "working") /\ UNCHANGED state

Advance(j) ==
    /\ Move(j, {"working"}, "working")
    /\ \/ Write(j, {"SCRAPING"}, "CHUNKING")
       \/ Write(j, {"CHUNKING"}, "EMBEDDING")

\* The last update of a run; a run may also end without one.
Finish(j) ==
    /\ Move(j, {"working"}, "ended")
    /\ \/ Write(j, {"EMBEDDING"}, "INDEXED")
       \/ Write(j, States, "FAILED")
       \/ UNCHANGED state

Skip(j) == Move(j, {"claimed"}, "ended") /\ UNCHANGED state

Redeliver(j) == Move(j, {"claimed", "working", "ended"}, "waiting") /\ UNCHANGED state

Settle(j) == Move(j, {"waiting", "ended"}, "settled") /\ UNCHANGED state

Next ==
    \/ \E S \in SUBSET Jobs : Submit(S)
    \/ \E j \in Jobs :
          \/ Claim(j) \/ Begin(j) \/ Abort(j) \/ Advance(j) \/ Finish(j)
          \/ Skip(j) \/ Redeliver(j) \/ Settle(j)

Spec == Init /\ [][Next]_jobVars
=============================================================================
