------------------------- MODULE BatchStatusProofs --------------------------
(***************************************************************************)
(* Proofs about BatchStatus, for any jobs, polls and number of deliveries. *)
(***************************************************************************)
EXTENDS BatchStatus, FiniteSetTheorems, WellFoundedInduction, NaturalsInduction, TLAPS

\* A poll in progress holds a status.
HeldOK == \A p \in Polls : step[p] # "idle" => held[p] \in BatchStatuses

\* An indexed job has made all its progress, in whichever delivery it got there.
IndexedShowsAll == \A j \in Jobs : status[j] = "INDEXED" => progress[j] = 100

\* The inductive invariant.
IInv == TypeOK /\ HeldOK /\ IndexedShowsAll /\ SettledJobIsDated /\ EndedBatchIsDated

-----------------------------------------------------------------------------
\* Jobs in some statuses are finitely many, and all of them if they are as many as the
\* jobs of the batch.
LEMMA CountedAll ==
    ASSUME NEW S
    PROVE  /\ Counted(S) \in Nat
           /\ Counted(S) = Cardinality(Jobs) <=> \A j \in Jobs : status[j] \in S
           /\ Counted(S) > 0 <=> \E j \in Jobs : status[j] \in S
<1> DEFINE C == {j \in Jobs : status[j] \in S}
<1>1. C \in SUBSET Jobs
  OBVIOUS
<1>2. IsFiniteSet(C) /\ (Cardinality(Jobs) = Cardinality(C) => Jobs = C)
  BY <1>1, FS_Subset, BatchAssumption
<1>3. Cardinality(C) \in Nat
  BY <1>2, FS_CardinalityType
<1>4. Cardinality(C) = 0 <=> C = {}
  BY <1>2, FS_EmptySet
<1>5. Counted(S) = Cardinality(C)
  BY DEF Counted
<1>6. Cardinality(C) = Cardinality(Jobs) <=> \A j \in Jobs : status[j] \in S
  BY <1>2
<1>7. Cardinality(C) > 0 <=> \E j \in Jobs : status[j] \in S
  BY <1>3, <1>4
<1> QED
  BY <1>3, <1>5, <1>6, <1>7

\* Indexed and failed jobs add up to the batch exactly when every job has ended.
LEMMA CountedSettled ==
    Counted({"INDEXED"}) + Counted({"FAILED"}) = Cardinality(Jobs)
        <=> \A j \in Jobs : status[j] \in Settled
<1> DEFINE I == {j \in Jobs : status[j] \in {"INDEXED"}}
           F == {j \in Jobs : status[j] \in {"FAILED"}}
           U == {j \in Jobs : status[j] \in Settled}
<1>1. I \in SUBSET Jobs /\ F \in SUBSET Jobs
  OBVIOUS
<1>2. IsFiniteSet(I) /\ IsFiniteSet(F)
  BY <1>1, FS_Subset, BatchAssumption
<1>3. Cardinality(I) \in Nat /\ Cardinality(F) \in Nat
  BY <1>2, FS_CardinalityType
<1>4. I \cap F = {} /\ I \cup F = U
  BY DEF Settled
<1>5. Cardinality(I \cup F) = Cardinality(I) + Cardinality(F) - Cardinality(I \cap F)
  BY <1>2, FS_Union
<1>6. Counted({"INDEXED"}) = Cardinality(I) /\ Counted({"FAILED"}) = Cardinality(F)
  BY DEF Counted
<1>7. Counted(Settled) = Cardinality(U)
  BY DEF Counted
<1> HIDE DEF I, F, U
<1>8. Cardinality(U) = Cardinality(I) + Cardinality(F)
  <2>1. Cardinality(I \cap F) = 0
    BY <1>4, FS_EmptySet
  <2> QED
    BY <1>3, <1>4, <1>5, <2>1
<1> QED
  BY <1>6, <1>7, <1>8, CountedAll

\* What the statuses of a batch promise about its jobs follows from the counts of
\* _calculate_batch_aggregate, for any number of jobs.
LEMMA AggregateFaithful == TypeOK => AggregateIsFaithful
<1> SUFFICES ASSUME TypeOK PROVE AggregateIsFaithful
  OBVIOUS
<1> DEFINE total == Cardinality(Jobs)
           completed == Counted({"INDEXED"})
           failed == Counted({"FAILED"})
           busy == Counted(InProgress)
<1>1. /\ completed \in Nat /\ failed \in Nat /\ busy \in Nat
      /\ completed = total <=> All("INDEXED")
      /\ failed = total <=> All("FAILED")
      /\ completed > 0 <=> \E j \in Jobs : status[j] = "INDEXED"
      /\ failed > 0 <=> \E j \in Jobs : status[j] = "FAILED"
      /\ busy > 0 <=> \E j \in Jobs : status[j] \in InProgress
  BY CountedAll DEF All
<1>2. completed + failed = total <=> \A j \in Jobs : status[j] \in Settled
  BY CountedSettled
<1>3. /\ All("INDEXED") /\ All("FAILED") => Jobs = {}
      /\ Jobs = {} => All("INDEXED") /\ All("FAILED") /\ All("PENDING")
  BY DEF All
<1>4. \A j \in Jobs : status[j] \in JobStatuses
  BY DEF TypeOK
<1>5. Aggregate = IF completed = total THEN "COMPLETED"
                  ELSE IF failed = total THEN "FAILED"
                  ELSE IF completed + failed = total /\ failed > 0 THEN "PARTIALLY_FAILED"
                  ELSE IF busy > 0 \/ completed > 0 \/ failed > 0 THEN "PROCESSING"
                  ELSE "PENDING"
  BY DEF Aggregate
<1> HIDE DEF total, completed, failed, busy
<1>6. (\A j \in Jobs : status[j] \in Settled) /\ ~All("INDEXED") => failed > 0
  BY <1>1 DEF All, Settled
<1>7. All("PENDING") <=> ~(busy > 0) /\ ~(completed > 0) /\ ~(failed > 0)
  BY <1>1, <1>4 DEF All, JobStatuses, InProgress
<1>8. All("PENDING") /\ Jobs # {} => ~All("INDEXED") /\ ~All("FAILED")
                                      /\ ~(\A j \in Jobs : status[j] \in Settled)
  BY DEF All, Settled
<1>9. /\ Aggregate = "COMPLETED" <=> All("INDEXED")
      /\ Aggregate = "FAILED" <=> Jobs # {} /\ All("FAILED")
  BY <1>1, <1>3, <1>5
<1>10. Aggregate = "PARTIALLY_FAILED" <=>
          /\ \A j \in Jobs : status[j] \in Settled
          /\ ~All("INDEXED") /\ ~All("FAILED")
  BY <1>1, <1>2, <1>5, <1>6
<1>11. Aggregate = "PENDING" <=> Jobs # {} /\ All("PENDING")
  BY <1>1, <1>2, <1>3, <1>5, <1>7, <1>8
<1> QED
  BY <1>9, <1>10, <1>11 DEF AggregateIsFaithful

\* The aggregate is a status of a batch.
LEMMA AggregateType == Aggregate \in BatchStatuses
  BY DEF Aggregate, BatchStatuses

-----------------------------------------------------------------------------
\* update_job_status keeps the invariant when the pipeline calls it with a status, a
\* progress or none, and a message for every failure.
LEMMA UpdateKeeps ==
    ASSUME IInv, NEW j \in Jobs, NEW s \in JobStatuses, NEW given \in 0..100 \cup {None},
           NEW message \in BOOLEAN, s = "FAILED" => message,
           s = "INDEXED" => given \in {100, None},
           UpdateJob(j, s, given, message), runs' \in [Jobs -> 0..MaxRuns]
    PROVE  IInv'
<1> USE DEF IInv, UpdateJob, batchVars, pollVars
<1>1. NewProgress(j, s, given) \in 0..100
  BY BatchAssumption DEF NewProgress, TypeOK
<1>2. TypeOK'
  BY <1>1 DEF TypeOK, Finishes, Settled
<1>3. HeldOK'
  BY DEF HeldOK
<1>4. IndexedShowsAll'
  BY BatchAssumption DEF IndexedShowsAll, NewProgress, TypeOK
<1>5. SettledJobIsDated'
  BY DEF SettledJobIsDated, Finishes, TypeOK
<1>6. EndedBatchIsDated'
  BY DEF EndedBatchIsDated
<1> QED
  BY <1>2, <1>3, <1>4, <1>5, <1>6

\* Every step of a run keeps the invariant.
LEMMA JobStepKeeps == ASSUME IInv, NEW j \in Jobs, JobStep(j) PROVE IInv'
<1>1. runs \in [Jobs -> 0..MaxRuns]
  BY DEF IInv, TypeOK
<1>2. CASE Scrape(j)
  <2>1. runs' \in [Jobs -> 0..MaxRuns]
    BY <1>1, <1>2, BatchAssumption DEF Scrape
  <2>2. UpdateJob(j, "SCRAPING", 20, FALSE)
    BY <1>2 DEF Scrape
  <2>3. "SCRAPING" \in JobStatuses /\ 20 \in 0..100 \cup {None} /\ FALSE \in BOOLEAN
    BY DEF JobStatuses
  <2> QED
    BY <2>1, <2>2, <2>3, UpdateKeeps
<1>3. ASSUME NEW from, NEW to \in InProgress \cup {"INDEXED"}, NEW given \in 0..100,
             to = "INDEXED" => given = 100, Advance(j, from, to, given)
      PROVE  IInv'
  BY <1>1, <1>3, UpdateKeeps DEF Advance, JobStatuses, InProgress
<1>4. CASE Fail(j)
  BY <1>1, <1>4, UpdateKeeps DEF Fail, JobStatuses
<1> QED
  BY <1>2, <1>3, <1>4 DEF JobStep, InProgress

\* Every statement of a poll keeps the invariant.
LEMMA PollStepKeeps == ASSUME IInv, NEW p \in Polls, PollStep(p) PROVE IInv'
<1> USE DEF IInv, StepGoes, jobVars, batchVars, Steps
<1>1. UNCHANGED jobVars
  BY DEF PollStep, ReadBatch, ReadJobs, Answer, Store
<1>2. SettledJobIsDated' /\ IndexedShowsAll'
  BY <1>1 DEF SettledJobIsDated, IndexedShowsAll
<1>3. CASE ReadBatch(p)
  BY <1>2, <1>3 DEF ReadBatch, TypeOK, HeldOK, EndedBatchIsDated
<1>4. CASE ReadJobs(p)
  BY <1>2, <1>4, AggregateType DEF ReadJobs, TypeOK, HeldOK, EndedBatchIsDated
<1>5. CASE Answer(p)
  BY <1>2, <1>5 DEF Answer, TypeOK, HeldOK, EndedBatchIsDated
<1>6. CASE Store(p)
  <2>1. held[p] \in BatchStatuses
    BY <1>6 DEF Store, HeldOK
  <2> QED
    BY <1>2, <1>6, <2>1 DEF Store, TypeOK, HeldOK, EndedBatchIsDated, Ends
<1> QED
  BY <1>3, <1>4, <1>5, <1>6 DEF PollStep

\* The inductive invariant holds in every reachable state.
THEOREM IInvAlways == Spec => []IInv
<1>1. Init => IInv
  <2> SUFFICES ASSUME Init PROVE IInv
    OBVIOUS
  <2>1. TypeOK
    BY BatchAssumption DEF Init, TypeOK, JobStatuses, BatchStatuses, Steps
  <2>2. HeldOK /\ SettledJobIsDated /\ IndexedShowsAll
    BY DEF Init, HeldOK, SettledJobIsDated, IndexedShowsAll, Settled
  <2>3. EndedBatchIsDated
    BY DEF Init, EndedBatchIsDated, Ended
  <2> QED
    BY <2>1, <2>2, <2>3 DEF IInv
<1>2. IInv /\ [Next]_vars => IInv'
  <2> SUFFICES ASSUME IInv, [Next]_vars PROVE IInv'
    OBVIOUS
  <2>1. CASE Next
    BY <2>1, JobStepKeeps, PollStepKeeps DEF Next
  <2>2. CASE UNCHANGED vars
    BY <2>2 DEF vars, jobVars, batchVars, pollVars, IInv, TypeOK, HeldOK,
       IndexedShowsAll, SettledJobIsDated, EndedBatchIsDated
  <2> QED
    BY <2>1, <2>2
<1> QED
  BY <1>1, <1>2, PTL DEF Spec

-----------------------------------------------------------------------------
\* The columns of jobs and batches and the variables of polls keep their types, progress
\* stays between 0 and 100.
THEOREM TypeCorrect == Spec => []TypeOK
<1>1. IInv => TypeOK
  BY DEF IInv
<1> QED
  BY <1>1, IInvAlways, PTL

\* _calculate_batch_aggregate: COMPLETED, FAILED, PARTIALLY_FAILED and PENDING mean what
\* they say of every job, for batches of any size.
THEOREM AggregateAlwaysFaithful == Spec => []AggregateIsFaithful
<1>1. IInv => AggregateIsFaithful
  BY AggregateFaithful DEF IInv
<1> QED
  BY <1>1, IInvAlways, PTL

\* update_job_status: a job that ended has finished_at, one that failed an error_message
\* (not the other way round: a job that is delivered again keeps the finished_at it had).
THEOREM SettledJobsAreDated == Spec => []SettledJobIsDated
<1>1. IInv => SettledJobIsDated
  BY DEF IInv
<1> QED
  BY <1>1, IInvAlways, PTL

\* get_batch_job_status: a stored outcome comes with finished_at, however polls overlap.
THEOREM EndedBatchesAreDated == Spec => []EndedBatchIsDated
<1>1. IInv => EndedBatchIsDated
  BY DEF IInv
<1> QED
  BY <1>1, IInvAlways, PTL
-----------------------------------------------------------------------------
\* A set of natural numbers has a least element: induction, as a first-order fact.
LEMMA LeastNumber ==
    ASSUME NEW S \in SUBSET Nat, S # {}
    PROVE  \E m \in S : \A k \in S : m <= k
<1>1. IsWellFoundedOn(OpToRel(<, Nat), Nat)
  BY NatLessThanWellFounded
<1>2. \E m \in S : \A k \in S : ~(<<k, m>> \in OpToRel(<, Nat))
  BY <1>1, WFMin, Zenon
<1>3. \A k, m \in Nat : k < m => <<k, m>> \in OpToRel(<, Nat)
  BY DEF OpToRel
<1>4. \E m \in S : \A k \in S : ~(k < m)
  BY <1>2, <1>3, Zenon
<1> QED
  BY <1>4

\* The element a fold over a set takes next.
Taken(s) == CHOOSE x \in s : TRUE

\* The equation a sum over the subsets of T satisfies.
AddsUp(g, p, T) ==
    g = [s \in SUBSET T |-> IF s = {} THEN 0 ELSE p[Taken(s)] + g[s \ {Taken(s)}]]

\* The fold MapThenSumSet, without its operator parameters.
Sum(p, T) == (CHOOSE g : AddsUp(g, p, T))[T]

\* Two functions that satisfy it are equal: they could differ first on a smallest set, but
\* agree on the set left when its next element is taken.
LEMMA SumIsUnique ==
    ASSUME NEW T, IsFiniteSet(T), NEW p, NEW g, NEW h, AddsUp(g, p, T), AddsUp(h, p, T)
    PROVE  g[T] = h[T]
<1> DEFINE D == {s \in SUBSET T : g[s] # h[s]}
           S == {n \in Nat : \E s \in D : Cardinality(s) = n}
<1> SUFFICES ASSUME T \in D PROVE FALSE
  OBVIOUS
<1>1. \A s \in SUBSET T : IsFiniteSet(s) /\ Cardinality(s) \in Nat
  BY FS_Subset, FS_CardinalityType
<1>2. S \in SUBSET Nat /\ S # {}
  BY <1>1
<1>3. PICK m \in S : \A k \in S : m <= k
  <2> HIDE DEF S
  <2> QED
    BY <1>2, LeastNumber
<1>4. PICK s \in D : Cardinality(s) = m
  OBVIOUS
<1>5. s # {}
  <2>1. g[{}] = 0 /\ h[{}] = 0
    BY DEF AddsUp
  <2> QED
    BY <2>1
<1>6. Taken(s) \in s
  BY <1>5 DEF Taken
<1> DEFINE r == s \ {Taken(s)}
<1>7. r \in SUBSET T /\ Cardinality(r) = m - 1
  BY <1>1, <1>4, <1>6, FS_RemoveElement
<1>8. g[r] = h[r]
  <2>1. m - 1 \in Nat /\ m \in Nat
    BY <1>1, <1>7
  <2>2. m - 1 \notin S
    BY <1>3, <2>1
  <2> QED
    BY <1>7, <2>1, <2>2
<1>9. s \in SUBSET T
  OBVIOUS
<1> HIDE DEF D, S
<1>10. g[s] = p[Taken(s)] + g[r] /\ h[s] = p[Taken(s)] + h[r]
  BY <1>5, <1>9 DEF AddsUp
<1> QED
  BY <1>8, <1>10 DEF D

\* The sum of equal numbers over a finite set is their product with its size.
LEMMA SumOfEqual ==
    ASSUME NEW T, IsFiniteSet(T), NEW p, NEW v \in Nat, \A x \in T : p[x] = v
    PROVE  Sum(p, T) = v * Cardinality(T)
<1> DEFINE product == [s \in SUBSET T |-> v * Cardinality(s)]
           sum == CHOOSE g : AddsUp(g, p, T)
<1>1. ASSUME NEW s \in SUBSET T
      PROVE  v * Cardinality(s)
               = IF s = {} THEN 0 ELSE p[Taken(s)] + product[s \ {Taken(s)}]
  <2>1. IsFiniteSet(s) /\ Cardinality(s) \in Nat
    BY FS_Subset, FS_CardinalityType
  <2>2. CASE s = {}
    BY <2>2, FS_EmptySet
  <2>3. CASE s # {}
    <3>1. Taken(s) \in s
      BY <2>3 DEF Taken
    <3>2. Cardinality(s \ {Taken(s)}) = Cardinality(s) - 1
      BY <2>1, <3>1, FS_RemoveElement
    <3>3. product[s \ {Taken(s)}] = v * (Cardinality(s) - 1) /\ p[Taken(s)] = v
      BY <3>1, <3>2
    <3>4. \A c \in Nat : v * c = v + v * (c - 1)
      OBVIOUS
    <3> QED
      BY <2>1, <2>3, <3>3, <3>4
  <2> QED
    BY <2>2, <2>3
<1>2. AddsUp(product, p, T)
  <2> DEFINE e(s) == IF s = {} THEN 0 ELSE p[Taken(s)] + product[s \ {Taken(s)}]
  <2>1. \A s \in SUBSET T : v * Cardinality(s) = e(s)
    BY <1>1
  <2>2. product = [s \in SUBSET T |-> e(s)]
    <3> HIDE DEF e
    <3> QED
      BY <2>1
  <2> QED
    BY <2>2 DEF AddsUp
<1>3. AddsUp(sum, p, T)
  <2> HIDE DEF product
  <2> QED
    BY <1>2
<1>4. sum[T] = product[T]
  <2> HIDE DEF product, sum
  <2> QED
    BY <1>2, <1>3, SumIsUnique
<1> QED
  BY <1>4 DEF Sum

\* A complete batch shows 100 percent: the mean of the progress of any number of jobs that
\* have all made all of it.
THEOREM CompleteBatchesShowAll == Spec => []CompleteShowsAllProgress
<1>1. ASSUME IInv, Aggregate = "COMPLETED", Jobs # {}
      PROVE  MapThenSumSet(LAMBDA j : progress[j], Jobs) \div Cardinality(Jobs) = 100
  <2>1. \A j \in Jobs : progress[j] = 100
    BY <1>1, AggregateFaithful DEF IInv, IndexedShowsAll, AggregateIsFaithful, All
  <2>2. Sum(progress, Jobs) = 100 * Cardinality(Jobs)
    BY <2>1, SumOfEqual, BatchAssumption
  <2>3. Cardinality(Jobs) \in Nat \ {0}
    BY <1>1, BatchAssumption, FS_CardinalityType, FS_EmptySet
  <2>4. MapThenSumSet(LAMBDA j : progress[j], Jobs) = Sum(progress, Jobs)
    BY DEF MapThenSumSet, MapThenFoldSet, Sum, AddsUp, Taken
  <2>5. \A n \in Nat \ {0} : (100 * n) \div n = 100
    OBVIOUS
  <2> QED
    BY <2>2, <2>3, <2>4, <2>5
<1>2. IInv => CompleteShowsAllProgress
  BY <1>1 DEF CompleteShowsAllProgress, OverallProgress
<1> QED
  BY <1>2, IInvAlways, PTL
=============================================================================
