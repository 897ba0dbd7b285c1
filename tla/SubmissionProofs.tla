-------------------------- MODULE SubmissionProofs --------------------------
(***************************************************************************)
(* Theorems about Submission, for any clients, requests, settings and      *)
(* bounds: types, the truth of the answers, one live job per document, and *)
(* scopes.                                                                 *)
(*                                                                         *)
(* The answer of a request is not all there is to its jobs: Flow says in   *)
(* which step of a handler they can be registered and sent, Unfinished     *)
(* that a job that is over is never sent again, and Inspected what a       *)
(* handler still knows of what it has looked at when it commits.           *)
(***************************************************************************)
EXTENDS Submission, FoldProofs, SequenceTheorems, TLAPS

\* A request that is handled is neither answered nor refused; jobs are registered by its
\* handler, and only registered ones are sent or in the queue.
Flow ==
    /\ \A c \in Clients : pc[c] # "idle" => answer[c] = "none" /\ Refusal(request[c]) = "none"
    /\ \A c \in Clients :
          pc[c] \in {"inspect", "register"} => \A j \in Mine(c) : status[j] = "none"
    /\ \A j \in Jobs : j[2] > sends[j[1]] => status[j] = "none"
    /\ \A j \in Jobs : send[j] # "none" \/ j \in queue => status[j] # "none"

\* A job that is not sent yet, or in the queue, is not over.
Unfinished ==
    /\ \A c \in Clients : pc[c] = "gather" => \A j \in Mine(c) : send[j] = "none"
    /\ \A j \in Jobs : send[j] \in Ongoing \cup {"none"} =>
                         status[j] \in {"none", "PENDING"} /\ j \notin queue
    /\ \A j \in queue : status[j] = "PENDING"

\* What a handler has found of an item is what it was; a job that has failed stays failed.
Inspected ==
    /\ \A c \in Clients : pc[c] = "idle" => outcome[c] = <<>> /\ seen[c] = <<>>
    /\ \A c \in Clients : pc[c] = "inspect" => Len(outcome[c]) < Len(request[c].items)
    /\ \A c \in Clients : pc[c] # "idle" => Len(outcome[c]) <= Len(request[c].items)
    /\ \A c \in Clients : pc[c] \in {"inspect", "register"} =>
          /\ Len(seen[c]) = Len(outcome[c])
          /\ \A i \in 1..Len(outcome[c]) :
                /\ outcome[c][i] \in Acceptances =>
                      ~Repeats(request[c].items, i) /\ request[c].items[i] \in AllowedUrls
                /\ outcome[c][i] = "accept_new" => seen[c][i] = NoJob
                /\ outcome[c][i] = "reingest_failed" =>
                      seen[c][i] \in Jobs /\ status[seen[c][i]] = "FAILED"

IInv == TypeOK /\ Flow /\ Unfinished /\ Inspected

\* A job that is not over is the latest of its document, unless registrations have overlapped.
Current ==
    \A j \in Jobs : status[j] = "PENDING" =>
        place[j] \in Places /\ (place[j] \in raced \/ latest[place[j]] = j)

\* A job is a client, a request of it, and an item.
LEMMA JobParts ==
    ASSUME NEW j \in Jobs
    PROVE  /\ j[1] \in Clients /\ j[2] \in Nat /\ j[3] \in Nat
           /\ j = <<j[1], j[2], j[3]>>
  BY SubmissionAssumption DEF Jobs

\* Jobs with the same parts are the same.
LEMMA SameJob ==
    ASSUME NEW j \in Jobs, NEW k \in Jobs, j[1] = k[1], j[2] = k[2], j[3] = k[3]
    PROVE  j = k
  BY JobParts

\* What a handler works with: a docset, and items that are URLs of documents.
LEMMA Handling ==
    ASSUME NEW r \in AllRequests, Refusal(r) = "none"
    PROVE  Docset(r) \in Docsets
<1>1. Docset(r) # Malformed
  BY SubmissionAssumption DEF Docset, Refusal
<1> QED
  BY <1>1 DEF Docsets

\* An item of a request that is handled is a document of its docset.
LEMMA ItemPlace ==
    ASSUME TypeOK, Flow, NEW c \in Clients, pc[c] # "idle",
           NEW i \in 1..Len(request[c].items)
    PROVE  PlaceAt(c, i) \in Places /\ request[c].items[i] \in Urls
<1>1. request[c] \in AllRequests /\ Docset(request[c]) \in Docsets
  BY Handling DEF TypeOK, Flow
<1>2. i \in DOMAIN request[c].items
  BY <1>1, SubmissionAssumption
<1>3. request[c].items[i] \in Urls
  BY <1>1, <1>2 DEF Urls
<1> QED
  BY <1>1, <1>3 DEF PlaceAt, Places

\* What is known of an accepted item when its job is registered.
LEMMA AcceptedItem ==
    ASSUME IInv, NEW c \in Clients, pc[c] = "register", NEW j \in Accepted(c)
    PROVE  /\ j \in Jobs /\ j[1] = c /\ j[2] = sends[c] /\ PlaceOf(c, j) \in Places
           /\ j[3] \in Nat /\ ~Repeats(request[c].items, j[3])
           /\ PlaceOf(c, j)[2] \in AllowedUrls
           /\ PlaceOf(c, j)[2] = request[c].items[j[3]]
           /\ \/ outcome[c][j[3]] = "accept_new" /\ seen[c][j[3]] = NoJob
              \/ /\ outcome[c][j[3]] = "reingest_failed"
                 /\ seen[c][j[3]] \in Jobs /\ status[seen[c][j[3]]] = "FAILED"
<1>1. /\ j \in Jobs /\ j[1] = c /\ j[2] = sends[c]
      /\ j[3] \in DOMAIN outcome[c] /\ outcome[c][j[3]] \in Acceptances
  BY DEF Accepted, Mine
<1>2. outcome[c] \in Seq(SkipReasons \cup Acceptances) /\ request[c] \in AllRequests
  BY DEF IInv, TypeOK
<1>3. j[3] \in 1..Len(outcome[c]) /\ Len(outcome[c]) \in Nat
  BY <1>1, <1>2
<1>4. Len(request[c].items) \in Nat
  BY <1>2, SubmissionAssumption
<1>5. Len(outcome[c]) <= Len(request[c].items)
  BY DEF IInv, Inspected
<1>6. j[3] \in 1..Len(request[c].items)
  BY <1>3, <1>4, <1>5
<1>7. PlaceAt(c, j[3]) \in Places
  BY <1>6, ItemPlace DEF IInv
<1>8. /\ ~Repeats(request[c].items, j[3]) /\ request[c].items[j[3]] \in AllowedUrls
      /\ outcome[c][j[3]] = "accept_new" => seen[c][j[3]] = NoJob
      /\ outcome[c][j[3]] = "reingest_failed" =>
            seen[c][j[3]] \in Jobs /\ status[seen[c][j[3]]] = "FAILED"
  BY <1>1, <1>3 DEF IInv, Inspected
<1> QED
  BY <1>1, <1>3, <1>7, <1>8 DEF PlaceOf, PlaceAt, Acceptances

\* Every item is accepted or skipped for a reason.
LEMMA OutcomeType ==
    ASSUME NEW c \in Clients, NEW i
    PROVE  Outcome(c, i) \in SkipReasons \cup Acceptances
  BY DEF Outcome, SkipReasons, Acceptances

\* What an outcome says of the item and of the latest job of its document.
LEMMA OutcomeSays ==
    ASSUME NEW c \in Clients, NEW i
    PROVE  /\ Outcome(c, i) \in Acceptances =>
                 ~Repeats(request[c].items, i) /\ request[c].items[i] \in AllowedUrls
           /\ Outcome(c, i) = "domain_not_allowed" => request[c].items[i] \notin AllowedUrls
           /\ Outcome(c, i) = "accept_new" => latest[PlaceAt(c, i)] = NoJob
           /\ Outcome(c, i) = "reingest_failed" =>
                 latest[PlaceAt(c, i)] # NoJob /\ status[latest[PlaceAt(c, i)]] = "FAILED"
  BY DEF Outcome, Acceptances

\* Of two items that are accepted for the same document there is only one.
LEMMA AcceptedOnce ==
    ASSUME IInv, NEW c \in Clients, pc[c] = "register",
           NEW j \in Accepted(c), NEW k \in Accepted(c), PlaceOf(c, j) = PlaceOf(c, k)
    PROVE  j = k
<1>1. /\ j \in Jobs /\ k \in Jobs /\ j[1] = k[1] /\ j[2] = k[2]
      /\ request[c].items[j[3]] = request[c].items[k[3]]
      /\ ~Repeats(request[c].items, j[3]) /\ ~Repeats(request[c].items, k[3])
  BY AcceptedItem
<1>3. j[3] \in Nat \ {0} /\ k[3] \in Nat \ {0}
  BY <1>1, SubmissionAssumption DEF Jobs
<1>5. ~(j[3] < k[3]) /\ ~(k[3] < j[3])
  BY <1>1, <1>3 DEF Repeats
<1>6. j[3] = k[3]
  BY <1>3, <1>5
<1> QED
  BY <1>1, <1>6, SameJob

-----------------------------------------------------------------------------
(***************************************************************************)
(* Types.                                                                  *)
(***************************************************************************)

\* The initial states.
LEMMA InitOK == Init => IInv /\ Current /\ AnswerTellsTruth
<1> SUFFICES ASSUME Init PROVE IInv /\ Current /\ AnswerTellsTruth
  OBVIOUS
<1>1. request \in [Clients -> AllRequests]
  <2>1. ASSUME NEW c \in Clients PROVE \E r : r \in AllRequests
    BY SubmissionAssumption DEF AllRequests
  <2>2. ASSUME NEW c \in Clients PROVE (CHOOSE r \in AllRequests : TRUE) \in AllRequests
    BY <2>1
  <2> QED
    BY <2>2 DEF Init
<1>2. TypeOK
  <2>1. <<>> \in Seq(SkipReasons \cup Acceptances) /\ <<>> \in Seq(Jobs \cup {NoJob})
    OBVIOUS
  <2>2. /\ outcome \in [Clients -> Seq(SkipReasons \cup Acceptances)]
        /\ seen \in [Clients -> Seq(Jobs \cup {NoJob})]
    BY <2>1 DEF Init
  <2>3. sends \in [Clients -> Nat] /\ \A c \in Clients : sends[c] <= MaxSends[c]
    BY SubmissionAssumption DEF Init
  <2>4. crashes \in 0..MaxCrashes
    BY SubmissionAssumption DEF Init
  <2> QED
    BY <1>1, <2>2, <2>3, <2>4 DEF Init, TypeOK
<1>3. Flow /\ Unfinished
  BY DEF Init, Flow, Unfinished
<1>4. Inspected
  BY DEF Init, Inspected
<1>5. Current
  BY DEF Init, Current
<1>6. AnswerTellsTruth
  BY DEF Init, AnswerTellsTruth, Mine
<1> QED
  BY <1>2, <1>3, <1>4, <1>5, <1>6 DEF IInv

\* Answering a request keeps the types.
LEMMA AnswersType ==
    ASSUME TypeOK, NEW c \in Clients, NEW code \in {"202", "500"}, Answers(c, code)
    PROVE  /\ pc' \in [Clients -> {"idle", "inspect", "register", "gather", "sending"}]
           /\ answer' \in [Clients -> {"none", "202", "400", "422", "500"}]
           /\ outcome' \in [Clients -> Seq(SkipReasons \cup Acceptances)]
           /\ seen' \in [Clients -> Seq(Jobs \cup {NoJob})]
           /\ request' = request /\ sends' = sends
<1>1. <<>> \in Seq(SkipReasons \cup Acceptances) /\ <<>> \in Seq(Jobs \cup {NoJob})
  OBVIOUS
<1> QED
  BY <1>1 DEF TypeOK, Answers

\* A request is refused with 400 or 422.
LEMMA RefusalType ==
    ASSUME NEW r PROVE Refusal(r) \in {"none", "400", "422"}
  BY DEF Refusal

\* Every step keeps the types.
LEMMA StepType == IInv /\ [Next]_vars => TypeOK'
<1> SUFFICES ASSUME IInv, [Next]_vars PROVE TypeOK'
  OBVIOUS
<1>0. TypeOK
  BY DEF IInv
<1>1. ASSUME NEW c \in Clients, Receive(c) PROVE TypeOK'
  <2>1. PICK r \in Requests[c] :
          /\ request' = [request EXCEPT ![c] = r]
          /\ answer' = [answer EXCEPT ![c] = Refusal(r)]
          /\ pc' = [pc EXCEPT ![c] = IF Refusal(r) = "none" THEN "inspect" ELSE "idle"]
    BY <1>1 DEF Receive
  <2>2. r \in AllRequests
    BY DEF AllRequests
  <2>3. sends' \in [Clients -> Nat] /\ \A d \in Clients : sends'[d] <= MaxSends[d]
    <3>1. sends' = [sends EXCEPT ![c] = sends[c] + 1] /\ sends[c] < MaxSends[c]
      BY <1>1 DEF Receive
    <3>2. sends \in [Clients -> Nat] /\ \A d \in Clients : sends[d] <= MaxSends[d]
      BY <1>0 DEF TypeOK
    <3>3. \A d \in Clients : MaxSends[d] \in Nat
      BY SubmissionAssumption
    <3>4. sends[c] + 1 \in Nat /\ sends[c] + 1 <= MaxSends[c]
      BY <3>1, <3>2, <3>3
    <3>5. sends' \in [Clients -> Nat]
      BY <3>1, <3>2, <3>4
    <3>6. ASSUME NEW d \in Clients PROVE sends'[d] <= MaxSends[d]
      BY <3>1, <3>2, <3>4
    <3> QED
      BY <3>5, <3>6
  <2>6. answer' \in [Clients -> {"none", "202", "400", "422", "500"}]
    BY <2>1, <1>0, RefusalType DEF TypeOK
  <2>7. /\ request' \in [Clients -> AllRequests]
        /\ pc' \in [Clients -> {"idle", "inspect", "register", "gather", "sending"}]
    BY <1>0, <2>1, <2>2 DEF TypeOK
  <2> QED
    BY <1>0, <1>1, <2>3, <2>6, <2>7 DEF Receive, Registered, TypeOK
<1>2. ASSUME NEW c \in Clients, RegisterBatch(c) PROVE TypeOK'
  <2>1. pc[c] = "register" /\ \A j \in Accepted(c) : j \in Jobs /\ PlaceOf(c, j) \in Places
    BY <1>2, AcceptedItem DEF RegisterBatch
  <2>2. <<>> \in Seq(Jobs \cup {NoJob})
    OBVIOUS
  <2>3. seen' \in [Clients -> Seq(Jobs \cup {NoJob})]
    BY <1>0, <1>2, <2>2 DEF RegisterBatch, TypeOK
  <2>4. raced' \subseteq Places
    BY <1>0, <1>2, <2>1 DEF RegisterBatch, TypeOK, Overtaken
  <2>5. status' \in [Jobs -> {"none", "PENDING", "INDEXED", "FAILED"}]
    BY <1>0, <1>2 DEF RegisterBatch, TypeOK
  <2>6. place' \in [Jobs -> Places \cup {NoJob}]
    BY <1>0, <1>2, <2>1 DEF RegisterBatch, TypeOK
  <2>7. latest' \in [Places -> Jobs \cup {NoJob}]
    <3>1. PICK older \in SUBSET Overtaken(c) :
            latest' = [p \in Places |->
                          IF \E j \in Accepted(c) \ older : PlaceOf(c, j) = p
                          THEN CHOOSE j \in Accepted(c) \ older : PlaceOf(c, j) = p
                          ELSE latest[p]]
      BY <1>2 DEF RegisterBatch
    <3>2. ASSUME NEW p \in Places, \E j \in Accepted(c) \ older : PlaceOf(c, j) = p
          PROVE  (CHOOSE j \in Accepted(c) \ older : PlaceOf(c, j) = p) \in Jobs
      BY <2>1, <3>2
    <3> QED
      BY <1>0, <3>1, <3>2 DEF TypeOK
  <2>8. pc' \in [Clients -> {"idle", "inspect", "register", "gather", "sending"}]
    BY <1>0, <1>2 DEF RegisterBatch, TypeOK
  <2> QED
    BY <1>0, <1>2, <2>3, <2>4, <2>5, <2>6, <2>7, <2>8 DEF RegisterBatch, TypeOK
<1>9. ASSUME NEW c \in Clients, Inspect(c) PROVE TypeOK'
  <2> DEFINE i == Len(outcome[c]) + 1
  <2>1. /\ pc[c] = "inspect"
        /\ outcome' = [outcome EXCEPT ![c] = Append(@, Outcome(c, i))]
        /\ seen' = [seen EXCEPT ![c] = Append(@, latest[PlaceAt(c, i)])]
        /\ pc' = [pc EXCEPT ![c] = IF i = Len(request[c].items) THEN "register" ELSE @]
    BY <1>9 DEF Inspect
  <2>2. /\ Len(outcome[c]) \in Nat /\ Len(request[c].items) \in Nat
        /\ Len(outcome[c]) < Len(request[c].items)
    BY <1>0, <2>1, SubmissionAssumption DEF IInv, Inspected, TypeOK
  <2>3. latest[PlaceAt(c, i)] \in Jobs \cup {NoJob}
    <3>1. i \in 1..Len(request[c].items)
      BY <2>2
    <3>2. PlaceAt(c, i) \in Places
      BY <1>0, <2>1, <3>1, ItemPlace DEF IInv
    <3> QED
      BY <1>0, <3>2 DEF TypeOK
  <2>4. Outcome(c, i) \in SkipReasons \cup Acceptances
    BY OutcomeType
  <2> HIDE DEF i
  <2>5. outcome' \in [Clients -> Seq(SkipReasons \cup Acceptances)]
    BY <1>0, <2>1, <2>4 DEF TypeOK
  <2>6. seen' \in [Clients -> Seq(Jobs \cup {NoJob})]
    BY <1>0, <2>1, <2>3 DEF TypeOK
  <2>7. pc' \in [Clients -> {"idle", "inspect", "register", "gather", "sending"}]
    BY <1>0, <2>1 DEF TypeOK
  <2> QED
    BY <1>0, <1>9, <2>5, <2>6, <2>7 DEF Inspect, Registered, TypeOK
<1>3. ASSUME NEW c \in Clients, RegisterFails(c) \/ Succeed(c) \/ GiveUp(c) PROVE TypeOK'
  BY <1>0, <1>3, AnswersType DEF RegisterFails, Succeed, GiveUp, Registered, TypeOK
<1>4. ASSUME NEW c \in Clients, Gather(c) PROVE TypeOK'
  BY <1>0, <1>4 DEF Gather, Registered, TypeOK, Ongoing
<1>5. ASSUME NEW j \in Jobs, Call(j) PROVE TypeOK'
  BY <1>0, <1>5 DEF Call, Connect, EnqueueJob, CallFails, CallGoes, Handled, Registered, TypeOK, Ongoing
<1>6. ASSUME NEW j \in Jobs, Work(j) PROVE TypeOK'
  <2>1. raced' \subseteq Places
    BY <1>0, <1>6 DEF Work, WorkedOff, TypeOK
  <2> QED
    BY <1>0, <1>6, <2>1 DEF Work, Handled, TypeOK
<1>7. CASE Crash
  <2>1. crashes' \in 0..MaxCrashes
    BY <1>0, <1>7, SubmissionAssumption DEF Crash, TypeOK
  <2>2. send' \in [Jobs -> Ongoing \cup {"none", "sent", "failed"}]
    BY <1>0, <1>7 DEF Crash, TypeOK
  <2>3. /\ pc' \in [Clients -> {"idle", "inspect", "register", "gather", "sending"}]
        /\ connected' \in BOOLEAN
    BY <1>7 DEF Crash
  <2>4. /\ outcome' \in [Clients -> Seq(SkipReasons \cup Acceptances)]
        /\ seen' \in [Clients -> Seq(Jobs \cup {NoJob})]
    <3>1. <<>> \in Seq(SkipReasons \cup Acceptances) /\ <<>> \in Seq(Jobs \cup {NoJob})
      OBVIOUS
    <3> QED
      BY <1>7, <3>1 DEF Crash
  <2> QED
    BY <1>0, <1>7, <2>1, <2>2, <2>3, <2>4 DEF Crash, Registered, TypeOK
<1>8. CASE UNCHANGED vars
  BY <1>0, <1>8 DEF vars, TypeOK
<1> QED
  BY <1>1, <1>2, <1>3, <1>4, <1>5, <1>6, <1>7, <1>8, <1>9 DEF Next, Handlers, Calls, Workers, Handle

-----------------------------------------------------------------------------
(***************************************************************************)
(* Handlers, and the truth of their answers.                               *)
(***************************************************************************)

\* A call to the dispatcher changes its own job only.
LEMMA CallFrom ==
    ASSUME TypeOK, NEW j \in Jobs, Call(j)
    PROVE  /\ send[j] \in Ongoing /\ UNCHANGED <<pc, request, sends, answer, status>>
           /\ \A k \in Jobs \ {j} : send'[k] = send[k]
           /\ queue' \subseteq queue \cup {j}
  BY DEF Call, Connect, EnqueueJob, CallFails, CallGoes, Handled, Registered, TypeOK, Ongoing

\* Every step keeps handlers and jobs in agreement.
LEMMA StepFlow == TypeOK /\ Flow /\ [Next]_vars => Flow'
<1> SUFFICES ASSUME TypeOK, Flow, [Next]_vars PROVE Flow'
  OBVIOUS
<1>1. ASSUME NEW c \in Clients, Receive(c) PROVE Flow'
  <2>1. PICK r \in Requests[c] :
          /\ request' = [request EXCEPT ![c] = r]
          /\ answer' = [answer EXCEPT ![c] = Refusal(r)]
          /\ pc' = [pc EXCEPT ![c] = IF Refusal(r) = "none" THEN "inspect" ELSE "idle"]
    BY <1>1 DEF Receive
  <2>2. sends' = [sends EXCEPT ![c] = sends[c] + 1] /\ UNCHANGED <<status, send, queue>>
    BY <1>1 DEF Receive, Registered
  <2>3. \A d \in Clients : pc'[d] # "idle" => answer'[d] = "none" /\ Refusal(request'[d]) = "none"
    BY <2>1 DEF Flow, TypeOK
  <2>4. ASSUME NEW j \in Jobs, j[2] > sends'[j[1]] PROVE status'[j] = "none"
    <3>1. j[1] \in Clients /\ j[2] \in Nat /\ j[2] > sends[j[1]]
      BY <2>2, <2>4, JobParts DEF TypeOK
    <3> QED
      BY <2>2, <3>1 DEF Flow
  <2>5. ASSUME NEW d \in Clients, pc'[d] \in {"inspect", "register"},
               NEW j \in Jobs, j[1] = d, j[2] = sends'[d]
        PROVE  status'[j] = "none"
    <3>1. CASE d = c
      <4>1. j[2] > sends[j[1]]
        BY <2>2, <2>5, <3>1 DEF TypeOK
      <4> QED
        BY <2>2, <4>1 DEF Flow
    <3>2. CASE d # c
      BY <2>1, <2>2, <2>5, <3>2 DEF Flow, Mine, TypeOK
    <3> QED
      BY <3>1, <3>2
  <2> QED
    BY <2>2, <2>3, <2>4, <2>5 DEF Flow, Mine
<1>2. ASSUME NEW c \in Clients, RegisterBatch(c) PROVE Flow'
  <2>1. /\ pc[c] = "register" /\ pc' = [pc EXCEPT ![c] = "gather"]
        /\ UNCHANGED <<request, sends, answer, send, queue>>
        /\ status' = [j \in Jobs |-> IF j \in Accepted(c) THEN "PENDING" ELSE status[j]]
    BY <1>2 DEF RegisterBatch
  <2>2. ASSUME NEW j \in Jobs, status'[j] # status[j] PROVE j[1] = c /\ j[2] = sends[c]
    BY <2>1, <2>2 DEF Accepted, Mine
  <2>3. \A j \in Jobs : status'[j] = status[j] \/ status'[j] = "PENDING"
    BY <2>1
  <2>4. ASSUME NEW j \in Jobs, j[2] > sends[j[1]] PROVE status'[j] = "none"
    <3>1. j[2] \in Nat /\ sends[j[1]] \in Nat
      BY JobParts DEF TypeOK
    <3> QED
      BY <2>2, <2>4, <3>1 DEF Flow
  <2>5. ASSUME NEW d \in Clients, pc'[d] \in {"inspect", "register"}, NEW j \in Mine(d)
        PROVE  status'[j] = "none"
    <3>1. d # c /\ pc[d] \in {"inspect", "register"} /\ j[1] = d /\ j \in Jobs
      BY <2>1, <2>5 DEF TypeOK, Mine
    <3> QED
      BY <2>2, <3>1 DEF Flow
  <2>6. \A d \in Clients : pc'[d] # "idle" => pc[d] # "idle"
    BY <2>1 DEF TypeOK
  <2> QED
    BY <2>1, <2>3, <2>4, <2>5, <2>6 DEF Flow, Mine
<1>3. ASSUME NEW c \in Clients, RegisterFails(c) \/ Succeed(c) \/ GiveUp(c) PROVE Flow'
  <2>1. /\ pc' = [pc EXCEPT ![c] = "idle"] /\ UNCHANGED <<request, sends, status, send, queue>>
        /\ \A d \in Clients : d # c => answer'[d] = answer[d]
    BY <1>3 DEF RegisterFails, Succeed, GiveUp, Answers, Registered, TypeOK
  <2>2. \A d \in Clients : pc'[d] # "idle" => d # c /\ pc'[d] = pc[d]
    BY <2>1 DEF TypeOK
  <2> QED
    BY <2>1, <2>2 DEF Flow, Mine
<1>4. ASSUME NEW c \in Clients, Gather(c) PROVE Flow'
  <2>1. /\ pc[c] = "gather" /\ pc' = [pc EXCEPT ![c] = "sending"]
        /\ UNCHANGED <<request, sends, answer, status, queue>>
        /\ \A j \in Jobs : send'[j] = send[j] \/ status[j] # "none"
    BY <1>4 DEF Gather, Registered
  <2>2. \A d \in Clients : /\ pc'[d] # "idle" => pc[d] # "idle"
                           /\ pc'[d] \in {"inspect", "register"} => pc'[d] = pc[d]
    BY <2>1 DEF TypeOK
  <2> QED
    BY <2>1, <2>2 DEF Flow, Mine
<1>5. ASSUME NEW j \in Jobs, Call(j) PROVE Flow'
  <2>1. status[j] # "none"
    BY <1>5, CallFrom DEF Flow, Ongoing
  <2> QED
    BY <1>5, <2>1, CallFrom DEF Flow, Mine
<1>6. ASSUME NEW j \in Jobs, Work(j) PROVE Flow'
  <2>1. /\ j \in queue /\ queue' = queue \ {j} /\ UNCHANGED <<pc, request, sends, answer, send>>
        /\ status'[j] # "none" /\ \A k \in Jobs : k # j => status'[k] = status[k]
    BY <1>6 DEF Work, Handled, TypeOK
  <2>2. status[j] # "none"
    BY <2>1 DEF Flow
  <2> QED
    BY <2>1, <2>2 DEF Flow, Mine
<1>7. CASE Crash
  <2>1. /\ \A c \in Clients : pc'[c] = "idle"
        /\ UNCHANGED <<sends, status, queue>>
        /\ \A j \in Jobs : send'[j] = "none" \/ send'[j] = send[j]
    BY <1>7 DEF Crash, Registered
  <2> QED
    BY <2>1 DEF Flow
<1>9. ASSUME NEW c \in Clients, Inspect(c) PROVE Flow'
  <2>1. /\ pc[c] = "inspect" /\ pc'[c] \in {"inspect", "register"}
        /\ \A d \in Clients : d # c => pc'[d] = pc[d]
        /\ UNCHANGED <<request, sends, answer, status, send, queue>>
    BY <1>9 DEF Inspect, Registered, TypeOK
  <2> QED
    BY <2>1 DEF Flow, Mine
<1>8. CASE UNCHANGED vars
  BY <1>8 DEF vars, Flow, Mine
<1> QED
  BY <1>1, <1>2, <1>3, <1>4, <1>5, <1>6, <1>7, <1>8, <1>9 DEF Next, Handlers, Calls, Workers, Handle

\* Every step keeps jobs that are not sent unfinished.
LEMMA StepUnfinished == IInv /\ [Next]_vars => Unfinished'
<1> SUFFICES ASSUME TypeOK, Flow, Unfinished, Inspected, [Next]_vars PROVE Unfinished'
  BY DEF IInv
<1>1. ASSUME NEW c \in Clients, Receive(c) PROVE Unfinished'
  <2>1. /\ UNCHANGED <<status, send, queue>> /\ pc'[c] # "gather"
        /\ \A d \in Clients : d # c => pc'[d] = pc[d] /\ sends'[d] = sends[d]
    BY <1>1 DEF Receive, Registered, TypeOK
  <2> QED
    BY <2>1 DEF Unfinished, Mine
<1>2. ASSUME NEW c \in Clients, Inspect(c) PROVE Unfinished'
  <2>1. /\ UNCHANGED <<status, send, queue, sends>> /\ pc'[c] # "gather"
        /\ \A d \in Clients : d # c => pc'[d] = pc[d]
    BY <1>2 DEF Inspect, Registered, TypeOK
  <2> QED
    BY <2>1 DEF Unfinished, Mine
<1>3. ASSUME NEW c \in Clients, RegisterBatch(c) PROVE Unfinished'
  <2>1. /\ UNCHANGED <<send, queue, sends>> /\ pc[c] = "register"
        /\ \A d \in Clients : d # c => pc'[d] = pc[d]
        /\ \A j \in Jobs : status'[j] = status[j] \/ status'[j] = "PENDING"
    BY <1>3 DEF RegisterBatch, TypeOK
  <2>2. ASSUME NEW j \in Mine(c) PROVE send[j] = "none"
    BY <2>1 DEF Flow, Mine
  <2> QED
    BY <2>1, <2>2 DEF Unfinished, Mine, TypeOK
<1>4. ASSUME NEW c \in Clients, RegisterFails(c) \/ Succeed(c) \/ GiveUp(c) PROVE Unfinished'
  <2>1. /\ UNCHANGED <<status, send, queue, sends>> /\ pc'[c] # "gather"
        /\ \A d \in Clients : d # c => pc'[d] = pc[d]
    BY <1>4 DEF RegisterFails, Succeed, GiveUp, Answers, Registered, TypeOK
  <2> QED
    BY <2>1 DEF Unfinished, Mine
<1>5. ASSUME NEW c \in Clients, Gather(c) PROVE Unfinished'
  <2>1. /\ UNCHANGED <<status, queue, sends>> /\ pc[c] = "gather" /\ pc'[c] # "gather"
        /\ \A d \in Clients : d # c => pc'[d] = pc[d]
        /\ \A j \in Jobs : j \notin Mine(c) => send'[j] = send[j]
    BY <1>5 DEF Gather, Registered, TypeOK
  <2>2. \A j \in Mine(c) : send[j] = "none"
    BY <2>1 DEF Unfinished
  <2>3. \A d \in Clients : d # c => \A j \in Mine(d) : j \notin Mine(c)
    BY DEF Mine
  <2> QED
    BY <2>1, <2>2, <2>3 DEF Unfinished, Mine
<1>6. ASSUME NEW j \in Jobs, Call(j) PROVE Unfinished'
  <2>1. /\ send[j] \in Ongoing /\ UNCHANGED <<pc, sends, status>>
        /\ \A k \in Jobs \ {j} : send'[k] = send[k]
    BY <1>6, CallFrom
  <2>2. \/ send'[j] \in Ongoing /\ queue' = queue
        \/ send'[j] \in {"sent", "failed"} /\ queue' \in {queue, queue \cup {j}}
    BY <1>6 DEF Call, Connect, EnqueueJob, CallFails, CallGoes, TypeOK, Ongoing
  <2>3. status[j] = "PENDING"
    BY <2>1 DEF Flow, Unfinished, Ongoing
  <2>4. \A d \in Clients : pc[d] = "gather" => j \notin Mine(d)
    BY <2>1 DEF Unfinished, Ongoing
  <2> QED
    BY <2>1, <2>2, <2>3, <2>4 DEF Unfinished, Mine, Ongoing, TypeOK
<1>7. ASSUME NEW j \in Jobs, Work(j) PROVE Unfinished'
  <2>1. /\ j \in queue /\ queue' = queue \ {j} /\ UNCHANGED <<pc, sends, send>>
        /\ \A k \in Jobs : k # j => status'[k] = status[k]
    BY <1>7 DEF Work, Handled, TypeOK
  <2> QED
    BY <2>1 DEF Unfinished, Mine, TypeOK
<1>8. CASE Crash
  <2>1. /\ \A c \in Clients : pc'[c] = "idle"
        /\ UNCHANGED <<status, queue>>
        /\ \A j \in Jobs : send'[j] = send[j] \/ (send[j] \in Ongoing /\ send'[j] = "none")
    BY <1>8 DEF Crash, Registered
  <2> QED
    BY <2>1 DEF Unfinished, TypeOK
<1>9. CASE UNCHANGED vars
  BY <1>9 DEF vars, Unfinished, Mine
<1> QED
  BY <1>1, <1>2, <1>3, <1>4, <1>5, <1>6, <1>7, <1>8, <1>9
  DEF Next, Handlers, Calls, Workers, Handle

\* Every step keeps what is found of items true, and failed jobs failed.
LEMMA StepInspected == IInv /\ [Next]_vars => Inspected'
<1> SUFFICES ASSUME TypeOK, Flow, Unfinished, Inspected, [Next]_vars PROVE Inspected'
  BY DEF IInv
<1>0. ASSUME NEW c \in Clients
      PROVE  /\ outcome[c] \in Seq(SkipReasons \cup Acceptances) /\ seen[c] \in Seq(Jobs \cup {NoJob})
             /\ Len(outcome[c]) \in Nat /\ Len(request[c].items) \in Nat
  BY SubmissionAssumption DEF TypeOK
<1>1. ASSUME NEW c \in Clients, Receive(c) PROVE Inspected'
  <2>1. PICK r \in Requests[c] :
          /\ request' = [request EXCEPT ![c] = r]
          /\ pc' = [pc EXCEPT ![c] = IF Refusal(r) = "none" THEN "inspect" ELSE "idle"]
    BY <1>1 DEF Receive
  <2>2. pc[c] = "idle" /\ UNCHANGED <<outcome, seen, status>>
    BY <1>1 DEF Receive, Registered
  <2>3. request'[c] = r /\ r.items \in Seq(Urls) /\ r.items # <<>>
    BY <2>1, SubmissionAssumption DEF TypeOK, AllRequests
  <2>4. outcome[c] = <<>> /\ seen[c] = <<>> /\ 0 < Len(request'[c].items)
    <3>1. Len(r.items) \in Nat \ {0}
      BY <2>3
    <3> QED
      BY <2>2, <2>3, <3>1 DEF Inspected
  <2>5. /\ pc'[c] # "register" /\ pc'[c] \in {"idle", "inspect"}
        /\ \A d \in Clients : d # c => pc'[d] = pc[d] /\ request'[d] = request[d]
    BY <2>1 DEF TypeOK
  <2> QED
    BY <2>2, <2>4, <2>5 DEF Inspected
<1>2. ASSUME NEW c \in Clients, Inspect(c) PROVE Inspected'
  <2> DEFINE i == Len(outcome[c]) + 1
             out == Outcome(c, i)
             last == latest[PlaceAt(c, i)]
  <2>1. /\ pc[c] = "inspect" /\ UNCHANGED <<request, status>>
        /\ outcome' = [outcome EXCEPT ![c] = Append(@, out)]
        /\ seen' = [seen EXCEPT ![c] = Append(@, last)]
        /\ pc' = [pc EXCEPT ![c] = IF i = Len(request[c].items) THEN "register" ELSE @]
    BY <1>2 DEF Inspect, Registered
  <2>2. /\ Len(outcome[c]) \in Nat /\ Len(request[c].items) \in Nat
        /\ Len(outcome[c]) < Len(request[c].items) /\ Len(seen[c]) = Len(outcome[c])
    BY <1>0, <2>1 DEF Inspected
  <2>3. /\ out \in Acceptances => ~Repeats(request[c].items, i) /\ request[c].items[i] \in AllowedUrls
        /\ out = "accept_new" => last = NoJob
        /\ out = "reingest_failed" => last \in Jobs /\ status[last] = "FAILED"
    <3>1. PlaceAt(c, i) \in Places
      BY <2>1, <2>2, ItemPlace
    <3> QED
      BY <3>1, OutcomeSays DEF TypeOK
  <2>4. outcome[c] \in Seq(SkipReasons \cup Acceptances) /\ seen[c] \in Seq(Jobs \cup {NoJob})
    BY <1>0
  <2> HIDE DEF out, last
  <2>5. outcome'[c] = Append(outcome[c], out) /\ seen'[c] = Append(seen[c], last)
    BY <2>1 DEF TypeOK
  <2>6. /\ Len(outcome'[c]) = i /\ Len(seen'[c]) = i
        /\ outcome'[c][i] = out /\ seen'[c][i] = last
        /\ \A k \in 1..Len(outcome[c]) : outcome'[c][k] = outcome[c][k] /\ seen'[c][k] = seen[c][k]
    BY <2>2, <2>4, <2>5
  <2>7. /\ pc'[c] = IF i = Len(request[c].items) THEN "register" ELSE "inspect"
        /\ \A d \in Clients : d # c => /\ pc'[d] = pc[d] /\ outcome'[d] = outcome[d]
                                      /\ seen'[d] = seen[d]
    BY <2>1 DEF TypeOK
  <2>8. \A k \in 1..i :
           /\ outcome'[c][k] \in Acceptances =>
                 ~Repeats(request[c].items, k) /\ request[c].items[k] \in AllowedUrls
           /\ outcome'[c][k] = "accept_new" => seen'[c][k] = NoJob
           /\ outcome'[c][k] = "reingest_failed" =>
                 seen'[c][k] \in Jobs /\ status[seen'[c][k]] = "FAILED"
    <3>1. \A k \in 1..i : k = i \/ k \in 1..Len(outcome[c])
      BY <2>2
    <3> HIDE DEF i
    <3> QED
      BY <2>1, <2>3, <2>6, <3>1 DEF Inspected
  <2>9. i <= Len(request[c].items) /\ (i # Len(request[c].items) => i < Len(request[c].items))
    BY <2>2
  <2> HIDE DEF i
  <2>10. ASSUME NEW d \in Clients
         PROVE  /\ pc'[d] = "idle" => outcome'[d] = <<>> /\ seen'[d] = <<>>
                /\ pc'[d] = "inspect" => Len(outcome'[d]) < Len(request'[d].items)
                /\ pc'[d] # "idle" => Len(outcome'[d]) <= Len(request'[d].items)
                /\ pc'[d] \in {"inspect", "register"} => Len(seen'[d]) = Len(outcome'[d])
    <3>1. CASE d = c
      BY <2>1, <2>6, <2>7, <2>9, <3>1
    <3>2. CASE d # c
      BY <2>1, <2>7, <3>2 DEF Inspected
    <3> QED
      BY <3>1, <3>2
  <2>11. ASSUME NEW d \in Clients, pc'[d] \in {"inspect", "register"},
                NEW k \in 1..Len(outcome'[d])
         PROVE  /\ outcome'[d][k] \in Acceptances =>
                      ~Repeats(request'[d].items, k) /\ request'[d].items[k] \in AllowedUrls
                /\ outcome'[d][k] = "accept_new" => seen'[d][k] = NoJob
                /\ outcome'[d][k] = "reingest_failed" =>
                      seen'[d][k] \in Jobs /\ status'[seen'[d][k]] = "FAILED"
    <3>1. CASE d = c
      BY <2>1, <2>6, <2>8, <2>11, <3>1
    <3>2. CASE d # c
      BY <2>1, <2>7, <2>11, <3>2 DEF Inspected
    <3> QED
      BY <3>1, <3>2
  <2> QED
    BY <2>10, <2>11 DEF Inspected
<1>3. ASSUME NEW c \in Clients, RegisterBatch(c) PROVE Inspected'
  <2>1. /\ pc[c] = "register" /\ pc' = [pc EXCEPT ![c] = "gather"]
        /\ seen' = [seen EXCEPT ![c] = <<>>] /\ UNCHANGED <<request, outcome>>
        /\ status' = [j \in Jobs |-> IF j \in Accepted(c) THEN "PENDING" ELSE status[j]]
    BY <1>3 DEF RegisterBatch
  <2>2. \A j \in Accepted(c) : status[j] = "none"
    BY <2>1 DEF Flow, Accepted
  <2>3. \A j \in Jobs : status[j] = "FAILED" => status'[j] = "FAILED"
    BY <2>1, <2>2
  <2>4. /\ pc'[c] = "gather"
        /\ \A d \in Clients : d # c => pc'[d] = pc[d] /\ seen'[d] = seen[d]
    BY <2>1 DEF TypeOK
  <2> QED
    BY <2>1, <2>3, <2>4 DEF Inspected
<1>4. ASSUME NEW c \in Clients, RegisterFails(c) \/ Succeed(c) \/ GiveUp(c) PROVE Inspected'
  <2>1. /\ UNCHANGED <<request, status>> /\ pc'[c] = "idle"
        /\ outcome'[c] = <<>> /\ seen'[c] = <<>>
        /\ \A d \in Clients : d # c => /\ pc'[d] = pc[d] /\ outcome'[d] = outcome[d]
                                      /\ seen'[d] = seen[d]
    BY <1>4 DEF RegisterFails, Succeed, GiveUp, Answers, Registered, TypeOK
  <2> QED
    BY <2>1 DEF Inspected
<1>5. ASSUME NEW c \in Clients, Gather(c) PROVE Inspected'
  <2>1. /\ UNCHANGED <<request, status, outcome, seen>> /\ pc[c] = "gather" /\ pc'[c] = "sending"
        /\ \A d \in Clients : d # c => pc'[d] = pc[d]
    BY <1>5 DEF Gather, Registered, TypeOK
  <2> QED
    BY <2>1 DEF Inspected
<1>6. ASSUME NEW j \in Jobs, Work(j) PROVE Inspected'
  <2>1. /\ j \in queue /\ UNCHANGED <<pc, request, outcome, seen>>
        /\ \A k \in Jobs : k # j => status'[k] = status[k]
    BY <1>6 DEF Work, Handled, TypeOK
  <2>2. status[j] # "FAILED"
    BY <2>1 DEF Unfinished
  <2> QED
    BY <2>1, <2>2 DEF Inspected
<1>7. CASE Crash
  <2>1. \A c \in Clients : pc'[c] = "idle" /\ outcome'[c] = <<>> /\ seen'[c] = <<>>
    BY <1>7 DEF Crash
  <2> QED
    BY <2>1 DEF Inspected
<1>8. CASE UNCHANGED <<pc, request, outcome, seen, status>>
  BY <1>8 DEF Inspected
<1>9. ASSUME NEW j \in Jobs, Call(j) PROVE UNCHANGED <<pc, request, outcome, seen, status>>
  BY <1>9 DEF Call, Connect, EnqueueJob, CallFails, CallGoes, Handled, Registered
<1>10. UNCHANGED vars => UNCHANGED <<pc, request, outcome, seen, status>>
  BY DEF vars
<1> QED
  BY <1>1, <1>2, <1>3, <1>4, <1>5, <1>6, <1>7, <1>8, <1>9, <1>10
  DEF Next, Handlers, Calls, Workers, Handle

\* IInv is inductive.
LEMMA StepIInv == IInv /\ [Next]_vars => IInv'
<1> SUFFICES ASSUME IInv, [Next]_vars PROVE IInv'
  OBVIOUS
<1>1. TypeOK' /\ Flow' /\ Unfinished' /\ Inspected'
  BY StepType, StepFlow, StepUnfinished, StepInspected DEF IInv
<1> QED
  BY <1>1 DEF IInv

\* Every step keeps the answers true.
LEMMA StepAnswers == TypeOK /\ Flow /\ AnswerTellsTruth /\ [Next]_vars => AnswerTellsTruth'
<1> SUFFICES ASSUME TypeOK, Flow, AnswerTellsTruth, [Next]_vars,
                    NEW d \in Clients, NEW k \in Jobs, k[1] = d, k[2] = sends'[d]
             PROVE  /\ answer'[d] = "202" /\ status'[k] # "none" => send'[k] = "sent"
                    /\ answer'[d] \in {"400", "422"} => status'[k] = "none"
  BY DEF AnswerTellsTruth, Mine
<1>1. ASSUME sends'[d] = sends[d], answer'[d] = answer[d],
             status'[k] = "none" <=> status[k] = "none", send[k] = "sent" => send'[k] = "sent"
      PROVE  /\ answer'[d] = "202" /\ status'[k] # "none" => send'[k] = "sent"
             /\ answer'[d] \in {"400", "422"} => status'[k] = "none"
  BY <1>1 DEF AnswerTellsTruth, Mine
<1>2. ASSUME NEW c \in Clients, Receive(c)
      PROVE  /\ answer'[d] = "202" /\ status'[k] # "none" => send'[k] = "sent"
             /\ answer'[d] \in {"400", "422"} => status'[k] = "none"
  <2>1. CASE d = c
    <3>1. sends'[d] = sends[d] + 1 /\ UNCHANGED <<status, send>>
      BY <1>2, <2>1 DEF Receive, Registered, TypeOK
    <3>2. k[2] > sends[k[1]]
      BY <3>1 DEF TypeOK
    <3> QED
      BY <3>1, <3>2 DEF Flow
  <2>2. CASE d # c
    BY <1>1, <1>2, <2>2 DEF Receive, Registered, TypeOK
  <2> QED
    BY <2>1, <2>2
<1>3. ASSUME NEW c \in Clients, RegisterBatch(c)
      PROVE  /\ answer'[d] = "202" /\ status'[k] # "none" => send'[k] = "sent"
             /\ answer'[d] \in {"400", "422"} => status'[k] = "none"
  <2>1. answer[c] = "none" /\ UNCHANGED <<sends, answer, send>>
    BY <1>3 DEF RegisterBatch, Flow
  <2>2. d # c => status'[k] = status[k]
    BY <1>3 DEF RegisterBatch, Accepted, Mine, TypeOK
  <2> QED
    BY <1>1, <2>1, <2>2
<1>4. ASSUME NEW c \in Clients, RegisterFails(c) \/ GiveUp(c)
      PROVE  /\ answer'[d] = "202" /\ status'[k] # "none" => send'[k] = "sent"
             /\ answer'[d] \in {"400", "422"} => status'[k] = "none"
  <2>1. /\ UNCHANGED <<sends, status, send>>
        /\ answer'[d] = IF d = c THEN "500" ELSE answer[d]
    BY <1>4 DEF RegisterFails, GiveUp, Answers, Registered, TypeOK
  <2> QED
    BY <1>1, <2>1
<1>5. ASSUME NEW c \in Clients, Succeed(c)
      PROVE  /\ answer'[d] = "202" /\ status'[k] # "none" => send'[k] = "sent"
             /\ answer'[d] \in {"400", "422"} => status'[k] = "none"
  <2>1. /\ UNCHANGED <<sends, status, send>>
        /\ answer'[d] = IF d = c THEN "202" ELSE answer[d]
        /\ \A j \in Mine(c) : status[j] = "none" \/ send[j] = "sent"
    BY <1>5 DEF Succeed, Answers, Registered, TypeOK
  <2> QED
    BY <1>1, <2>1 DEF Mine
<1>6. ASSUME NEW c \in Clients, Gather(c)
      PROVE  /\ answer'[d] = "202" /\ status'[k] # "none" => send'[k] = "sent"
             /\ answer'[d] \in {"400", "422"} => status'[k] = "none"
  <2>1. answer[c] = "none" /\ UNCHANGED <<sends, answer, status>>
    BY <1>6 DEF Gather, Registered, Flow
  <2>2. d # c => send'[k] = send[k]
    BY <1>6 DEF Gather, Mine, TypeOK
  <2> QED
    BY <1>1, <2>1, <2>2
<1>7. ASSUME NEW j \in Jobs, Call(j)
      PROVE  /\ answer'[d] = "202" /\ status'[k] # "none" => send'[k] = "sent"
             /\ answer'[d] \in {"400", "422"} => status'[k] = "none"
  BY <1>1, <1>7, CallFrom DEF Ongoing
<1>8. ASSUME NEW j \in Jobs, Work(j)
      PROVE  /\ answer'[d] = "202" /\ status'[k] # "none" => send'[k] = "sent"
             /\ answer'[d] \in {"400", "422"} => status'[k] = "none"
  <2>1. status[j] # "none"
    BY <1>8 DEF Work, Flow
  <2>2. UNCHANGED <<sends, answer, send>> /\ (status'[k] = "none" <=> status[k] = "none")
    BY <1>8, <2>1 DEF Work, Handled, TypeOK
  <2> QED
    BY <1>1, <2>2
<1>9. ASSUME Crash
      PROVE  /\ answer'[d] = "202" /\ status'[k] # "none" => send'[k] = "sent"
             /\ answer'[d] \in {"400", "422"} => status'[k] = "none"
  BY <1>1, <1>9 DEF Crash, Registered, Ongoing
<1>11. ASSUME NEW c \in Clients, Inspect(c)
       PROVE  /\ answer'[d] = "202" /\ status'[k] # "none" => send'[k] = "sent"
              /\ answer'[d] \in {"400", "422"} => status'[k] = "none"
  BY <1>1, <1>11 DEF Inspect, Registered
<1>10. ASSUME UNCHANGED vars
       PROVE  /\ answer'[d] = "202" /\ status'[k] # "none" => send'[k] = "sent"
              /\ answer'[d] \in {"400", "422"} => status'[k] = "none"
  BY <1>1, <1>10 DEF vars
<1> QED
  BY <1>2, <1>3, <1>4, <1>5, <1>6, <1>7, <1>8, <1>9, <1>10, <1>11
  DEF Next, Handlers, Calls, Workers, Handle

-----------------------------------------------------------------------------
(***************************************************************************)
(* One live job per document.                                              *)
(***************************************************************************)

\* Every step keeps an unfinished job the latest of its document, or the document raced.
LEMMA StepCurrent == IInv /\ Current /\ [Next]_vars => Current'
<1> SUFFICES ASSUME IInv, Current, [Next]_vars PROVE Current'
  OBVIOUS
<1>0. TypeOK
  BY DEF IInv
<1>1. ASSUME NEW c \in Clients, RegisterBatch(c) PROVE Current'
  <2>1. /\ pc[c] = "register"
        /\ \A j \in Overtaken(c) : outcome[c][j[3]] # "accept_new"
        /\ status' = [j \in Jobs |-> IF j \in Accepted(c) THEN "PENDING" ELSE status[j]]
        /\ place' = [j \in Jobs |-> IF j \in Accepted(c) THEN PlaceOf(c, j) ELSE place[j]]
        /\ raced' = raced \cup {PlaceOf(c, j) : j \in Overtaken(c)}
    BY <1>1 DEF RegisterBatch
  <2>2. PICK older \in SUBSET Overtaken(c) :
          latest' = [p \in Places |->
                        IF \E j \in Accepted(c) \ older : PlaceOf(c, j) = p
                        THEN CHOOSE j \in Accepted(c) \ older : PlaceOf(c, j) = p ELSE latest[p]]
    BY <1>1 DEF RegisterBatch
  <2>3. ASSUME NEW j \in Accepted(c)
        PROVE  place'[j] \in Places /\ (place'[j] \in raced' \/ latest'[place'[j]] = j)
    <3>1. j \in Jobs /\ PlaceOf(c, j) \in Places /\ place'[j] = PlaceOf(c, j)
      BY <2>1, AcceptedItem
    <3>2. CASE j \in Overtaken(c)
      BY <2>1, <3>1, <3>2
    <3>3. CASE j \notin Overtaken(c)
      <4>1. j \in Accepted(c) \ older
        BY <3>3
      <4>2. PICK k \in Accepted(c) \ older :
               PlaceOf(c, k) = PlaceOf(c, j) /\ latest'[PlaceOf(c, j)] = k
        BY <2>2, <3>1, <4>1
      <4>3. k = j
        BY <2>1, <4>2, AcceptedOnce
      <4> QED
        BY <3>1, <4>2, <4>3
    <3> QED
      BY <3>2, <3>3
  <2>4. ASSUME NEW j \in Jobs, j \notin Accepted(c), status[j] = "PENDING"
        PROVE  place'[j] \in Places /\ (place'[j] \in raced' \/ latest'[place'[j]] = j)
    <3>1. /\ place'[j] = place[j] /\ place[j] \in Places
          /\ place[j] \in raced \/ latest[place[j]] = j
      BY <2>1, <2>4 DEF Current
    <3>2. ASSUME place[j] \notin raced', NEW k \in Accepted(c), PlaceOf(c, k) = place[j]
          PROVE  FALSE
      <4>1. k \notin Overtaken(c)
        BY <2>1, <3>2
      <4>2. seen[c][k[3]] = j
        BY <2>1, <3>1, <3>2, <4>1 DEF Overtaken
      <4>3. seen[c][k[3]] = NoJob \/ status[seen[c][k[3]]] = "FAILED"
        BY <2>1, AcceptedItem
      <4> QED
        BY <2>4, <4>2, <4>3, SubmissionAssumption
    <3> QED
      BY <2>1, <2>2, <3>1, <3>2
  <2> QED
    BY <2>1, <2>3, <2>4 DEF Current
<1>2. ASSUME NEW j \in Jobs, Work(j) PROVE Current'
  <2>1. /\ UNCHANGED <<place, latest>> /\ status'[j] # "PENDING"
        /\ \A k \in Jobs : k # j => status'[k] = status[k]
        /\ raced' = {p \in raced : \E k \in Jobs \ {j} : status[k] = "PENDING" /\ place[k] = p}
    BY <1>0, <1>2 DEF Work, WorkedOff, TypeOK
  <2> QED
    BY <2>1 DEF Current
<1>3. CASE UNCHANGED <<status, place, latest, raced>>
  BY <1>3 DEF Current
<1>4. ASSUME NEW c \in Clients,
             Receive(c) \/ Inspect(c) \/ RegisterFails(c) \/ Gather(c) \/ Succeed(c) \/ GiveUp(c)
      PROVE  UNCHANGED <<status, place, latest, raced>>
  BY <1>4 DEF Receive, Inspect, RegisterFails, Gather, Succeed, GiveUp, Registered
<1>5. ASSUME NEW j \in Jobs, Call(j) PROVE UNCHANGED <<status, place, latest, raced>>
  BY <1>5 DEF Call, Connect, EnqueueJob, CallFails, CallGoes, Registered
<1>6. Crash \/ UNCHANGED vars => UNCHANGED <<status, place, latest, raced>>
  BY DEF Crash, Registered, vars
<1> QED
  BY <1>1, <1>2, <1>3, <1>4, <1>5, <1>6 DEF Next, Handlers, Calls, Workers, Handle

\* The latest job of a document is one.
LEMMA CurrentIsUnique == Current => RetriesDoNotDouble
  BY DEF Current, RetriesDoNotDouble

-----------------------------------------------------------------------------
(***************************************************************************)
(* Paths and their segments.                                               *)
(***************************************************************************)

\* The characters of a path; that the slash is a string the provers have to be told.
Chars == STRING \cup {"/"}

\* Paths are sequences of characters.
LEMMA CharPaths ==
    ASSUME NEW path \in Seq(STRING) PROVE path \in Seq(Chars)
<1>1. ASSUME NEW S, NEW T, S \subseteq T, NEW s \in Seq(S) PROVE s \in Seq(T)
  BY <1>1
<1>2. STRING \subseteq Chars
  BY Zenon DEF Chars
<1> QED
  BY <1>1, <1>2, Zenon

\* A path without the slashes at its end ends in another character, and only slashes follow.
LEMMA WithoutIs ==
    ASSUME NEW path \in Seq(Chars)
    PROVE  LET m == Len(WithoutSlashes(path)) IN
           /\ WithoutSlashes(path) \in Seq(Chars) /\ m \in 0..Len(path)
           /\ \A i \in 1..m : WithoutSlashes(path)[i] = path[i]
           /\ m # 0 => path[m] # "/"
           /\ \A i \in m + 1..Len(path) : path[i] = "/"
<1> DEFINE A == {0} \cup {i \in DOMAIN path : path[i] # "/"}
           n == Max(A)
<1>1. Len(path) \in Nat /\ DOMAIN path = 1..Len(path)
  OBVIOUS
<1>2. A \in SUBSET (0..Len(path)) /\ A # {}
  BY <1>1
<1>3. n \in A /\ \A i \in A : n >= i
  <2> HIDE DEF A
  <2> QED
    BY <1>1, <1>2, MaxOf
<1>4. n \in 0..Len(path) /\ (n # 0 => path[n] # "/")
  BY <1>2, <1>3
<1>5. \A i \in n + 1..Len(path) : path[i] = "/"
  BY <1>1, <1>3, <1>4
<1> HIDE DEF n
<1>6. /\ SubSeq(path, 1, n) \in Seq(Chars) /\ Len(SubSeq(path, 1, n)) = n
      /\ \A i \in 1..n : SubSeq(path, 1, n)[i] = path[i]
  <2>1. \A i \in 1..n : path[i] \in Chars
    BY <1>1, <1>4
  <2>2. n \in Nat /\ n - 1 + 1 = n /\ \A i \in 1..n : 1 + i - 1 = i
    BY <1>4
  <2>3. CASE n = 0
    <3>1. SubSeq(path, 1, n) = <<>>
      BY <2>3
    <3> QED
      BY <2>3, <3>1, EmptySeq
  <2>4. CASE n # 0
    BY <1>1, <1>4, <2>1, <2>2, <2>4, SubSeqProperties
  <2> QED
    BY <2>3, <2>4
<1> QED
  BY <1>4, <1>5, <1>6 DEF n, WithoutSlashes

\* What has been cut so far: one or more segments.
Parts == {parts \in Seq(Seq(Chars)) : parts # <<>>}

\* A character makes a segment, or makes the last one longer.
LEMMA CutIs ==
    ASSUME NEW parts \in Parts, NEW char \in Chars
    PROVE  LET L == Len(parts)
               next == Cut(parts, char) IN
           /\ next \in Parts /\ L \in Nat \ {0} /\ Len(parts[L]) \in Nat
           /\ \A i \in 1..L - 1 : next[i] = parts[i]
           /\ char = "/" => Len(next) = L + 1 /\ next[L] = parts[L] /\ next[L + 1] = <<>>
           /\ char # "/" => /\ Len(next) = L /\ Len(next[L]) = Len(parts[L]) + 1
                            /\ \A o \in 1..Len(parts[L]) : next[L][o] = parts[L][o]
                            /\ next[L][Len(parts[L]) + 1] = char
<1> DEFINE L == Len(parts)
           next == Cut(parts, char)
<1>1. parts \in Seq(Seq(Chars)) /\ L \in Nat \ {0} /\ parts[L] \in Seq(Chars)
      /\ Len(parts[L]) \in Nat /\ DOMAIN parts = 1..L /\ L \in 1..L
  BY EmptySeq, LenProperties DEF Parts
<1>2. CASE char = "/"
  <2>1. next = Append(parts, <<>>) /\ <<>> \in Seq(Chars)
    BY <1>2 DEF Cut
  <2>2. /\ next \in Seq(Seq(Chars)) /\ Len(next) = L + 1 /\ next[L + 1] = <<>>
        /\ \A i \in 1..L : next[i] = parts[i]
    BY <1>1, <2>1, AppendProperties
  <2> HIDE DEF next
  <2>3. next \in Parts
    <3>1. Len(next) # 0
      BY <1>1, <2>2
    <3> QED
      BY <2>2, <3>1, EmptySeq DEF Parts
  <2> QED
    BY <1>1, <1>2, <2>2, <2>3 DEF next
<1>3. CASE char # "/"
  <2> DEFINE last == Append(parts[L], char)
  <2>1. /\ last \in Seq(Chars) /\ Len(last) = Len(parts[L]) + 1
        /\ \A o \in 1..Len(parts[L]) : last[o] = parts[L][o]
        /\ last[Len(parts[L]) + 1] = char
    <3> HIDE DEF L
    <3> QED
      BY <1>1, AppendProperties
  <2>2. next = [parts EXCEPT ![L] = last]
    BY <1>3 DEF Cut
  <2> HIDE DEF last
  <2>3. next \in [1..L -> Seq(Chars)]
    BY <1>1, <2>1, <2>2
  <2> HIDE DEF next, L
  <2>4. next \in Seq(Seq(Chars)) /\ Len(next) = L
    BY <1>1, <2>3, SeqDef, LenProperties
  <2>5. next[L] = last /\ \A i \in 1..L - 1 : next[i] = parts[i]
    BY <1>1, <2>2
  <2>6. next \in Parts
    BY <1>1, <2>4, EmptySeq DEF Parts
  <2> QED
    BY <1>1, <1>3, <2>1, <2>4, <2>5, <2>6 DEF next, L
<1> QED
  BY <1>2, <1>3

\* Segments cuts a path character by character.
IsCut(f, path) ==
    /\ f[0] = << <<>> >> /\ f[Len(path)] = Segments(path)
    /\ \A i \in 1..Len(path) : f[i] = Cut(f[i - 1], path[i])

\* There is such a run.
LEMMA CutRun ==
    ASSUME NEW path \in Seq(Chars)
    PROVE  \E f \in [0..Len(path) -> Parts] : IsCut(f, path)
<1> DEFINE n == Len(path)
           F == [i \in 1..n |-> [parts \in Parts |-> Cut(parts, path[i])]]
           first == << <<>> >>
           Cuts(it) == it = [s \in SUBSET (DOMAIN path) |->
                                 IF s = {} THEN first
                                 ELSE Cut(it[s \ {Max(s)}], path[Max(s)])]
           it == CHOOSE it : Cuts(it)
<1>1. n \in Nat /\ DOMAIN path = 1..n /\ (\A i \in 1..n : path[i] \in Chars) /\ first \in Parts
  <2>1. first \in Seq(Seq(Chars)) /\ first # <<>>
    OBVIOUS
  <2> QED
    BY <2>1 DEF Parts
<1>2. F \in [1..n -> [Parts -> Parts]]
  <2> DEFINE e(i, t) == Cut(t, path[i])
  <2>1. \A i \in 1..n : \A t \in Parts : e(i, t) \in Parts
    BY <1>1, CutIs
  <2> HIDE DEF e
  <2>2. [i \in 1..n |-> [t \in Parts |-> e(i, t)]] \in [1..n -> [Parts -> Parts]]
    BY <2>1
  <2> QED
    BY <2>2 DEF e
<1>3. PICK g \in [SUBSET (1..n) -> Parts] : IsFold(g, n, first, F)
  <2> HIDE DEF F, n, first
  <2> QED
    BY <1>1, <1>2, FoldExists, Zenon
<1>4. ASSUME NEW s \in SUBSET (1..n), s # {}
      PROVE  Max(s) \in 1..n /\ s \ {Max(s)} \in SUBSET (1..n)
  <2>1. s \in SUBSET (0..n)
    OBVIOUS
  <2>2. Max(s) \in s
    BY <1>1, <1>4, <2>1, MaxOf
  <2> QED
    BY <2>2
<1>5. ASSUME NEW i \in 1..n, NEW t \in Parts PROVE F[i][t] = Cut(t, path[i])
  OBVIOUS
<1>6. Cuts(g)
  <2> HIDE DEF F, first, n
  <2>1. ASSUME NEW s \in SUBSET (1..n)
        PROVE  g[s] = IF s = {} THEN first ELSE Cut(g[s \ {Max(s)}], path[Max(s)])
    BY <1>3, <1>4, <1>5 DEF IsFold
  <2> QED
    BY <1>1, <2>1
<1>7. Cuts(it)
  <2> HIDE DEF Cuts
  <2> QED
    BY <1>6
<1>8. Segments(path) = it[1..n]
  BY <1>1 DEF Segments, FoldLeft, MapThenFoldSet
<1>9. /\ it[{}] = first
      /\ \A s \in SUBSET (1..n) : s # {} /\ it[s \ {Max(s)}] \in Parts
                                     => it[s] = F[Max(s)][it[s \ {Max(s)}]]
  <2> HIDE DEF it, F, first, n
  <2>1. ASSUME NEW s \in SUBSET (1..n)
        PROVE  it[s] = IF s = {} THEN first ELSE Cut(it[s \ {Max(s)}], path[Max(s)])
    BY <1>1, <1>7
  <2> QED
    BY <1>4, <1>5, <2>1
<1>10. PICK f \in [0..n -> Parts] : IsRun(f, n, first, F, it[1..n])
  <2> HIDE DEF it, F, n, first
  <2> QED
    BY <1>1, <1>2, <1>9, FoldRuns, Zenon
<1>11. ASSUME NEW i \in 1..n PROVE f[i] = Cut(f[i - 1], path[i])
  <2>1. i - 1 \in 0..n /\ f[i - 1] \in Parts
    BY <1>1
  <2> HIDE DEF F
  <2> QED
    BY <1>5, <1>10, <2>1 DEF IsRun
<1> HIDE DEF it
<1> QED
  BY <1>1, <1>8, <1>10, <1>11 DEF IsRun, IsCut

\* The first of the segments p goes on as p does: the closed ones stay, the last may grow.
Extends(p, q) ==
    /\ Len(p) \in Nat \ {0} /\ Len(q) \in Nat /\ Len(p) <= Len(q)
    /\ Len(p[Len(p)]) \in Nat /\ Len(q[Len(p)]) \in Nat
    /\ \A j \in 1..Len(p) - 1 : q[j] = p[j]
    /\ Len(p[Len(p)]) <= Len(q[Len(p)])
    /\ \A o \in 1..Len(p[Len(p)]) : q[Len(p)][o] = p[Len(p)][o]

\* One or more segments, each with a length.
LEMMA PartsAre ==
    ASSUME NEW p \in Parts
    PROVE  /\ Len(p) \in Nat \ {0} /\ Extends(p, p)
           /\ \A j \in 1..Len(p) : p[j] \in Seq(Chars) /\ Len(p[j]) \in Nat
<1>1. p \in Seq(Seq(Chars)) /\ Len(p) \in Nat \ {0} /\ Len(p) \in 1..Len(p)
  BY EmptySeq DEF Parts
<1>2. \A j \in 1..Len(p) : p[j] \in Seq(Chars) /\ Len(p[j]) \in Nat
  BY <1>1
<1> QED
  BY <1>1, <1>2 DEF Extends

\* Another character extends what was extended.
LEMMA CutExtends ==
    ASSUME NEW p \in Parts, NEW q \in Parts, NEW char \in Chars, Extends(p, q)
    PROVE  Extends(p, Cut(q, char))
<1> DEFINE r == Cut(q, char)
           L == Len(p)
           K == Len(q)
<1>1. /\ r \in Parts /\ K \in Nat \ {0} /\ Len(q[K]) \in Nat
      /\ \A i \in 1..K - 1 : r[i] = q[i]
      /\ char = "/" => Len(r) = K + 1 /\ r[K] = q[K] /\ r[K + 1] = <<>>
      /\ char # "/" => /\ Len(r) = K /\ Len(r[K]) = Len(q[K]) + 1
                       /\ \A o \in 1..Len(q[K]) : r[K][o] = q[K][o]
  BY CutIs
<1>2. L \in Nat \ {0} /\ L <= K
  BY DEF Extends
<1>3. Len(r) \in Nat /\ Len(r) >= K
  BY <1>1
<1>4. \A j \in 1..L - 1 : r[j] = p[j]
  BY <1>1, <1>2 DEF Extends
<1>5. /\ Len(r[L]) \in Nat /\ Len(q[L]) <= Len(r[L]) /\ \A o \in 1..Len(q[L]) : r[L][o] = q[L][o]
  <2>1. CASE L < K
    <3>1. r[L] = q[L]
      BY <1>1, <1>2, <2>1
    <3> QED
      BY <3>1 DEF Extends
  <2>2. CASE L = K
    BY <1>1, <2>2
  <2> QED
    BY <1>1, <1>2, <2>1, <2>2
<1> HIDE DEF r
<1>6. \A o \in 1..Len(p[L]) : o \in 1..Len(q[L])
  BY DEF Extends
<1> QED
  BY <1>2, <1>3, <1>4, <1>5, <1>6 DEF Extends, r

\* Cutting goes on from what was cut before.
LEMMA Later ==
    ASSUME NEW path \in Seq(Chars), NEW f \in [0..Len(path) -> Parts], IsCut(f, path),
           NEW i \in 0..Len(path), NEW k \in i..Len(path)
    PROVE  Extends(f[i], f[k])
<1> DEFINE n == Len(path)
           A == {m \in 0..n : i <= m => Extends(f[i], f[m])}
<1>1. n \in Nat /\ \A m \in 1..n : path[m] \in Chars
  OBVIOUS
<1>2. 0 \in A
  BY <1>1, PartsAre
<1>3. ASSUME NEW m \in 0..n, m < n, m \in A PROVE m + 1 \in A
  <2>1. m + 1 \in 1..n /\ (m + 1) - 1 = m /\ m + 1 \in 0..n
    BY <1>1, <1>3
  <2>2. f[m + 1] = Cut(f[m], path[m + 1])
    BY <2>1 DEF IsCut
  <2>3. CASE i <= m
    <3>1. Extends(f[i], f[m])
      BY <1>3, <2>3
    <3>2. f[i] \in Parts /\ f[m] \in Parts /\ path[m + 1] \in Chars
      BY <1>1, <2>1
    <3>3. Extends(f[i], f[m + 1])
      BY <2>2, <3>1, <3>2, CutExtends
    <3> QED
      BY <2>1, <3>3
  <2>4. CASE i = m + 1
    BY <2>1, <2>4, PartsAre
  <2> QED
    BY <2>1, <2>3, <2>4
<1>4. \A m \in 0..n : m \in A
  <2> HIDE DEF A, n
  <2> QED
    BY <1>1, <1>2, <1>3, Induction
<1> QED
  BY <1>1, <1>4

\* The segments F are the first of G.
FirstOf(F, G) == Len(F) <= Len(G) /\ \A j \in 1..Len(F) : G[j] = F[j]

\* Where one path goes on, another with the same first segments goes on with the same character.
LEMMA SameNext ==
    ASSUME NEW s \in Parts, NEW a \in Chars, NEW F \in Parts, NEW G \in Parts,
           Extends(Cut(s, a), F), FirstOf(F, G)
    PROVE  /\ G # s
           /\ \A b \in Chars : Extends(Cut(s, b), G) => a = b
<1> DEFINE L == Len(s)
           o == Len(s[L])
           r == Cut(s, a)
<1>1. /\ L \in Nat \ {0} /\ o \in Nat /\ r \in Parts
      /\ a = "/" => Len(r) = L + 1 /\ r[L] = s[L] /\ r[L + 1] = <<>>
      /\ a # "/" => /\ Len(r) = L /\ Len(r[L]) = o + 1 /\ r[L][o + 1] = a
  BY CutIs
<1>2. Len(F) \in Nat /\ Len(G) \in Nat /\ Len(F) <= Len(G) /\ \A j \in 1..Len(F) : G[j] = F[j]
  BY PartsAre DEF FirstOf
<1>3. Extends(r, F)
  OBVIOUS
<1> HIDE DEF r
<1>4. CASE a = "/"
  <2>1. Len(F) >= L + 1 /\ F[L] = s[L]
    <3>1. Len(r) = L + 1 /\ r[L] = s[L] /\ L \in 1..Len(r) - 1
      BY <1>1, <1>4
    <3> QED
      BY <1>1, <1>2, <1>3, <3>1 DEF Extends
  <2>2. G[L] = s[L] /\ Len(G) > L
    BY <1>1, <1>2, <2>1
  <2>3. ASSUME NEW b \in Chars, b # "/", Extends(Cut(s, b), G) PROVE FALSE
    <3>1. Len(Cut(s, b)) = L /\ Len(Cut(s, b)[L]) = o + 1
      BY <2>3, CutIs
    <3>2. Len(G[L]) >= o + 1
      BY <2>3, <3>1, <1>1 DEF Extends
    <3> QED
      BY <1>1, <2>2, <3>2
  <2> HIDE DEF L
  <2> QED
    BY <1>1, <1>4, <2>2, <2>3 DEF L
<1>5. CASE a # "/"
  <2>1. Len(F) >= L /\ Len(F[L]) \in Nat /\ Len(F[L]) >= o + 1 /\ F[L][o + 1] = a
    <3>1. Len(r) = L /\ Len(r[L]) = o + 1 /\ r[L][o + 1] = a /\ o + 1 \in 1..Len(r[L])
      BY <1>1, <1>5
    <3> QED
      BY <1>1, <1>2, <1>3, <3>1 DEF Extends
  <2>2. G[L] = F[L]
    BY <1>1, <1>2, <2>1
  <2>3. ASSUME NEW b \in Chars, Extends(Cut(s, b), G) PROVE a = b
    <3>1. CASE b = "/"
      <4> DEFINE q == Cut(s, b)
      <4>1. Len(q) = L + 1 /\ q[L] = s[L]
        BY <3>1, CutIs
      <4> HIDE DEF q
      <4>2. L \in 1..Len(q) - 1
        BY <1>1, <4>1
      <4>3. Extends(q, G)
        BY <2>3 DEF q
      <4>4. G[L] = s[L]
        BY <4>1, <4>2, <4>3 DEF Extends
      <4> QED
        BY <1>1, <2>1, <2>2, <4>4
    <3>2. CASE b # "/"
      <4>1. Len(Cut(s, b)) = L /\ Len(Cut(s, b)[L]) = o + 1 /\ Cut(s, b)[L][o + 1] = b
        BY <3>2, CutIs
      <4>2. G[L][o + 1] = b
        BY <1>1, <2>3, <4>1 DEF Extends
      <4> QED
        BY <2>1, <2>2, <4>2
    <3> QED
      BY <3>1, <3>2
  <2>4. G # s
    BY <1>1, <2>1, <2>2
  <2> QED
    BY <2>3, <2>4
<1> QED
  BY <1>4, <1>5

\* After all of the segments, another character would be in the last of them.
LEMMA EndsAtSlash ==
    ASSUME NEW s \in Parts, NEW G \in Parts, NEW b \in Chars, FirstOf(s, G), Extends(Cut(s, b), G)
    PROVE  b = "/"
<1> DEFINE L == Len(s)
<1> SUFFICES ASSUME b # "/" PROVE FALSE
  OBVIOUS
<1>1. L \in Nat \ {0} /\ Len(s[L]) \in Nat /\ Len(Cut(s, b)) = L /\ Len(Cut(s, b)[L]) = Len(s[L]) + 1
  BY CutIs
<1>2. Len(G[L]) >= Len(s[L]) + 1
  BY <1>1 DEF Extends
<1>3. G[L] = s[L]
  BY <1>1 DEF FirstOf
<1> QED
  BY <1>1, <1>2, <1>3

\* A path with the first m characters of p, up to its end or a slash.
Continues(u, p, m) ==
    m <= Len(u) /\ (\A i \in 1..m : u[i] = p[i]) /\ (m = Len(u) \/ u[m + 1] = "/")

\* The step from one place of a path to the next.
LEMMA CutNext ==
    ASSUME NEW path \in Seq(Chars), NEW f, IsCut(f, path), NEW i \in 0..Len(path), i # Len(path)
    PROVE  /\ i + 1 \in 1..Len(path) /\ path[i + 1] \in Chars
           /\ f[i + 1] = Cut(f[i], path[i + 1])
<1>1. i + 1 \in 1..Len(path) /\ (i + 1) - 1 = i
  OBVIOUS
<1> QED
  BY <1>1 DEF IsCut

\* The same characters make the same segments.
LEMMA SameCut ==
    ASSUME NEW p \in Seq(Chars), NEW u \in Seq(Chars), NEW f, NEW g, IsCut(f, p), IsCut(g, u),
           NEW m \in 0..Len(p), m <= Len(u), \A i \in 1..m : u[i] = p[i]
    PROVE  f[m] = g[m]
<1> DEFINE A == {i \in 0..m : f[i] = g[i]}
<1>1. 0 \in A
  BY DEF IsCut
<1>2. ASSUME NEW i \in 0..m, i < m, i \in A PROVE i + 1 \in A
  <2>1. /\ i \in 0..Len(p) /\ i # Len(p) /\ i \in 0..Len(u) /\ i # Len(u)
        /\ i + 1 \in 1..m /\ i + 1 \in 0..m
    BY <1>2
  <2>2. f[i + 1] = Cut(f[i], p[i + 1]) /\ g[i + 1] = Cut(g[i], u[i + 1])
    BY <2>1, CutNext
  <2> QED
    BY <1>2, <2>1, <2>2
<1>3. \A i \in 0..m : i \in A
  <2> HIDE DEF A
  <2> QED
    BY <1>1, <1>2, Induction
<1> QED
  BY <1>3

\* The segments of the first m characters are the first ones of a path that continues them.
LEMMA ContinuesFirst ==
    ASSUME NEW p \in Seq(Chars), NEW u \in Seq(Chars),
           NEW f \in [0..Len(p) -> Parts], NEW g \in [0..Len(u) -> Parts],
           IsCut(f, p), IsCut(g, u), NEW m \in 0..Len(p), Continues(u, p, m)
    PROVE  FirstOf(f[m], Segments(u))
<1>1. m \in 0..Len(u) /\ Len(u) \in 0..Len(u) /\ f[m] = g[m] /\ g[m] \in Parts
  BY SameCut DEF Continues
<1>2. g[Len(u)] = Segments(u)
  BY DEF IsCut
<1>3. CASE m = Len(u)
  BY <1>1, <1>2, <1>3 DEF FirstOf
<1>4. CASE m # Len(u)
  <2>1. /\ u[m + 1] = "/" /\ m + 1 \in 1..Len(u) /\ u[m + 1] \in Chars
        /\ g[m + 1] = Cut(g[m], u[m + 1])
    BY <1>1, <1>4, CutNext DEF Continues
  <2>2. Extends(g[m + 1], g[Len(u)])
    BY <2>1, Later
  <2>3. LET L == Len(g[m]) IN
        /\ L \in Nat \ {0} /\ Len(g[m + 1]) = L + 1 /\ g[m + 1][L] = g[m][L]
        /\ \A j \in 1..L - 1 : g[m + 1][j] = g[m][j]
    <3> DEFINE s == g[m]
               b == u[m + 1]
    <3>1. s \in Parts /\ b \in Chars /\ b = "/" /\ g[m + 1] = Cut(s, b)
      BY <1>1, <2>1
    <3> HIDE DEF s, b
    <3>2. LET L == Len(s) IN
          /\ L \in Nat \ {0} /\ Len(Cut(s, b)) = L + 1 /\ Cut(s, b)[L] = s[L]
          /\ \A j \in 1..L - 1 : Cut(s, b)[j] = s[j]
      BY <3>1, CutIs
    <3> QED
      BY <3>1, <3>2 DEF s
  <2> DEFINE L == Len(g[m])
  <2>4. L + 1 <= Len(g[Len(u)]) /\ \A j \in 1..L : g[Len(u)][j] = g[m + 1][j]
    BY <2>2, <2>3 DEF Extends
  <2>5. Len(g[Len(u)]) \in Nat
    BY <2>2 DEF Extends
  <2>6. \A j \in 1..L : g[m + 1][j] = g[m][j]
    BY <2>3
  <2> QED
    BY <1>1, <1>2, <2>3, <2>4, <2>5, <2>6 DEF FirstOf
<1> QED
  BY <1>3, <1>4

\* A path that has them as its first segments continues the characters.
LEMMA FirstContinues ==
    ASSUME NEW p \in Seq(Chars), NEW u \in Seq(Chars),
           NEW f \in [0..Len(p) -> Parts], NEW g \in [0..Len(u) -> Parts],
           IsCut(f, p), IsCut(g, u), NEW m \in 0..Len(p), FirstOf(f[m], Segments(u))
    PROVE  Continues(u, p, m)
<1> DEFINE n == Len(u)
           F == f[m]
           G == g[n]
           A == {i \in 0..m : i <= n /\ f[i] = g[i] /\ \A j \in 1..i : u[j] = p[j]}
<1>1. n \in Nat /\ Len(p) \in Nat /\ m \in Nat /\ F \in Parts /\ G \in Parts /\ FirstOf(F, G)
  <2>1. n \in Nat /\ Len(p) \in Nat /\ m \in Nat
    OBVIOUS
  <2>2. F \in Parts /\ G \in Parts
    BY <2>1
  <2>3. Segments(u) = G
    BY DEF IsCut
  <2> QED
    BY <2>1, <2>2, <2>3
<1>2. 0 \in A
  <2>1. f[0] = g[0]
    BY DEF IsCut
  <2> QED
    BY <1>1, <2>1
<1>3. ASSUME NEW i \in 0..m, i < m, i \in A PROVE i + 1 \in A
  <2>1. i \in 0..Len(p) /\ i # Len(p) /\ i \in 0..n /\ f[i] = g[i] /\ f[i] \in Parts
    BY <1>1, <1>3
  <2>2. /\ i + 1 \in 1..Len(p) /\ p[i + 1] \in Chars /\ f[i + 1] = Cut(f[i], p[i + 1])
        /\ i + 1 \in 0..Len(p) /\ m \in (i + 1)..Len(p)
    <3>1. i + 1 \in 0..Len(p) /\ m \in (i + 1)..Len(p)
      BY <1>1, <1>3
    <3> QED
      BY <2>1, <3>1, CutNext
  <2>3. Extends(Cut(f[i], p[i + 1]), F)
    <3>1. Extends(f[i + 1], f[m])
      BY <2>2, Later
    <3> QED
      BY <2>2, <3>1
  <2>4. G # f[i]
    <3> HIDE DEF F, G
    <3> QED
      BY <1>1, <2>1, <2>2, <2>3, SameNext
  <2>5. i # n
    BY <2>1, <2>4
  <2>6. /\ i + 1 \in 1..n /\ u[i + 1] \in Chars /\ g[i + 1] = Cut(g[i], u[i + 1])
        /\ i + 1 \in 0..n /\ n \in (i + 1)..n
    <3>1. i + 1 \in 0..n /\ n \in (i + 1)..n
      BY <1>1, <2>1, <2>5
    <3> QED
      BY <2>1, <2>5, <3>1, CutNext
  <2>7. Extends(Cut(f[i], u[i + 1]), G)
    <3>1. Extends(g[i + 1], g[n])
      BY <2>6, Later
    <3> QED
      BY <2>1, <2>6, <3>1
  <2>8. p[i + 1] = u[i + 1]
    <3> HIDE DEF F, G
    <3> QED
      BY <1>1, <2>1, <2>2, <2>3, <2>6, <2>7, SameNext
  <2>9. i + 1 \in 0..m /\ i + 1 <= n /\ \A j \in 1..i + 1 : j = i + 1 \/ j \in 1..i
    BY <1>1, <1>3, <2>6
  <2> QED
    BY <1>3, <2>1, <2>2, <2>6, <2>8, <2>9
<1>4. m \in A
  <2>1. \A i \in 0..m : i \in A
    <3> HIDE DEF A
    <3> QED
      BY <1>1, <1>2, <1>3, Induction
  <2> QED
    BY <1>1, <2>1
<1>5. CASE m # n
  <2>1. /\ m + 1 \in 1..n /\ u[m + 1] \in Chars /\ g[m + 1] = Cut(g[m], u[m + 1])
        /\ m + 1 \in 0..n /\ n \in (m + 1)..n
    <3>1. m \in 0..n /\ m + 1 \in 0..n /\ n \in (m + 1)..n
      BY <1>1, <1>4, <1>5
    <3> QED
      BY <1>5, <3>1, CutNext
  <2>2. Extends(Cut(F, u[m + 1]), G)
    <3>1. Extends(g[m + 1], g[n])
      BY <2>1, Later
    <3> QED
      BY <1>4, <2>1, <3>1
  <2>3. u[m + 1] = "/"
    <3> HIDE DEF F, G
    <3> QED
      BY <1>1, <2>1, <2>2, EndsAtSlash
  <2> QED
    BY <1>4, <2>3 DEF Continues
<1> QED
  BY <1>4, <1>5 DEF Continues

\* Slashes at the end of a path add empty segments.
LEMMA SlashesAdd ==
    ASSUME NEW path \in Seq(Chars), NEW f \in [0..Len(path) -> Parts], IsCut(f, path),
           NEW m \in 0..Len(path), \A i \in m + 1..Len(path) : path[i] = "/"
    PROVE  LET all == f[Len(path)] IN
           /\ Len(f[m]) <= Len(all)
           /\ \A j \in 1..Len(f[m]) : all[j] = f[m][j]
           /\ \A j \in Len(f[m]) + 1..Len(all) : all[j] = <<>>
<1> DEFINE n == Len(path)
           L == Len(f[m])
           Ends(p) == /\ Len(p) \in Nat /\ L <= Len(p) /\ \A j \in 1..L : p[j] = f[m][j]
                      /\ \A j \in L + 1..Len(p) : p[j] = <<>>
           A == {k \in 0..n : m <= k => Ends(f[k])}
<1>1. n \in Nat /\ L \in Nat \ {0} /\ f[m] \in Parts
  BY PartsAre
<1>2. Ends(f[m])
  BY <1>1
<1>3. 0 \in A
  BY <1>1, <1>2
<1>4. ASSUME NEW k \in 0..n, k < n, k \in A PROVE k + 1 \in A
  <2>1. CASE m = k + 1
    BY <1>2, <1>4, <2>1
  <2>2. CASE m <= k
    <3>1. Ends(f[k]) /\ k # n /\ k + 1 \in 0..n /\ k + 1 \in m + 1..n /\ f[k] \in Parts
      BY <1>1, <1>4, <2>2
    <3>2. path[k + 1] = "/" /\ path[k + 1] \in Chars /\ f[k + 1] = Cut(f[k], path[k + 1])
      BY <3>1, CutNext
    <3> DEFINE p == f[k]
               q == f[k + 1]
               char == path[k + 1]
    <3>3. q = Cut(p, char) /\ p \in Parts /\ char \in Chars /\ char = "/"
      BY <3>1, <3>2
    <3>4. Ends(p)
      BY <3>1
    <3> HIDE DEF p, q, char, L
    <3>5. /\ Len(p) \in Nat \ {0} /\ Len(q) = Len(p) + 1 /\ q[Len(p)] = p[Len(p)] /\ q[Len(p) + 1] = <<>>
          /\ \A j \in 1..Len(p) - 1 : q[j] = p[j]
      BY <3>3, CutIs
    <3>6. \A j \in 1..Len(p) : q[j] = p[j]
      BY <3>5
    <3>7. \A j \in 1..L : q[j] = f[m][j]
      BY <1>1, <3>4, <3>5, <3>6
    <3>8. ASSUME NEW j \in L + 1..Len(q) PROVE q[j] = <<>>
      <4>1. j = Len(p) + 1 \/ j \in L + 1..Len(p)
        BY <1>1, <3>5
      <4>2. j \in L + 1..Len(p) => j \in 1..Len(p)
        BY <1>1
      <4> QED
        BY <3>4, <3>5, <3>6, <4>1, <4>2
    <3>9. Ends(q)
      BY <1>1, <3>4, <3>5, <3>7, <3>8
    <3> QED
      BY <3>1, <3>9 DEF q
  <2> QED
    BY <1>1, <1>4, <2>1, <2>2
<1>5. \A k \in 0..n : k \in A
  <2> HIDE DEF A, n
  <2> QED
    BY <1>1, <1>3, <1>4, Induction
<1>6. Ends(f[n])
  BY <1>1, <1>5
<1> QED
  BY <1>6

\* The stem of a prefix is what is cut from it without the slashes at its end.
LEMMA StemIs ==
    ASSUME NEW path \in Seq(Chars), NEW f \in [0..Len(path) -> Parts], IsCut(f, path),
           NEW m \in 0..Len(path), m # 0 => path[m] # "/",
           \A i \in m + 1..Len(path) : path[i] = "/"
    PROVE  /\ Len(Stem(path)) = IF m = 0 THEN 0 ELSE Len(f[m])
           /\ \A j \in 1..Len(Stem(path)) : Stem(path)[j] = f[m][j]
           /\ Stem(path) \in Seq(Seq(Chars))
<1> DEFINE all == Segments(path)
           L == Len(f[m])
           A == {0} \cup {i \in DOMAIN all : all[i] # <<>>}
           size == IF m = 0 THEN 0 ELSE L
<1>1. /\ all = f[Len(path)] /\ Len(path) \in 0..Len(path)
  BY DEF IsCut
<1>2. f[m] \in Parts /\ all \in Parts /\ all \in Seq(Seq(Chars))
  BY <1>1 DEF Parts
<1>3. /\ L \in Nat \ {0} /\ Len(all) \in Nat /\ L <= Len(all) /\ DOMAIN all = 1..Len(all)
      /\ \A j \in 1..L : all[j] = f[m][j]
      /\ \A j \in L + 1..Len(all) : all[j] = <<>>
  <2>1. L \in Nat \ {0} /\ Len(all) \in Nat
    BY <1>2, PartsAre
  <2>2. /\ L <= Len(all) /\ \A j \in 1..L : all[j] = f[m][j]
        /\ \A j \in L + 1..Len(all) : all[j] = <<>>
    BY <1>1, SlashesAdd
  <2>3. DOMAIN all = 1..Len(all)
    BY <1>2
  <2> QED
    BY <2>1, <2>2, <2>3
<1>4. m = 0 => L = 1 /\ f[m][1] = <<>>
  BY DEF IsCut
<1>5. m # 0 => f[m][L] # <<>>
  <2>1. SUFFICES ASSUME m # 0 PROVE f[m][L] # <<>>
    OBVIOUS
  <2>2. m - 1 \in 0..Len(path) /\ m - 1 # Len(path) /\ (m - 1) + 1 = m /\ f[m - 1] \in Parts
    BY <2>1
  <2> DEFINE s == f[m - 1]
             char == path[m]
  <2>3. f[m] = Cut(s, char) /\ char \in Chars /\ char # "/" /\ s \in Parts
    BY <2>1, <2>2, CutNext
  <2> HIDE DEF s, char
  <2>4. Len(s[Len(s)]) \in Nat /\ Len(f[m]) = Len(s) /\ Len(f[m][Len(s)]) = Len(s[Len(s)]) + 1
    BY <2>3, CutIs
  <2>5. Len(f[m][L]) # 0
    BY <2>4
  <2> QED
    BY <2>5, EmptySeq
<1> HIDE DEF all, L
<1>6. size \in A /\ \A i \in A : i <= size
  <2>1. CASE m = 0
    <3>1. \A i \in 1..Len(all) : all[i] = <<>>
      BY <1>3, <1>4, <2>1
    <3> QED
      BY <1>3, <2>1, <3>1
  <2>2. CASE m # 0
    <3>1. L \in 1..Len(all) /\ all[L] # <<>>
      BY <1>3, <1>5, <2>2
    <3>2. \A i \in A : i <= L
      BY <1>3
    <3> QED
      BY <1>3, <2>2, <3>1, <3>2
  <2> QED
    BY <2>1, <2>2
<1>7. Max(A) = size
  <2>1. A \in SUBSET (0..Len(all)) /\ A # {} /\ \A i \in A : i \in Nat
    BY <1>3
  <2> HIDE DEF A
  <2>2. Max(A) \in A /\ \A i \in A : Max(A) >= i
    BY <1>3, <2>1, MaxOf
  <2> HIDE DEF size
  <2>3. Max(A) \in Nat /\ size \in Nat /\ Max(A) >= size /\ Max(A) <= size
    BY <1>6, <2>1, <2>2
  <2> QED
    BY <2>3
<1>8. Stem(path) = SubSeq(all, 1, size)
  BY <1>7 DEF Stem, all
<1>9. size \in 0..Len(all) /\ size <= L
  BY <1>3
<1>10. /\ SubSeq(all, 1, size) \in Seq(Seq(Chars)) /\ Len(SubSeq(all, 1, size)) = size
       /\ \A i \in 1..size : SubSeq(all, 1, size)[i] = all[i]
  <2> HIDE DEF size
  <2>1. CASE size = 0
    <3>1. SubSeq(all, 1, size) = <<>>
      BY <2>1
    <3> QED
      BY <2>1, <3>1, EmptySeq
  <2>2. CASE size # 0
    <3>1. \A i \in 1..size : all[i] \in Seq(Chars)
      BY <1>2, <1>3, <1>9
    <3>2. size \in Nat /\ size - 1 + 1 = size /\ \A i \in 1..size : 1 + i - 1 = i
      BY <1>9
    <3> QED
      BY <1>3, <1>9, <2>2, <3>1, <3>2, SubSeqProperties
  <2> QED
    BY <2>1, <2>2
<1>11. \A i \in 1..size : i \in 1..L
  BY <1>3, <1>9
<1> HIDE DEF size
<1>12. \A i \in 1..size : Stem(path)[i] = f[m][i]
  BY <1>3, <1>8, <1>10, <1>11
<1>13. Len(Stem(path)) = size /\ Stem(path) \in Seq(Seq(Chars))
  BY <1>8, <1>10
<1> QED
  BY <1>12, <1>13 DEF size, L

-----------------------------------------------------------------------------
(***************************************************************************)
(* Scopes: comparing characters up to a slash is comparing segments.       *)
(***************************************************************************)

\* A prefix, element by element.
LEMMA PrefixIs ==
    ASSUME NEW S, NEW s \in Seq(S), NEW t \in Seq(S)
    PROVE  IsPrefix(s, t) <=> Len(s) <= Len(t) /\ \A i \in 1..Len(s) : t[i] = s[i]
<1> DEFINE n == Len(s)
           a == SubSeq(s, 1, n)
           b == SubSeq(t, 1, n)
<1>1. n \in Nat /\ Len(t) \in Nat /\ 1 \in Int /\ n - 1 + 1 = n /\ (1 <= n => n - 1 + 1 = n)
  OBVIOUS
<1>2. \A i \in 1..n : s[i] \in S
  OBVIOUS
<1>3. a \in Seq(S) /\ Len(a) = n /\ \A i \in 1..n : a[i] = s[i]
  <2>1. /\ a \in Seq(S) /\ Len(a) = (IF 1 <= n THEN n - 1 + 1 ELSE 0)
        /\ \A i \in 1..n - 1 + 1 : a[i] = s[1 + i - 1]
    BY <1>1, <1>2, SubSeqProperties
  <2> HIDE DEF a, n
  <2> QED
    BY <1>1, <2>1
<1>4. ASSUME n <= Len(t) PROVE b \in Seq(S) /\ Len(b) = n /\ \A i \in 1..n : b[i] = t[i]
  <2>1. \A i \in 1..n : t[i] \in S
    BY <1>4
  <2>2. /\ b \in Seq(S) /\ Len(b) = (IF 1 <= n THEN n - 1 + 1 ELSE 0)
        /\ \A i \in 1..n - 1 + 1 : b[i] = t[1 + i - 1]
    BY <1>1, <2>1, SubSeqProperties
  <2> HIDE DEF b, n
  <2> QED
    BY <1>1, <2>2
<1> HIDE DEF a, b
<1>5. ASSUME n <= Len(t), \A i \in 1..n : t[i] = s[i] PROVE a = b
  BY <1>3, <1>4, <1>5, SeqEqual
<1>6. ASSUME n <= Len(t), a = b PROVE \A i \in 1..n : t[i] = s[i]
  BY <1>3, <1>4, <1>6
<1> QED
  BY <1>5, <1>6 DEF IsPrefix, a, b

\* A path continues a prefix as the code compares them: it is the prefix, or goes on with a slash.
LEMMA ContinuesIs ==
    ASSUME NEW u \in Seq(Chars), NEW p \in Seq(Chars), NEW w \in Seq(Chars), Len(w) <= Len(p),
           \A i \in 1..Len(w) : w[i] = p[i]
    PROVE  Continues(u, p, Len(w)) <=> u = w \/ IsPrefix(Append(w, "/"), u)
<1> DEFINE m == Len(w)
           v == Append(w, "/")
<1>1. "/" \in Chars
  BY DEF Chars
<1>2. m \in Nat /\ Len(u) \in Nat /\ v \in Seq(Chars) /\ Len(v) = m + 1 /\ v[m + 1] = "/"
      /\ \A i \in 1..m : v[i] = w[i]
  <2>1. m \in Nat /\ Len(u) \in Nat
    OBVIOUS
  <2> DEFINE slash == "/"
  <2>2. slash \in Chars
    BY <1>1
  <2> HIDE DEF slash
  <2>3. LET x == Append(w, slash) IN
        x \in Seq(Chars) /\ Len(x) = m + 1 /\ x[m + 1] = slash /\ \A i \in 1..m : x[i] = w[i]
    BY <2>2, AppendProperties
  <2> QED
    BY <2>1, <2>3 DEF slash
<1> HIDE DEF v
<1>3. IsPrefix(v, u) <=> m + 1 <= Len(u) /\ \A i \in 1..m + 1 : u[i] = v[i]
  BY <1>2, PrefixIs
<1>4. ASSUME Continues(u, p, m) PROVE u = w \/ IsPrefix(v, u)
  <2>1. m <= Len(u) /\ (\A i \in 1..m : u[i] = w[i]) /\ (m = Len(u) \/ u[m + 1] = "/")
    BY <1>4 DEF Continues
  <2>2. CASE m = Len(u)
    BY <2>1, <2>2, SeqEqual
  <2>3. CASE m # Len(u)
    <3>1. m + 1 <= Len(u) /\ \A i \in 1..m + 1 : i = m + 1 \/ i \in 1..m
      BY <1>2, <2>1, <2>3
    <3> QED
      BY <1>2, <1>3, <2>1, <2>3, <3>1
  <2> QED
    BY <2>2, <2>3
<1>5. ASSUME u = w PROVE Continues(u, p, m)
  BY <1>5 DEF Continues
<1>6. ASSUME IsPrefix(v, u) PROVE Continues(u, p, m)
  <2>1. m + 1 <= Len(u) /\ u[m + 1] = "/" /\ \A i \in 1..m : u[i] = p[i]
    BY <1>2, <1>3, <1>6
  <2> QED
    BY <1>2, <2>1 DEF Continues
<1> QED
  BY <1>4, <1>5, <1>6 DEF v

\* The segments of a prefix are the first of a path exactly if the code takes it for a match.
LEMMA ScopeIs ==
    ASSUME NEW u \in Seq(Chars), NEW p \in Seq(Chars)
    PROVE  LET w == WithoutSlashes(p) IN
           /\ IsPrefix(Stem(p), Segments(u)) <=> w = <<>> \/ u = w \/ IsPrefix(Append(w, "/"), u)
           /\ Len(Stem(p)) = 0 <=> w = <<>>
           /\ w # <<>> => (IsPrefix(Stem(p), Segments(u)) <=> Continues(u, p, Len(w)))
<1> DEFINE w == WithoutSlashes(p)
           m == Len(w)
           stem == Stem(p)
           all == Segments(u)
<1>1. /\ w \in Seq(Chars) /\ m \in 0..Len(p) /\ (\A i \in 1..m : w[i] = p[i])
      /\ (m # 0 => p[m] # "/") /\ (\A i \in m + 1..Len(p) : p[i] = "/")
  BY WithoutIs
<1>2. w = <<>> <=> m = 0
  BY <1>1, EmptySeq
<1>3. PICK f \in [0..Len(p) -> Parts] : IsCut(f, p)
  BY CutRun
<1>4. PICK g \in [0..Len(u) -> Parts] : IsCut(g, u)
  BY CutRun
<1>5. all \in Seq(Seq(Chars)) /\ f[m] \in Parts
  <2>1. all = g[Len(u)] /\ Len(u) \in 0..Len(u)
    BY <1>4 DEF IsCut
  <2>2. all \in Parts
    BY <2>1
  <2>3. f[m] \in Parts
    BY <1>1
  <2> HIDE DEF all
  <2> QED
    BY <2>2, <2>3 DEF Parts
<1>6. /\ Len(stem) = IF m = 0 THEN 0 ELSE Len(f[m])
      /\ \A j \in 1..Len(stem) : stem[j] = f[m][j]
      /\ stem \in Seq(Seq(Chars))
  <2> HIDE DEF w
  <2> QED
    BY <1>1, <1>3, StemIs
<1> HIDE DEF w, m, stem, all
<1>7. IsPrefix(stem, all) <=> Len(stem) <= Len(all) /\ \A j \in 1..Len(stem) : all[j] = stem[j]
  BY <1>5, <1>6, PrefixIs
<1>8. Len(f[m]) \in Nat \ {0}
  BY <1>5, PartsAre
<1>9. ASSUME m # 0
      PROVE  IsPrefix(stem, all) <=> Continues(u, p, m)
  <2>1. IsPrefix(stem, all) <=> FirstOf(f[m], all)
    BY <1>6, <1>7, <1>9 DEF FirstOf
  <2>2. FirstOf(f[m], all) => Continues(u, p, m)
    BY <1>1, <1>3, <1>4, FirstContinues DEF all
  <2>3. Continues(u, p, m) => FirstOf(f[m], all)
    BY <1>1, <1>3, <1>4, ContinuesFirst DEF all
  <2> QED
    BY <2>1, <2>2, <2>3
<1>10. Continues(u, p, m) <=> u = w \/ IsPrefix(Append(w, "/"), u)
  <2>1. Len(w) <= Len(p) /\ \A i \in 1..Len(w) : w[i] = p[i]
    BY <1>1 DEF m
  <2> QED
    BY <1>1, <2>1, ContinuesIs DEF m
<1>11. m = 0 => IsPrefix(stem, all)
  <2>1. Len(all) \in Nat
    BY <1>5
  <2> QED
    BY <1>6, <1>7, <2>1
<1>12. Len(stem) = 0 <=> m = 0
  BY <1>6, <1>8
<1> QED
  BY <1>2, <1>9, <1>10, <1>11, <1>12 DEF w, m, stem, all

\* Prefixes with the same stem differ in nothing but slashes at the end.
LEMMA StemTells ==
    ASSUME NEW p \in Seq(Chars), NEW q \in Seq(Chars), Stem(p) = Stem(q)
    PROVE  WithoutSlashes(p) = WithoutSlashes(q)
<1> DEFINE w == WithoutSlashes(p)
           v == WithoutSlashes(q)
<1>1. /\ w \in Seq(Chars) /\ Len(w) \in 0..Len(p) /\ (\A i \in 1..Len(w) : w[i] = p[i])
      /\ (Len(w) # 0 => p[Len(w)] # "/") /\ (\A i \in Len(w) + 1..Len(p) : p[i] = "/")
  BY WithoutIs
<1>2. /\ v \in Seq(Chars) /\ Len(v) \in 0..Len(q) /\ (\A i \in 1..Len(v) : v[i] = q[i])
      /\ (Len(v) # 0 => q[Len(v)] # "/") /\ (\A i \in Len(v) + 1..Len(q) : q[i] = "/")
  BY WithoutIs
<1>3. \A u \in Seq(Chars) :
         /\ Len(Stem(p)) = 0 <=> w = <<>>
         /\ w # <<>> => (IsPrefix(Stem(p), Segments(u)) <=> Continues(u, p, Len(w)))
  BY ScopeIs
<1>4. \A u \in Seq(Chars) :
         /\ Len(Stem(q)) = 0 <=> v = <<>>
         /\ v # <<>> => (IsPrefix(Stem(q), Segments(u)) <=> Continues(u, q, Len(v)))
  BY ScopeIs
<1> HIDE DEF w, v
<1>5. CASE w = <<>>
  BY <1>3, <1>4, <1>5 DEF w, v
<1>6. CASE w # <<>>
  <2>1. v # <<>> /\ Len(w) \in Nat \ {0} /\ Len(v) \in Nat \ {0} /\ Len(p) \in Nat /\ Len(q) \in Nat
    BY <1>1, <1>2, <1>3, <1>4, <1>6, EmptySeq
  <2>2. Continues(q, q, Len(v)) /\ Continues(p, p, Len(w))
    BY <1>1, <1>2, <2>1 DEF Continues
  <2>3. Continues(q, p, Len(w)) /\ Continues(p, q, Len(v))
    BY <1>3, <1>4, <1>6, <2>1, <2>2
  <2>4. ASSUME Len(v) < Len(w) PROVE FALSE
    <3>1. Len(w) \in Len(v) + 1..Len(q) /\ Len(w) \in 1..Len(w)
      BY <2>1, <2>3, <2>4 DEF Continues
    <3>2. q[Len(w)] = "/" /\ q[Len(w)] = p[Len(w)]
      BY <1>2, <2>3, <3>1 DEF Continues
    <3> QED
      BY <1>1, <2>1, <3>2
  <2>5. ASSUME Len(w) < Len(v) PROVE FALSE
    <3>1. Len(v) \in Len(w) + 1..Len(p) /\ Len(v) \in 1..Len(v)
      BY <2>1, <2>3, <2>5 DEF Continues
    <3>2. p[Len(v)] = "/" /\ q[Len(v)] = p[Len(v)]
      BY <1>1, <2>3, <3>1 DEF Continues
    <3> QED
      BY <1>2, <2>1, <3>2
  <2>6. Len(w) = Len(v) /\ \A i \in 1..Len(w) : w[i] = v[i]
    BY <1>1, <1>2, <2>1, <2>3, <2>4, <2>5 DEF Continues
  <2> QED
    BY <1>1, <1>2, <2>6, SeqEqual DEF w, v
<1> QED
  BY <1>5, <1>6

\* _matches_domain says whether a URL is in the scope of a prefix.
LEMMA MatchingIsScope ==
    ASSUME NEW url, NEW prefix, url.scheme # "", url.path \in Seq(Chars), prefix.path \in Seq(Chars)
    PROVE  MatchesDomain(url, prefix) <=> InScope(url, prefix)
<1> DEFINE w == WithoutSlashes(prefix.path)
<1>1. IsPrefix(Stem(prefix.path), Segments(url.path))
         <=> w = <<>> \/ url.path = w \/ IsPrefix(Append(w, "/"), url.path)
  BY ScopeIs
<1> HIDE DEF w
<1> QED
  BY <1>1 DEF MatchesDomain, InScope, SameSite, w

-----------------------------------------------------------------------------
(***************************************************************************)
(* Strategies: the list holds of every prefix the one registered last.     *)
(***************************************************************************)

\* What is left of a list is in it and has another prefix.
LEMMA OthersAre ==
    ASSUME NEW R, NEW list \in Seq(R), NEW prefix
    PROVE  Others(list, prefix) \in Seq({s \in R : ~SamePrefix(s.prefix, prefix)})
<1> DEFINE n == Len(list)
           K == {s \in R : ~SamePrefix(s.prefix, prefix)}
           Keep(kept, s) == IF SamePrefix(s.prefix, prefix) THEN kept ELSE Append(kept, s)
           F == [i \in 1..n |-> [kept \in Seq(K) |-> Keep(kept, list[i])]]
           first == <<>>
           Keeps(it) == it = [s \in SUBSET (DOMAIN list) |->
                                 IF s = {} THEN first
                                 ELSE Keep(it[s \ {Max(s)}], list[Max(s)])]
           it == CHOOSE it : Keeps(it)
<1>1. n \in Nat /\ DOMAIN list = 1..n /\ (\A i \in 1..n : list[i] \in R) /\ first \in Seq(K)
  BY EmptySeq
<1>2. F \in [1..n -> [Seq(K) -> Seq(K)]]
  <2> DEFINE e(i, t) == Keep(t, list[i])
  <2>1. ASSUME NEW i \in 1..n, NEW t \in Seq(K) PROVE e(i, t) \in Seq(K)
    <3>1. CASE SamePrefix(list[i].prefix, prefix)
      BY <3>1
    <3>2. CASE ~SamePrefix(list[i].prefix, prefix)
      <4>1. list[i] \in K
        BY <1>1, <3>2
      <4>2. e(i, t) = Append(t, list[i])
        BY <3>2
      <4> HIDE DEF K, e
      <4> QED
        BY <4>1, <4>2, AppendProperties
    <3> QED
      BY <3>1, <3>2
  <2> HIDE DEF e, K
  <2>2. [i \in 1..n |-> [t \in Seq(K) |-> e(i, t)]] \in [1..n -> [Seq(K) -> Seq(K)]]
    BY <2>1
  <2> QED
    BY <2>2 DEF e
<1>3. PICK g \in [SUBSET (1..n) -> Seq(K)] : IsFold(g, n, first, F)
  <2> HIDE DEF F, n, first, K
  <2> QED
    BY <1>1, <1>2, FoldExists, Zenon
<1>4. ASSUME NEW s \in SUBSET (1..n), s # {}
      PROVE  Max(s) \in 1..n /\ s \ {Max(s)} \in SUBSET (1..n)
  <2>1. s \in SUBSET (0..n)
    OBVIOUS
  <2>2. Max(s) \in s
    BY <1>1, <1>4, <2>1, MaxOf
  <2> QED
    BY <2>2
<1>5. ASSUME NEW i \in 1..n, NEW t \in Seq(K) PROVE F[i][t] = Keep(t, list[i])
  <2> HIDE DEF Keep, K
  <2> QED
    OBVIOUS
<1>6. Keeps(g)
  <2> HIDE DEF F, first, n, Keep, K
  <2>1. ASSUME NEW s \in SUBSET (1..n)
        PROVE  g[s] = IF s = {} THEN first ELSE Keep(g[s \ {Max(s)}], list[Max(s)])
    BY <1>3, <1>4, <1>5 DEF IsFold
  <2> QED
    BY <1>1, <2>1
<1>7. Keeps(it)
  <2> HIDE DEF Keeps
  <2> QED
    BY <1>6
<1>8. Others(list, prefix) = it[1..n]
  BY <1>1 DEF Others, FoldLeft, MapThenFoldSet
<1>9. /\ it[{}] = first
      /\ \A s \in SUBSET (1..n) : s # {} /\ it[s \ {Max(s)}] \in Seq(K)
                                     => it[s] = F[Max(s)][it[s \ {Max(s)}]]
  <2> HIDE DEF it, F, first, n, Keep, K
  <2>1. ASSUME NEW s \in SUBSET (1..n)
        PROVE  it[s] = IF s = {} THEN first ELSE Keep(it[s \ {Max(s)}], list[Max(s)])
    BY <1>1, <1>7
  <2> QED
    BY <1>4, <1>5, <2>1
<1>10. PICK f \in [0..n -> Seq(K)] : IsRun(f, n, first, F, it[1..n])
  <2> HIDE DEF it, F, n, first, K
  <2> QED
    BY <1>1, <1>2, <1>9, FoldRuns, Zenon
<1>11. f[n] \in Seq(K)
  <2> HIDE DEF K
  <2> QED
    BY <1>1
<1> HIDE DEF it, K
<1> QED
  BY <1>8, <1>10, <1>11 DEF IsRun, K

\* A strategy is added, and those left have another prefix.
LEMMA RegisterIs ==
    ASSUME NEW list \in Seq(Range(Registrations)), NEW s \in Range(Registrations)
    PROVE  LET next == Register(list, s) IN
           /\ next \in Seq(Range(Registrations))
           /\ \A i \in DOMAIN next :
                 \/ next[i] = s
                 \/ /\ ~SamePrefix(next[i].prefix, s.prefix)
                    /\ \E k \in DOMAIN list : next[i] = list[k]
<1> DEFINE R == Range(Registrations)
           L == {list[k] : k \in DOMAIN list}
           K == {x \in L : ~SamePrefix(x.prefix, s.prefix)}
           left == Others(list, s.prefix)
<1>1. list \in Seq(L) /\ L \subseteq R /\ K \subseteq R
  <2> HIDE DEF R
  <2> QED
    BY DEF R
<1>2. left \in Seq(K)
  <2> HIDE DEF L
  <2> QED
    BY <1>1, OthersAre
<1>3. Register(list, s) = Append(left, s)
  BY DEF Register
<1> HIDE DEF left, R, K
<1>4. /\ Len(left) \in Nat /\ left \in Seq(R) /\ s \in R
      /\ \A i \in 1..Len(left) : left[i] \in K
  BY <1>1, <1>2 DEF R
<1>5. /\ Append(left, s) \in Seq(R) /\ Len(Append(left, s)) = Len(left) + 1
      /\ Append(left, s)[Len(left) + 1] = s
      /\ \A i \in 1..Len(left) : Append(left, s)[i] = left[i]
  BY <1>4, AppendProperties
<1>6. DOMAIN Append(left, s) = 1..Len(left) + 1
  BY <1>4, <1>5
<1>7. ASSUME NEW i \in DOMAIN Append(left, s)
      PROVE  Append(left, s)[i] = s \/ Append(left, s)[i] \in K
  <2>1. i = Len(left) + 1 \/ i \in 1..Len(left)
    BY <1>4, <1>6
  <2> QED
    BY <1>4, <1>5, <2>1
<1> QED
  BY <1>3, <1>5, <1>7 DEF R, K

\* The registration takes one strategy after the other.
IsRegistered(f) ==
    /\ f[0] = <<>> /\ f[Len(Registrations)] = Strategies
    /\ \A i \in 1..Len(Registrations) : f[i] = Register(f[i - 1], Registrations[i])

\* There is such a run.
LEMMA RegistrationRun ==
    \E f \in [0..Len(Registrations) -> Seq(Range(Registrations))] : IsRegistered(f)
<1> DEFINE n == Len(Registrations)
           S == Seq(Range(Registrations))
           F == [i \in 1..n |-> [list \in S |-> Register(list, Registrations[i])]]
           first == <<>>
           Registers(it) == it = [s \in SUBSET (DOMAIN Registrations) |->
                                 IF s = {} THEN first
                                 ELSE Register(it[s \ {Max(s)}], Registrations[Max(s)])]
           it == CHOOSE it : Registers(it)
<1>1. /\ n \in Nat /\ DOMAIN Registrations = 1..n
      /\ \A i \in 1..n : Registrations[i] \in Range(Registrations)
      /\ first \in S
  <2>1. Registrations \in Seq(Range(Registrations))
    BY UrlAssumption
  <2>2. n \in Nat /\ DOMAIN Registrations = 1..n
    BY <2>1
  <2> QED
    BY <2>2, EmptySeq DEF Range
<1>2. F \in [1..n -> [S -> S]]
  <2> DEFINE e(i, t) == Register(t, Registrations[i])
  <2>1. \A i \in 1..n : \A t \in S : e(i, t) \in S
    BY <1>1, RegisterIs
  <2> HIDE DEF e, S
  <2>2. [i \in 1..n |-> [t \in S |-> e(i, t)]] \in [1..n -> [S -> S]]
    BY <2>1
  <2> QED
    BY <2>2 DEF e
<1>3. PICK g \in [SUBSET (1..n) -> S] : IsFold(g, n, first, F)
  <2> HIDE DEF F, n, first, S
  <2> QED
    BY <1>1, <1>2, FoldExists, Zenon
<1>4. ASSUME NEW s \in SUBSET (1..n), s # {}
      PROVE  Max(s) \in 1..n /\ s \ {Max(s)} \in SUBSET (1..n)
  <2>1. s \in SUBSET (0..n)
    OBVIOUS
  <2>2. Max(s) \in s
    BY <1>1, <1>4, <2>1, MaxOf
  <2> QED
    BY <2>2
<1>5. ASSUME NEW i \in 1..n, NEW t \in S PROVE F[i][t] = Register(t, Registrations[i])
  <2> HIDE DEF S
  <2> QED
    OBVIOUS
<1>6. Registers(g)
  <2> HIDE DEF F, first, n, S
  <2>1. ASSUME NEW s \in SUBSET (1..n)
        PROVE  g[s] = IF s = {} THEN first ELSE Register(g[s \ {Max(s)}], Registrations[Max(s)])
    BY <1>3, <1>4, <1>5 DEF IsFold
  <2> QED
    BY <1>1, <2>1
<1>7. Registers(it)
  <2> HIDE DEF Registers
  <2> QED
    BY <1>6
<1>8. Strategies = it[1..n]
  BY <1>1 DEF Strategies, FoldLeft, MapThenFoldSet
<1>9. /\ it[{}] = first
      /\ \A s \in SUBSET (1..n) : s # {} /\ it[s \ {Max(s)}] \in S
                                     => it[s] = F[Max(s)][it[s \ {Max(s)}]]
  <2> HIDE DEF it, F, first, n, S
  <2>1. ASSUME NEW s \in SUBSET (1..n)
        PROVE  it[s] = IF s = {} THEN first ELSE Register(it[s \ {Max(s)}], Registrations[Max(s)])
    BY <1>1, <1>7
  <2> QED
    BY <1>4, <1>5, <2>1
<1>10. PICK f \in [0..n -> S] : IsRun(f, n, first, F, it[1..n])
  <2> HIDE DEF it, F, n, first, S
  <2> QED
    BY <1>1, <1>2, <1>9, FoldRuns, Zenon
<1>11. ASSUME NEW i \in 1..n PROVE f[i] = Register(f[i - 1], Registrations[i])
  <2>1. i - 1 \in 0..n /\ f[i - 1] \in S
    <3> HIDE DEF S
    <3> QED
      BY <1>1
  <2> HIDE DEF F, S
  <2> QED
    BY <1>5, <1>10, <2>1 DEF IsRun
<1>12. IsRegistered(f)
  <2> HIDE DEF it, F, S
  <2> QED
    BY <1>8, <1>10, <1>11 DEF IsRun, IsRegistered
<1> QED
  BY <1>10, <1>12

\* Of the first n registrations, none after that of s has the same prefix.
Newest(s, n) ==
    \E i \in 1..n : /\ Registrations[i] = s
                    /\ \A k \in i + 1..n : ~SamePrefix(s.prefix, Registrations[k].prefix)

\* All strategies in the list are the newest of their prefix.
LEMMA StrategiesAreNewest ==
    /\ Strategies \in Seq(Range(Registrations))
    /\ \A i \in DOMAIN Strategies : Newest(Strategies[i], Len(Registrations))
<1> DEFINE n == Len(Registrations)
<1>1. PICK f \in [0..n -> Seq(Range(Registrations))] : IsRegistered(f)
  BY RegistrationRun
<1> DEFINE A == {k \in 0..n : \A i \in DOMAIN f[k] : Newest(f[k][i], k)}
<1>2. n \in Nat /\ DOMAIN Registrations = 1..n
  <2>1. Registrations \in Seq(Range(Registrations))
    BY UrlAssumption
  <2> QED
    BY <2>1
<1>3. 0 \in A
  <2>1. f[0] = <<>>
    BY <1>1 DEF IsRegistered
  <2>2. DOMAIN f[0] = {}
    BY <2>1
  <2> QED
    BY <1>2, <2>2
<1>4. ASSUME NEW k \in 0..n, k < n, k \in A PROVE k + 1 \in A
  <2> DEFINE list == f[k]
             s == Registrations[k + 1]
             next == f[k + 1]
  <2>1. /\ k + 1 \in 1..n /\ (k + 1) - 1 = k /\ k \in Nat /\ k + 1 \in 0..n
        /\ list \in Seq(Range(Registrations)) /\ s \in Range(Registrations)
    BY <1>1, <1>2, <1>4 DEF Range
  <2>2. next = Register(list, s)
    BY <1>1, <2>1 DEF IsRegistered
  <2>3. \A i \in DOMAIN list : Newest(list[i], k)
    BY <1>4
  <2>4. \A i \in DOMAIN next :
           \/ next[i] = s
           \/ /\ ~SamePrefix(next[i].prefix, s.prefix)
              /\ \E j \in DOMAIN list : next[i] = list[j]
    <3> HIDE DEF list, s, next
    <3> QED
      BY <2>1, <2>2, RegisterIs
  <2>5. Newest(s, k + 1)
    <3>1. k + 1 \in 1..k + 1 /\ (k + 1) + 1..k + 1 = {}
      BY <2>1
    <3> QED
      BY <3>1 DEF Newest
  <2>6. ASSUME NEW x, Newest(x, k), ~SamePrefix(x.prefix, s.prefix) PROVE Newest(x, k + 1)
    <3>1. PICK i \in 1..k : /\ Registrations[i] = x
                            /\ \A j \in i + 1..k : ~SamePrefix(x.prefix, Registrations[j].prefix)
      BY <2>6 DEF Newest
    <3>2. i \in 1..k + 1 /\ \A j \in i + 1..k + 1 : j = k + 1 \/ j \in i + 1..k
      BY <2>1
    <3>3. \A j \in i + 1..k + 1 : ~SamePrefix(x.prefix, Registrations[j].prefix)
      BY <2>6, <3>1, <3>2
    <3> QED
      BY <3>1, <3>2, <3>3 DEF Newest
  <2> HIDE DEF list, s, next
  <2>7. \A i \in DOMAIN next : Newest(next[i], k + 1)
    BY <2>3, <2>4, <2>5, <2>6
  <2> QED
    BY <2>1, <2>7 DEF next
<1>5. \A k \in 0..n : k \in A
  <2> HIDE DEF A, n
  <2> QED
    BY <1>2, <1>3, <1>4, Induction
<1>6. Strategies = f[n] /\ n \in 0..n /\ n \in A
  BY <1>1, <1>2, <1>5 DEF IsRegistered
<1> QED
  BY <1>6

\* A URL that has strategies is extracted by one in whose scope it is and that is not replaced.
LEMMA FoundIsWell ==
    ASSUME NEW url \in Urls, StrategiesOf[url] # {}
    PROVE  url \in WellExtracted
<1> DEFINE places == StrategiesOf[url]
           strategy == Strategies[Min(places)]
           n == Len(Registrations)
           same == {i \in DOMAIN Registrations : Registrations[i] = strategy}
           last == Max(same)
<1>1. /\ url.scheme # "" /\ url.path \in Seq(Chars)
      /\ n \in Nat /\ DOMAIN Registrations = 1..n
      /\ \A i \in 1..n : Registrations[i].prefix.path \in Seq(Chars)
  <2>1. Registrations \in Seq(Range(Registrations))
    BY UrlAssumption
  <2>2. n \in Nat /\ DOMAIN Registrations = 1..n
    BY <2>1
  <2>3. url.scheme # ""
    BY UrlAssumption
  <2>4. url.path \in Seq(Chars)
    BY UrlAssumption, CharPaths, Zenon
  <2>5. \A i \in DOMAIN Registrations : Registrations[i].prefix.path \in Seq(Chars)
    BY UrlAssumption, CharPaths, Zenon
  <2> QED
    BY <2>2, <2>3, <2>4, <2>5
<1>2. places = {i \in DOMAIN Strategies : url.scheme # "" /\ url.host # ""
                                          /\ MatchesDomain(url, Strategies[i].prefix)}
  BY DEF StrategiesOf, Matching
<1>3. DOMAIN Strategies \subseteq Nat /\ \A i \in DOMAIN Strategies : Newest(Strategies[i], n)
  BY StrategiesAreNewest
<1> HIDE DEF places
<1>4. Min(places) \in places
  <2>1. places \in SUBSET Nat /\ places # {}
    BY <1>2, <1>3 DEF places
  <2> QED
    BY <2>1, MinOf
<1>5. MatchesDomain(url, strategy.prefix) /\ Newest(strategy, n)
  BY <1>2, <1>3, <1>4
<1> HIDE DEF strategy
<1>6. PICK i \in 1..n : /\ Registrations[i] = strategy
                        /\ \A k \in i + 1..n : ~SamePrefix(strategy.prefix, Registrations[k].prefix)
  BY <1>5 DEF Newest
<1>7. last = i
  <2>1. same \in SUBSET (0..n) /\ i \in same
    <3>1. \A k \in same : k \in 1..n
      BY <1>1
    <3>2. i \in DOMAIN Registrations
      BY <1>1
    <3> QED
      BY <1>6, <3>1, <3>2
  <2> HIDE DEF same
  <2>2. last \in same /\ last >= i
    BY <1>1, <2>1, MaxOf
  <2>3. last \in 1..n /\ Registrations[last] = strategy
    BY <1>1, <2>2 DEF same
  <2>4. SamePrefix(strategy.prefix, strategy.prefix)
    BY DEF SamePrefix, SameSite
  <2>5. last \notin i + 1..n
    BY <1>6, <2>3, <2>4
  <2> HIDE DEF last
  <2> QED
    BY <2>2, <2>3, <2>5
<1>8. InScope(url, strategy.prefix)
  <2>1. strategy.prefix.path \in Seq(Chars)
    BY <1>1, <1>6
  <2> QED
    BY <1>1, <1>5, <2>1, MatchingIsScope
<1>9. ASSUME NEW k \in i + 1..n
      PROVE  ~SameSite(Registrations[k].prefix, strategy.prefix)
             \/ Stem(Registrations[k].prefix.path) # Stem(strategy.prefix.path)
  <2> SUFFICES ASSUME SameSite(Registrations[k].prefix, strategy.prefix),
                      Stem(Registrations[k].prefix.path) = Stem(strategy.prefix.path)
               PROVE  FALSE
    OBVIOUS
  <2>1. k \in 1..n
    OBVIOUS
  <2>2. WithoutSlashes(Registrations[k].prefix.path) = WithoutSlashes(strategy.prefix.path)
    BY <1>1, <1>6, <2>1, StemTells
  <2> QED
    BY <1>6, <2>2 DEF SamePrefix, SameSite
<1> HIDE DEF same
<1> QED
  BY <1>7, <1>8, <1>9 DEF WellExtracted, strategy, places, same

\* What the code allows is what is in the scope of an allowed prefix.
LEMMA AllowedIsInScope == AllowedUrls = InAnyScope
<1>1. ASSUME NEW url \in Urls, NEW prefix \in AllowedDomains
      PROVE  MatchesDomain(url, prefix) <=> InScope(url, prefix)
  BY UrlAssumption, CharPaths, MatchingIsScope
<1>2. \A url \in Urls : url.scheme \in {"http", "https"} /\ url.host # ""
  BY UrlAssumption
<1> QED
  BY <1>1, <1>2 DEF AllowedUrls, InAnyScope, IsAllowed

-----------------------------------------------------------------------------
(***************************************************************************)
(* Scopes in the running system.                                           *)
(***************************************************************************)

\* The same with what the code computes: allowed URLs, and those with a strategy.
Scoped ==
    /\ \A j \in Jobs : status[j] # "none" => place[j] \in Places /\ place[j][2] \in AllowedUrls
    /\ \A c \in Clients : \A i \in DOMAIN outcome[c] :
          outcome[c][i] = "domain_not_allowed" => request[c].items[i] \notin AllowedUrls
    /\ \A j \in Jobs : status[j] = "INDEXED" => StrategiesOf[place[j][2]] # {}

\* No job and no outcome in the beginning.
LEMMA InitScoped == Init => Scoped
<1>1. DOMAIN <<>> = {}
  OBVIOUS
<1> QED
  BY <1>1 DEF Init, Scoped

\* Every step registers only what is allowed and indexes only what has a strategy.
LEMMA StepScoped == IInv /\ Scoped /\ [Next]_vars => Scoped'
<1> SUFFICES ASSUME IInv, Scoped, [Next]_vars PROVE Scoped'
  OBVIOUS
<1>0. TypeOK /\ Flow
  BY DEF IInv
<1>1. ASSUME NEW c \in Clients, RegisterBatch(c) PROVE Scoped'
  <2>1. /\ pc[c] = "register" /\ UNCHANGED <<request, outcome>>
        /\ status' = [j \in Jobs |-> IF j \in Accepted(c) THEN "PENDING" ELSE status[j]]
        /\ place' = [j \in Jobs |-> IF j \in Accepted(c) THEN PlaceOf(c, j) ELSE place[j]]
    BY <1>1 DEF RegisterBatch
  <2>2. ASSUME NEW j \in Accepted(c)
        PROVE  place'[j] \in Places /\ place'[j][2] \in AllowedUrls /\ status'[j] = "PENDING"
    BY <2>1, AcceptedItem
  <2>3. ASSUME NEW j \in Jobs, j \notin Accepted(c)
        PROVE  place'[j] = place[j] /\ status'[j] = status[j]
    BY <2>1, <2>3
  <2>4. ASSUME NEW j \in Jobs
        PROVE  /\ status'[j] # "none" => place'[j] \in Places /\ place'[j][2] \in AllowedUrls
               /\ status'[j] = "INDEXED" => StrategiesOf[place'[j][2]] # {}
    BY <2>2, <2>3 DEF Scoped
  <2> QED
    BY <2>1, <2>4 DEF Scoped
<1>2. ASSUME NEW j \in Jobs, Work(j) PROVE Scoped'
  <2>1. PICK result \in {"INDEXED", "FAILED"} :
          /\ result = "INDEXED" => /\ place[j][2] \in AllowedUrls
                                   /\ StrategiesOf[place[j][2]] # {}
          /\ status' = [status EXCEPT ![j] = result]
    BY <1>2 DEF Work
  <2>2. UNCHANGED <<request, outcome, place>> /\ status[j] # "none"
    BY <1>0, <1>2 DEF Work, Handled, Flow
  <2>3. status'[j] = result /\ \A k \in Jobs : k # j => status'[k] = status[k]
    BY <1>0, <2>1 DEF TypeOK
  <2> QED
    BY <2>1, <2>2, <2>3 DEF Scoped
<1>3. ASSUME NEW c \in Clients, Receive(c) PROVE Scoped'
  <2>1. PICK r \in Requests[c] : request' = [request EXCEPT ![c] = r]
    BY <1>3 DEF Receive
  <2>2. UNCHANGED <<status, place, outcome>> /\ outcome[c] = <<>>
    BY <1>3 DEF Receive, Registered, IInv, Inspected
  <2>3. ASSUME NEW d \in Clients
        PROVE  outcome'[d] = <<>> \/ (outcome'[d] = outcome[d] /\ request'[d] = request[d])
    BY <1>0, <2>1, <2>2 DEF TypeOK
  <2> QED
    BY <2>2, <2>3 DEF Scoped
<1>9. ASSUME NEW c \in Clients, Inspect(c) PROVE Scoped'
  <2> DEFINE i == Len(outcome[c]) + 1
             out == Outcome(c, i)
  <2>1. UNCHANGED <<status, place, request>> /\ outcome' = [outcome EXCEPT ![c] = Append(@, out)]
    BY <1>9 DEF Inspect, Registered
  <2>2. out = "domain_not_allowed" => request[c].items[i] \notin AllowedUrls
    BY OutcomeSays
  <2>3. outcome[c] \in Seq(SkipReasons \cup Acceptances) /\ Len(outcome[c]) \in Nat
    BY <1>0 DEF TypeOK
  <2> HIDE DEF out
  <2>4. outcome'[c] = Append(outcome[c], out) /\ \A d \in Clients : d # c => outcome'[d] = outcome[d]
    BY <1>0, <2>1 DEF TypeOK
  <2>5. ASSUME NEW k \in DOMAIN outcome'[c]
        PROVE  \/ k = i /\ outcome'[c][k] = out
               \/ k \in DOMAIN outcome[c] /\ outcome'[c][k] = outcome[c][k]
    BY <2>3, <2>4
  <2> HIDE DEF i
  <2>6. ASSUME NEW d \in Clients, NEW k \in DOMAIN outcome'[d],
               outcome'[d][k] = "domain_not_allowed"
        PROVE  request'[d].items[k] \notin AllowedUrls
    BY <2>1, <2>2, <2>4, <2>5, <2>6 DEF Scoped
  <2> QED
    BY <2>1, <2>6 DEF Scoped
<1>4. ASSUME NEW c \in Clients, RegisterFails(c) \/ Succeed(c) \/ GiveUp(c) PROVE Scoped'
  <2>1. UNCHANGED <<status, place, request>> /\ outcome' = [outcome EXCEPT ![c] = <<>>]
    BY <1>4 DEF RegisterFails, Succeed, GiveUp, Answers, Registered
  <2>2. ASSUME NEW d \in Clients PROVE DOMAIN outcome'[d] = {} \/ outcome'[d] = outcome[d]
    BY <1>0, <2>1 DEF TypeOK
  <2> QED
    BY <2>1, <2>2 DEF Scoped
<1>5. CASE UNCHANGED <<status, place, request, outcome>>
  BY <1>5 DEF Scoped
<1>6. ASSUME NEW c \in Clients, Gather(c) PROVE UNCHANGED <<status, place, request, outcome>>
  BY <1>6 DEF Gather, Registered
<1>7. ASSUME NEW j \in Jobs, Call(j) PROVE UNCHANGED <<status, place, request, outcome>>
  BY <1>7 DEF Call, Connect, EnqueueJob, CallFails, CallGoes, Handled, Registered
<1>8. CASE Crash
  <2>1. UNCHANGED <<status, place, request>> /\ \A d \in Clients : outcome'[d] = <<>>
    BY <1>8 DEF Crash, Registered
  <2> QED
    BY <2>1 DEF Scoped
<1>10. UNCHANGED vars => UNCHANGED <<status, place, request, outcome>>
  BY DEF vars
<1> QED
  BY <1>1, <1>2, <1>3, <1>4, <1>5, <1>6, <1>7, <1>8, <1>9, <1>10
  DEF Next, Handlers, Calls, Workers, Handle

\* With what allowing and finding a strategy mean, that is the property.
LEMMA ScopedRespects == Scoped => ScopesAreRespected
<1> SUFFICES ASSUME Scoped PROVE ScopesAreRespected
  OBVIOUS
<1>1. ASSUME NEW j \in Jobs, status[j] = "INDEXED" PROVE place[j][2] \in WellExtracted
  <2>1. place[j] \in Places /\ StrategiesOf[place[j][2]] # {}
    BY <1>1 DEF Scoped
  <2>2. place[j][2] \in Urls
    BY <2>1 DEF Places
  <2> QED
    BY <2>1, <2>2, FoundIsWell
<1> QED
  BY <1>1, AllowedIsInScope DEF Scoped, ScopesAreRespected

-----------------------------------------------------------------------------
(* Every reachable state is type correct, whatever clients send and however  *)
(* Redis, the database and the API process fail.                             *)
THEOREM SubmissionTypeCorrect == Spec => []TypeOK
<1>1. IInv => TypeOK
  BY DEF IInv
<1> QED
  BY <1>1, InitOK, StepIInv, PTL DEF Spec

(* A request is answered 202 only when all its accepted jobs are sent, 400   *)
(* and 422 only when nothing is registered.                                  *)
THEOREM AnswersAreTrue == Spec => []AnswerTellsTruth
<1>1. IInv /\ AnswerTellsTruth /\ [Next]_vars => (IInv /\ AnswerTellsTruth)'
  BY StepIInv, StepAnswers DEF IInv
<1> QED
  BY <1>1, InitOK, PTL DEF Spec

(* However often and by whomever it is submitted, a document has at most one *)
(* job that is not over, unless registrations have overlapped after its job  *)
(* had failed and one of them is not over yet.                               *)
THEOREM OneLiveJobPerDocument == Spec => []RetriesDoNotDouble
<1>1. IInv /\ Current /\ [Next]_vars => (IInv /\ Current)'
  BY StepIInv, StepCurrent
<1> QED
  BY <1>1, InitOK, CurrentIsUnique, PTL DEF Spec

(* Only URLs in the scope of an allowed prefix are registered, only others   *)
(* are refused for their domain, and a job is indexed by a strategy in whose *)
(* scope its URL is and that was not replaced: comparing characters as the   *)
(* code does is comparing segments, for URLs, prefixes and registrations of  *)
(* any number and length.                                                    *)
THEOREM ScopesAlwaysRespected == Spec => []ScopesAreRespected
<1>1. IInv /\ Scoped /\ [Next]_vars => (IInv /\ Scoped)'
  BY StepIInv, StepScoped
<1> QED
  BY <1>1, InitOK, InitScoped, ScopedRespects, PTL DEF Spec
=============================================================================
