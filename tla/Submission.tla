----------------------------- MODULE Submission -----------------------------
(***************************************************************************)
(* From a request to the queue: POST /documents/ingest and                 *)
(* POST /docsets/{docset}/documents (app/api/v1/endpoints) with the checks *)
(* before the registration, the allowlist, the registration of jobs, and   *)
(* the sending of all jobs at once by asyncio.gather over one dispatcher   *)
(* (app/workers/dispatcher.py) that connects to Redis when it is first     *)
(* used.  Clients send requests again, whatever the answer was, and the    *)
(* API process can end at any time.                                        *)
(*                                                                         *)
(* A registration looks at its items one after the other and then commits  *)
(* what it adds; others may commit in between.  Registry takes the locks   *)
(* and the statements of this transaction apart.  A worker's run is one    *)
(* step; Ingestion takes it apart.                                         *)
(***************************************************************************)
EXTENDS Allowlist

CONSTANTS
    Clients,         \* processes that send requests, one at a time
    Requests,        \* client -> requests it may send: [docset, items], the items a
                     \* sequence of URLs
    Unscoped,        \* docset of a request to /documents/ingest, whose path names none
    Default,         \* the docset "default"
    Malformed,       \* result of Cleaned for a name that is not a docset name
    Cleaned,         \* docset parameter -> stripped, in lower case and matched to the pattern
    MaxBatch,        \* max_batch_ingest_size
    AllowedDomains,  \* allowed_domains: a set of prefixes
    Registrations,   \* the strategies in the order they are registered: [name, prefix]
    MaxSends,        \* bound: client -> requests it sends
    MaxCrashes,      \* bound: ends of the API process
    NoJob            \* no job

VARIABLES
    pc,         \* where the handler of a client's request is
    request,    \* the request it handles, or handled last
    sends,      \* number of requests of a client so far
    answer,     \* HTTP status of the last request, "none" before it is answered
    outcome,    \* what was found of its items until it is answered: why an item is accepted,
                \* or why it is skipped
    seen,       \* the latest job of each item when it was looked at, until the commit
    status,     \* ingestion_jobs.status, "none" before the job is registered
    place,      \* document of a registered job: its docset and its URL
    latest,     \* latest job of a document
    raced,      \* history variable: documents with an unfinished job since a registration
                \* committed one without having seen the latest
    send,       \* how far the call of enqueue_ingestion_job for a job is
    connected,  \* dispatcher._pool is not None
    queue,      \* jobs in the queue
    crashes     \* ends of the API process so far

vars == <<pc, request, sends, answer, outcome, seen, status, place, latest, raced, send,
          connected, queue, crashes>>

\* The job of the n-th request of a client for the i-th item.
Jobs == UNION {{c} \X (1..MaxSends[c]) \X (1..MaxBatch) : c \in Clients}
Mine(c) == {j \in Jobs : j[1] = c /\ j[2] = sends[c]}

AllRequests == UNION {Requests[c] : c \in Clients}
Urls == UNION {{r.items[i] : i \in DOMAIN r.items} : r \in AllRequests}
Docset(r) == IF r.docset = Unscoped THEN Default ELSE Cleaned[r.docset]
Docsets == {Docset(r) : r \in AllRequests} \ {Malformed}
Places == Docsets \X Urls

ASSUME SubmissionAssumption ==
    /\ \A c \in Clients : Requests[c] # {}
    /\ \A r \in AllRequests : r.items \in Seq(Urls) /\ r.items # <<>>
    /\ Default # Malformed
    /\ MaxBatch \in Nat \ {0}
    /\ MaxSends \in [Clients -> Nat]
    /\ MaxCrashes \in Nat
    /\ NoJob \notin Jobs

\* What urlsplit makes of the items of a request (each an HttpUrl) and of the settings.
ASSUME UrlAssumption ==
    /\ \A url \in Urls : url.scheme \in {"http", "https"} /\ url.host # ""
                         /\ url.path \in Seq(STRING)
    /\ \A prefix \in AllowedDomains : prefix.path \in Seq(STRING)
    /\ Registrations \in Seq(Range(Registrations))
    /\ \A i \in DOMAIN Registrations : Registrations[i].prefix.path \in Seq(STRING)

\* What the settings and the registered strategies make of the URLs.
AllowedUrls == {url \in Urls : IsAllowed(url, AllowedDomains)}
Strategies == FoldLeft(Register, <<>>, Registrations)
StrategiesOf == [url \in Urls |-> Matching(Strategies, url)]

SkipReasons == {"duplicate_in_request", "domain_not_allowed", "already_ingested",
                "currently_ingesting"}
Acceptances == {"accept_new", "reingest_failed"}
Ongoing == {"connecting", "sending"}

TypeOK ==
    /\ pc \in [Clients -> {"idle", "inspect", "register", "gather", "sending"}]
    /\ request \in [Clients -> AllRequests]
    /\ sends \in [Clients -> Nat] /\ \A c \in Clients : sends[c] <= MaxSends[c]
    /\ answer \in [Clients -> {"none", "202", "400", "422", "500"}]
    /\ outcome \in [Clients -> Seq(SkipReasons \cup Acceptances)]
    /\ seen \in [Clients -> Seq(Jobs \cup {NoJob})]
    /\ status \in [Jobs -> {"none", "PENDING", "INDEXED", "FAILED"}]
    /\ place \in [Jobs -> Places \cup {NoJob}]
    /\ latest \in [Places -> Jobs \cup {NoJob}]
    /\ raced \subseteq Places
    /\ send \in [Jobs -> Ongoing \cup {"none", "sent", "failed"}]
    /\ connected \in BOOLEAN
    /\ queue \subseteq Jobs
    /\ crashes \in 0..MaxCrashes

Init ==
    /\ pc = [c \in Clients |-> "idle"]
    /\ request \in [Clients -> {CHOOSE r \in AllRequests : TRUE}]
    /\ sends = [c \in Clients |-> 0]
    /\ answer = [c \in Clients |-> "none"]
    /\ outcome = [c \in Clients |-> <<>>]
    /\ seen = [c \in Clients |-> <<>>]
    /\ status = [j \in Jobs |-> "none"]
    /\ place = [j \in Jobs |-> NoJob]
    /\ latest = [p \in Places |-> NoJob]
    /\ raced = {}
    /\ send = [j \in Jobs |-> "none"]
    /\ connected = FALSE
    /\ queue = {}
    /\ crashes = 0

Registered == UNCHANGED <<status, place, latest, raced>>
Handled == UNCHANGED <<pc, request, sends, answer, outcome, seen>>

-----------------------------------------------------------------------------
(***************************************************************************)
(* The handlers ingest_document and ingest_into_docset.                    *)
(***************************************************************************)

TooLarge(r) == Len(r.items) > MaxBatch

\* The checks before anything is registered, in their order; "none" if all are passed.
Refusal(r) ==
    CASE r.docset # Unscoped /\ Cleaned[r.docset] = Malformed -> "422"
      [] r.docset # Unscoped /\ Cleaned[r.docset] = Default -> "400"
      [] OTHER -> IF TooLarge(r) THEN "422" ELSE "none"

Receive(c) ==
    /\ pc[c] = "idle" /\ sends[c] < MaxSends[c]
    /\ \E r \in Requests[c] :
          /\ request' = [request EXCEPT ![c] = r]
          /\ answer' = [answer EXCEPT ![c] = Refusal(r)]
          /\ pc' = [pc EXCEPT ![c] = IF Refusal(r) = "none" THEN "inspect" ELSE "idle"]
    /\ sends' = [sends EXCEPT ![c] = @ + 1]
    /\ Registered /\ UNCHANGED <<outcome, seen, send, connected, queue, crashes>>

Answers(c, code) ==
    /\ pc' = [pc EXCEPT ![c] = "idle"]
    /\ answer' = [answer EXCEPT ![c] = code]
    /\ outcome' = [outcome EXCEPT ![c] = <<>>]
    /\ seen' = [seen EXCEPT ![c] = <<>>]
    /\ UNCHANGED <<request, sends>>

\* Mutant: the items of a request are not compared with each other.
NeverRepeats(items, i) == FALSE

\* _deduplicate_items: the URL of an item is that of an earlier one.
Repeats(items, i) == \E k \in 1..i - 1 : items[k] = items[i]

PlaceAt(c, i) == <<Docset(request[c]), request[c].items[i]>>
PlaceOf(c, j) == PlaceAt(c, j[3])

\* What is found of the i-th item: a document without a job is a new one.
Outcome(c, i) ==
    LET items == request[c].items
        last == latest[PlaceAt(c, i)]
    IN CASE Repeats(items, i) -> "duplicate_in_request"
         [] ~Repeats(items, i) /\ items[i] \notin AllowedUrls -> "domain_not_allowed"
         [] OTHER -> IF last = NoJob THEN "accept_new"
                     ELSE IF status[last] = "FAILED" THEN "reingest_failed"
                     ELSE IF status[last] = "INDEXED" THEN "already_ingested"
                     ELSE "currently_ingesting"

\* create_batch_and_jobs looks at the next item.
Inspect(c) ==
    /\ pc[c] = "inspect"
    /\ LET i == Len(outcome[c]) + 1
       IN /\ outcome' = [outcome EXCEPT ![c] = Append(@, Outcome(c, i))]
          /\ seen' = [seen EXCEPT ![c] = Append(@, latest[PlaceAt(c, i)])]
          /\ pc' = [pc EXCEPT ![c] = IF i = Len(request[c].items) THEN "register" ELSE @]
    /\ Registered /\ UNCHANGED <<request, sends, answer, send, connected, queue, crashes>>

\* The items of a request that are accepted, as their jobs.
Accepted(c) == {j \in Mine(c) : j[3] \in DOMAIN outcome[c] /\ outcome[c][j[3]] \in Acceptances}

\* Those whose document has got a job from another registration since it was looked at.
Overtaken(c) == {j \in Accepted(c) : latest[PlaceOf(c, j)] # seen[c][j[3]]}

\* The commit of create_batch_and_jobs.  The unique index on documents refuses a second new
\* document of a URL, and nothing refuses a second job of a document: the later one of the two
\* is the one created later, which need not be the one committed later.
RegisterBatch(c) ==
    /\ pc[c] = "register"
    /\ \A j \in Overtaken(c) : outcome[c][j[3]] # "accept_new"
    /\ pc' = [pc EXCEPT ![c] = "gather"]
    /\ seen' = [seen EXCEPT ![c] = <<>>]
    /\ status' = [j \in Jobs |-> IF j \in Accepted(c) THEN "PENDING" ELSE status[j]]
    /\ place' = [j \in Jobs |-> IF j \in Accepted(c) THEN PlaceOf(c, j) ELSE place[j]]
    /\ \E older \in SUBSET Overtaken(c) :
          latest' = [p \in Places |->
                        IF \E j \in Accepted(c) \ older : PlaceOf(c, j) = p
                        THEN CHOOSE j \in Accepted(c) \ older : PlaceOf(c, j) = p ELSE latest[p]]
    /\ raced' = raced \cup {PlaceOf(c, j) : j \in Overtaken(c)}
    /\ UNCHANGED <<request, sends, answer, outcome, send, connected, queue, crashes>>

\* The transaction fails and is rolled back, or it is committed and reading the rows back fails.
RegisterFails(c) ==
    /\ pc[c] \in {"inspect", "register", "gather"}
    /\ Answers(c, "500")
    /\ Registered /\ UNCHANGED <<send, connected, queue, crashes>>

\* asyncio.gather starts a call for every accepted job, each up to its first await; in get_pool
\* every call connects for itself while nothing is connected.
Gather(c) ==
    /\ pc[c] = "gather"
    /\ pc' = [pc EXCEPT ![c] = "sending"]
    /\ send' = [j \in Jobs |->
                   IF j \in Mine(c) /\ status[j] # "none"
                   THEN IF connected THEN "sending" ELSE "connecting" ELSE send[j]]
    /\ Registered
    /\ UNCHANGED <<request, sends, answer, outcome, seen, connected, queue, crashes>>

\* Mutant: asyncio.gather is called with return_exceptions=True.
SucceedWhenOver(c) ==
    /\ pc[c] = "sending"
    /\ \A j \in Mine(c) : send[j] \notin Ongoing
    /\ Answers(c, "202")
    /\ Registered /\ UNCHANGED <<send, connected, queue, crashes>>

\* asyncio.gather returns: every call has.
Succeed(c) ==
    /\ pc[c] = "sending"
    /\ \A j \in Mine(c) : status[j] = "none" \/ send[j] = "sent"
    /\ Answers(c, "202")
    /\ Registered /\ UNCHANGED <<send, connected, queue, crashes>>

\* Mutant: asyncio.TaskGroup instead of asyncio.gather: the other calls are cancelled.
GiveUpAll(c) ==
    /\ pc[c] = "sending"
    /\ \E j \in Mine(c) : send[j] = "failed"
    /\ Answers(c, "500")
    /\ send' = [j \in Jobs |-> IF j \in Mine(c) /\ send[j] \in Ongoing THEN "none" ELSE send[j]]
    /\ Registered /\ UNCHANGED <<connected, queue, crashes>>

\* asyncio.gather raises the DispatcherError of one call, and the others go on.
GiveUp(c) ==
    /\ pc[c] = "sending"
    /\ \E j \in Mine(c) : send[j] = "failed"
    /\ Answers(c, "500")
    /\ Registered /\ UNCHANGED <<send, connected, queue, crashes>>

-----------------------------------------------------------------------------
(***************************************************************************)
(* ArqTaskDispatcher: one call of enqueue_ingestion_job for each job.      *)
(***************************************************************************)

CallGoes(j, from, to) ==
    /\ send[j] = from
    /\ send' = [send EXCEPT ![j] = to]
    /\ Handled /\ Registered /\ UNCHANGED crashes

\* The pool connected last is the one that is kept.
Connect(j) ==
    /\ CallGoes(j, "connecting", "sending")
    /\ connected' = TRUE
    /\ UNCHANGED queue

EnqueueJob(j) ==
    /\ CallGoes(j, "sending", "sent")
    /\ queue' = queue \cup {j}
    /\ UNCHANGED connected

\* DispatcherError: Redis is not reached, or its answer is lost after it stored the job.
CallFails(j) ==
    /\ \/ CallGoes(j, "connecting", "failed") /\ UNCHANGED queue
       \/ CallGoes(j, "sending", "failed") /\ queue' \in {queue, queue \cup {j}}
    /\ UNCHANGED connected

-----------------------------------------------------------------------------
\* A job is over: the document is no longer raced if it was the last unfinished one.
WorkedOff(j) == raced' = {p \in raced : \E k \in Jobs \ {j} : status[k] = "PENDING" /\ place[k] = p}

\* Mutant: a URL without a strategy is skipped without a word.
SkipUnmapped(j) ==
    /\ j \in queue
    /\ queue' = queue \ {j}
    /\ \E result \in {"INDEXED", "FAILED"} :
          status' = [status EXCEPT ![j] = IF StrategiesOf[place[j][2]] # {}
                                          THEN result ELSE @]
    /\ WorkedOff(j)
    /\ Handled /\ UNCHANGED <<place, latest, send, connected, crashes>>

\* A worker runs a job: it fails if the URL is not allowed or has no strategy, and it may fail
\* otherwise.
Work(j) ==
    /\ j \in queue
    /\ queue' = queue \ {j}
    /\ \E result \in {"INDEXED", "FAILED"} :
          /\ result = "INDEXED" => /\ place[j][2] \in AllowedUrls
                                   /\ StrategiesOf[place[j][2]] # {}
          /\ status' = [status EXCEPT ![j] = result]
    /\ WorkedOff(j)
    /\ Handled /\ UNCHANGED <<place, latest, send, connected, crashes>>

\* The API process ends and starts again: handlers and calls are gone.
Crash ==
    /\ crashes < MaxCrashes
    /\ crashes' = crashes + 1
    /\ connected' = FALSE
    /\ pc' = [c \in Clients |-> "idle"]
    /\ outcome' = [c \in Clients |-> <<>>]
    /\ seen' = [c \in Clients |-> <<>>]
    /\ send' = [j \in Jobs |-> IF send[j] \in Ongoing THEN "none" ELSE send[j]]
    /\ Registered /\ UNCHANGED <<request, sends, answer, queue>>

Handle(c) == Inspect(c) \/ RegisterBatch(c) \/ RegisterFails(c) \/ Gather(c) \/ Succeed(c) \/ GiveUp(c)
Call(j) == Connect(j) \/ EnqueueJob(j) \/ CallFails(j)

Handlers == \E c \in Clients : Handle(c)
Calls == \E j \in Jobs : Call(j)
Workers == \E j \in Jobs : Work(j)

Next ==
    \/ \E c \in Clients : Receive(c)
    \/ Handlers \/ Calls \/ Workers
    \/ Crash

\* The event loop runs what is ready, calls to Redis have timeouts, and workers take jobs from
\* the queue; nobody has to send a request, and nothing forces Redis to answer well.
Spec == Init /\ [][Next]_vars /\ WF_vars(Handlers) /\ WF_vars(Calls) /\ WF_vars(Workers)

-----------------------------------------------------------------------------
(* The answer says what happened: 202 that every accepted job was sent (and  *)
(* not only that it was registered), 400 and 422 that nothing is registered. *)
AnswerTellsTruth ==
    \A c \in Clients : \A j \in Mine(c) :
        /\ answer[c] = "202" /\ status[j] # "none" => send[j] = "sent"
        /\ answer[c] \in {"400", "422"} => status[j] = "none"

(* However often requests are sent again after an answer of 500, in part or  *)
(* in full, by whatever spelling of the docset, with whatever repetition     *)
(* inside one request, and however first registrations of a URL overlap: a   *)
(* document has at most one job that is not over.  The exception is a        *)
(* document for which two registrations overlapped after its job had failed: *)
(* neither sees the job of the other.                                        *)
RetriesDoNotDouble ==
    \A j, k \in Jobs :
        status[j] = "PENDING" /\ status[k] = "PENDING" /\ place[j] = place[k]
        => j = k \/ place[j] \in raced

\* One more character: a slash begins a segment, another one goes on with the last.
Cut(parts, char) ==
    IF char = "/" THEN Append(parts, <<>>)
    ELSE [parts EXCEPT ![Len(parts)] = Append(@, char)]

(* A path cut at its slashes. *)
Segments(path) == FoldLeft(Cut, << <<>> >>, path)

\* The segments of a prefix, without the empty ones at its end.
Stem(path) ==
    LET parts == Segments(path)
    IN SubSeq(parts, 1, Max({0} \cup {i \in DOMAIN parts : parts[i] # <<>>}))

(* A URL is in the scope of a prefix: same site, and the segments of the     *)
(* prefix are the first ones of the URL.                                     *)
InScope(url, prefix) ==
    /\ SameSite(url, prefix) /\ prefix.host # ""
    /\ IsPrefix(Stem(prefix.path), Segments(url.path))

InAnyScope == {url \in Urls : \E p \in AllowedDomains : InScope(url, p)}

\* The URLs whose strategy, the first that matches, fits them and was not replaced by one
\* registered later.
WellExtracted ==
    {url \in Urls : StrategiesOf[url] # {} /\
        LET strategy == Strategies[Min(StrategiesOf[url])]
            last == Max({i \in DOMAIN Registrations : Registrations[i] = strategy})
        IN /\ InScope(url, strategy.prefix)
           /\ \A i \in last + 1..Len(Registrations) :
                 LET other == Registrations[i].prefix
                 IN ~SameSite(other, strategy.prefix) \/ Stem(other.path) # Stem(strategy.prefix.path)}

(* Jobs are registered only for URLs in the scope of an allowed prefix,      *)
(* "domain_not_allowed" is said only of others, and a job is indexed only by *)
(* a strategy in whose scope its URL is and that no later registration of    *)
(* the same prefix has replaced.                                             *)
ScopesAreRespected ==
    /\ \A j \in Jobs : status[j] # "none" => place[j][2] \in InAnyScope
    /\ \A c \in Clients : \A i \in DOMAIN outcome[c] :
          outcome[c][i] = "domain_not_allowed" => request[c].items[i] \notin InAnyScope
    /\ \A j \in Jobs : status[j] = "INDEXED" => place[j][2] \in WellExtracted

(* A call to the queue goes on although another one of its request failed    *)
(* and the handler has answered 500 without waiting for it.  If the API      *)
(* process never ended, the jobs of a request are called for all or none     *)
(* (when reading the batch back failed), and those called for end: the call  *)
(* has failed, or the job has been worked on and is over.                    *)
CallsOutliveTheirHandler ==
    <>[](crashes = 0 =>
            \A j, k \in Jobs :
                /\ j[1] = k[1] /\ j[2] = k[2]
                /\ send[k] # "none" /\ status[j] # "none"
                => send[j] = "failed" \/ status[j] \in {"INDEXED", "FAILED"})

(* When requests stop coming, every handler is done with the last one and    *)
(* every job that was sent, which includes those of all requests answered    *)
(* 202, has been worked on and is INDEXED or FAILED: also if the API process *)
(* ended, and also if no strategy is registered for a URL that is allowed.   *)
AcceptedJobsSettle ==
    <>[](/\ \A c \in Clients : pc[c] = "idle"
         /\ \A j \in Jobs : send[j] = "sent" => status[j] \in {"INDEXED", "FAILED"})
=============================================================================
