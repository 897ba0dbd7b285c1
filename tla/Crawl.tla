------------------------------- MODULE Crawl --------------------------------
(***************************************************************************)
(* The runs of one worker process that extract pages:                      *)
(*   - the limiter hands out MaxConcurrency slots per domain               *)
(*     (app/services/extractors/limiter.py);                               *)
(*   - a run keeps its slot through all attempts and the pauses between    *)
(*     them (extract and _crawl_with_retry of app/services/extractors/     *)
(*     web.py);                                                            *)
(*   - job_timeout or a shutdown cancels a run at any await.               *)
(* A URL without an extraction strategy fails before it asks for a slot    *)
(* and does not appear here.                                               *)
(* The limiter is an asyncio.Semaphore: first come, first served, and a    *)
(* slot is handed to a waiting run before that run is resumed.             *)
(***************************************************************************)
EXTENDS Integers, Sequences, FiniteSets, SequencesExt

CONSTANTS
    Runs,            \* runs of the worker, each with a URL
    Domains,         \* hosts of the URLs
    DomainOf,        \* the host of the URL of each run
    MaxConcurrency,  \* SCRAPER_MAX_CONCURRENCY_PER_DOMAIN
    MaxRetries,      \* SCRAPER_MAX_RETRIES
    MaxRetryDelay,   \* SCRAPER_MAX_RETRY_DELAY, in seconds
    BackoffFactor,   \* SCRAPER_BACKOFF_FACTOR, in seconds
    RetryAfters,     \* bound: delays a server may ask for
    NoHeader         \* no Retry-After, or one that cannot be parsed

ASSUME CrawlAssumption ==
    /\ IsFiniteSet(Runs)
    /\ DomainOf \in [Runs -> Domains]
    /\ MaxConcurrency \in Nat \ {0}
    /\ MaxRetries \in Nat
    /\ MaxRetryDelay \in Nat
    /\ BackoffFactor \in Nat
    /\ RetryAfters \subseteq Nat
    /\ NoHeader \notin Nat

\* The backoff is a number of seconds: arithmetic, stated for the provers, which know
\* nothing of exponentiation.
ASSUME BackoffAssumption == \A a \in 0..MaxRetries : BackoffFactor * 2^a \in Nat

VARIABLES
    phase,           \* what the coroutine extract of a run awaits
    attempt,         \* the local variable of _crawl_with_retry
    pause,           \* the delay it sleeps for
    value,           \* slots left in the semaphore of a domain
    waiters          \* runs whose future is in the queue of the semaphore

vars == <<phase, attempt, pause, value, waiters>>

\* waiting: its future is pending; granted: its future is done and it holds a slot,
\* but the event loop has not resumed it yet.
Phases == {"idle", "waiting", "granted", "crawling", "sleeping"}
Holding == {"granted", "crawling", "sleeping"}

\* The retry counter, the pauses and the semaphores stay within their limits.
TypeOK ==
    /\ phase \in [Runs -> Phases]
    /\ attempt \in [Runs -> 0..MaxRetries]
    /\ pause \in [Runs -> 0..MaxRetryDelay]
    /\ value \in [Domains -> 0..MaxConcurrency]
    /\ waiters \in [Domains -> Seq(Runs)]

Init ==
    /\ phase = [r \in Runs |-> "idle"]
    /\ attempt = [r \in Runs |-> 0]
    /\ pause = [r \in Runs |-> 0]
    /\ value = [d \in Domains |-> MaxConcurrency]
    /\ waiters = [d \in Domains |-> <<>>]

-----------------------------------------------------------------------------
(***************************************************************************)
(* asyncio.Semaphore.                                                      *)
(***************************************************************************)

\* Mutant: one semaphore for all hosts.
OneSemaphore(r) == CHOOSE d \in Domains : TRUE

\* _get_semaphore: the semaphore of the host, created with the first URL of it.
SemaphoreOf(r) == DomainOf[r]

Pending(w) == {i \in DOMAIN w : phase[w[i]] = "waiting"}

\* A newcomer queues behind every run that has not left the queue, resumed or not.
Locked(d) == value[d] = 0 \/ waiters[d] # <<>>

\* Mutant: the last to come is the first to be woken.
LastPending(w, n) ==
    {w[i] : i \in {i \in Pending(w) : Cardinality({k \in Pending(w) : k > i}) < n}}

\* The first n runs of queue w that nobody has woken yet.
FirstPending(w, n) ==
    {w[i] : i \in {i \in Pending(w) : Cardinality({k \in Pending(w) : k < i}) < n}}

Without(w, r) == RemoveAt(w, CHOOSE i \in DOMAIN w : w[i] = r)

\* Run r goes on in phase p and queue w is left, with v slots to give and at most n runs
\* to be woken: each takes a slot before it is resumed.
Rouse(r, p, w, v, n) ==
    LET d == SemaphoreOf(r)
        woken == FirstPending(w, n)
    IN /\ phase' = [x \in Runs |-> IF x = r THEN p
                                   ELSE IF x \in woken THEN "granted" ELSE phase[x]]
       /\ value' = [value EXCEPT ![d] = v - Cardinality(woken)]
       /\ waiters' = [waiters EXCEPT ![d] = w]

\* The local variables of _crawl_with_retry are gone.
Forget(r) ==
    /\ attempt' = [attempt EXCEPT ![r] = 0]
    /\ pause' = [pause EXCEPT ![r] = 0]

\* Mutant: the slot is given back and nobody is told.
ReleaseQuietly(r) ==
    /\ Rouse(r, "idle", waiters[SemaphoreOf(r)], value[SemaphoreOf(r)] + 1, 0)
    /\ Forget(r)

\* release: one more slot, and one run is woken.
Release(r) ==
    /\ Rouse(r, "idle", waiters[SemaphoreOf(r)], value[SemaphoreOf(r)] + 1, 1)
    /\ Forget(r)

\* A run leaves the queue with v slots free and passes on as many as it can.
LeaveQueue(r, p, v) == Rouse(r, p, Without(waiters[SemaphoreOf(r)], r), v, v)

-----------------------------------------------------------------------------
(***************************************************************************)
(* extract                                                                 *)
(***************************************************************************)
\* A slot is free: the first request is sent at once.
Acquire(r) ==
    LET d == SemaphoreOf(r)
    IN /\ phase[r] = "idle"
       /\ ~Locked(d)
       /\ phase' = [phase EXCEPT ![r] = "crawling"]
       /\ value' = [value EXCEPT ![d] = value[d] - 1]
       /\ UNCHANGED <<attempt, pause, waiters>>

Wait(r) ==
    LET d == SemaphoreOf(r)
    IN /\ phase[r] = "idle"
       /\ Locked(d)
       /\ phase' = [phase EXCEPT ![r] = "waiting"]
       /\ waiters' = [waiters EXCEPT ![d] = Append(waiters[d], r)]
       /\ UNCHANGED <<attempt, pause, value>>

Resume(r) ==
    /\ phase[r] = "granted"
    /\ LeaveQueue(r, "crawling", value[SemaphoreOf(r)])
    /\ UNCHANGED <<attempt, pause>>

-----------------------------------------------------------------------------
(***************************************************************************)
(* _crawl_with_retry                                                       *)
(***************************************************************************)
CrawlSucceeds(r) ==
    /\ phase[r] = "crawling"
    /\ Release(r)

\* Mutant: extract gives the slot back only when the crawl succeeds.
RejectedWithSlot(r) ==
    /\ phase[r] = "crawling"
    /\ phase' = [phase EXCEPT ![r] = "idle"]
    /\ UNCHANGED <<attempt, pause, value, waiters>>

\* A client error other than 429 is raised at once, whatever its headers say.
CrawlRejected(r) ==
    /\ phase[r] = "crawling"
    /\ Release(r)

\* Mutant: one attempt too many.
RetryLeftAtLimit(r) == attempt[r] <= MaxRetries

RetryLeft(r) == attempt[r] < MaxRetries

TooLong(asked) == asked # NoHeader /\ asked > MaxRetryDelay

\* The delay the server asks for, or exponential backoff with up to a second of jitter,
\* capped.
Pauses(r, asked) ==
    IF asked # NoHeader THEN {asked}
    ELSE {IF BackoffFactor * 2^attempt[r] + jitter <= MaxRetryDelay
          THEN BackoffFactor * 2^attempt[r] + jitter ELSE MaxRetryDelay : jitter \in {0, 1}}

\* Any other failure of the crawl, with the Retry-After of the answer, is retried ...
CrawlRetried(r, asked) ==
    /\ phase[r] = "crawling"
    /\ ~TooLong(asked)
    /\ RetryLeft(r)
    /\ \E s \in Pauses(r, asked) : pause' = [pause EXCEPT ![r] = s]
    /\ phase' = [phase EXCEPT ![r] = "sleeping"]
    /\ attempt' = [attempt EXCEPT ![r] = attempt[r] + 1]
    /\ UNCHANGED <<value, waiters>>

\* ... unless the server asks for too much or no attempt is left.
CrawlGivesUp(r, asked) ==
    /\ phase[r] = "crawling"
    /\ TooLong(asked) \/ ~RetryLeft(r)
    /\ Release(r)

WakeUp(r) ==
    /\ phase[r] = "sleeping"
    /\ phase' = [phase EXCEPT ![r] = "crawling"]
    /\ pause' = [pause EXCEPT ![r] = 0]
    /\ UNCHANGED <<attempt, value, waiters>>

-----------------------------------------------------------------------------
(***************************************************************************)
(* Cancellation of a run that waits, that was given a slot it has not seen *)
(* yet, or that holds one.                                                 *)
(***************************************************************************)
CancelWaiting(r) ==
    /\ phase[r] = "waiting"
    /\ LeaveQueue(r, "idle", value[SemaphoreOf(r)])
    /\ UNCHANGED <<attempt, pause>>

CancelGranted(r) ==
    /\ phase[r] = "granted"
    /\ LeaveQueue(r, "idle", value[SemaphoreOf(r)] + 1)
    /\ UNCHANGED <<attempt, pause>>

CancelHolding(r) ==
    /\ phase[r] \in {"crawling", "sleeping"}
    /\ Release(r)

-----------------------------------------------------------------------------
Asked == RetryAfters \cup {NoHeader}

CrawlEnds(r) ==
    \/ CrawlSucceeds(r) \/ CrawlRejected(r)
    \/ \E asked \in Asked : CrawlRetried(r, asked) \/ CrawlGivesUp(r, asked)

Cancel(r) == CancelWaiting(r) \/ CancelGranted(r) \/ CancelHolding(r)

Next ==
    \E r \in Runs :
        \/ Acquire(r) \/ Wait(r) \/ Resume(r)
        \/ CrawlEnds(r) \/ WakeUp(r) \/ Cancel(r)

Spec == Init /\ [][Next]_vars

\* The event loop resumes what is ready, a request ends by the page timeout, sleep ends.
Fairness ==
    \A r \in Runs : WF_vars(Resume(r)) /\ WF_vars(CrawlEnds(r)) /\ WF_vars(WakeUp(r))

FairSpec == Spec /\ Fairness

-----------------------------------------------------------------------------
Of(d, phases) == {r \in Runs : DomainOf[r] = d /\ phase[r] \in phases}

\* limiter.py, acquire: no slot of a domain is lost or used twice, whichever way a run
\* ends, so that there never are more requests to a host than allowed.
SlotsAccounted ==
    \A d \in Domains : value[d] + Cardinality(Of(d, Holding)) = MaxConcurrency

\* A run waits only for runs of its own domain: all slots are taken, or one of them has
\* just been given to a run that will pass on what is free.
WaitsForItsDomain ==
    \A r \in Runs :
        phase[r] = "waiting" =>
            \/ Cardinality(Of(DomainOf[r], Holding)) = MaxConcurrency
            \/ Of(DomainOf[r], {"granted"}) # {}

\* The limiter serves the runs of a domain in the order they came in: while a run waits
\* nobody who came later gets a slot.
NoOvertaking ==
    [][\A r, u \in Runs :
          LET w == waiters[DomainOf[r]]
              later == \/ phase[u] = "idle"
                       \/ \E i, k \in DOMAIN w : i < k /\ w[i] = r /\ w[k] = u
          IN (/\ DomainOf[r] = DomainOf[u]
              /\ phase[r] = "waiting"
              /\ later
              /\ phase[u] \notin Holding
              /\ phase'[u] \in Holding) => phase'[r] # "waiting"]_vars

\* A run that waits gets its slot, unless it is cancelled, although others keep theirs
\* through retries and pauses.
EveryRunIsServed == \A r \in Runs : phase[r] = "waiting" ~> phase[r] \in {"crawling", "idle"}
=============================================================================
