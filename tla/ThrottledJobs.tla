--------------------------- MODULE ThrottledJobs ---------------------------
(***************************************************************************)
(* The jobs of one tenant on their way to the tax authority's server       *)
(* (GDT).  Every job asks the tenant's limiter for a first permit; a job   *)
(* of kind "chunk" (the header and delta jobs) or "audit" then sends each  *)
(* request through throttledTransport, which asks for a permit of its own, *)
(* while a "single" job (one invoice's lines, one source document) sends   *)
(* its only request on the bare transport.  All requests are retried by    *)
(* fetchWithRetry, and the job finally tells the breaker how it went.      *)
(*                                                                         *)
(* Time is discrete.  A pending call is answered, and a timer fires, before*)
(* the clock passes its deadline; the order within a tick is free.         *)
(***************************************************************************)
EXTENDS RateLimiter

CONSTANTS
    Jobs, KindOf,        \* the jobs, each "chunk", "audit" or "single"
    Pages,               \* requests a "chunk" or "audit" job makes
    MaxAttempts,         \* fetchWithRetry's attempts behind the throttle
    SingleAttempts,      \* fetchWithRetry's attempts of a "single" job
    RetryDelay, MaxWait, \* the throttle's pace and its total patience
    Timeout,             \* the abort signal fetchWithRetry sets on an attempt
    Backoff,             \* its first pause between attempts
    Latency,             \* ticks within which the limiter answers a call
    MaxTime              \* bound on the clock

ASSUME JobsAssumption ==
    /\ KindOf \in [Jobs -> {"chunk", "audit", "single"}]
    /\ {Pages, MaxAttempts, SingleAttempts, RetryDelay, MaxWait,
        Timeout, Backoff, Latency, MaxTime} \subseteq Nat \ {0}

VARIABLES
    now,      \* the clock
    limiter,  \* the tenant's limiter
    job       \* where each job is

vars == <<now, limiter, job>>

\* pc: "preflight"  first tryAcquire in flight
\*     "asking"     tryAcquire of the throttle in flight
\*     "granted"    its permit is on the way back
\*     "waiting"    the throttle sleeps before asking again
\*     "calling"    request sent, no answer yet
\*     "backoff"    fetchWithRetry sleeps before the next attempt
\*     "recording"  recordResult in flight
\*     "done"
Steps == {"preflight", "asking", "granted", "waiting", "calling", "backoff", "recording", "done"}

\* "busy" is GDT's or the throttle's 429, "expired" a 401, "local" the platform's
\* own limit on outgoing calls.
Failures == {"none", "expired", "busy", "transient", "local"}
Verdicts == {"none", "healthy", "unhealthy"}

JobState == [pc : Steps,
             page : 0..Pages,      \* requests answered
             attempt : Nat,
             start : 0..MaxTime,   \* when the attempt, and its timeout, started
             waited : 0..(MaxWait + RetryDelay),
             timer : Nat,          \* deadline of what the job waits for
             failure : Failures,
             verdict : Verdicts,   \* what the job told the breaker
             purse : Int,          \* permits granted to it less requests it sent
             late : Nat]           \* requests it sent since the breaker opened

Done(j) == job[j].pc = "done"
Aborted(j) == now >= job[j].start + Timeout
Attempts(j) == IF KindOf[j] = "single" THEN SingleAttempts ELSE MaxAttempts

TypeOK ==
    /\ now \in 0..MaxTime
    /\ limiter \in LimiterState
    /\ job \in [Jobs -> JobState]
    /\ \A j \in Jobs : job[j].attempt \in 1..Attempts(j)

-----------------------------------------------------------------------------
\* What becomes of job record r (an operator per continuation of the code).

\* The job has its result and is about to tell the breaker.
JobEnds(r, failure) ==
    [r EXCEPT !.pc = "recording", !.page = 0, !.attempt = 1, !.start = 0, !.waited = 0,
              !.timer = now + Latency, !.failure = failure]

Finished(r) == [r EXCEPT !.pc = "done", !.timer = 0, !.failure = "none"]

\* Mutant of Attempting: the throttle asks for a permit on the first attempt only.
Attempting_PaidOnce(j, r) ==
    IF KindOf[j] = "single" \/ r.attempt > 1
    THEN [r EXCEPT !.pc = "calling", !.timer = now + Timeout,
                   !.purse = @ - 1, !.late = IF BreakerOpen(limiter, now) THEN @ + 1 ELSE @]
    ELSE [r EXCEPT !.pc = "asking", !.start = now, !.waited = 0, !.timer = now + Latency]

\* A new attempt: a fresh abort signal; the throttle asks for a permit, the
\* bare transport sends at once.
Attempting(j, r) ==
    IF KindOf[j] = "single"
    THEN [r EXCEPT !.pc = "calling", !.timer = now + Timeout,
                   !.purse = @ - 1, !.late = IF BreakerOpen(limiter, now) THEN @ + 1 ELSE @]
    ELSE [r EXCEPT !.pc = "asking", !.start = now, !.waited = 0, !.timer = now + Latency]

Asking(r) == [r EXCEPT !.pc = "asking", !.timer = now + Latency]

\* The attempt failed: pause and try again, or give the failure to the job.
AttemptFailed(j, r, failure) ==
    IF r.attempt < Attempts(j)
    THEN [r EXCEPT !.pc = "backoff", !.start = 0, !.waited = 0,
                   !.timer = now + Backoff * 2 ^ (r.attempt - 1)]
    ELSE JobEnds(r, failure)

\* What a job tells the breaker.  A 401 and the platform's limit do not speak of
\* GDT's health, so chunks and audits do not record them, audits not even a 429;
\* "single" jobs record every failure.
Silent(kind) ==
    CASE kind = "chunk"  -> {"expired", "local"}
      [] kind = "audit"  -> {"expired", "local", "busy"}
      [] kind = "single" -> {}

Verdict(kind, failure) ==
    CASE failure = "none"         -> "healthy"
      [] failure \in Silent(kind) -> "none"
      [] OTHER                    -> "unhealthy"

-----------------------------------------------------------------------------
\* tryAcquire of the pre-flight: a denial ends the job with backpressure.
Preflight(j) ==
    /\ job[j].pc = "preflight"
    /\ limiter' = AfterAcquire(limiter, now)
    /\ LET permitted == [job[j] EXCEPT !.purse = @ + 1]
       IN job' = [job EXCEPT ![j] = IF Answer(limiter, now) = "allowed"
                                    THEN Attempting(j, permitted)
                                    ELSE Finished(@)]
    /\ UNCHANGED now

\* The limiter decides on a permit the throttle asked for.
Permit(j) ==
    /\ job[j].pc = "asking"
    /\ limiter' = AfterAcquire(limiter, now)
    /\ \/ /\ Answer(limiter, now) = "allowed"
          /\ job' = [job EXCEPT ![j].pc = "granted", ![j].purse = @ + 1]
       \/ /\ Answer(limiter, now) = "breaker_open"
          /\ job' = [job EXCEPT ![j] = AttemptFailed(j, @, "busy")]
       \/ /\ Answer(limiter, now) = "rate_limited"
          /\ job[j].waited >= MaxWait
          /\ job' = [job EXCEPT ![j] = AttemptFailed(j, @, "busy")]
       \/ /\ Answer(limiter, now) = "rate_limited"
          /\ job[j].waited < MaxWait
          /\ job' = [job EXCEPT ![j].pc = "waiting",
                                ![j].waited = @ + RetryDelay,
                                ![j].timer = now + RetryDelay]
    /\ UNCHANGED now

\* The throttle wakes up: it gives up if its caller timed out meanwhile.
Wake(j) ==
    /\ job[j].pc = "waiting"
    /\ now >= job[j].timer
    /\ job' = [job EXCEPT ![j] = IF Aborted(j)
                                 THEN AttemptFailed(j, @, "busy")
                                 ELSE Asking(@)]
    /\ UNCHANGED <<now, limiter>>

\* The permit arrives and the request leaves.  The signal is not looked at
\* again: a fetch whose signal is already aborted fails without leaving.
Fetch(j) ==
    /\ job[j].pc = "granted"
    /\ LET sent == [job[j] EXCEPT
                      !.pc = "calling", !.start = 0, !.waited = 0,
                      !.timer = job[j].start + Timeout, !.purse = @ - 1,
                      !.late = IF BreakerOpen(limiter, now) THEN @ + 1 ELSE @]
       IN job' = [job EXCEPT ![j] = IF Aborted(j)
                                    THEN AttemptFailed(j, @, "transient")
                                    ELSE sent]
    /\ UNCHANGED <<now, limiter>>

\* GDT answered what was asked (for a "single" job also "there is none").
AnswerOk(j) ==
    /\ job[j].pc = "calling"
    /\ LET r == [job[j] EXCEPT !.page = @ + 1, !.attempt = 1]
       IN job' = [job EXCEPT ![j] = IF KindOf[j] = "single" \/ r.page = Pages
                                    THEN JobEnds(r, "none")
                                    ELSE Attempting(j, r)]
    /\ UNCHANGED <<now, limiter>>

\* 401, or another 4xx than 429: fetchWithRetry does not retry it.
AnswerRefused(j) ==
    /\ job[j].pc = "calling"
    /\ \E failure \in {"expired", "transient"} :
          job' = [job EXCEPT ![j] = JobEnds(@, failure)]
    /\ UNCHANGED <<now, limiter>>

\* 429 or 503; 5xx, a network error, or the abort signal at the deadline; or the
\* platform refuses to let the request out.
AnswerFailed(j) ==
    /\ job[j].pc = "calling"
    /\ \E failure \in {"busy", "transient", "local"} :
          job' = [job EXCEPT ![j] = AttemptFailed(j, @, failure)]
    /\ UNCHANGED <<now, limiter>>

\* Mutant of NextAttempt: attempts are not counted.
NextAttempt_NotCounted(j) ==
    /\ job[j].pc = "backoff"
    /\ now >= job[j].timer
    /\ job' = [job EXCEPT ![j] = Attempting(j, @)]
    /\ UNCHANGED <<now, limiter>>

\* The pause is over: the next attempt.
NextAttempt(j) ==
    /\ job[j].pc = "backoff"
    /\ now >= job[j].timer
    /\ LET next == [job[j] EXCEPT !.attempt = @ + 1]
       IN job' = [job EXCEPT ![j] = Attempting(j, next)]
    /\ UNCHANGED <<now, limiter>>

\* The job ends and tells the breaker.
Record(j) ==
    /\ job[j].pc = "recording"
    /\ LET verdict == Verdict(KindOf[j], job[j].failure)
       IN /\ limiter' = IF verdict = "none"
                        THEN limiter
                        ELSE RecordResult(limiter, verdict = "healthy", now)
          /\ job' = [i \in Jobs |->
                        [(IF i = j THEN [Finished(job[i]) EXCEPT !.verdict = verdict] ELSE job[i])
                         EXCEPT !.late = IF ~BreakerOpen(limiter, now) THEN 0 ELSE @]]
    /\ UNCHANGED now

JobStep(j) ==
    \/ Preflight(j) \/ Permit(j) \/ Wake(j) \/ Fetch(j)
    \/ AnswerOk(j) \/ AnswerRefused(j) \/ AnswerFailed(j)
    \/ NextAttempt(j) \/ Record(j)

Tick ==
    /\ now < MaxTime
    /\ \E j \in Jobs : ~Done(j)
    /\ \A j \in Jobs : ~Done(j) => now < job[j].timer
    /\ now' = now + 1
    /\ UNCHANGED <<limiter, job>>

AllDone == (\A j \in Jobs : Done(j)) /\ UNCHANGED vars

Init ==
    /\ now = 0
    /\ limiter = InitialState(0)
    /\ job = [j \in Jobs |->
                [pc |-> "preflight", page |-> 0, attempt |-> 1, start |-> 0, waited |-> 0,
                 timer |-> Latency, failure |-> "none",
                 verdict |-> "none", purse |-> 0, late |-> 0]]

Next == Tick \/ (\E j \in Jobs : JobStep(j)) \/ AllDone

\* Pending calls are answered and timers fire; the clock goes on.
Fairness == WF_vars(Tick) /\ \A j \in Jobs : WF_vars(JobStep(j))

Spec == Init /\ [][Next]_vars /\ Fairness

-----------------------------------------------------------------------------
\* Whatever the throttle, the retries and the breaker do to one another, no
\* job hangs in the worker: it comes to an end (throttledTransport's patience,
\* fetchWithRetry's attempts and timeouts).
EveryJobEnds == <>(\A j \in Jobs : Done(j))

\* Behind the throttle every request that leaves, retries included, has spent
\* a permit of its own: none of them uses up the permit of the pre-flight
\* (throttledTransport).
ThrottledRequestsArePaid ==
    \A j \in Jobs :
        KindOf[j] # "single" /\ job[j].pc \notin {"preflight", "done"} => job[j].purse >= 1

\* Once the breaker is open the tenant's traffic drains: until it closes a
\* throttled job sends at most the request whose permit was already on its
\* way, a "single" job at most the attempts its permit covers.
BreakerDrains ==
    \A j \in Jobs :
        BreakerOpen(limiter, now) =>
            job[j].late <= IF KindOf[j] = "single" THEN SingleAttempts ELSE 1

\* The jobs are well-formed, and every throttled request has its permit.
PaidInv == TypeOK /\ ThrottledRequestsArePaid
=============================================================================
