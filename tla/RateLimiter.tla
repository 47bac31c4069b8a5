---------------------------- MODULE RateLimiter ----------------------------
(***************************************************************************)
(* The pure token bucket and circuit breaker that one tenant's Durable     *)
(* Object keeps (apps/sync-worker/src/rateLimiter.ts).                     *)
(*                                                                         *)
(* The code counts fractional tokens; here one token is worth Second units *)
(* of credit, Second being the number of clock ticks in one second, so     *)
(* that a tick earns exactly RefillPerSec units and no rounding happens.   *)
(***************************************************************************)
EXTENDS Integers

CONSTANTS
    Capacity,          \* tokens a full bucket holds
    RefillPerSec,      \* tokens earned in one second
    FailureThreshold,  \* consecutive failures that open the breaker
    Cooldown,          \* ticks an opened breaker stays open
    Second             \* ticks in one second

\* resolveLimiterConfig lets only positive numbers through; a bucket smaller
\* than one token, which it also accepts, could never grant anything.
ASSUME LimiterAssumption ==
    /\ Capacity \in Nat \ {0}
    /\ RefillPerSec \in Nat \ {0}
    /\ FailureThreshold \in Nat \ {0}
    /\ Cooldown \in Nat \ {0}
    /\ Second \in Nat \ {0}

FullBucket == Capacity * Second

LimiterState ==
    [tokens : 0..FullBucket, last : Nat, failures : 0..FailureThreshold - 1, openUntil : Nat]

InitialState(now) ==
    [tokens |-> FullBucket, last |-> now, failures |-> 0, openUntil |-> 0]

Smaller(a, b) == IF a <= b THEN a ELSE b

\* Credit earned in a span of time.
Earned(ticks) == ticks * RefillPerSec

\* Mutants of Refill: the capacity forgotten; the fraction of a token rounded away.
Refill_Uncapped(s, now) ==
    IF now <= s.last
    THEN s
    ELSE [s EXCEPT !.tokens = @ + Earned(now - s.last), !.last = now]

Refill_WholeTokens(s, now) ==
    IF now <= s.last
    THEN s
    ELSE [s EXCEPT !.tokens = Smaller(FullBucket,
                                      @ + (Earned(now - s.last) \div Second) * Second),
                   !.last   = now]

\* A clock that has not advanced (or that went back) earns nothing and leaves
\* the state alone.
Refill(s, now) ==
    IF now <= s.last
    THEN s
    ELSE [s EXCEPT !.tokens = Smaller(FullBucket, @ + Earned(now - s.last)),
                   !.last   = now]

BreakerOpen(s, now) == s.openUntil > now

Answers == {"allowed", "rate_limited", "breaker_open"}

\* Mutant of Answer: the bucket is asked before the breaker.
Answer_BucketFirst(s, now) ==
    IF Refill(s, now).tokens >= Second THEN "allowed"
    ELSE IF BreakerOpen(s, now) THEN "breaker_open" ELSE "rate_limited"

\* What tryAcquire answers and the state it stores: an open breaker answers
\* before the bucket is even refilled.
Answer(s, now) ==
    IF BreakerOpen(s, now) THEN "breaker_open"
    ELSE IF Refill(s, now).tokens >= Second THEN "allowed" ELSE "rate_limited"

AfterAcquire(s, now) ==
    CASE Answer(s, now) = "breaker_open" -> s
      [] Answer(s, now) = "allowed"      -> [Refill(s, now) EXCEPT !.tokens = @ - Second]
      [] Answer(s, now) = "rate_limited" -> Refill(s, now)

\* Mutant of RecordResult: opening the breaker does not restart the count.
RecordResult_KeepsCount(s, ok, now) ==
    IF ok THEN [s EXCEPT !.failures = 0, !.openUntil = 0]
    ELSE IF s.failures + 1 >= FailureThreshold
         THEN [s EXCEPT !.failures = @ + 1, !.openUntil = now + Cooldown]
         ELSE [s EXCEPT !.failures = @ + 1]

\* A success closes the breaker; the FailureThreshold-th failure in a row opens it.
RecordResult(s, ok, now) ==
    IF ok THEN [s EXCEPT !.failures = 0, !.openUntil = 0]
    ELSE IF s.failures + 1 >= FailureThreshold
         THEN [s EXCEPT !.failures = 0, !.openUntil = now + Cooldown]
         ELSE [s EXCEPT !.failures = @ + 1]
=============================================================================
