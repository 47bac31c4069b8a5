--------------------------- MODULE TenantLimiter ---------------------------
(***************************************************************************)
(* The Durable Object of one tenant (apps/sync-worker/src/tenantLimiter.ts)*)
(* and the clock it reads.  A Durable Object handles one request at a      *)
(* time: load the state, apply a pure function of RateLimiter, store it.   *)
(* Nothing is assumed of the clock: it may jump, stand still or go back    *)
(* (the object may be moved to another machine).                           *)
(*                                                                         *)
(* Two observers watch the permits without influencing them: a window that *)
(* may be restarted at any acquire, and the caller that has been turned    *)
(* away since the last permit.                                             *)
(***************************************************************************)
EXTENDS RateLimiter

CONSTANT Times  \* the readings the clock may show

ASSUME TimesAssumption == Times \subseteq Nat

VARIABLES
    clock,         \* what Date.now() answers
    stored,        \* the stored RateLimiterState
    windowStart,   \* last refill at the first acquire of the observed window
    windowGrants,  \* permits granted in the observed window
    deniedSince    \* last refill at the first denial since the last permit

storedVars == <<clock, stored, windowStart, windowGrants, deniedSince>>

NotDenied == -1

StoredOK ==
    /\ clock \in Times
    /\ stored \in LimiterState
    /\ windowStart \in Nat
    /\ windowGrants \in Nat
    /\ deniedSince \in Nat \cup {NotDenied}

-----------------------------------------------------------------------------
\* The object's storage is empty until its first request, which finds
\* initialState at that request's time.
StoredInit ==
    /\ clock \in Times
    /\ stored = InitialState(clock)
    /\ windowStart = clock
    /\ windowGrants = 0
    /\ deniedSince = NotDenied

\* The observer's part of an acquire that leaves the limiter in state s: the
\* window goes on, or a new one starts with this very acquire.
Observe(s, granted) ==
    \/ /\ windowStart' = windowStart
       /\ windowGrants' = windowGrants + granted
    \/ /\ windowStart' = s.last
       /\ windowGrants' = granted

\* POST /acquire
Acquire ==
    LET answer == Answer(stored, clock)
        after  == AfterAcquire(stored, clock)
    IN /\ stored' = after
       /\ \/ /\ answer = "allowed"
             /\ Observe(after, 1)
             /\ deniedSince' = NotDenied
          \/ /\ answer = "rate_limited"
             /\ Observe(after, 0)
             /\ deniedSince' = IF deniedSince = NotDenied THEN after.last ELSE deniedSince
          \/ /\ answer = "breaker_open"
             /\ UNCHANGED <<windowStart, windowGrants, deniedSince>>
       /\ UNCHANGED clock

\* POST /result?ok=...
Result(ok) ==
    /\ stored' = RecordResult(stored, ok, clock)
    /\ UNCHANGED <<clock, windowStart, windowGrants, deniedSince>>

ClockMoves ==
    /\ clock' \in Times
    /\ UNCHANGED <<stored, windowStart, windowGrants, deniedSince>>

StoredNext ==
    \/ Acquire
    \/ \E ok \in BOOLEAN : Result(ok)
    \/ ClockMoves

StoredSpec == StoredInit /\ [][StoredNext]_storedVars

-----------------------------------------------------------------------------
\* "Do not hammer the tax server": whenever an observer starts counting, the
\* permits granted from then on never exceed a full bucket plus what the clock
\* has earned since, however results, clock jumps and concurrent callers
\* interleave (refill and tryAcquire of rateLimiter.ts).
WindowBound ==
    windowGrants * Second <= FullBucket + Earned(stored.last - windowStart)

\* Polling does not starve: callers that keep being turned away, however often
\* they ask, are turned away for less than the time one token takes to earn.
\* The fraction of a token earned between two polls is kept, not rounded away.
StarvationBound ==
    deniedSince # NotDenied => Earned(stored.last - deniedSince) < Second

\* The inductive strengthening of the two bounds: the credit in the bucket is
\* part of the window's budget, and covers the time of the denials.
WindowCredit ==
    /\ windowStart <= stored.last
    /\ windowGrants * Second + stored.tokens
           <= FullBucket + Earned(stored.last - windowStart)

DenialCredit ==
    deniedSince # NotDenied =>
        /\ deniedSince <= stored.last
        /\ Earned(stored.last - deniedSince) <= stored.tokens
        /\ stored.tokens < Second

CreditInv == StoredOK /\ WindowCredit /\ DenialCredit
=============================================================================
