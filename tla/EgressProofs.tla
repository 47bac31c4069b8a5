---------------------------- MODULE EgressProofs ----------------------------
(***************************************************************************)
(* The way out to the tax authority: the two users of RateLimiter, and the *)
(* watch of EgressAlerts.  Each has a specification of its own.            *)
(*                                                                         *)
(* The bounds of TenantLimiter hold for every capacity, refill rate,       *)
(* threshold, cooldown, resolution and clock.  The products of the bucket's*)
(* arithmetic are beyond linear reasoning, so the few facts about them come*)
(* first, as lemmas the steps cite.                                        *)
(*                                                                         *)
(* What ThrottledJobs promises of permits and of an open breaker holds for *)
(* any number of jobs of any kind, any pace, patience and timeout.  A      *)
(* throttled job has the permit of its pre-flight all along, and a second  *)
(* one while it is granted a request: no request takes the first.  A       *)
(* breaker that opens finds the requests sent since then at none; until it *)
(* closes only a job that is granted one already sends one more.           *)
(*                                                                         *)
(* What the operator was told, what probe and canary remember of it, and   *)
(* how often they tell it agree for every noise of the line and every      *)
(* number of faults.  The heart is the count: as long as no alarm is       *)
(* remembered as told, each alarm that was heard has a fault of its own.   *)
(***************************************************************************)
EXTENDS TenantLimiter, ThrottledJobs, EgressAlerts, FiniteSetTheorems, TLAPS

-----------------------------------------------------------------------------
(***************************************************************************)
(* The tenant's limiter                                                    *)
(***************************************************************************)
\* What the clock earns over two consecutive spans adds up.
LEMMA EarningsAdd ==
    ASSUME NEW a \in Nat, NEW b \in Nat, NEW c \in Nat
    PROVE  Earned(c - a) = Earned(b - a) + Earned(c - b)
<1>1. RefillPerSec \in Nat
  BY LimiterAssumption
<1> QED BY <1>1, SMT DEF Earned

\* No time earns nothing, and time earns no less than nothing.
LEMMA EarningsNat ==
    /\ Earned(0) = 0
    /\ \A a, b \in Nat : Earned(b - a) \in Int
    /\ \A a, b \in Nat : a <= b => Earned(b - a) \in Nat
<1>1. RefillPerSec \in Nat
  BY LimiterAssumption
<1> QED BY <1>1, SMT DEF Earned

\* A full bucket holds at least one token.
LEMMA FullBucketHoldsOne == FullBucket \in Nat /\ FullBucket >= Second
<1>1. Capacity \in Nat /\ Capacity >= 1 /\ Second \in Nat /\ Second >= 1
  BY LimiterAssumption
<1> QED BY <1>1, SMT DEF FullBucket

\* One more permit costs one more token.
LEMMA OneMoreGrant ==
    ASSUME NEW n \in Nat
    PROVE  (n + 1) * Second = n * Second + Second /\ n * Second \in Nat
<1>1. Second \in Nat
  BY LimiterAssumption
<1> QED BY <1>1, SMT

\* A refill never goes back in time, never takes credit, and adds what the
\* clock earned unless that fills the bucket.
LEMMA RefillFacts ==
    ASSUME NEW s \in LimiterState, NEW time \in Nat
    PROVE  LET r == Refill(s, time)
           IN /\ r \in LimiterState
              /\ r.openUntil = s.openUntil
              /\ r.last >= s.last
              /\ \/ r.tokens = s.tokens + Earned(r.last - s.last)
                 \/ /\ r.tokens = FullBucket
                    /\ r.tokens <= s.tokens + Earned(r.last - s.last)
<1>1. /\ s.tokens \in Nat /\ s.tokens <= FullBucket /\ s.last \in Nat
      /\ FullBucket \in Nat
  BY FullBucketHoldsOne DEF LimiterState
<1>2. CASE time <= s.last
  <2>1. Refill(s, time) = s
    BY <1>2 DEF Refill
  <2>2. s.last - s.last = 0 /\ Earned(0) = 0
    BY <1>1, EarningsNat
  <2> QED BY <2>1, <2>2, <1>1
<1>3. CASE time > s.last
  <2> DEFINE credit == Smaller(FullBucket, s.tokens + Earned(time - s.last))
  <2>1. Earned(time - s.last) \in Nat
    BY <1>1, <1>3, EarningsNat
  <2>2. Refill(s, time) = [s EXCEPT !.tokens = credit, !.last = time]
    BY <1>1, <1>3 DEF Refill
  <2>3. /\ credit \in 0..FullBucket
        /\ \/ credit = s.tokens + Earned(time - s.last)
           \/ credit = FullBucket /\ credit <= s.tokens + Earned(time - s.last)
    BY <2>1, <1>1 DEF Smaller
  <2> HIDE DEF credit
  <2>4. /\ Refill(s, time) \in LimiterState
        /\ Refill(s, time).tokens = credit
        /\ Refill(s, time).last = time
        /\ Refill(s, time).openUntil = s.openUntil
    BY <2>2, <2>3 DEF LimiterState
  <2> QED BY <2>3, <2>4, <1>1, <1>3
<1> QED BY <1>1, <1>2, <1>3

\* Recording a result touches neither the credit nor the refill time.
LEMMA RecordResultFacts ==
    ASSUME NEW s \in LimiterState, NEW time \in Nat, NEW ok \in BOOLEAN
    PROVE  LET r == RecordResult(s, ok, time)
           IN /\ r \in LimiterState
              /\ r.last = s.last
              /\ r.tokens = s.tokens
<1>1. /\ FailureThreshold \in Nat /\ FailureThreshold >= 1 /\ Cooldown \in Nat
      /\ s.failures \in Nat
  BY LimiterAssumption DEF LimiterState
<1>2. ASSUME NEW f \in 0..FailureThreshold - 1, NEW u \in Nat,
             NEW r, r = [s EXCEPT !.failures = f, !.openUntil = u]
      PROVE  r \in LimiterState /\ r.last = s.last /\ r.tokens = s.tokens
  BY <1>2 DEF LimiterState
<1>3. 0 \in 0..FailureThreshold - 1 /\ 0 \in Nat /\ time + Cooldown \in Nat
  BY <1>1
<1>4. CASE ok
  <2>1. RecordResult(s, ok, time) = [s EXCEPT !.failures = 0, !.openUntil = 0]
    BY <1>4 DEF RecordResult
  <2> QED BY <2>1, <1>2, <1>3
<1>5. CASE ~ok /\ s.failures + 1 >= FailureThreshold
  <2>1. RecordResult(s, ok, time) = [s EXCEPT !.failures = 0, !.openUntil = time + Cooldown]
    BY <1>5 DEF RecordResult
  <2> QED BY <2>1, <1>2, <1>3
<1>6. CASE ~ok /\ ~(s.failures + 1 >= FailureThreshold)
  <2>1. RecordResult(s, ok, time) = [s EXCEPT !.failures = @ + 1]
    BY <1>6 DEF RecordResult
  <2> QED BY <2>1, <1>1, <1>6 DEF LimiterState
<1> QED BY <1>4, <1>5, <1>6

\* The three answers and what each leaves behind.
LEMMA AcquireFacts ==
    ASSUME NEW s \in LimiterState, NEW time \in Nat
    PROVE  LET r == Refill(s, time)
               after == AfterAcquire(s, time)
           IN /\ Answer(s, time) = "breaker_open" => after = s
              /\ Answer(s, time) = "rate_limited" => after = r /\ r.tokens < Second
              /\ Answer(s, time) = "allowed" =>
                    /\ after \in LimiterState
                    /\ after.openUntil = s.openUntil
                    /\ after.last = r.last
                    /\ after.tokens = r.tokens - Second
<1>1. Answer(s, time) = "breaker_open" => AfterAcquire(s, time) = s
  BY DEF AfterAcquire
<1>2. Answer(s, time) = "rate_limited" =>
          AfterAcquire(s, time) = Refill(s, time) /\ ~(Refill(s, time).tokens >= Second)
  BY DEF AfterAcquire, Answer
<1>3. Answer(s, time) = "allowed" =>
          /\ AfterAcquire(s, time) = [Refill(s, time) EXCEPT !.tokens = @ - Second]
          /\ Refill(s, time).tokens >= Second
  BY DEF AfterAcquire, Answer
<1>4. Refill(s, time) \in LimiterState /\ Refill(s, time).openUntil = s.openUntil
  BY RefillFacts
<1>5. Second \in Nat /\ FullBucket \in Nat
  BY LimiterAssumption, FullBucketHoldsOne
<1>6. ASSUME NEW r \in LimiterState, r.tokens >= Second,
             NEW after, after = [r EXCEPT !.tokens = @ - Second]
      PROVE  /\ after \in LimiterState /\ after.openUntil = r.openUntil
             /\ after.last = r.last /\ after.tokens = r.tokens - Second
  BY <1>5, <1>6 DEF LimiterState
<1>7. Answer(s, time) = "allowed" =>
          /\ AfterAcquire(s, time) \in LimiterState
          /\ AfterAcquire(s, time).openUntil = s.openUntil
          /\ AfterAcquire(s, time).last = Refill(s, time).last
          /\ AfterAcquire(s, time).tokens = Refill(s, time).tokens - Second
  BY <1>3, <1>4, <1>6
<1>8. Refill(s, time).tokens \in Nat
  BY <1>4, <1>5 DEF LimiterState
<1>9. Answer(s, time) = "rate_limited" => Refill(s, time).tokens < Second
  BY <1>2, <1>5, <1>8
<1> QED BY <1>1, <1>2, <1>7, <1>9

\* The initial state satisfies the inductive invariant.
LEMMA InitCredit == StoredInit => CreditInv
<1> SUFFICES ASSUME StoredInit PROVE CreditInv
  OBVIOUS
<1>1. clock \in Nat /\ clock \in Times
  BY TimesAssumption DEF StoredInit
<1>2. stored \in LimiterState /\ stored.last = clock /\ stored.tokens = FullBucket
  BY <1>1, FullBucketHoldsOne, LimiterAssumption DEF StoredInit, InitialState, LimiterState
<1>3. StoredOK
  BY <1>1, <1>2 DEF StoredInit, StoredOK, NotDenied
<1>4. WindowCredit
  <2>1. 0 * Second = 0 /\ clock - clock = 0 /\ Earned(0) = 0
    BY <1>1, EarningsNat, LimiterAssumption
  <2> QED BY <2>1, <1>1, <1>2, FullBucketHoldsOne DEF StoredInit, WindowCredit
<1>5. DenialCredit
  BY DEF StoredInit, DenialCredit
<1> QED BY <1>3, <1>4, <1>5 DEF CreditInv

\* An acquire preserves it: a permit is paid from the credit it removes, a
\* refill is covered by the time it advances.
LEMMA AcquireCredit == ASSUME CreditInv, Acquire PROVE CreditInv'
<1> DEFINE r == Refill(stored, clock)
           after == AfterAcquire(stored, clock)
           answer == Answer(stored, clock)
<1>1. /\ stored \in LimiterState /\ clock \in Nat /\ clock \in Times
      /\ windowStart \in Nat /\ windowGrants \in Nat
      /\ deniedSince \in Nat \cup {NotDenied}
  BY TimesAssumption DEF CreditInv, StoredOK
<1>2. /\ r \in LimiterState /\ r.last >= stored.last
      /\ \/ r.tokens = stored.tokens + Earned(r.last - stored.last)
         \/ r.tokens = FullBucket /\ r.tokens <= stored.tokens + Earned(r.last - stored.last)
  BY <1>1, RefillFacts
<1>3. /\ answer = "breaker_open" => after = stored
      /\ answer = "rate_limited" => after = r /\ r.tokens < Second
      /\ answer = "allowed" =>
            after \in LimiterState /\ after.last = r.last /\ after.tokens = r.tokens - Second
  BY <1>1, AcquireFacts
<1>4. stored' = after /\ clock' = clock
  BY DEF Acquire
<1>5. /\ stored.last \in Nat /\ stored.tokens \in Nat /\ r.last \in Nat /\ r.tokens \in Nat
      /\ r.tokens <= FullBucket
      /\ FullBucket \in Nat /\ Second \in Nat /\ FullBucket >= Second
  BY <1>1, <1>2, FullBucketHoldsOne, LimiterAssumption DEF LimiterState
<1>6. Earned(r.last - windowStart)
          = Earned(stored.last - windowStart) + Earned(r.last - stored.last)
  BY <1>1, <1>5, EarningsAdd
<1>7. /\ Earned(r.last - windowStart) \in Int /\ Earned(stored.last - windowStart) \in Int
      /\ Earned(r.last - stored.last) \in Int
  BY <1>1, <1>5, EarningsNat, Zenon
<1>7a. r.last - r.last = 0 /\ Earned(r.last - r.last) = 0
  BY <1>5, EarningsNat
<1>8. /\ (windowGrants + 1) * Second = windowGrants * Second + Second
      /\ windowGrants * Second \in Nat
      /\ 1 * Second = Second /\ 0 * Second = 0
      /\ windowGrants + 0 = windowGrants
  BY <1>1, <1>5, OneMoreGrant
<1>9. /\ windowStart <= stored.last
      /\ windowGrants * Second + stored.tokens
             <= FullBucket + Earned(stored.last - windowStart)
  BY DEF CreditInv, WindowCredit
<1> HIDE DEF r, after, answer
<1>10. CASE answer = "breaker_open"
  <2>1. stored' = stored /\ UNCHANGED <<clock, windowStart, windowGrants, deniedSince>>
    BY <1>3, <1>4, <1>10 DEF Acquire, answer
  <2> QED BY <2>1 DEF CreditInv, StoredOK, WindowCredit, DenialCredit
<1>11. CASE answer = "allowed"
  <2>1. /\ after \in LimiterState /\ after.last = r.last /\ after.tokens = r.tokens - Second
        /\ stored' = after
    BY <1>3, <1>4, <1>11
  <2>2. /\ deniedSince' = NotDenied
        /\ \/ windowStart' = windowStart /\ windowGrants' = windowGrants + 1
           \/ windowStart' = after.last /\ windowGrants' = 1
    BY <1>11 DEF Acquire, Observe, answer, after
  <2>3. StoredOK'
    BY <2>1, <2>2, <1>1, <1>4, <1>5 DEF StoredOK
  <2>4. WindowCredit'
    <3>1. CASE windowStart' = windowStart /\ windowGrants' = windowGrants + 1
      BY <3>1, <2>1, <1>1, <1>2, <1>5, <1>6, <1>7, <1>8, <1>9 DEF WindowCredit
    <3>2. CASE windowStart' = after.last /\ windowGrants' = 1
      BY <3>2, <2>1, <1>5, <1>7a, <1>8 DEF WindowCredit
    <3> QED BY <2>2, <3>1, <3>2
  <2>5. DenialCredit'
    BY <2>2 DEF DenialCredit
  <2> QED BY <2>3, <2>4, <2>5 DEF CreditInv
<1>12. CASE answer = "rate_limited"
  <2>1. stored' = r /\ r.tokens < Second
    BY <1>3, <1>4, <1>12
  <2>2. /\ deniedSince' = IF deniedSince = NotDenied THEN r.last ELSE deniedSince
        /\ \/ windowStart' = windowStart /\ windowGrants' = windowGrants
           \/ windowStart' = r.last /\ windowGrants' = 0
    BY <1>12, <1>3, <1>8 DEF Acquire, Observe, answer, after
  <2>3. StoredOK'
    BY <2>1, <2>2, <1>1, <1>2, <1>4, <1>5 DEF StoredOK
  <2>4. WindowCredit'
    <3>1. CASE windowStart' = windowStart /\ windowGrants' = windowGrants
      BY <3>1, <2>1, <1>1, <1>2, <1>5, <1>6, <1>7, <1>8, <1>9 DEF WindowCredit
    <3>2. CASE windowStart' = r.last /\ windowGrants' = 0
      BY <3>2, <2>1, <1>5, <1>7a, <1>8 DEF WindowCredit
    <3> QED BY <2>2, <3>1, <3>2
  <2>5. r.tokens = stored.tokens + Earned(r.last - stored.last)
    BY <2>1, <1>2, <1>5
  <2>6. DenialCredit'
    <3>1. CASE deniedSince = NotDenied
      BY <3>1, <2>1, <2>2, <1>5, <1>7a DEF DenialCredit
    <3>2. CASE deniedSince # NotDenied
      <4>1. /\ deniedSince \in Nat /\ deniedSince' = deniedSince
            /\ deniedSince <= stored.last
            /\ Earned(stored.last - deniedSince) <= stored.tokens
        BY <3>2, <2>2, <1>1 DEF CreditInv, DenialCredit
      <4>2. /\ Earned(r.last - deniedSince)
                    = Earned(stored.last - deniedSince) + Earned(r.last - stored.last)
            /\ Earned(r.last - deniedSince) \in Int /\ Earned(stored.last - deniedSince) \in Int
        BY <4>1, <1>5, EarningsAdd, EarningsNat
      <4> QED BY <4>1, <4>2, <2>1, <2>5, <1>2, <1>5, <1>7 DEF DenialCredit
    <3> QED BY <3>1, <3>2
  <2> QED BY <2>3, <2>4, <2>6 DEF CreditInv
<1> QED BY <1>10, <1>11, <1>12 DEF Acquire, answer

\* Recording a result touches neither bound.
LEMMA ResultCredit == ASSUME CreditInv, NEW ok \in BOOLEAN, Result(ok) PROVE CreditInv'
<1>1. clock \in Nat /\ stored \in LimiterState
  BY TimesAssumption DEF CreditInv, StoredOK
<1>2. /\ stored' \in LimiterState
      /\ stored'.last = stored.last
      /\ stored'.tokens = stored.tokens
  BY <1>1, RecordResultFacts DEF Result
<1>3. UNCHANGED <<clock, windowStart, windowGrants, deniedSince>>
  BY DEF Result
<1> QED BY <1>2, <1>3 DEF CreditInv, StoredOK, WindowCredit, DenialCredit

\* The inductive invariant holds in every reachable state.
THEOREM CreditInvariance == StoredSpec => []CreditInv
<1>1. StoredInit => CreditInv
  BY InitCredit
<1>2. CreditInv /\ [StoredNext]_storedVars => CreditInv'
  <2> SUFFICES ASSUME CreditInv, [StoredNext]_storedVars PROVE CreditInv'
    OBVIOUS
  <2>1. CASE Acquire
    BY <2>1, AcquireCredit
  <2>2. ASSUME NEW ok \in BOOLEAN, Result(ok) PROVE CreditInv'
    BY <2>2, ResultCredit
  <2>3. CASE ClockMoves
    BY <2>3 DEF ClockMoves, CreditInv, StoredOK, WindowCredit, DenialCredit
  <2>4. CASE UNCHANGED storedVars
    BY <2>4 DEF storedVars, CreditInv, StoredOK, WindowCredit, DenialCredit
  <2> QED BY <2>1, <2>2, <2>3, <2>4 DEF StoredNext
<1> QED BY <1>1, <1>2, PTL DEF StoredSpec

\* No observer ever counts more permits in a window than a full bucket plus
\* what the clock earned meanwhile (tryAcquire and refill of rateLimiter.ts).
THEOREM WindowBoundHolds == StoredSpec => []WindowBound
<1>1. CreditInv => WindowBound
  <2> SUFFICES ASSUME CreditInv PROVE WindowBound
    OBVIOUS
  <2>1. /\ stored.tokens \in Nat /\ stored.last \in Nat /\ windowStart \in Nat
        /\ windowGrants \in Nat
    BY FullBucketHoldsOne DEF CreditInv, StoredOK, LimiterState
  <2>2. /\ Earned(stored.last - windowStart) \in Int
        /\ windowGrants * Second \in Nat
    BY <2>1, EarningsNat, OneMoreGrant
  <2> QED BY <2>1, <2>2, FullBucketHoldsOne DEF CreditInv, WindowCredit, WindowBound
<1> QED BY <1>1, CreditInvariance, PTL

\* No caller is kept waiting longer than one token takes to earn while nobody
\* else is granted one: refill keeps the fraction earned between two polls.
THEOREM StarvationBoundHolds == StoredSpec => []StarvationBound
<1>1. CreditInv => StarvationBound
  <2> SUFFICES ASSUME CreditInv, deniedSince # NotDenied PROVE Earned(stored.last - deniedSince) < Second
    BY DEF StarvationBound
  <2>1. /\ stored.tokens \in Nat /\ stored.last \in Nat /\ deniedSince \in Nat
        /\ Second \in Nat
    BY FullBucketHoldsOne, LimiterAssumption DEF CreditInv, StoredOK, LimiterState
  <2>2. Earned(stored.last - deniedSince) \in Int
    BY <2>1, EarningsNat
  <2> QED BY <2>1, <2>2 DEF CreditInv, DenialCredit
<1> QED BY <1>1, CreditInvariance, PTL

-----------------------------------------------------------------------------
(***************************************************************************)
(* The jobs on their way to GDT                                            *)
(***************************************************************************)
Throttled(j) == KindOf[j] # "single"

\* What is always true of the record r of the job j.
JobFine(j, r) ==
    /\ r \in JobState
    /\ r.attempt \in 1..Attempts(j)
    /\ r.page < Pages
    /\ r.pc = "backoff" => r.attempt < Attempts(j)
    /\ Throttled(j) =>
          /\ r.pc = "preflight" => r.purse = 0
          /\ r.pc \notin {"preflight", "done"} => r.purse >= 1
          /\ r.pc = "granted" => r.purse >= 2
    /\ ~Throttled(j) =>
          /\ r.pc \notin {"asking", "granted", "waiting"}
          /\ r.late <= SingleAttempts
          /\ r.pc = "preflight" => r.late = 0
          /\ r.pc \in {"calling", "backoff"} => r.late <= r.attempt

\* What is true of it while the breaker is open.
JobDrains(j, r) ==
    Throttled(j) => /\ r.late <= 1
                    /\ r.pc = "granted" => r.late = 0

IInv ==
    /\ now \in 0..MaxTime
    /\ limiter \in LimiterState
    /\ job \in [Jobs -> JobState]
    /\ \A j \in Jobs : JobFine(j, job[j])
    /\ BreakerOpen(limiter, now) => \A j \in Jobs : JobDrains(j, job[j])

-----------------------------------------------------------------------------
(***************************************************************************)
(* Numbers                                                                 *)
(***************************************************************************)
LEMMA Numbers ==
    /\ Pages \in Nat /\ Pages >= 1
    /\ MaxAttempts \in Nat /\ MaxAttempts >= 1
    /\ SingleAttempts \in Nat /\ SingleAttempts >= 1
    /\ RetryDelay \in Nat /\ MaxWait \in Nat /\ Timeout \in Nat /\ Backoff \in Nat
    /\ Latency \in Nat /\ MaxTime \in Nat
BY JobsAssumption

\* The provers know a power of two as the number of the subsets of a set.
LEMMA PowersOfTwo ==
    ASSUME NEW n \in Nat
    PROVE  2 ^ n \in Nat
<1>1. IsFiniteSet(1..n) /\ Cardinality(1..n) = n
  BY FS_Interval
<1>2. /\ IsFiniteSet(SUBSET (1..n))
      /\ Cardinality(SUBSET (1..n)) = 2 ^ Cardinality(1..n)
  BY <1>1, FS_SUBSET
<1> QED BY <1>1, <1>2, FS_CardinalityType

LEMMA Pauses ==
    ASSUME NEW a \in Nat, a >= 1
    PROVE  Backoff * 2 ^ (a - 1) \in Nat
<1>1. a - 1 \in Nat
  OBVIOUS
<1>2. 2 ^ (a - 1) \in Nat
  BY <1>1, PowersOfTwo
<1> QED BY <1>2, Numbers

LEMMA Resets ==
    /\ 0 \in 0..Pages /\ 0 \in 0..MaxTime /\ 0 \in 0..(MaxWait + RetryDelay)
    /\ 0 \in Nat /\ 1 \in Nat
BY Numbers

LEMMA AttemptsFacts ==
    ASSUME NEW j \in Jobs
    PROVE  /\ Attempts(j) \in Nat /\ 1 \in 1..Attempts(j)
           /\ ~Throttled(j) => Attempts(j) = SingleAttempts
BY Numbers DEF Attempts, Throttled

-----------------------------------------------------------------------------
(***************************************************************************)
(* The limiter                                                             *)
(***************************************************************************)
LEMMA AcquireKeepsLimiter ==
    ASSUME NEW s \in LimiterState, NEW n \in Nat
    PROVE  /\ AfterAcquire(s, n) \in LimiterState
           /\ AfterAcquire(s, n).openUntil = s.openUntil
           /\ BreakerOpen(s, n) => Answer(s, n) = "breaker_open"
           /\ ~BreakerOpen(s, n) => Answer(s, n) \in {"allowed", "rate_limited"}
<1>1. Refill(s, n) \in LimiterState /\ Refill(s, n).openUntil = s.openUntil
  BY RefillFacts
<1>2. /\ Answer(s, n) = "breaker_open" => AfterAcquire(s, n) = s
      /\ Answer(s, n) = "rate_limited" => AfterAcquire(s, n) = Refill(s, n)
      /\ Answer(s, n) = "allowed" =>
            AfterAcquire(s, n) \in LimiterState /\ AfterAcquire(s, n).openUntil = s.openUntil
  BY AcquireFacts
<1> QED BY <1>1, <1>2 DEF Answer

-----------------------------------------------------------------------------
(***************************************************************************)
(* What becomes of a job                                                   *)
(***************************************************************************)
LEMMA JobEndsFine ==
    ASSUME now \in 0..MaxTime, NEW j \in Jobs, NEW r \in JobState,
           Throttled(j) => r.purse >= 1, ~Throttled(j) => r.late <= SingleAttempts,
           NEW failure \in Failures
    PROVE  /\ JobFine(j, JobEnds(r, failure))
           /\ JobDrains(j, r) => JobDrains(j, JobEnds(r, failure))
<1> DEFINE e == JobEnds(r, failure)
<1>1. /\ e \in JobState /\ e.pc = "recording" /\ e.page = 0 /\ e.attempt = 1
      /\ e.purse = r.purse /\ e.late = r.late
  <2>1. now + Latency \in Nat
    BY Numbers
  <2> QED BY <2>1, Resets DEF JobEnds, JobState, Steps
<1>2. 1 \in 1..Attempts(j)
  BY AttemptsFacts
<1> HIDE DEF e
<1>3. JobFine(j, e)
  BY <1>1, <1>2, Numbers DEF JobFine
<1>4. JobDrains(j, r) => JobDrains(j, e)
  BY <1>1 DEF JobDrains
<1> QED BY <1>3, <1>4 DEF e

LEMMA FinishedFine ==
    ASSUME NEW j \in Jobs, NEW r, JobFine(j, r)
    PROVE  /\ JobFine(j, Finished(r))
           /\ JobDrains(j, r) => JobDrains(j, Finished(r))
<1> DEFINE e == Finished(r)
<1>1. /\ e \in JobState /\ e.pc = "done" /\ e.page = r.page /\ e.attempt = r.attempt
      /\ e.purse = r.purse /\ e.late = r.late
  BY DEF JobFine, Finished, JobState, Steps, Failures
<1> HIDE DEF e
<1>2. JobFine(j, e)
  BY <1>1 DEF JobFine
<1>3. JobDrains(j, r) => JobDrains(j, e)
  BY <1>1 DEF JobDrains
<1> QED BY <1>2, <1>3 DEF e

\* A throttled job that fails has its permit still, and a single one has sent no
\* more requests than it made attempts.
LEMMA AttemptFailedFine ==
    ASSUME now \in 0..MaxTime, NEW j \in Jobs, NEW r, JobFine(j, r),
           r.pc \notin {"preflight", "done"}, ~Throttled(j) => r.pc = "calling",
           NEW failure \in Failures
    PROVE  /\ JobFine(j, AttemptFailed(j, r, failure))
           /\ JobDrains(j, r) => JobDrains(j, AttemptFailed(j, r, failure))
<1>1. CASE r.attempt < Attempts(j)
  <2> DEFINE e == AttemptFailed(j, r, failure)
             t == now + Backoff * 2 ^ (r.attempt - 1)
  <2>1. r.attempt \in Nat /\ r.attempt >= 1
    BY DEF JobFine, JobState
  <2>2. t \in Nat
    BY <2>1, Pauses, Numbers
  <2>3. e = [r EXCEPT !.pc = "backoff", !.start = 0, !.waited = 0, !.timer = t]
    BY <1>1 DEF AttemptFailed
  <2> HIDE DEF t
  <2>4. /\ e \in JobState /\ e.pc = "backoff" /\ e.page = r.page /\ e.attempt = r.attempt
        /\ e.purse = r.purse /\ e.late = r.late
    BY <2>2, <2>3, Resets DEF JobFine, JobState, Steps
  <2> HIDE DEF e
  <2>5. JobFine(j, e)
    BY <1>1, <2>4 DEF JobFine
  <2>6. JobDrains(j, r) => JobDrains(j, e)
    BY <2>4 DEF JobDrains
  <2> QED BY <2>5, <2>6 DEF e
<1>2. CASE ~(r.attempt < Attempts(j))
  BY <1>2, JobEndsFine DEF AttemptFailed, JobFine
<1> QED BY <1>1, <1>2

\* The job's record has made room for an attempt.
Ready(j, r) ==
    /\ r \in JobState
    /\ r.attempt \in 1..Attempts(j)
    /\ r.page < Pages
    /\ Throttled(j) => r.purse >= 1
    /\ ~Throttled(j) => r.late + 1 <= r.attempt

LEMMA AttemptingFine ==
    ASSUME now \in 0..MaxTime, limiter \in LimiterState, NEW j \in Jobs, NEW r, Ready(j, r)
    PROVE  /\ JobFine(j, Attempting(j, r))
           /\ Throttled(j) => /\ Attempting(j, r).late = r.late
                              /\ Attempting(j, r).pc = "asking"
<1> DEFINE e == Attempting(j, r)
<1>1. now + Timeout \in Nat /\ now + Latency \in Nat
  BY Numbers
<1>2. r.late \in Nat /\ r.purse \in Int /\ r.attempt \in Nat /\ Attempts(j) \in Nat
  BY AttemptsFacts DEF Ready, JobState
<1>3. CASE Throttled(j)
  <2>1. e = [r EXCEPT !.pc = "asking", !.start = now, !.waited = 0, !.timer = now + Latency]
    BY <1>3 DEF Attempting, Throttled
  <2>2. /\ e \in JobState /\ e.pc = "asking" /\ e.page = r.page /\ e.attempt = r.attempt
        /\ e.purse = r.purse /\ e.late = r.late
    BY <1>1, <2>1, Resets DEF Ready, JobState, Steps
  <2> HIDE DEF e
  <2>3. JobFine(j, e)
    BY <1>3, <2>2 DEF Ready, JobFine
  <2> QED BY <2>2, <2>3 DEF e
<1>4. CASE ~Throttled(j)
  <2> DEFINE n == IF BreakerOpen(limiter, now) THEN r.late + 1 ELSE r.late
  <2>1. n \in Nat /\ n <= r.late + 1
    BY <1>2
  <2>2. e = [r EXCEPT !.pc = "calling", !.timer = now + Timeout, !.purse = @ - 1,
                      !.late = n]
    BY <1>4 DEF Attempting, Throttled
  <2> HIDE DEF n
  <2>3. r.purse - 1 \in Int
    BY <1>2
  <2>4. /\ e \in JobState /\ e.pc = "calling" /\ e.page = r.page /\ e.attempt = r.attempt
        /\ e.late = n
    BY <1>1, <2>1, <2>2, <2>3 DEF Ready, JobState, Steps
  <2> HIDE DEF e
  <2>5. Attempts(j) = SingleAttempts /\ r.late + 1 <= r.attempt /\ r.attempt <= Attempts(j)
    BY <1>4, AttemptsFacts DEF Ready
  <2>6. n <= r.attempt /\ n <= SingleAttempts
    BY <1>2, <2>1, <2>5
  <2>7. JobFine(j, e)
    BY <1>4, <2>4, <2>6 DEF Ready, JobFine
  <2> QED BY <1>4, <2>7 DEF e
<1> QED BY <1>3, <1>4

-----------------------------------------------------------------------------
(***************************************************************************)
(* Steps                                                                   *)
(***************************************************************************)
LEMMA Facts ==
    ASSUME IInv, NEW j \in Jobs
    PROVE  /\ now \in 0..MaxTime /\ now \in Nat /\ limiter \in LimiterState
           /\ JobFine(j, job[j]) /\ job[j] \in JobState
           /\ job[j].late \in Nat /\ job[j].purse \in Int /\ job[j].attempt \in Nat
           /\ job[j].page \in Nat /\ job[j].waited \in Nat
           /\ BreakerOpen(limiter, now) => JobDrains(j, job[j])
<1>1. now \in 0..MaxTime /\ limiter \in LimiterState /\ JobFine(j, job[j])
  BY DEF IInv
<1>2. job[j] \in JobState /\ now \in Nat
  BY <1>1, Numbers DEF JobFine
<1>3. BreakerOpen(limiter, now) => JobDrains(j, job[j])
  BY DEF IInv
<1> QED BY <1>1, <1>2, <1>3 DEF JobState

\* One job takes a step that neither opens nor closes the breaker.
LEMMA OneJob ==
    ASSUME IInv, NEW j \in Jobs, NEW r, job' = [job EXCEPT ![j] = r], JobFine(j, r),
           now' = now, limiter' \in LimiterState, limiter'.openUntil = limiter.openUntil,
           BreakerOpen(limiter, now) => JobDrains(j, r)
    PROVE  IInv'
<1>1. job \in [Jobs -> JobState] /\ r \in JobState
  BY DEF IInv, JobFine
<1>2. /\ job' \in [Jobs -> JobState] /\ job'[j] = r
      /\ \A i \in Jobs : i # j => job'[i] = job[i]
  BY <1>1
<1>3. \A i \in Jobs : JobFine(i, job'[i])
  BY <1>2 DEF IInv
<1>4. BreakerOpen(limiter', now') => BreakerOpen(limiter, now)
  BY DEF BreakerOpen
<1>5. BreakerOpen(limiter', now') => \A i \in Jobs : JobDrains(i, job'[i])
  BY <1>2, <1>4 DEF IInv
<1> QED BY <1>2, <1>3, <1>5 DEF IInv

LEMMA PreflightKeeps ==
    ASSUME IInv, NEW j \in Jobs, Preflight(j)
    PROVE  IInv'
<1>1. /\ limiter' \in LimiterState /\ limiter'.openUntil = limiter.openUntil /\ now' = now
      /\ BreakerOpen(limiter, now) => Answer(limiter, now) # "allowed"
  BY Facts, AcquireKeepsLimiter DEF Preflight
<1>2. CASE Answer(limiter, now) = "allowed"
  <2> DEFINE r == [job[j] EXCEPT !.purse = @ + 1]
  <2>1. job' = [job EXCEPT ![j] = Attempting(j, r)] /\ job[j].pc = "preflight"
    BY <1>2 DEF Preflight
  <2>2. /\ r \in JobState /\ r.attempt = job[j].attempt /\ r.page = job[j].page
        /\ r.purse = job[j].purse + 1 /\ r.late = job[j].late
    BY Facts DEF JobState
  <2> HIDE DEF r
  <2>3. 1 <= job[j].attempt
    BY Facts, AttemptsFacts DEF JobFine
  <2>4. Ready(j, r)
    BY <2>1, <2>2, <2>3, Facts DEF JobFine, Ready
  <2>5. JobFine(j, Attempting(j, r))
    BY <2>4, Facts, AttemptingFine
  <2> QED BY <1>1, <1>2, <2>1, <2>5, OneJob
<1>3. CASE Answer(limiter, now) # "allowed"
  <2>1. job' = [job EXCEPT ![j] = Finished(job[j])]
    BY <1>3 DEF Preflight
  <2> QED BY <1>1, <2>1, Facts, FinishedFine, OneJob
<1> QED BY <1>2, <1>3

LEMMA PermitKeeps ==
    ASSUME IInv, NEW j \in Jobs, Permit(j)
    PROVE  IInv'
<1>1. /\ limiter' \in LimiterState /\ limiter'.openUntil = limiter.openUntil /\ now' = now
      /\ BreakerOpen(limiter, now) => Answer(limiter, now) = "breaker_open"
  BY Facts, AcquireKeepsLimiter DEF Permit
<1>2. job[j].pc = "asking" /\ Throttled(j) /\ job[j].purse >= 1
  BY Facts DEF Permit, JobFine
<1>3. CASE job' = [job EXCEPT ![j] = AttemptFailed(j, job[j], "busy")]
  <2>1. "busy" \in Failures
    BY DEF Failures
  <2> QED BY <1>1, <1>2, <1>3, <2>1, Facts, AttemptFailedFine, OneJob
<1>4. CASE /\ Answer(limiter, now) = "allowed"
           /\ job' = [job EXCEPT ![j].pc = "granted", ![j].purse = @ + 1]
  <2> DEFINE r == [job[j] EXCEPT !.pc = "granted", !.purse = @ + 1]
  <2>1. job' = [job EXCEPT ![j] = r]
    BY <1>4 DEF IInv
  <2> job[j].purse + 1 \in Int
    BY Facts
  <2>2. /\ r \in JobState /\ r.attempt = job[j].attempt /\ r.page = job[j].page
        /\ r.purse = job[j].purse + 1 /\ r.late = job[j].late /\ r.pc = "granted"
    BY Facts DEF JobState, Steps
  <2> HIDE DEF r
  <2>3. JobFine(j, r)
    BY <1>2, <2>2, Facts DEF JobFine
  <2> QED BY <1>1, <1>4, <2>1, <2>3, OneJob
<1>5. CASE /\ job[j].waited < MaxWait /\ Answer(limiter, now) = "rate_limited"
           /\ job' = [job EXCEPT ![j].pc = "waiting", ![j].waited = @ + RetryDelay,
                                 ![j].timer = now + RetryDelay]
  <2> DEFINE r == [job[j] EXCEPT !.pc = "waiting", !.waited = @ + RetryDelay,
                                 !.timer = now + RetryDelay]
  <2>1. job' = [job EXCEPT ![j] = r]
    BY <1>5 DEF IInv
  <2>2. job[j].waited + RetryDelay \in 0..(MaxWait + RetryDelay) /\ now + RetryDelay \in Nat
    BY <1>5, Facts, Numbers
  <2>3. /\ r \in JobState /\ r.attempt = job[j].attempt /\ r.page = job[j].page
        /\ r.purse = job[j].purse /\ r.late = job[j].late /\ r.pc = "waiting"
    BY <2>2, Facts DEF JobState, Steps
  <2> HIDE DEF r
  <2>4. JobFine(j, r)
    BY <1>2, <2>3, Facts DEF JobFine
  <2> QED BY <1>1, <1>5, <2>1, <2>4, OneJob
<1> QED BY <1>3, <1>4, <1>5 DEF Permit

LEMMA WakeKeeps ==
    ASSUME IInv, NEW j \in Jobs, Wake(j)
    PROVE  IInv'
<1>1. limiter' = limiter /\ now' = now /\ job[j].pc = "waiting"
  BY DEF Wake
<1>2. Throttled(j) /\ job[j].purse >= 1
  BY <1>1, Facts DEF JobFine
<1>3. CASE Aborted(j)
  <2>1. job' = [job EXCEPT ![j] = AttemptFailed(j, job[j], "busy")] /\ "busy" \in Failures
    BY <1>3 DEF Wake, Failures
  <2> QED BY <1>1, <1>2, <2>1, Facts, AttemptFailedFine, OneJob
<1>4. CASE ~Aborted(j)
  <2> DEFINE r == Asking(job[j])
  <2>1. job' = [job EXCEPT ![j] = r]
    BY <1>4 DEF Wake
  <2>2. now + Latency \in Nat
    BY Facts, Numbers
  <2>3. /\ r \in JobState /\ r.attempt = job[j].attempt /\ r.page = job[j].page
        /\ r.purse = job[j].purse /\ r.late = job[j].late /\ r.pc = "asking"
    BY <2>2, Facts DEF JobState, Steps, Asking
  <2> HIDE DEF r
  <2>4. JobFine(j, r)
    BY <1>2, <2>3, Facts DEF JobFine
  <2>5. BreakerOpen(limiter, now) => JobDrains(j, r)
    BY <2>3, Facts DEF JobDrains
  <2> QED BY <1>1, <2>1, <2>4, <2>5, Facts, OneJob
<1> QED BY <1>3, <1>4

LEMMA FetchKeeps ==
    ASSUME IInv, NEW j \in Jobs, Fetch(j)
    PROVE  IInv'
<1>1. limiter' = limiter /\ now' = now /\ job[j].pc = "granted"
  BY DEF Fetch
<1>2. Throttled(j) /\ job[j].purse >= 2
  BY <1>1, Facts DEF JobFine
<1>3. CASE Aborted(j)
  <2>1. /\ job' = [job EXCEPT ![j] = AttemptFailed(j, job[j], "transient")]
        /\ "transient" \in Failures
    BY <1>3 DEF Fetch, Failures
  <2> QED BY <1>1, <1>2, <2>1, Facts, AttemptFailedFine, OneJob
<1>4. CASE ~Aborted(j)
  <2> DEFINE n == IF BreakerOpen(limiter, now) THEN job[j].late + 1 ELSE job[j].late
             r == [job[j] EXCEPT !.pc = "calling", !.start = 0, !.waited = 0,
                                 !.timer = job[j].start + Timeout, !.purse = @ - 1,
                                 !.late = n]
  <2>1. job' = [job EXCEPT ![j] = r]
    BY <1>4 DEF Fetch
  <2>2. /\ n \in Nat
        /\ BreakerOpen(limiter, now) => n = job[j].late + 1
    BY Facts
  <2>3. job[j].start + Timeout \in Nat /\ job[j].purse - 1 \in Int
    BY Facts, Numbers DEF JobState
  <2> HIDE DEF n
  <2>4. /\ r \in JobState /\ r.attempt = job[j].attempt /\ r.page = job[j].page
        /\ r.purse = job[j].purse - 1 /\ r.late = n /\ r.pc = "calling"
    BY <2>2, <2>3, Facts, Resets DEF JobState, Steps
  <2> HIDE DEF r
  <2>5. JobFine(j, r)
    BY <1>2, <2>4, Facts DEF JobFine
  <2>6. BreakerOpen(limiter, now) => JobDrains(j, r)
    BY <1>1, <1>2, <2>2, <2>4, Facts DEF JobDrains
  <2> QED BY <1>1, <2>1, <2>5, <2>6, Facts, OneJob
<1> QED BY <1>3, <1>4

\* A job that waits for an answer may end here or fail its attempt.
LEMMA CallingFacts ==
    ASSUME IInv, NEW j \in Jobs, job[j].pc = "calling"
    PROVE  /\ Throttled(j) => job[j].purse >= 1
           /\ ~Throttled(j) => job[j].late <= SingleAttempts
BY Facts DEF JobFine

LEMMA AnswerOkKeeps ==
    ASSUME IInv, NEW j \in Jobs, AnswerOk(j)
    PROVE  IInv'
<1> DEFINE r == [job[j] EXCEPT !.page = @ + 1, !.attempt = 1]
<1>1. limiter' = limiter /\ now' = now /\ job[j].pc = "calling"
  BY DEF AnswerOk
<1>2. job[j].page + 1 \in 0..Pages
  BY Facts, Numbers DEF JobFine
<1>3. /\ r \in JobState /\ r.attempt = 1 /\ r.page = job[j].page + 1
      /\ r.purse = job[j].purse /\ r.late = job[j].late /\ r.pc = "calling"
  BY <1>1, <1>2, Facts, Resets DEF JobState
<1>4. CASE KindOf[j] = "single" \/ r.page = Pages
  <2>1. job' = [job EXCEPT ![j] = JobEnds(r, "none")]
    BY <1>4 DEF AnswerOk
  <2> HIDE DEF r
  <2>2. "none" \in Failures
    BY DEF Failures
  <2>3. /\ JobFine(j, JobEnds(r, "none"))
        /\ JobDrains(j, r) => JobDrains(j, JobEnds(r, "none"))
    BY <1>1, <1>3, <2>2, CallingFacts, Facts, JobEndsFine
  <2>4. BreakerOpen(limiter, now) => JobDrains(j, r)
    BY <1>3, Facts DEF JobDrains
  <2> QED BY <1>1, <2>1, <2>3, <2>4, Facts, OneJob
<1>5. CASE ~(KindOf[j] = "single" \/ r.page = Pages)
  <2>1. job' = [job EXCEPT ![j] = Attempting(j, r)]
    BY <1>5 DEF AnswerOk
  <2>2. Throttled(j) /\ r.page < Pages
    BY <1>2, <1>3, <1>5, Numbers DEF Throttled
  <2> HIDE DEF r
  <2>3. Ready(j, r)
    BY <1>1, <1>3, <2>2, CallingFacts, AttemptsFacts DEF Ready
  <2>4. /\ JobFine(j, Attempting(j, r)) /\ Attempting(j, r).late = r.late
        /\ Attempting(j, r).pc = "asking"
    BY <2>2, <2>3, Facts, AttemptingFine
  <2>5. BreakerOpen(limiter, now) => JobDrains(j, Attempting(j, r))
    BY <1>3, <2>4, Facts DEF JobDrains
  <2> QED BY <1>1, <2>1, <2>4, <2>5, Facts, OneJob
<1> QED BY <1>4, <1>5

LEMMA AnswerBadKeeps ==
    ASSUME IInv, NEW j \in Jobs, AnswerRefused(j) \/ AnswerFailed(j)
    PROVE  IInv'
<1>1. limiter' = limiter /\ now' = now /\ job[j].pc = "calling"
  BY DEF AnswerRefused, AnswerFailed
<1>2. CASE AnswerRefused(j)
  <2>1. PICK failure \in Failures : job' = [job EXCEPT ![j] = JobEnds(job[j], failure)]
    BY <1>2 DEF AnswerRefused, Failures
  <2> QED BY <1>1, <2>1, CallingFacts, Facts, JobEndsFine, OneJob
<1>3. CASE AnswerFailed(j)
  <2>1. PICK failure \in Failures : job' = [job EXCEPT ![j] = AttemptFailed(j, job[j], failure)]
    BY <1>3 DEF AnswerFailed, Failures
  <2> QED BY <1>1, <2>1, Facts, AttemptFailedFine, OneJob
<1> QED BY <1>2, <1>3

LEMMA NextAttemptKeeps ==
    ASSUME IInv, NEW j \in Jobs, NextAttempt(j)
    PROVE  IInv'
<1> DEFINE r == [job[j] EXCEPT !.attempt = @ + 1]
<1>1. /\ limiter' = limiter /\ now' = now /\ job[j].pc = "backoff"
      /\ job' = [job EXCEPT ![j] = Attempting(j, r)]
  BY DEF NextAttempt
<1>2. job[j].attempt + 1 \in 1..Attempts(j)
  BY <1>1, Facts, AttemptsFacts DEF JobFine
<1>3. /\ r \in JobState /\ r.attempt = job[j].attempt + 1 /\ r.page = job[j].page
      /\ r.purse = job[j].purse /\ r.late = job[j].late
  BY Facts DEF JobState
<1> HIDE DEF r
<1>4. Ready(j, r)
  BY <1>1, <1>2, <1>3, Facts DEF JobFine, Ready
<1>5. /\ JobFine(j, Attempting(j, r))
      /\ Throttled(j) => Attempting(j, r).late = r.late /\ Attempting(j, r).pc = "asking"
  BY <1>4, Facts, AttemptingFine
<1>6. BreakerOpen(limiter, now) => JobDrains(j, Attempting(j, r))
  BY <1>3, <1>5, Facts DEF JobDrains
<1> QED BY <1>1, <1>5, <1>6, Facts, OneJob

\* Fewer requests, and what a job told the breaker, change nothing.
LEMMA CountedAnew ==
    ASSUME NEW j \in Jobs, NEW r, JobFine(j, r), NEW e \in JobState,
           e.attempt = r.attempt, e.page = r.page, e.pc = r.pc, e.purse = r.purse,
           e.late <= r.late
    PROVE  JobFine(j, e)
<1>1. /\ r.late \in Nat /\ e.late \in Nat /\ r.attempt \in Nat
  BY DEF JobFine, JobState
<1> QED BY <1>1, Numbers DEF JobFine

LEMMA RecordKeeps ==
    ASSUME IInv, NEW j \in Jobs, Record(j)
    PROVE  IInv'
<1> DEFINE verdict == Verdict(KindOf[j], job[j].failure)
           Old(i) == IF i = j THEN [Finished(job[i]) EXCEPT !.verdict = verdict] ELSE job[i]
           New(i) == [Old(i) EXCEPT !.late = IF ~BreakerOpen(limiter, now) THEN 0 ELSE @]
<1>1. now' = now /\ job' = [i \in Jobs |-> New(i)]
  BY DEF Record
<1>2. verdict \in Verdicts
  BY DEF Verdict, Verdicts
<1>3. limiter' \in LimiterState
  BY Facts, RecordResultFacts DEF Record
<1> HIDE DEF verdict
<1>4. ASSUME NEW i \in Jobs
      PROVE  /\ JobFine(i, New(i))
             /\ New(i).late = IF ~BreakerOpen(limiter, now) THEN 0 ELSE job[i].late
             /\ New(i).pc = IF i = j THEN "done" ELSE job[i].pc
  <2> DEFINE n == IF ~BreakerOpen(limiter, now) THEN 0 ELSE job[i].late
  <2>1. n \in Nat /\ n <= job[i].late /\ JobFine(i, job[i]) /\ job[i] \in JobState
    BY Facts
  <2>2. CASE i = j
    <3> DEFINE r == Finished(job[i])
    <3>1. JobFine(i, r)
      BY <2>1, FinishedFine
    <3>2. r \in JobState /\ r.late = job[i].late /\ r.pc = "done"
      BY <2>1, <3>1 DEF Finished, JobState, JobFine
    <3>3. /\ New(i) \in JobState /\ New(i).pc = "done" /\ New(i).late = n
          /\ New(i).attempt = r.attempt /\ New(i).page = r.page /\ New(i).purse = r.purse
      <4>1. New(i) = [[r EXCEPT !.verdict = verdict] EXCEPT !.late = n]
        BY <2>1, <2>2, <3>2 DEF JobState
      <4> HIDE DEF r, n, New
      <4> QED BY <1>2, <2>1, <3>2, <4>1 DEF JobState
    <3> HIDE DEF r, n, New
    <3>4. JobFine(i, New(i))
      BY <2>1, <3>1, <3>2, <3>3, CountedAnew
    <3> QED BY <2>2, <3>3, <3>4 DEF n
  <2>3. CASE i # j
    <3>1. /\ New(i) \in JobState /\ New(i).pc = job[i].pc /\ New(i).late = n
          /\ New(i).attempt = job[i].attempt /\ New(i).page = job[i].page
          /\ New(i).purse = job[i].purse
      <4>1. New(i) = [job[i] EXCEPT !.late = n]
        BY <2>1, <2>3 DEF JobState
      <4> HIDE DEF n, New
      <4> QED BY <2>1, <4>1 DEF JobState
    <3> HIDE DEF n, New
    <3>2. JobFine(i, New(i))
      BY <2>1, <3>1, CountedAnew
    <3> QED BY <2>3, <3>1, <3>2 DEF n
  <2> QED BY <2>2, <2>3
<1> HIDE DEF New
<1>5. job' \in [Jobs -> JobState] /\ \A i \in Jobs : JobFine(i, job'[i])
  BY <1>1, <1>4 DEF JobFine
<1>6. ASSUME NEW i \in Jobs
      PROVE  JobDrains(i, job'[i])
  <2>1. job'[i] = New(i)
    BY <1>1
  <2>2. CASE BreakerOpen(limiter, now)
    BY <1>4, <2>1, <2>2, Facts DEF JobDrains
  <2>3. CASE ~BreakerOpen(limiter, now)
    BY <1>4, <2>1, <2>3 DEF JobDrains
  <2> QED BY <2>2, <2>3
<1>7. now' \in 0..MaxTime
  BY <1>1, Facts
<1> QED BY <1>3, <1>5, <1>6, <1>7 DEF IInv

LEMMA TickKeeps ==
    ASSUME IInv, Tick
    PROVE  IInv'
<1>1. /\ now' = now + 1 /\ now < MaxTime /\ limiter' = limiter /\ job' = job
      /\ now \in 0..MaxTime /\ limiter.openUntil \in Nat
  BY DEF Tick, IInv, LimiterState
<1>2. now' \in 0..MaxTime
  BY <1>1, Numbers
<1>3. BreakerOpen(limiter', now') => BreakerOpen(limiter, now)
  BY <1>1, Numbers DEF BreakerOpen
<1> QED BY <1>1, <1>2, <1>3 DEF IInv

LEMMA InvInit == Init => IInv
<1> SUFFICES ASSUME Init
             PROVE  IInv
  OBVIOUS
<1>1. now \in 0..MaxTime /\ now = 0
  BY Resets DEF Init
<1>2. limiter \in LimiterState
  <2>1. FullBucket \in Nat /\ 0 \in 0..FailureThreshold - 1
    BY LimiterAssumption, SMT DEF FullBucket
  <2> QED BY <2>1 DEF Init, InitialState, LimiterState
<1>3. ASSUME NEW j \in Jobs
      PROVE  job[j] \in JobState /\ JobFine(j, job[j]) /\ job[j].late = 0
             /\ job[j].pc = "preflight"
  <2>1. /\ job[j] \in JobState /\ job[j].pc = "preflight" /\ job[j].page = 0
        /\ job[j].attempt = 1 /\ job[j].purse = 0 /\ job[j].late = 0
    BY Resets, Numbers DEF Init, JobState, Steps, Failures, Verdicts
  <2> QED BY <2>1, Numbers, AttemptsFacts DEF JobFine
<1>4. job \in [Jobs -> JobState]
  BY <1>3 DEF Init
<1>5. \A j \in Jobs : JobDrains(j, job[j])
  BY <1>3 DEF JobDrains
<1> QED BY <1>1, <1>2, <1>3, <1>4, <1>5 DEF IInv

LEMMA InvNext == IInv /\ [Next]_vars => IInv'
<1> SUFFICES ASSUME IInv, [Next]_vars
             PROVE  IInv'
  OBVIOUS
<1>1. ASSUME NEW j \in Jobs, JobStep(j)
      PROVE  IInv'
  BY <1>1, PreflightKeeps, PermitKeeps, WakeKeeps, FetchKeeps, AnswerOkKeeps,
     AnswerBadKeeps, NextAttemptKeeps, RecordKeeps DEF JobStep
<1>2. CASE Tick
  BY <1>2, TickKeeps
<1>3. CASE UNCHANGED vars
  BY <1>3 DEF IInv, vars
<1> QED BY <1>1, <1>2, <1>3 DEF Next, AllDone

LEMMA InvariantHolds == Spec => []IInv
BY InvInit, InvNext, PTL DEF Spec

\* The jobs are well-formed, and behind the throttle every request that leaves,
\* retries included, spends a permit of its own and never the one of the
\* pre-flight (throttledTransport, fetchWithRetry).
THEOREM RequestsArePaid == Spec => []PaidInv
<1>1. IInv => PaidInv
  BY DEF IInv, JobFine, Throttled, PaidInv, TypeOK, ThrottledRequestsArePaid
<1> QED BY <1>1, InvariantHolds, PTL

\* While the breaker is open a throttled job sends at most the request whose
\* permit was already on its way, a single job at most its attempts
\* (throttledTransport, rateLimiter.ts).
THEOREM TrafficDrains == Spec => []BreakerDrains
<1>1. IInv => BreakerDrains
  BY DEF IInv, JobFine, JobDrains, Throttled, BreakerDrains
<1> QED BY <1>1, InvariantHolds, PTL

-----------------------------------------------------------------------------
(***************************************************************************)
(* Probe, canary and their alerts                                          *)
(***************************************************************************)
Health == [bad : 0..Streak, alerted : BOOLEAN,
           verdict : {"none", "GEO_BLOCKED", "WAF_BLOCKED", "RATE_LIMITED", "ERROR"}]
CanaryHealth == [bad : 0..Streak, alerted : BOOLEAN, daChao : BOOLEAN,
                 verdict : {"none", "OK", "WAF_BLOCKED", "DRIFT", "TIMEOUT", "ERROR"}]

CountsOK == faults \in 0..MaxFaults /\ rung \in Nat /\ alarms \in Nat

\* An alarm of the canary counts as told in its own bad period only.
Told(c) == c.alerted /\ c.verdict # "OK"

EveryAlarmHasAFault ==
  /\ ~health.alerted => rung <= faults
  /\ ~Told(canary) => alarms <= faults

AlertInv ==
  /\ AlertsOK /\ CountsOK /\ ToldOnce /\ EveryAlarmHasAFault
  /\ SilenceIsInformed /\ BadNewsIsRemembered

-----------------------------------------------------------------------------
(***************************************************************************)
(* Verdicts and messages                                                   *)
(***************************************************************************)
LEMMA ProbeVerdictTypes ==
    ASSUME NEW verdict \in ProbeVerdicts
    PROVE  verdict \in {"OK", "GEO_BLOCKED", "WAF_BLOCKED", "RATE_LIMITED", "ERROR"}
<1>1. PICK answer \in PublicPage : verdict = Classify(answer)
  BY DEF ProbeVerdicts
<1>2. \A a : Classify(a) \in {"OK", "GEO_BLOCKED", "WAF_BLOCKED", "RATE_LIMITED", "ERROR"}
  BY DEF Classify
<1> QED BY <1>1, <1>2

LEMMA CanaryVerdictTypes ==
    ASSUME NEW verdict \in CanaryVerdicts
    PROVE  verdict \in {"OK", "WAF_BLOCKED", "DRIFT", "TIMEOUT", "ERROR"}
<1>1. PICK captcha \in Captcha, login \in Login : verdict = CanaryVerdict(captcha, login)
  BY DEF CanaryVerdicts
<1>2. \A c, l : CanaryVerdict(c, l) \in {"OK", "WAF_BLOCKED", "DRIFT", "TIMEOUT", "ERROR"}
  BY DEF CanaryVerdict
<1> QED BY <1>1, <1>2

LEMMA FaultBound == MaxFaults \in Nat
BY AlertsAssumption

LEMMA CutFacts ==
    ASSUME NEW cut \in Cut
    PROVE  cut \in BOOLEAN /\ (cut = TRUE => faults < MaxFaults)
BY DEF Cut

LEMMA RingFacts ==
    ASSUME NEW ringing \in Ring
    PROVE  /\ ringing \in {"refused", "taken", "late"}
           /\ ringing = "late" => faults < MaxFaults
BY DEF Ring

\* A tick that is cut off, or whose message is taken but not confirmed, is a
\* fault, and there is room for it.
LEMMA FaultCount ==
    ASSUME faults \in 0..MaxFaults, NEW cut \in BOOLEAN, cut => faults < MaxFaults,
           NEW ringing, ringing = "late" => faults < MaxFaults
    PROVE  /\ Count(ringing, cut) \in 0..MaxFaults
           /\ Count(ringing, cut) = IF ringing = "late" \/ cut THEN faults + 1 ELSE faults
BY FaultBound DEF Count

\* The count: an alarm is heard only while none counts as told, and then it
\* counts as told or there was a fault.
LEMMA Counting ==
    ASSUME NEW f \in Nat, NEW n \in Nat, NEW told,
           NEW f2 \in Nat, NEW n2 \in Nat, NEW told2,
           ~told => n <= f, n <= 1 + f, f <= f2,
           \/ n2 = 0
           \/ n2 = n /\ (told => told2)
           \/ n2 = n /\ ~told
           \/ n2 = n + 1 /\ ~told /\ told2
           \/ n2 = n + 1 /\ ~told /\ f2 = f + 1
    PROVE  (~told2 => n2 <= f2) /\ n2 <= 1 + f2
OBVIOUS

LEMMA OneMoreFacts ==
    ASSUME NEW n \in 0..Streak
    PROVE  OneMore(n) \in 1..Streak
BY DEF OneMore, Streak

-----------------------------------------------------------------------------
(***************************************************************************)
(* The probe                                                               *)
(***************************************************************************)
LEMMA NextHealthFacts ==
    ASSUME NEW prev \in Health,
           NEW verdict \in {"OK", "GEO_BLOCKED", "WAF_BLOCKED", "RATE_LIMITED", "ERROR"},
           NEW step, step = NextHealth(prev, verdict)
    PROVE  /\ step.state \in Health
           /\ verdict = "OK" => step.state = Healthy /\ step.alert = FALSE
           /\ verdict # "OK" =>
                /\ step.state # Healthy
                /\ step.alert => ~prev.alerted
                /\ step.state.alerted = (prev.alerted \/ step.alert)
           /\ Healthy.alerted = FALSE
           /\ step.alert \in BOOLEAN
           /\ [step.state EXCEPT !.alerted = FALSE] \in Health
           /\ [step.state EXCEPT !.alerted = FALSE].alerted = FALSE
<1> DEFINE bad == OneMore(prev.bad)
           alert == bad >= Streak /\ ~prev.alerted
           next == [bad |-> bad, alerted |-> prev.alerted \/ alert, verdict |-> verdict]
<1>1. bad \in 1..Streak /\ prev.alerted \in BOOLEAN /\ alert \in BOOLEAN
  BY OneMoreFacts DEF Health, Streak
<1>2. Healthy \in Health /\ Healthy.alerted = FALSE /\ Healthy.bad = 0
  BY DEF Healthy, Health, Streak
<1>3. CASE verdict = "OK"
  <2>1. step.state = Healthy /\ step.alert = FALSE
    BY <1>3 DEF NextHealth
  <2> QED BY <1>2, <1>3, <2>1 DEF Health
<1>4. CASE verdict # "OK"
  <2>1. step.state = next /\ step.alert = alert
    BY <1>4 DEF NextHealth
  <2>2. next \in Health /\ next.bad # 0 /\ next.alerted = (prev.alerted \/ alert)
    BY <1>1, <1>4 DEF Health, Streak
  <2>3. alert => ~prev.alerted
    OBVIOUS
  <2> HIDE DEF next, alert
  <2>4. [next EXCEPT !.alerted = FALSE] \in Health
    BY <2>2 DEF Health
  <2>5. [next EXCEPT !.alerted = FALSE].alerted = FALSE
    BY <2>2 DEF Health
  <2> QED BY <1>1, <1>2, <1>4, <2>1, <2>2, <2>3, <2>4, <2>5
<1> QED BY <1>3, <1>4

LEMMA ProbeKeeps ==
    ASSUME AlertInv, Probe
    PROVE  AlertInv'
<1>1. PICK verdict \in ProbeVerdicts, cut \in BOOLEAN :
        /\ cut \in Cut
        /\ \E r \in ProbeRings(NextHealth(health, verdict)) :
             /\ ~(cut /\ r = "late")
             /\ faults' = Count(r, cut)
             /\ health' = IF cut THEN health ELSE SavedHealth(NextHealth(health, verdict), r)
             /\ rung' = IF NextHealth(health, verdict).state = Healthy /\ ~cut THEN 0
                        ELSE IF Reached(r) THEN rung + 1 ELSE rung
             /\ UNCHANGED <<portal, bell, canaryVars>>
  BY CutFacts DEF Probe
<1> DEFINE step == NextHealth(health, verdict)
<1>2. PICK ringing \in ProbeRings(step) :
        /\ ~(cut /\ ringing = "late")
        /\ faults' = Count(ringing, cut)
        /\ health' = IF cut THEN health ELSE SavedHealth(step, ringing)
        /\ rung' = IF step.state = Healthy /\ ~cut THEN 0
                   ELSE IF Reached(ringing) THEN rung + 1 ELSE rung
        /\ UNCHANGED <<portal, bell, canaryVars>>
  BY <1>1
<1>3. health \in Health
  BY DEF AlertInv, AlertsOK, Health
<1>4. /\ step.state \in Health
      /\ verdict = "OK" => step.state = Healthy /\ step.alert = FALSE
      /\ verdict # "OK" =>
           /\ step.state # Healthy
           /\ step.alert => ~health.alerted
           /\ step.state.alerted = (health.alerted \/ step.alert)
      /\ Healthy.alerted = FALSE /\ step.alert \in BOOLEAN
      /\ [step.state EXCEPT !.alerted = FALSE] \in Health
      /\ [step.state EXCEPT !.alerted = FALSE].alerted = FALSE
  BY <1>3, ProbeVerdictTypes, NextHealthFacts
<1> HIDE DEF step
<1>5. ringing \in Ring \/ ringing = "quiet"
  BY <1>2 DEF ProbeRings
<1>6. step.alert => ringing # "quiet"
  BY <1>2 DEF ProbeRings, Ring
<1>7. ~step.alert => ringing = "quiet"
  BY <1>2, <1>4 DEF ProbeRings
<1>8. /\ ringing \in {"refused", "taken", "late", "quiet"}
      /\ faults' \in 0..MaxFaults
      /\ faults' = IF ringing = "late" \/ cut THEN faults + 1 ELSE faults
  <2>1. /\ ringing \in {"refused", "taken", "late", "quiet"}
        /\ ringing = "late" => faults < MaxFaults
    BY <1>5, RingFacts
  <2>2. cut => faults < MaxFaults
    BY <1>1, CutFacts
  <2> QED BY <1>2, <2>1, <2>2, FaultCount DEF AlertInv, CountsOK
<1>9. /\ health' \in Health
      /\ cut => health' = health
      /\ ~cut /\ ringing \in {"taken", "quiet"} => health' = step.state
      /\ ~cut /\ ringing \in {"refused", "late"} => health'.alerted = FALSE
  BY <1>2, <1>3, <1>4, <1>8 DEF SavedHealth, Delivered
<1>10. /\ rung' \in Nat
       /\ ~cut /\ verdict = "OK" => rung' = 0
       /\ cut \/ verdict # "OK" =>
            rung' = IF ringing \in {"taken", "late"} THEN rung + 1 ELSE rung
  BY <1>2, <1>4, <1>8 DEF Reached, AlertInv, CountsOK
<1>11. /\ canary' = canary /\ heard' = heard /\ alarms' = alarms /\ slip' = slip
       /\ faults \in Nat /\ rung \in Nat /\ alarms \in Nat /\ faults' \in Nat
       /\ health.alerted \in BOOLEAN /\ faults <= faults'
  BY <1>2, <1>3, <1>8, FaultBound DEF canaryVars, AlertInv, CountsOK, Health
<1>12. AlertsOK' /\ CountsOK'
  BY <1>8, <1>9, <1>10, <1>11 DEF AlertInv, AlertsOK, CountsOK, Health
\* An alarm is rung only while none counts as told.
<1>13. /\ ~health'.alerted => rung' <= faults'
       /\ rung' <= 1 + faults'
  <2>1. /\ ~health.alerted => rung <= faults
        /\ rung <= 1 + faults
    BY DEF AlertInv, EveryAlarmHasAFault, ToldOnce
  <2>2. \/ rung' = 0
        \/ rung' = rung /\ (health.alerted => health'.alerted)
        \/ rung' = rung /\ ~health.alerted
        \/ rung' = rung + 1 /\ ~health.alerted /\ health'.alerted
        \/ rung' = rung + 1 /\ ~health.alerted /\ faults' = faults + 1
    <3>1. CASE ~step.alert
      BY <1>4, <1>7, <1>9, <1>10, <3>1
    <3>2. CASE step.alert
      BY <1>4, <1>6, <1>8, <1>9, <1>10, <3>2
    <3> QED BY <3>1, <3>2
  <2> QED BY <1>8, <1>10, <1>11, <2>1, <2>2, Counting
<1>14. /\ ~Told(canary') => alarms' <= faults'
       /\ alarms' <= 1 + faults'
  <2>1. /\ ~Told(canary) => alarms <= faults
        /\ alarms <= 1 + faults
    BY DEF AlertInv, EveryAlarmHasAFault, ToldOnce
  <2>2. alarms' = alarms /\ (Told(canary) => Told(canary')) /\ alarms' \in Nat
    BY <1>11
  <2> QED BY <1>8, <1>11, <2>1, <2>2, Counting
<1>15. ToldOnce' /\ EveryAlarmHasAFault'
  BY <1>13, <1>14 DEF ToldOnce, EveryAlarmHasAFault
<1>16. SilenceIsInformed' /\ BadNewsIsRemembered'
  <2>1. health'.alerted => rung' > 0
    <3>1. health.alerted => rung > 0
      BY DEF AlertInv, SilenceIsInformed
    <3>2. CASE ~step.alert
      BY <1>4, <1>7, <1>8, <1>9, <1>10, <1>11, <3>1, <3>2
    <3>3. CASE step.alert
      BY <1>4, <1>6, <1>8, <1>9, <1>10, <1>11, <3>3
    <3> QED BY <3>2, <3>3
  <2> QED BY <1>11, <2>1 DEF AlertInv, SilenceIsInformed, BadNewsIsRemembered
<1> QED BY <1>12, <1>15, <1>16 DEF AlertInv

-----------------------------------------------------------------------------
(***************************************************************************)
(* The canary                                                              *)
(***************************************************************************)
LEMMA BadKindFacts ==
    ASSUME NEW verdict, NEW bad
    PROVE  BadKind(verdict, bad) \in {"chan", "drift", "loi_lien_tiep", "none"}
BY DEF BadKind

\* What a tick of the canary keeps and tells, by its verdict.
CanaryFacts(step, prev, verdict) ==
  /\ step.state \in CanaryHealth
  /\ step.state.verdict = verdict
  /\ verdict = "OK" =>
       /\ step.kind \in {"hoi_phuc", "bat_giam_sat", "none"}
       /\ prev.alerted => step.kind = "hoi_phuc"
       /\ step.kind = "hoi_phuc" => prev.alerted
       /\ step.state.alerted = FALSE
  /\ verdict # "OK" =>
       /\ step.kind \in {"chan", "drift", "loi_lien_tiep", "none"}
       /\ Told(prev) => step.kind = "none"
       /\ step.state.alerted => Told(prev) \/ step.kind # "none"
       /\ Told(prev) \/ step.kind # "none" => step.state.alerted

\* A good tick tells of the recovery when an alarm was told; a bad one alarms
\* only when none was told in this bad period.
LEMMA NextCanaryFacts ==
    ASSUME NEW prev \in CanaryHealth,
           NEW verdict \in {"OK", "WAF_BLOCKED", "DRIFT", "TIMEOUT", "ERROR"},
           NEW step, step = NextCanaryHealth(prev, verdict)
    PROVE  CanaryFacts(step, prev, verdict)
<1> DEFINE good == [verdict |-> "OK", bad |-> 0, alerted |-> FALSE, daChao |-> TRUE]
           bad == OneMore(prev.bad)
           daBao == prev.alerted /\ prev.verdict # "OK"
           kind == IF daBao THEN "none" ELSE BadKind(verdict, bad)
           next == [prev EXCEPT !.verdict = verdict, !.bad = bad,
                                !.alerted = daBao \/ kind # "none"]
<1>1. bad \in 0..Streak /\ prev.alerted \in BOOLEAN /\ daBao \in BOOLEAN
  BY OneMoreFacts DEF CanaryHealth, Streak
<1>2. CASE verdict = "OK"
  <2>1. step =
          [state |-> good,
           kind |-> IF prev.alerted THEN "hoi_phuc"
                    ELSE IF ~prev.daChao THEN "bat_giam_sat" ELSE "none"]
    BY <1>2 DEF NextCanaryHealth, GoodTick
  <2>2. good \in CanaryHealth /\ good.verdict = "OK" /\ good.alerted = FALSE
    BY DEF CanaryHealth, Streak
  <2> HIDE DEF good
  <2> QED BY <1>2, <2>1, <2>2 DEF CanaryFacts
<1>3. CASE verdict # "OK"
  <2>1. step = [state |-> next, kind |-> kind]
    BY <1>3 DEF NextCanaryHealth, BadTick
  <2>2. kind \in {"chan", "drift", "loi_lien_tiep", "none"} /\ (daBao => kind = "none")
    BY BadKindFacts
  <2>3. (daBao => Told(prev)) /\ (Told(prev) => daBao)
    BY DEF Told
  <2> HIDE DEF kind
  <2>4. (daBao \/ kind # "none") \in BOOLEAN
    BY <1>1
  <2> HIDE DEF daBao, bad
  <2>5. /\ next \in CanaryHealth /\ next.verdict = verdict
        /\ next.alerted = (daBao \/ kind # "none")
    BY <1>1, <2>4 DEF CanaryHealth
  <2>6. /\ next.alerted => daBao \/ kind # "none"
        /\ daBao \/ kind # "none" => next.alerted
    BY <2>5
  <2> HIDE DEF next
  <2> QED BY <1>3, <2>1, <2>2, <2>3, <2>5, <2>6 DEF CanaryFacts
<1> QED BY <1>2, <1>3

\* What is kept of a tick whose message was not delivered.
LEMMA UndeliveredFacts ==
    ASSUME NEW prev \in CanaryHealth, NEW step, step.state \in CanaryHealth,
           step.kind \in {"hoi_phuc", "bat_giam_sat", "chan", "drift", "loi_lien_tiep"}
    PROVE  /\ Undelivered(step, prev) \in CanaryHealth
           /\ Undelivered(step, prev).verdict = step.state.verdict
           /\ step.kind = "hoi_phuc" => Undelivered(step, prev).alerted = TRUE
           /\ step.kind = "bat_giam_sat"
                => Undelivered(step, prev).alerted = step.state.alerted
           /\ step.kind \in {"chan", "drift", "loi_lien_tiep"}
                => Undelivered(step, prev).alerted = FALSE
<1>1. CASE step.kind = "hoi_phuc"
  <2>1. Undelivered(step, prev) =
          [step.state EXCEPT !.alerted = TRUE, !.daChao = prev.daChao]
    BY <1>1 DEF Undelivered
  <2> QED BY <1>1, <2>1 DEF CanaryHealth
<1>2. CASE step.kind = "bat_giam_sat"
  <2>1. Undelivered(step, prev) = [step.state EXCEPT !.daChao = FALSE]
    BY <1>2 DEF Undelivered
  <2> QED BY <1>2, <2>1 DEF CanaryHealth
<1>3. CASE step.kind \in {"chan", "drift", "loi_lien_tiep"}
  <2>1. Undelivered(step, prev) = [step.state EXCEPT !.alerted = FALSE]
    BY <1>3 DEF Undelivered
  <2> QED BY <1>3, <2>1 DEF CanaryHealth
<1> QED BY <1>1, <1>2, <1>3

\* What a message does to the operator's belief and to the slips.
LEMMA HeardFacts ==
    ASSUME NEW kind \in {"hoi_phuc", "bat_giam_sat", "chan", "drift", "loi_lien_tiep", "none"},
           NEW ringing \in {"refused", "taken", "late", "quiet"}
    PROVE  Heard(kind, ringing) =
             IF ringing \in {"refused", "quiet"} THEN heard
             ELSE IF kind \in {"chan", "drift", "loi_lien_tiep"} THEN "bad" ELSE "fine"
BY DEF Heard, Reached, Alarm

LEMMA CanaryKeeps ==
    ASSUME AlertInv, Canary
    PROVE  AlertInv'
<1>1. PICK verdict \in CanaryVerdicts, cut \in BOOLEAN :
        /\ cut \in Cut
        /\ \E r \in CanaryRings(NextCanaryHealth(canary, verdict)) :
             LET s == NextCanaryHealth(canary, verdict) IN
             /\ ~(cut /\ r = "late")
             /\ faults' = Count(r, cut)
             /\ canary' = IF cut THEN canary ELSE SavedCanary(s, r)
             /\ heard' = Heard(s.kind, r)
             /\ alarms' = IF s.state.verdict = "OK" /\ ~cut THEN 0
                          ELSE IF Alarm(s.kind) /\ Reached(r) THEN alarms + 1
                          ELSE alarms
             /\ slip' = Slip(s.kind, r, cut)
             /\ UNCHANGED <<portal, bell, probeVars>>
  BY CutFacts DEF Canary
<1> DEFINE step == NextCanaryHealth(canary, verdict)
<1>2. PICK ringing \in CanaryRings(step) :
        /\ ~(cut /\ ringing = "late")
        /\ faults' = Count(ringing, cut)
        /\ canary' = IF cut THEN canary ELSE SavedCanary(step, ringing)
        /\ heard' = Heard(step.kind, ringing)
        /\ alarms' = IF step.state.verdict = "OK" /\ ~cut THEN 0
                     ELSE IF Alarm(step.kind) /\ Reached(ringing) THEN alarms + 1
                     ELSE alarms
        /\ slip' = Slip(step.kind, ringing, cut)
        /\ UNCHANGED <<portal, bell, probeVars>>
  BY <1>1
<1>3. canary \in CanaryHealth
  BY DEF AlertInv, AlertsOK, CanaryHealth
<1>4. verdict \in {"OK", "WAF_BLOCKED", "DRIFT", "TIMEOUT", "ERROR"}
  BY CanaryVerdictTypes
<1>5. /\ step.state \in CanaryHealth
      /\ step.state.verdict = verdict
      /\ verdict = "OK" =>
           /\ step.kind \in {"hoi_phuc", "bat_giam_sat", "none"}
           /\ canary.alerted => step.kind = "hoi_phuc"
           /\ step.kind = "hoi_phuc" => canary.alerted
           /\ step.state.alerted = FALSE
      /\ verdict # "OK" =>
           /\ step.kind \in {"chan", "drift", "loi_lien_tiep", "none"}
           /\ Told(canary) => step.kind = "none"
           /\ step.state.alerted => Told(canary) \/ step.kind # "none"
           /\ Told(canary) \/ step.kind # "none" => step.state.alerted
  <2> HIDE DEF step
  <2>1. step = NextCanaryHealth(canary, verdict)
    BY DEF step
  <2>2. CanaryFacts(step, canary, verdict)
    BY <1>3, <1>4, <2>1, NextCanaryFacts
  <2> QED BY <2>2 DEF CanaryFacts
<1> HIDE DEF step
<1>6. step.kind \in {"hoi_phuc", "bat_giam_sat", "chan", "drift", "loi_lien_tiep", "none"}
  BY <1>5
<1>7. /\ step.kind = "none" => ringing = "quiet"
      /\ step.kind # "none" => ringing \in {"refused", "taken", "late"}
  BY <1>2, RingFacts DEF CanaryRings
<1>8. /\ ringing \in {"refused", "taken", "late", "quiet"}
      /\ faults' \in 0..MaxFaults
      /\ faults' = IF ringing = "late" \/ cut THEN faults + 1 ELSE faults
  <2>1. cut => faults < MaxFaults
    BY <1>1, CutFacts
  <2>2. ringing = "late" => faults < MaxFaults
    BY <1>2, RingFacts DEF CanaryRings
  <2> QED BY <1>2, <1>7, <2>1, <2>2, FaultCount DEF AlertInv, CountsOK
<1>9. /\ canary' \in CanaryHealth
      /\ cut => canary' = canary
      /\ ~cut => canary'.verdict = verdict
      /\ ~cut /\ ringing \in {"taken", "quiet"} => canary' = step.state
      /\ ~cut /\ ringing \in {"refused", "late"} =>
           /\ step.kind = "hoi_phuc" => canary'.alerted = TRUE
           /\ step.kind = "bat_giam_sat" => canary'.alerted = FALSE
           /\ step.kind \in {"chan", "drift", "loi_lien_tiep"} => canary'.alerted = FALSE
  <2>1. CASE cut
    BY <1>2, <1>3, <2>1
  <2>2. CASE ~cut /\ ringing \in {"taken", "quiet"}
    BY <1>2, <1>5, <2>2 DEF SavedCanary, Delivered
  <2>3. CASE ~cut /\ ringing \in {"refused", "late"}
    <3>1. canary' = Undelivered(step, canary)
      BY <1>2, <2>3 DEF SavedCanary, Delivered
    <3>2. step.kind \in {"hoi_phuc", "bat_giam_sat", "chan", "drift", "loi_lien_tiep"}
      BY <1>6, <1>7, <2>3
    <3> QED BY <1>3, <1>4, <1>5, <2>3, <3>1, <3>2, UndeliveredFacts
  <2> QED BY <1>8, <2>1, <2>2, <2>3
<1>10. /\ alarms' \in Nat
       /\ ~cut /\ verdict = "OK" => alarms' = 0
       /\ cut \/ verdict # "OK" =>
            alarms' = IF step.kind \in {"chan", "drift", "loi_lien_tiep"}
                         /\ ringing \in {"taken", "late"} THEN alarms + 1 ELSE alarms
  BY <1>2, <1>5 DEF Alarm, Reached, AlertInv, CountsOK
<1>11. heard' = IF ringing \in {"refused", "quiet"} THEN heard
                ELSE IF step.kind \in {"chan", "drift", "loi_lien_tiep"} THEN "bad" ELSE "fine"
  BY <1>2, <1>6, <1>8, HeardFacts
<1>12. /\ health' = health /\ rung' = rung
       /\ faults \in Nat /\ rung \in Nat /\ alarms \in Nat /\ faults' \in Nat
       /\ faults <= faults'
  BY <1>2, <1>8, FaultBound DEF probeVars, AlertInv, CountsOK
<1>13. slip' \in {"none", "alarm unsaved", "recovery unsaved", "recovery forgotten"}
  BY <1>2 DEF Slip, AlertInv, AlertsOK
<1>14. AlertsOK' /\ CountsOK'
  BY <1>8, <1>9, <1>10, <1>11, <1>12, <1>13 DEF AlertInv, AlertsOK, CountsOK, CanaryHealth
<1>15. /\ ~Told(canary) => alarms <= faults
       /\ alarms <= 1 + faults
       /\ Told(canary) => heard = "bad" \/ slip = "recovery unsaved"
       /\ heard = "bad" => canary.alerted \/ slip \in {"alarm unsaved", "recovery forgotten"}
  BY DEF AlertInv, EveryAlarmHasAFault, ToldOnce, SilenceIsInformed, BadNewsIsRemembered, Told
<1>16. canary.alerted \in BOOLEAN /\ canary'.alerted \in BOOLEAN
  BY <1>3, <1>9 DEF CanaryHealth
\* The ways a tick goes: cut off, good, silent because told or not bad enough,
\* or with an alarm, and how that fares.
<1>17. \/ cut
       \/ ~cut /\ verdict = "OK"
       \/ ~cut /\ verdict # "OK" /\ step.kind = "none" /\ ringing = "quiet"
       \/ /\ ~cut /\ verdict # "OK" /\ step.kind \in {"chan", "drift", "loi_lien_tiep"}
          /\ ringing \in {"taken", "late", "refused"}
  BY <1>5, <1>7
<1>18. /\ ~cut /\ verdict = "OK" => ~Told(canary')
       /\ cut => Told(canary') = Told(canary)
       /\ ~cut /\ step.kind = "none" /\ verdict # "OK" => Told(canary') = Told(canary)
       /\ step.kind \in {"chan", "drift", "loi_lien_tiep"} => ~Told(canary)
       /\ ~cut /\ step.kind \in {"chan", "drift", "loi_lien_tiep"} /\ ringing = "taken"
            => Told(canary')
       /\ ~cut /\ step.kind \in {"chan", "drift", "loi_lien_tiep"}
            /\ ringing \in {"late", "refused"} => ~Told(canary') /\ ~canary'.alerted
  <2>1. ~cut /\ verdict = "OK" => ~Told(canary')
    BY <1>9 DEF Told
  <2>2. cut => Told(canary') = Told(canary)
    BY <1>9
  <2>3. step.kind \in {"chan", "drift", "loi_lien_tiep"} => ~Told(canary) /\ verdict # "OK"
    BY <1>5
  <2>4. ~cut /\ step.kind = "none" /\ verdict # "OK" => Told(canary') = Told(canary)
    BY <1>5, <1>7, <1>9, <1>16 DEF Told
  <2>5. ~cut /\ step.kind \in {"chan", "drift", "loi_lien_tiep"} /\ ringing = "taken"
          => Told(canary')
    BY <1>5, <1>9, <2>3 DEF Told
  <2>6. ~cut /\ step.kind \in {"chan", "drift", "loi_lien_tiep"}
          /\ ringing \in {"late", "refused"} => ~Told(canary') /\ ~canary'.alerted
    BY <1>9 DEF Told
  <2> QED BY <2>1, <2>2, <2>3, <2>4, <2>5, <2>6
<1>19. (~Told(canary') => alarms' <= faults') /\ alarms' <= 1 + faults'
  <2>1. \/ alarms' = 0
        \/ alarms' = alarms /\ (Told(canary) => Told(canary'))
        \/ alarms' = alarms /\ ~Told(canary)
        \/ alarms' = alarms + 1 /\ ~Told(canary) /\ Told(canary')
        \/ alarms' = alarms + 1 /\ ~Told(canary) /\ faults' = faults + 1
    <3>1. CASE step.kind \in {"chan", "drift", "loi_lien_tiep"} /\ ringing \in {"taken", "late"}
      <4>1. ~Told(canary) /\ verdict # "OK" /\ alarms' = alarms + 1
        BY <1>5, <1>10, <1>18, <3>1
      <4>2. ringing = "late" \/ cut \/ Told(canary')
        BY <1>18, <3>1
      <4> QED BY <1>8, <4>1, <4>2
    <3>2. CASE ~(step.kind \in {"chan", "drift", "loi_lien_tiep"} /\ ringing \in {"taken", "late"})
      <4>1. CASE ~cut /\ verdict = "OK"
        BY <1>10, <4>1
      <4>2. CASE cut
        BY <1>10, <1>18, <3>2, <4>2
      <4>3. CASE ~cut /\ verdict # "OK"
        <5>1. alarms' = alarms
          BY <1>10, <3>2, <4>3
        <5>2. CASE step.kind = "none"
          BY <1>18, <4>3, <5>1, <5>2
        <5>3. CASE step.kind \in {"chan", "drift", "loi_lien_tiep"}
          BY <1>18, <5>1, <5>3
        <5> QED BY <1>5, <4>3, <5>2, <5>3
      <4> QED BY <4>1, <4>2, <4>3
    <3> QED BY <3>1, <3>2
  <2> QED BY <1>10, <1>12, <1>15, <2>1, Counting
<1>20. ToldOnce' /\ EveryAlarmHasAFault'
  <2>1. (~health'.alerted => rung' <= faults') /\ rung' <= 1 + faults'
    <3>1. (~health.alerted => rung <= faults) /\ rung <= 1 + faults
      BY DEF AlertInv, EveryAlarmHasAFault, ToldOnce
    <3>2. rung' \in Nat /\ rung' = rung /\ (health.alerted => health'.alerted)
      BY <1>12
    <3> QED BY <1>12, <3>1, <3>2, Counting
  <2> QED BY <1>19, <2>1 DEF ToldOnce, EveryAlarmHasAFault
\* The slips, in words of the message.
<1>21. slip' =
         IF step.kind = "hoi_phuc" /\ cut /\ ringing \in {"taken", "late"}
         THEN "recovery unsaved"
         ELSE IF step.kind \in {"chan", "drift", "loi_lien_tiep"}
                 /\ ringing \in {"taken", "late"} /\ (cut \/ ringing = "late")
         THEN "alarm unsaved"
         ELSE IF ~cut /\ canary.alerted /\ canary.verdict = "OK" /\ ~canary'.alerted
                 /\ heard' = "bad"
         THEN "recovery forgotten"
         ELSE IF ~cut /\ ringing = "taken" THEN "none" ELSE slip
  BY <1>2 DEF Slip, Reached, Alarm
<1>22. Told(canary') => heard' = "bad" \/ slip' = "recovery unsaved"
  <2>1. CASE cut
    <3>1. Told(canary') => Told(canary) /\ canary.alerted
      BY <1>18, <2>1 DEF Told
    <3> QED BY <1>5, <1>6, <1>7, <1>8, <1>11, <1>15, <1>18, <1>21, <2>1, <3>1
  <2>2. CASE ~cut /\ verdict = "OK"
    BY <1>18, <2>2
  <2>3. CASE ~cut /\ verdict # "OK" /\ step.kind = "none" /\ ringing = "quiet"
    <3>1. Told(canary') => canary.verdict # "OK" /\ Told(canary)
      BY <1>18, <2>3 DEF Told
    <3> QED BY <1>11, <1>15, <1>21, <2>3, <3>1
  <2>4. CASE /\ ~cut /\ verdict # "OK" /\ step.kind \in {"chan", "drift", "loi_lien_tiep"}
             /\ ringing \in {"taken", "late", "refused"}
    BY <1>11, <1>18, <2>4
  <2> QED BY <1>17, <2>1, <2>2, <2>3, <2>4
<1>23. heard' = "bad" => canary'.alerted \/ slip' \in {"alarm unsaved", "recovery forgotten"}
  <2>1. CASE cut
    BY <1>6, <1>7, <1>8, <1>9, <1>11, <1>15, <1>21, <2>1
  <2>2. CASE ~cut /\ verdict = "OK"
    BY <1>5, <1>7, <1>8, <1>9, <1>11, <1>15, <1>21, <2>2
  <2>3. CASE ~cut /\ verdict # "OK" /\ step.kind = "none" /\ ringing = "quiet"
    <3>1. (canary'.alerted => Told(canary)) /\ (Told(canary) => canary'.alerted)
      BY <1>5, <1>9, <2>3
    <3> QED BY <1>11, <1>15, <1>16, <1>21, <2>3, <3>1 DEF Told
  <2>4. CASE /\ ~cut /\ verdict # "OK" /\ step.kind \in {"chan", "drift", "loi_lien_tiep"}
             /\ ringing \in {"taken", "late", "refused"}
    <3>1. CASE ringing = "taken"
      BY <1>18, <2>4, <3>1 DEF Told
    <3>2. CASE ringing = "late"
      BY <1>21, <2>4, <3>2
    <3>3. CASE ringing = "refused"
      <4>1. canary.alerted => canary.verdict = "OK"
        BY <1>18, <2>4 DEF Told
      <4> QED BY <1>11, <1>15, <1>18, <1>21, <2>4, <3>3, <4>1
    <3> QED BY <2>4, <3>1, <3>2, <3>3
  <2> QED BY <1>17, <2>1, <2>2, <2>3, <2>4
<1>24. SilenceIsInformed'
  <2>1. health'.alerted => rung' > 0
    BY <1>12 DEF AlertInv, SilenceIsInformed
  <2> QED BY <1>22, <2>1 DEF SilenceIsInformed, Told
<1>25. BadNewsIsRemembered'
  BY <1>23 DEF BadNewsIsRemembered
<1> QED BY <1>14, <1>20, <1>24, <1>25 DEF AlertInv

-----------------------------------------------------------------------------
(***************************************************************************)
(* The specification                                                       *)
(***************************************************************************)
LEMMA AlertInvInit == AlertsInit => AlertInv
<1> SUFFICES ASSUME AlertsInit
             PROVE  AlertInv
  OBVIOUS
<1>1. AlertsOK /\ CountsOK
  BY FaultBound DEF AlertsInit, AlertsOK, CountsOK, Healthy, HealthyCanary, Streak
<1>2. health.alerted = FALSE /\ canary.alerted = FALSE
  BY DEF AlertsInit, Healthy, HealthyCanary
<1> QED
  BY <1>1, <1>2 DEF AlertsInit, AlertInv, ToldOnce, EveryAlarmHasAFault, SilenceIsInformed,
                    BadNewsIsRemembered, Told

LEMMA AlertInvNext == AlertInv /\ [AlertsNext]_alertVars => AlertInv'
<1> SUFFICES ASSUME AlertInv, [AlertsNext]_alertVars
             PROVE  AlertInv'
  OBVIOUS
<1>1. CASE Weather \/ UNCHANGED alertVars
  BY <1>1 DEF Weather, alertVars, probeVars, canaryVars, AlertInv, AlertsOK, CountsOK, ToldOnce,
              EveryAlarmHasAFault, SilenceIsInformed, BadNewsIsRemembered, Told
<1>2. CASE Probe
  BY <1>2, ProbeKeeps
<1>3. CASE Canary
  BY <1>3, CanaryKeeps
<1> QED BY <1>1, <1>2, <1>3 DEF AlertsNext

LEMMA AlertInvHolds == AlertsSpec => []AlertInv
BY AlertInvInit, AlertInvNext, PTL DEF AlertsSpec

\* Probe and canary are well-formed, and every repetition of an alarm in one
\* bad period has a fault of its own (runEgressProbe, runCanary).
THEOREM AlarmsDoNotNag == AlertsSpec => []ToldInv
<1>1. AlertInv => ToldInv
  BY DEF AlertInv, ToldInv
<1> QED BY <1>1, AlertInvHolds, PTL

\* The mark that keeps an alarm back stands only where the operator has heard
\* it, but for a recovery that was told and not saved (nextCanaryHealth).
THEOREM SilenceWasEarned == AlertsSpec => []SilenceIsInformed
<1>1. AlertInv => SilenceIsInformed
  BY DEF AlertInv
<1> QED BY <1>1, AlertInvHolds, PTL

\* Bad news leave a mark that calls for the news of the recovery, but for the
\* two slips that the property names (trangThaiKhiGiaoHong).
THEOREM RecoveryIsOwed == AlertsSpec => []BadNewsIsRemembered
<1>1. AlertInv => BadNewsIsRemembered
  BY DEF AlertInv
<1> QED BY <1>1, AlertInvHolds, PTL
=============================================================================
