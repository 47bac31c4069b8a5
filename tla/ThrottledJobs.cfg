SPECIFICATION Spec
CONSTANTS
    Capacity = 3
    RefillPerSec = 1
    FailureThreshold = 2
    Cooldown = 2
    Second = 2
    chunk = chunk
    audit = audit
    single = single
    Jobs <- MCJobs
    KindOf <- MCKindOf
    Pages = 2
    MaxAttempts = 2
    SingleAttempts = 2
    RetryDelay = 1
    MaxWait = 1
    Timeout = 2
    Backoff = 1
    Latency = 1
    MaxTime = 12
INVARIANTS
    PaidInv
    BreakerDrains
PROPERTY
    EveryJobEnds
