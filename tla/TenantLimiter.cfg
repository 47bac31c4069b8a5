SPECIFICATION StoredSpec
CONSTANTS
    Capacity = 2
    RefillPerSec = 2
    FailureThreshold = 2
    Cooldown = 3
    Second = 5
    Times <- MCTimes
INVARIANTS
    CreditInv
    WindowBound
    StarvationBound
