SPECIFICATION Spec
CONSTANTS
    w1 = w1
    w2 = w2
    r1 = r1
    r2 = r2
    Workers <- MCOneWorker
    Runs <- MCRuns
    NoRun = NoRun
    Stock <- MCOneFamily
    Totals <- MCTotals
    MaxRounds = 1
    ChunkCap = 2
    MaxBackpressure = 1
    MaxRetries = 1
    MaxDlqRetries = 0
    MaxRequests = 1
    MaxReplays = 0
    MaxFaults = 1
INVARIANT
    OrphanBound
    ChainBound
PROPERTY
    Settles
