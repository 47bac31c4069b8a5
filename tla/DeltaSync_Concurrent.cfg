SPECIFICATION Spec
CONSTANTS
    w1 = w1
    w2 = w2
    r1 = r1
    r2 = r2
    Workers <- MCWorkers
    Runs <- MCRuns
    NoRun = NoRun
    Stock <- MCBothFamilies
    Totals <- MCExactTotals
    MaxRounds = 1
    ChunkCap = 2
    MaxBackpressure = 0
    MaxRetries = 0
    MaxDlqRetries = 0
    MaxRequests = 2
    MaxReplays = 1
    MaxFaults = 0
SYMMETRY Symmetry
INVARIANTS
    TypeOK
    OneChainPerRun
    MessageBounds
PROPERTY
    LedgerSpec
