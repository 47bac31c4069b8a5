SPECIFICATION Spec
CONSTANTS
    i1 = i1
    valid = valid
    odd = odd
    r1 = r1
    r2 = r2
    w1 = w1
    w2 = w2
    Invoices <- MCInvoices
    Statuses <- MCStatuses
    Ttxly <- MCTtxly
    Tthai <- MCTthai
    Runs <- MCRuns
    Workers <- MCWorkers
    MaxDetail = 1
    MaxBegun = 4
    MaxFaults = 1
SYMMETRY Symmetry
INVARIANTS
    CopiesInv
    NewsIsTrue
    LinesAreComing
CHECK_DEADLOCK FALSE
