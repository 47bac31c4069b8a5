SPECIFICATION Spec
CONSTANTS
    w1 = w1
    b1 = b1
    m0 = m0
    m1 = m1
    Months <- MCMonths
    Calendars <- MCCurrent
    Backfills <- MCOneBackfill
    Modes <- MCModes
    Workers <- MCOneWorker
    Slack = 1
    MaxRetries = 0
    MaxTokens = 1
    MaxSyncs = 1
    MaxTime = 1
INVARIANT
    FollowedInv
    OwnFailuresShow
    DoneIsComplete
PROPERTY
    PageLearns
CHECK_DEADLOCK FALSE

