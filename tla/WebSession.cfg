SPECIFICATION Spec
CONSTANTS
    t1 = t1
    t2 = t2
    an = an
    binh = binh
    Nobody = Nobody
    Tabs <- MCTabs
    Users <- MCUsers
    MaxRequests = 2
INVARIANT
    OwnDataOnly
PROPERTY
    NobodyWaitsForever
