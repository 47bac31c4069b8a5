SPECIFICATION Spec
CONSTANTS
    t1 = t1
    t2 = t2
    m1 = m1
    x = x
    y = y
    l1 = l1
    l2 = l2
    r1 = r1
    r2 = r2
    NoPassword = NoPassword
    Domain <- MCDomain
    Tenants <- MCTenants
    Msts <- MCOneMst
    Passwords <- MCPasswords
    Links <- MCTwoLinks
    Requests <- MCRequests
INVARIANT
    DecisionsInv
    LinksAreSingleUse
PROPERTY
    LockedOut
CHECK_DEADLOCK FALSE
