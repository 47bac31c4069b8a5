SPECIFICATION Spec
CONSTANTS
    p1 = p1
    i1 = i1
    i2 = i2
    c1 = c1
    c2 = c2
    w1 = w1
    w2 = w2
    NoFile = NoFile
    Packages <- MCOnePackage
    Invoices <- MCTwoInvoices
    PhamVi <- MCPhamVi
    KyHieu <- MCKyHieu
    NguoiBan <- MCNguoiBan
    Calls <- MCCalls
    Workers <- MCWorkers
    MaxRetries = 1
    MaxDownloads = 1
    MaxFaults = 2
INVARIANT
    FilesInv
    PackedOnce
    NothingSilentlyMissing
    RevokedPublishedIsDead
    WaitingIsServed
PROPERTY
    PackagesFinish
CHECK_DEADLOCK FALSE
