SPECIFICATION Spec
CONSTANTS
    p1 = p1
    i1 = i1
    i2 = i2
    c1 = c1
    c2 = c2
    w1 = w1
    w2 = w2
    NoFile = NoFile
    Packages <- MCOnePackage
    Invoices <- MCOneInvoice
    PhamVi <- MCPhamViOne
    KyHieu <- MCKyHieu
    NguoiBan <- MCNguoiBan
    Calls <- MCCalls
    Workers <- MCOneWorker
    MaxRetries = 0
    MaxDownloads = 0
    MaxFaults = 0
INVARIANT
    RevokedIsDead
CHECK_DEADLOCK FALSE
