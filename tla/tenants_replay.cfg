SPECIFICATION Spec
CONSTANTS
    a = a
    b = b
    p = p
    q = q
    d1 = d1
    d2 = d2
    c1 = c1
    c2 = c2
    None = None
    Tenant = {a, b}
    Principal = {p, q}
    JobId = {1}
    Digest = {}
    Size <- Sizes
    Registration <- RunnerPerTenant
    Task <- TaskPerTenant
    InitialStore <- NothingStored
    ReceiptBody <- PlainBodies
    Conn = {}
    MaxArtifacts = 2
    MaxAttempts = 2
    MaxBody = 2
    MaxHeartbeats = 1
    MaxTime = 2
    MaxKeys = 2
INVARIANT NoSpuriousReplay
CHECK_DEADLOCK FALSE
