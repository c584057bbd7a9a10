SPECIFICATION FairSpec
CONSTANTS
    a = a
    b = b
    p = p
    q = q
    d1 = d1
    d2 = d2
    c1 = c1
    c2 = c2
    None = None
    Tenant = {a}
    Principal = {p, q}
    JobId = {1, 2}
    Digest = {}
    Size <- Sizes
    Registration <- RunnersWithConflict
    Task <- TasksWithUnbuilt
    InitialStore <- NothingStored
    ReceiptBody <- NoBodies
    Conn = {}
    MaxArtifacts = 2
    MaxAttempts = 2
    MaxBody = 2
    MaxHeartbeats = 0
    MaxTime = 4
    MaxKeys = 4
PROPERTIES
    QueuedIsServed
CHECK_DEADLOCK FALSE
