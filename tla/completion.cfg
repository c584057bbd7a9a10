SPECIFICATION Spec
CONSTANTS
    a = a
    b = b
    p = p
    q = q
    d1 = d1
    d2 = d2
    c1 = c1
    c2 = c2
    None = None
    Tenant = {a}
    Principal = {p}
    JobId = {1}
    Digest = {d1, d2}
    Size <- Sizes
    Registration <- OneRunner
    Task <- OneTask
    InitialStore <- MaterialStored
    ReceiptBody <- ArtifactBodies
    Conn = {c1}
    MaxArtifacts = 2
    MaxAttempts = 2
    MaxBody = 2
    MaxHeartbeats = 0
    MaxTime = 1
    MaxKeys = 4
INVARIANTS
    CompletionDurable
CHECK_DEADLOCK FALSE
