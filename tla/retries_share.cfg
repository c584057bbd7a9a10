SPECIFICATION Spec
CONSTANTS
    w = w
    k1 = k1
    k2 = k2
    b1 = b1
    b2 = b2
    c1 = c1
    c2 = c2
    None = None
    Workspace = {w}
    Key = {k1}
    Body = {b1, b2}
    Topic <- Topics
    Request <- Subjects
    Conn = {c1, c2}
    Existing <- NoneOrOne
    Lifetime = 1
    MaxTime = 0
    MaxGeneration = 0
    MaxJobs = 2
INVARIANTS
    RetriesShareJob
CHECK_DEADLOCK FALSE
