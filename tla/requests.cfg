SPECIFICATION Spec
CONSTANTS
    w = w
    k1 = k1
    k2 = k2
    b1 = b1
    b2 = b2
    c1 = c1
    c2 = c2
    None = None
    Workspace = {w}
    Key = {k1}
    Body = {b1, b2}
    Topic <- Topics
    Request <- Requests
    Conn = {c1, c2}
    Existing <- NoneOrOne
    Lifetime = 1
    MaxTime = 1
    MaxGeneration = 1
    MaxJobs = 2
SYMMETRY ConnSymmetry
INVARIANTS
    AnswersBacked
    ReplaysAgree
    RepeatsOnlyAfterExpiry
CHECK_DEADLOCK FALSE
