SPECIFICATION MCSpec
CONSTANTS
    found = found
    left = left
    right = right
    twin = twin
    o1 = o1
    o2 = o2
    o3 = o3
    Process = {p1, p2}
    Change = {found, left, twin, right}
    Founding = found
    Object = {o1, o2, o3}
    Objects <- MCObjects
    Sources <- MCSources
    MaxGenerationDepth = 2
    Depth = 3
    None = None
    CaptureLimit <- MCCaptureLimit
    BlockSize = 2
    PipeSize = 2
    MaxDescendants = 1
    MaxOutput <- MCMaxOutput
INVARIANTS
    CurrentLoads
    CaptureExact
PROPERTIES
    ImplementsGenerationLog
    LocalEnds
CHECK_DEADLOCK FALSE
