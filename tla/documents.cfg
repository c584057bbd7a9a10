SPECIFICATION MCSpec
CONSTANTS
    Never = 99
    NoDocument = NoDocument
    Offered <- MCOffered
    Successors <- MCSuccessors
    PinnedGenesis <- MCPinned
    Fingerprint6 = "root"
    FirstReceipt <- MCFirst
    Stored = {"out"}
    EventClock = {0, 1, 2}
    MaxCommits = 9
    SessionPlan <- MCSessionPlan
    SessionEvent <- MCSessionEvent
    EvaluatedAt = 3
    MaxEvents = 10
    Trial6 <- MCTrial6
    TrialDocument <- MCTrialDocument
    MaximumCoordinates = 4
    MaximumTransformations = 3
    MaximumEvents = 20
    MaximumFlux = 4
    Endless = 99
    MAX_ELIGIBLE = 3
    BEAM_WIDTH = 2
    OutputSchemas = {"out"}
INVARIANTS
    GrowthHolds
    MeasuredIsReal
    BeliefHolds
    WorkflowsDeliver
    StructureExact
    RobustnessEarned
    PlansHold
    AuthorityIsCurrent
    CompromisedNeverCounts
    PromotedByTwo
    HistoryFollowsClock
    SatisfiedKeptPromise
    CompatibleWasRegistered
CHECK_DEADLOCK FALSE
