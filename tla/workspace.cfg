SPECIFICATION MCSpec
CONSTANTS
    Policies <- MCPolicies
    Never = 9
    Raw = {"notes"}
    Attestation <- MCAttestation
    SignedObject <- MCSignedObject
    Genesis = {"p0", "q1"}
    Fingerprint = "root"
    Key = {"root", "author", "vendor", "checker"}
    Clock = {"clock", "clock2"}
    Time = {1, 2, 3}
    Serial = {0, 1}
    MaxGenerations = 16
    Contract <- MCContract
    IdOrder <- MCIdOrder
    FullLoad = 3
    MaxActions = 3
    MaxEligible = 2
    Process = {a, b}
    Output <- MCOutput
    Projected <- MCProjected
    Plan <- MCPlan
    Opening = {"x", "y"}
    Protocol <- MCProtocol
    Amendment <- MCAmendment
    Result <- MCResult
    Legacy = {"old"}
    Signers <- MCSigners
SYMMETRY Symmetry
INVARIANTS
    DoctorExplained
    PolicyChain
    RunsCountOnce
    RevealsAfterCommits
    CompatibleEarned
    PlanHolds
PROPERTIES
    LockOutIsFinal
CHECK_DEADLOCK FALSE
