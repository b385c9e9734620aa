SPECIFICATION Spec
CONSTANTS
    None = None
    Registry <- MCRegistry
    RealKernels = {"core"}
    DefaultKernel = "core"
    InconclusiveMinN = 1
    Submissions <- MCSubmissions
    Behaviours <- MCBehaviours
    Measurements <- MCMeasurements
    Seeds <- MCSeeds
    Kernels = {"other"}
    MaxAttempts = 1
INVARIANTS
    RunIsThePlan
    UnevaluableNeverPasses
    HonestIsAccepted
    AcceptedFollowsEvidence
CHECK_DEADLOCK FALSE
