SPECIFICATION Spec
CONSTANTS
    None = None
    Registry <- MCRegistry
    RealKernels = {"core"}
    DefaultKernel = "core"
    InconclusiveMinN = 1
    Submissions <- Solo
    Behaviours <- MCBehaviours
    Measurements <- MCMeasurements
    Seeds = {}
    Kernels = {"other"}
    MaxAttempts = 2
INVARIANT CollectedVerifies
CHECK_DEADLOCK FALSE
