SPECIFICATION Spec
CONSTANTS
    None = None
    Absent = Absent
    Idle = Idle
    Registry <- MCRegistry
    RealKernels = {"core"}
    DefaultKernel = "core"
    InconclusiveMinN = 1
    MinEffectiveN = 1
    Significant <- MCSignificant
    Separated <- MCSeparated
    Manifest <- MCManifest
    Packages <- MCPackages
    Requests <- MCRequests
    Studies <- MCStudies
    Changes <- MCChanges
    PubKey = "key"
    MaxStarts = 2
INVARIANTS
    ExportIsWhole
    ExportSurvives
    AcceptedIsExported
    BenignEarnsNothing
    NoCompositionContrast
CHECK_DEADLOCK FALSE
