SPECIFICATION Spec
CONSTANTS
    t1 = t1
    t2 = t2
    s1 = s1
    s2 = s2
    s3 = s3
    builtin = builtin
    None = None
    Artifacts = {"a1", "a2", "a3"}
    Suites = {s1, s2, s3, builtin}
    BuiltIn = {builtin}
    Threads = {t1, t2}
    Keep = 1
    MaxSuites = 1
    LastSecond = 2
    MaxStores = 3
    MaxFaults = 2
SYMMETRY ShelfSymmetry
INVARIANTS
    RetentionHolds
    DiskFollows
    SuitesBounded
CHECK_DEADLOCK FALSE
