SPECIFICATION Spec
CONSTANTS
    u1 = u1
    u2 = u2
    breach = breach
    w1 = w1
    w2 = w2
    Units = {u1, u2}
    Plans = {{u1, u2}, {}}
    Traces = {breach}
    NoTrace = NoTrace
    Uncollectable = {}
    Unstorable = {}
    Breaches = {breach}
    Posted = Posted
    Kinds = {"suite", "raw"}
    Workers = {w1, w2}
    Env = {"rerun", "attach"}
    MaxAttempts = 2
    MaxRefusals = 1
    MaxCrashes = 1
SYMMETRY UnitSymmetry
INVARIANT RowIsCurrent
PROPERTY AttemptsSupersede
PROPERTY CancelKeepsTrials
PROPERTY ImplementsLifecycle
CHECK_DEADLOCK FALSE
