SPECIFICATION Spec
CONSTANTS
    u1 = u1
    u2 = u2
    clean = clean
    breach = breach
    w1 = w1
    w2 = w2
    Units = {u1, u2}
    Plans = {{u1, u2}}
    Traces = {clean, breach}
    NoTrace = NoTrace
    Uncollectable = {}
    Unstorable = {}
    Breaches = {breach}
    Posted = Posted
    Kinds = {"suite"}
    Workers = {w1, w2}
    Env = {"rerun"}
    MaxAttempts = 2
    MaxRefusals = 0
    MaxCrashes = 0
INVARIANT NoPendingInCompleted
CHECK_DEADLOCK FALSE
