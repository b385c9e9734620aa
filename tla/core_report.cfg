SPECIFICATION Spec
CONSTANTS
    u1 = u1
    u2 = u2
    u3 = u3
    clean = clean
    breach = breach
    nul = nul
    w1 = w1
    w2 = w2
    Units = {u1, u2, u3}
    Plans = {{u1, u2}, {u1, u2, u3}}
    Traces = {clean, breach, nul}
    NoTrace = NoTrace
    Uncollectable = {}
    Unstorable = {nul}
    Breaches = {breach}
    Posted = Posted
    Kinds = {"suite", "raw"}
    Workers = {w1, w2}
    Env = {}
    MaxAttempts = 1
    MaxRefusals = 2
    MaxCrashes = 1
SYMMETRY ThreadSymmetry
INVARIANT ReportStands
CHECK_DEADLOCK FALSE
