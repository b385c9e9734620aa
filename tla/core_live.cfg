SPECIFICATION ServedSpec
CONSTANTS
    u1 = u1
    u2 = u2
    breach = breach
    w1 = w1
    w2 = w2
    Units = {u1, u2}
    Plans = {{u1}, {}}
    Traces = {breach}
    NoTrace = NoTrace
    Uncollectable = {}
    Unstorable = {}
    Breaches = {breach}
    Posted = Posted
    Kinds = {"suite", "refs", "raw"}
    Workers = {w1, w2}
    Env = {"rerun", "attach", "shelfFails"}
    MaxAttempts = 2
    MaxRefusals = 0
    MaxCrashes = 0
PROPERTY NotStranded
PROPERTY ClaimedRunEnds
CHECK_DEADLOCK FALSE
