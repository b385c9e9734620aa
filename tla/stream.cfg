SPECIFICATION FairSpec
CONSTANTS
    u1 = u1
    u2 = u2
    s1 = s1
    Units = {u1, u2}
    Plans = {{u1, u2}}
    Screens = {s1}
    Reopens = FALSE
    MaxQueue = 6
    MaxDrops = 2
INVARIANT NoLostUpdate
INVARIANT DoneShowsRun
PROPERTY ScreenLearnsEnd
PROPERTY HandlerFreed
CHECK_DEADLOCK FALSE
