CONSTANTS
    Users = {"dana", "evan"}
    max_events = 2
    window_s = 1
    MaxTime = 2
    MaxCrashes = 1
    MaxThreads = 2
    MaxShas = 4
    MaxComments = 3
SPECIFICATION Spec
CHECK_DEADLOCK FALSE
INVARIANT WindowHolds
INVARIANT RefusalsAreEarned
INVARIANT ServesMigrated
INVARIANT OnlyCrashesRefuse
INVARIANT LineageIsWhole
INVARIANT OnlyCrashesOrphan
PROPERTY NobodyForgotten
