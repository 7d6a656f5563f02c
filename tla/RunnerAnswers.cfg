CONSTANTS
    Tasks <- MCTasks
    Workers = {w1}
    Flows = {f1}
    NoWorker = NoWorker
    NoTask = NoTask
    MaxAttempts = 2
    Versions <- Uncaptured
    PlainComments = FALSE
    Faults = {"error", "vanished", "deadline"}
    PRFaults = FALSE
    TornCrashes = FALSE
    QuietFailures = TRUE
    MaxComments = 3
    MaxCrashes = 1
    MaxCancels = 0
    MaxReplays = 0
SPECIFICATION FairSpec
CHECK_DEADLOCK FALSE
INVARIANT NoStrandedAsk
PROPERTY EveryAskAnswered
PROPERTY NeverFrozen
