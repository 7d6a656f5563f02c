CONSTANTS
    Tasks <- MCTasks
    Workers = {w1, w2}
    Flows = {f1, f2}
    NoWorker = NoWorker
    NoTask = NoTask
    MaxAttempts = 2
    Versions <- Uncaptured
    PlainComments = FALSE
    Faults = {}
    PRFaults = FALSE
    TornCrashes = FALSE
    QuietFailures = TRUE
    MaxComments = 2
    MaxCrashes = 0
    MaxCancels = 1
    MaxReplays = 0
SPECIFICATION Spec
SYMMETRY WorkerSymmetry
CHECK_DEADLOCK FALSE
INVARIANT NoStrandedAsk
