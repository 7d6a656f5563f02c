CONSTANTS
    Tasks <- MCTasks
    Workers = {w1, w2}
    Flows = {f1, f2}
    NoWorker = NoWorker
    NoTask = NoTask
    MaxAttempts = 2
    Versions <- Uncaptured
    PlainComments = FALSE
    Faults = {}
    PRFaults = TRUE
    TornCrashes = FALSE
    QuietFailures = TRUE
    MaxComments = 1
    MaxCrashes = 1
    MaxCancels = 0
    MaxReplays = 0
SPECIFICATION Spec
SYMMETRY WorkerSymmetry
CHECK_DEADLOCK FALSE
INVARIANT NeverStranded
