CONSTANTS
    Tasks <- MCTasks
    Workers = {w1, w2}
    Flows = {f1, f2}
    NoWorker = NoWorker
    NoTask = NoTask
    MaxAttempts = 2
    Versions <- Uncaptured
    PlainComments = FALSE
    Faults = {"error"}
    PRFaults = FALSE
    TornCrashes = FALSE
    QuietFailures = TRUE
    MaxComments = 2
    MaxCrashes = 0
    MaxCancels = 0
    MaxReplays = 1
SPECIFICATION Spec
SYMMETRY WorkerSymmetry
CHECK_DEADLOCK FALSE
INVARIANT OneActiveTask
