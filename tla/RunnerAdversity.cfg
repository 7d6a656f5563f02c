CONSTANTS
    Tasks <- MCTasks
    Workers = {w1, w2}
    Flows = {f1, f2}
    NoWorker = NoWorker
    NoTask = NoTask
    MaxAttempts = 2
    Versions <- Uncaptured
    PlainComments = FALSE
    Faults = {"error", "vanished", "deadline"}
    PRFaults = TRUE
    TornCrashes = TRUE
    QuietFailures = TRUE
    MaxComments = 2
    MaxCrashes = 1
    MaxCancels = 1
    MaxReplays = 1
SPECIFICATION Spec
SYMMETRY WorkerSymmetry
CHECK_DEADLOCK FALSE
INVARIANT OneIterationPerKey
INVARIANT LastAskKept
INVARIANT NoPhantomRun
PROPERTY RenouncedStayRenounced
