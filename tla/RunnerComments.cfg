CONSTANTS
    Tasks <- MCTasks
    Workers = {w1, w2}
    Flows = {f1, f2}
    NoWorker = NoWorker
    NoTask = NoTask
    MaxAttempts = 2
    Versions <- Captured
    PlainComments = FALSE
    Faults = {"error", "vanished", "deadline"}
    PRFaults = TRUE
    TornCrashes = FALSE
    QuietFailures = TRUE
    MaxComments = 3
    MaxCrashes = 0
    MaxCancels = 1
    MaxReplays = 0
SPECIFICATION Spec
SYMMETRY WorkerSymmetry
CHECK_DEADLOCK FALSE
INVARIANT OneActiveTask
INVARIANT StatusFollowsTask
INVARIANT AskAddressedOnce
INVARIANT OneFlow
INVARIANT ShippedIsReviewed
INVARIANT NeverStranded
PROPERTY LineageKept
PROPERTY CutoffHolds
PROPERTY ClosedStaysClosed
