CONSTANTS
    MaxTask = 1
    Tasks <- MCTasks
    Workers = {w1, w2}
    NoWorker = NoWorker
    NoTask = NoTask
    MaxAttempts = 2
    Stalls = FALSE
SPECIFICATION FairSpec
PROPERTY StopEnds
