CONSTANTS
    MaxTask = 2
    Tasks <- MCTasks
    Workers = {w1, w2}
    NoWorker = NoWorker
    NoTask = NoTask
    MaxAttempts = 2
    Stalls = FALSE
SPECIFICATION FairSpec
INVARIANT TypeOK
INVARIANT DeliveryCounts
INVARIANT RunsAreTracked
INVARIANT ExclusiveDelivery
INVARIANT OneRunPerTask
PROPERTY LifecycleSpec
PROPERTY EveryDeliverySettles
