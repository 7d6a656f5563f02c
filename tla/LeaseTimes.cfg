CONSTANTS
    Tasks = {1}
    Workers = {w1, w2}
    NoWorker = NoWorker
    NoTask = NoTask
    MaxAttempts = 2
    Stalls = TRUE
    lease = 4
    half_second = 1
    poll = 2
    reaper_interval = 3
    task_timeout = 5
    Delay = 3
SPECIFICATION TimedSpec
INVARIANT NobodySleepsOnWork
INVARIANT OrphansReclaimed
PROPERTY KeptSpec
