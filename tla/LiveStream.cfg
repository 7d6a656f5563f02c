CONSTANTS
    own = own
    other = other
    Threads <- MCThreads
    RelevantFrom <- MCRelevantFrom
    History = 2
    Fetches = {f1}
    MaxChanges = 4
    MaxLosses = 2
    MaxRestarts = 1
SPECIFICATION FairSpec
PROPERTY NothingSkipped
PROPERTY EventuallyCurrent
