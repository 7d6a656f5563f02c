CONSTANTS
    AutoMerges = {TRUE, FALSE}
    MaxPreviews = 3
    MaxFailures = 3
    MaxCrashes = 3
SPECIFICATION Spec
CHECK_DEADLOCK FALSE
INVARIANT OnePR
INVARIANT MergedWasApproved
INVARIANT MergedIsNewest
PROPERTY StatusTrailsMerge
