SPECIFICATION Spec

CONSTANTS
    MaxGenerations = 2
    OutputCount = 1
    Concurrency = 1
    Invocations = {v1}
    MaxPerInvocation = 1
    Keys = {k1, k2}
    MaxRound = 1
    MaxRestarts = 0
    MaxPublishes = 0

INVARIANT SubmissionsWithinQuota
CHECK_DEADLOCK FALSE
