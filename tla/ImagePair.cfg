SPECIFICATION FairSpec

CONSTANTS
    MaxGenerations = 2
    OutputCount = 1
    Concurrency = 1
    Invocations = {v1}
    MaxPerInvocation = 2
    Keys = {k1}
    MaxRound = 2
    MaxRestarts = 1
    MaxPublishes = 1

INVARIANT NoLostWakeup
PROPERTY GenerationsSettle
CHECK_DEADLOCK FALSE
