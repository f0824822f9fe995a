SPECIFICATION Spec

CONSTANTS
    MaxGenerations = 1
    OutputCount = 1
    Concurrency = 1
    Invocations = {v1}
    MaxPerInvocation = 1
    Keys = {k1}
    MaxRound = 1
    MaxRestarts = 1
    MaxPublishes = 0

INVARIANT ReceiptsReportOutcomes
CHECK_DEADLOCK FALSE
