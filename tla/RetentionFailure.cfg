SPECIFICATION RetentionSpec
CONSTANTS
    Talks = {1}
    OnlineDays = 1
    BackupCopies = 1
    RefDays = 1
    MessageBound = 1
    RunBound = 1
    LastDay = 2
INVARIANT PurgeSucceeds
CHECK_DEADLOCK FALSE
