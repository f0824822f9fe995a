CONSTANTS
    c1 = c1  c2 = c2  k1 = k1  k2 = k2  t1 = t1  t2 = t2  None = None
    Conversations = {c1, c2}
    Chats = {k1, k2}
    ChatOf <- TwoChats
    Tasks = {t1}
    TaskConv <- TaskOfFirst
    Bypass = {t1}
    MaxBatches = 1
    WindowOpen = TRUE
    TurnsPerInjection = 2
    IdleGrace = TRUE
    SendBarrier = TRUE
    MaxConcurrency = 1
    Disturbances = {"sleep", "pause", "cancel", "abort", "persist", "crash"}
    Removable = {k1}
SPECIFICATION Spec
INVARIANTS ClaimsSettle ExemptionOwnsRound
PROPERTIES ClosedIsFinal SleepGatesRuns
