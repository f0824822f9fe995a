CONSTANTS
    c1 = c1  c2 = c2  k1 = k1  k2 = k2  t1 = t1  t2 = t2  None = None
    Conversations = {c1, c2}
    Chats = {k1}
    ChatOf <- OneChat
    Tasks = {}
    TaskConv <- NoTask
    Bypass = {}
    MaxBatches = 2
    WindowOpen = TRUE
    TurnsPerInjection = 2
    IdleGrace = TRUE
    SendBarrier = TRUE
    MaxConcurrency = 2
    Disturbances = {"pause", "cancel", "crash"}
    Removable = {c1}
SPECIFICATION Spec
INVARIANTS TypeOK OneRunPerChat BatchesOwned CompletedWasInjected RunsMatchRows PausedIsQuiet ShownOnce
PROPERTY DeliverySpec
