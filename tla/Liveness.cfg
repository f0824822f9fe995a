CONSTANTS
    c1 = c1  c2 = c2  k1 = k1  k2 = k2  t1 = t1  t2 = t2  None = None
    Conversations = {c1, c2}
    Chats = {k1}
    ChatOf <- OneChat
    Tasks = {t1}
    TaskConv <- TaskOfFirst
    Bypass = {}
    MaxBatches = 1
    WindowOpen = FALSE
    TurnsPerInjection = 2
    IdleGrace = FALSE
    SendBarrier = TRUE
    MaxConcurrency = 1
    Disturbances = {"abort", "pause"}
    Removable = {}
SPECIFICATION FairSpec
PROPERTIES BatchesClose ReceiptsSettle
