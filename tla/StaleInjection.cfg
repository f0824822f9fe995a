CONSTANTS
    c1 = c1  c2 = c2  k1 = k1  k2 = k2  t1 = t1  t2 = t2  None = None
    Conversations = {c1, c2}
    Chats = {k1, k2}
    ChatOf <- TwoChats
    Tasks = {}
    TaskConv <- NoTask
    Bypass = {}
    MaxBatches = 3
    WindowOpen = TRUE
    TurnsPerInjection = 2
    IdleGrace = TRUE
    SendBarrier = TRUE
    MaxConcurrency = 2
    Disturbances = {}
    Removable = {}
SPECIFICATION Spec
INVARIANT ShownOnce
