SPECIFICATION MCSpec
CONSTANTS
    c1 = c1  c2 = c2
    Updates <- MCUpdates
    Conv <- MCConv
    Limit = 2
    HistoryMessages = 1
    MaxAge = 1
    MaxTime = 4

    Unset = Unset
    DayMinutes = 2
    Chats = {"g", "s"}
    Threads = {0, 1}
    Configured = {"g"}
    TopicsOf <- MCTopics
    Private = {}
    Windows <- MCWindows
    AttentionTicks = 2
    Keywords = {}
    RecentMessages = 1
    ProcessBots = TRUE
    Inputs <- MCInputs
    Targets <- MCTargets
    MaxUpdates = 3
    MaxMessageId = 3
    Instants = {12, 14, 15, 16}

    Users = {"u1", "u2"}
    NoUser = "nobody"
    Rooms = {"v1"}
    Runs = {"r1", "r2", "r3"}
    RoomOf <- MCRoomOf
    Quota = 1
    Horizon = 1
    PageLimit = 1
    TaskBound = 3
    LastInstant = 3

    Nobody = Nobody
    Agents = {"a1", "a2", "a3"}
    Exempt = {"a2"}
    Readers = {"r1", "r2", "r3"}
    Media = {"m1", "m2", "m3"}
    Indexed = {"m2", "m3"}
    ChatAt <- MCChatAt
    MediaOf <- MCMediaOf
    VisionLimit = 1
    MaxTokens = 1
    IndexImages = 1
    IndexTokens = 1
    DayHours = 3
    MinimumSleep = 2
    LastHour = 7
    ExemptBound = 1

    Sets = {"A", "B"}
    Stickers = {"x", "y"}
    MaxFailures = 1
    MaxStarts = 2

    SendRuns = {"s1", "s2"}
    NoSender = "none"
    TopicOf <- MCTopicOf
    ReceiptRuns = {"s2"}
    SendsPerWindow = 1
    SendWindow = 1
    WallClock = 2
    CallBound = 3
    LastTick = 4

    McpCalls = {"look", "act"}
    ReadOnly = {"look"}
    GenerationBound = 4
    CatalogueBound = 2
    LineBound = 2

    Talks = {1}
    OnlineDays = 1
    BackupCopies = 2
    RefDays = 1
    MessageBound = 2
    RunBound = 2
    LastDay = 3

    Processes = {"p1", "p2"}
    Nothing = Nothing
INVARIANTS ServeIsSingle ManagerLosesNothing SendsKeepFaith UpdatesReachOneBatch BatchesAreFaithful TasksEndOnce CallsAreAdmitted SearchIsApproved
PROPERTY RetentionKeepsFaith
CHECK_DEADLOCK FALSE
