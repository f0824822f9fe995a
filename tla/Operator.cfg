SPECIFICATION MCSpec
CONSTANTS
    b1 = b1  b2 = b2  p1 = p1  p2 = p2
    m1 = m1  m2 = m2  home = home  relay = relay
    Batches = {b1, b2}
    Completions = {b2}
    Prompts = {p1, p2}
    SendsTarget = 1
    SendsMax = 1
    TokenBudgets = {1, 3}
    MaxCalls = 1
    MaxSeq = 5
    None = None

    Models = {"m1", "m2"}
    NoModel = "inherit"
    ChatIds = {"c1", "c2"}
    HandEdits = {"agent", "chat", "models", "frozen", "image", "order", "member"}
    EditBound = 2
    OpBound = 3

    Requests = {"q1", "q2", "q3"}
    ClientOf <- MCClientOf
    Names = {"n1"}
    Secrets = {"w1", "w2"}
    Malformed = "malformed"
    MaxAttempts = 2
    Lockout = 2
    MaxTracked = 1
    MaxHashes = 2
    SessionTicks = 1
    TokenBound = 3
    TimeBound = 3

    Contexts = {1, 2, 3}
    MemoryIds = {1, 2, 3}
    MemoryRooms = {"v1", "v2"}
    MemoryPage = 1
    SweepBatch = 2
    Operators = {"o1", "o2"}
    Seeds = {"o1"}
    RecordBound = 3
    MomentBound = 2

    Discoveries = {"d1", "d2"}
    ModelNames = {m1, m2}
    NormalOf <- MCNormalOf
    Urls = {home, relay}
    PlanOf <- MCPlanOf
    Providers = 2
    HintOf <- MCHintOf
    Offers <- MCOffers
    Catalogues <- MCCatalogues
    Sizes = {2}
    Formats = {"gemini", "openai"}
    MaxPages = 2
    MaxModels = 2
    MaxBytes = 3
    MaxCandidates = 2
    CatalogueTicks = 1
    SecretBound = 3
    ClockBound = 2
    RevisionBound = 3

    Aliases = {"a1", "a2"}
    Endpoints = {"u1", "u2"}
    HeaderNames = {"h1"}
    Rooms = {"r1", "r2"}
    ModelEntries <- MCModelEntries
    FirstFiles <- MCFirstFiles
    FirstJar <- MCFirstJar
    VisionLimit = 2
    Asks = {"q1"}
    AskBound = 2
    HandBound = 1
    ReloadBound = 1
SYMMETRY MCSymmetry
INVARIANTS ModelsAreHonest HistoryAgrees Replayable RoundAuthority ConfigurationIsOne PanelIsGuarded RecordsAreFaithful ProvidersKeepFaith
PROPERTY HistoryOnlyShrinks
CHECK_DEADLOCK FALSE
