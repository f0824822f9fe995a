SPECIFICATION MCSpec

CONSTANTS
    MaxGenerations = 1
    OutputCount = 2
    Concurrency = 1
    Invocations = {v1}
    MaxPerInvocation = 1
    Keys = {k1, k2}
    MaxRound = 2
    MaxRestarts = 2
    MaxPublishes = 1

    Prompts = {"p"}
    Bodies <- MCBodies
    Media = {"photo"}
    Uploads <- MCUploads
    Authored <- MCAuthored
    Forms <- MCForms
    Offers <- MCOffers
    Conversations = {"c1"}
    PanelKeys = {"k"}
    PictureBound = 2
    GenerationBound = 2
    EventBound = 1

    Credentials = {"router"}
    ProviderKeys <- MCProviderKeys
    Secrets = {"x", "y"}
    Endpoints <- MCEndpoints
    Off = Off
    SaveBound = 2
    HandBound = 1
    CrashBound = 1

    Senders = {"u1", "u2"}
    Nobody = Nobody
    Contents <- MCContents
    HistoryMessages = 2
    Window = 8
    MinimumLines = 4
    Catalogs = {"", "a", "b"}
    MessageBound = 3
    TextBound = 3

    Urls = {"u", "w", "s"}
    KindOf <- MCKindOf
    MaxRedirects = 1
    Texts <- MCTexts
    Budgets = {0, 3}
    HtmlBudget = 4
INVARIANTS GenerationsKeepFaith AssetsHold SettingsHold InjectionsAreFaithful FetchIsFaithful
PROPERTY RoundsAreFinal
CHECK_DEADLOCK FALSE
