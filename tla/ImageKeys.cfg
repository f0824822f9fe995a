SPECIFICATION SettingsSpec
CONSTANTS
    Credentials = {"router"}
    ProviderKeys <- MCProviderKeys
    Secrets = {"x", "y"}
    Endpoints <- MCEndpoints
    Off = Off
    SaveBound = 2
    HandBound = 1
    CrashBound = 1
INVARIANT PruningKeepsReferences
CHECK_DEADLOCK FALSE
