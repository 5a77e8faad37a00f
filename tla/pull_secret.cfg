\* One spec with repository credentials and a pull secret; a restart.
SPECIFICATION FairSpec
CONSTANTS
    None = None
    NoSpec = NoSpec
    NoCredentials = NoCredentials
    Registry <- MCRegistry
    Tenants <- OneTenant
    Specs <- Privately
    Contents <- OneContent
    MaxEdits = 2
    MaxDrift = 0
    MaxFaults = 0
    MaxCrashes = 1
    MaxTotal = 3
INVARIANTS
    NothingLeftBehind
PROPERTIES
    ConvergesToSpec
CHECK_DEADLOCK FALSE
