\* Two tenants whose environments give the same name.
SPECIFICATION Spec
CONSTANTS
    None = None
    NoSpec = NoSpec
    NoCredentials = NoCredentials
    Registry <- MCRegistry
    Tenants <- Namesakes
    Specs <- Ambiguous
    Contents <- OneContent
    MaxEdits = 2
    MaxDrift = 0
    MaxFaults = 0
    MaxCrashes = 0
    MaxTotal = 2
INVARIANTS
    ReadyMeansOwnNamespaces
CHECK_DEADLOCK FALSE
