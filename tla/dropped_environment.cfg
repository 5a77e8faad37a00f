\* An environment is dropped from the spec, then the tenant is deleted.
SPECIFICATION Spec
CONSTANTS
    None = None
    NoSpec = NoSpec
    NoCredentials = NoCredentials
    Registry <- MCRegistry
    Tenants <- OneTenant
    Specs <- Shrinking
    Contents <- OneContent
    MaxEdits = 3
    MaxDrift = 0
    MaxFaults = 0
    MaxCrashes = 0
    MaxTotal = 3
PROPERTIES
    CleanupIsComplete
CHECK_DEADLOCK FALSE
