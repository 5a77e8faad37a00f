\* The page of a tenant is put together while the tenant is deleted and created anew.
SPECIFICATION ViewSpec
CONSTANTS
    None = None
    NoSpec = NoSpec
    NoCredentials = NoCredentials
    Registry <- MCRegistry
    Tenants <- OneTenant
    Specs <- JustBare
    Contents <- OneContent
    MaxEdits = 3
    MaxDrift = 0
    MaxFaults = 0
    MaxCrashes = 0
    MaxTotal = 3
INVARIANTS
    PageIsWhole
CHECK_DEADLOCK FALSE
