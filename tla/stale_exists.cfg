\* The tenant is created and deleted twice; exists reads the namespace from the cache.
SPECIFICATION Spec
CONSTANTS
    None = None
    NoSpec = NoSpec
    NoCredentials = NoCredentials
    Registry <- MCRegistry
    Tenants <- OneTenant
    Specs <- JustBare
    Contents <- OneContent
    MaxEdits = 4
    MaxDrift = 0
    MaxFaults = 0
    MaxCrashes = 0
    MaxTotal = 4
PROPERTIES
    DoneMeansGone
CHECK_DEADLOCK FALSE
