\* Argo CD has deployed from the ApplicationSet when the tenant is deleted.
SPECIFICATION ArgoSpec
CONSTANTS
    None = None
    NoSpec = NoSpec
    NoCredentials = NoCredentials
    Registry <- MCRegistry
    Tenants <- OneTenant
    Specs <- JustBare
    Contents <- OneContent
    MaxEdits = 2
    MaxDrift = 0
    MaxFaults = 0
    MaxCrashes = 0
    MaxTotal = 2
PROPERTIES
    PrunedBeforeTornDown
CHECK_DEADLOCK FALSE
