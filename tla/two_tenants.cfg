\* Two tenants, one with an unknown extension perhaps, share the worker; one of
\* them is deleted, or the operator restarts.
SPECIFICATION FairSpec
CONSTANTS
    None = None
    NoSpec = NoSpec
    NoCredentials = NoCredentials
    Registry <- MCRegistry
    Tenants <- TwoTenants
    Specs <- Mixed
    Contents <- OneContent
    MaxEdits = 3
    MaxDrift = 0
    MaxFaults = 0
    MaxCrashes = 1
    MaxTotal = 3
PROPERTIES
    StatusTellsTruth
    KeepsPromise
CHECK_DEADLOCK FALSE
