\* Children are deleted or overwritten, credentials rotated or removed.
SPECIFICATION FairSpec
CONSTANTS
    None = None
    NoSpec = NoSpec
    NoCredentials = NoCredentials
    Registry <- MCRegistry
    Tenants <- OneTenant
    Specs <- Credentials
    Contents <- TwoContents
    MaxEdits = 1
    MaxDrift = 1
    MaxFaults = 1
    MaxCrashes = 0
    MaxTotal = 3
PROPERTIES
    StatusTellsTruth
    ConvergesToSpec
CHECK_DEADLOCK FALSE
