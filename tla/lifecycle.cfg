\* A tenant with repository credentials is created, edited, preserved and deleted; a call fails.
SPECIFICATION Spec
CONSTANTS
    None = None
    NoSpec = NoSpec
    NoCredentials = NoCredentials
    Registry <- MCRegistry
    Tenants <- OneTenant
    Specs <- Togglable
    Contents <- OneContent
    MaxEdits = 3
    MaxDrift = 0
    MaxFaults = 1
    MaxCrashes = 0
    MaxTotal = 4
INVARIANTS
    TypeOK
    FinalizerGuardsApply
    ReadyMeansArgoInSync
PROPERTIES
    ReleaseIsClean
    NamespacesGoLast
    PreserveHonoured
    ImplementsLifecycle
CHECK_DEADLOCK FALSE
