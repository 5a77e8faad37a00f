\* A new process takes over; the old one's last request, made for another
\* content of the spec perhaps, may still arrive.
SPECIFICATION LateFairSpec
CONSTANTS
    None = None
    NoSpec = NoSpec
    NoCredentials = NoCredentials
    Registry <- MCRegistry
    Tenants <- OneTenant
    Specs <- Revised
    Contents <- OneContent
    MaxEdits = 3
    MaxDrift = 0
    MaxFaults = 0
    MaxCrashes = 1
    MaxTotal = 4
INVARIANTS
    FinalizerGuardsApply
PROPERTIES
    ConvergesToSpec
    DeletionCompletes
CHECK_DEADLOCK FALSE
