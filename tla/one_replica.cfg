\* One process, restarted, over a ConfigMap that is edited, also into one that does not load.
SPECIFICATION FairSpec
CONSTANTS
    r1 = r1
    NoOne = NoOne
    Replicas <- Single
    ConfigMaps <- AllContents
    Enabled <- WantsCerts
    FlagSets <- AllFlags
    MaxEdits = 2
    MaxStops = 2
INVARIANTS
    TypeOK
    WhitelistWasConfigured
PROPERTIES
    WhitelistNeverGoesBack
    RegistryInForce
CHECK_DEADLOCK FALSE
