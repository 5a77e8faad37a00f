\* Every spec of up to six entries.
SPECIFICATION Spec
CONSTANTS
    NoCredentials = NoCredentials
    Registry <- MCRegistry
    MaxEntries = 6
INVARIANTS
    AllowlistExact
    TeardownCoversRender
    TeardownOnlyRendered
    NamespaceBeforeContent
    LastPullSecretWins
CHECK_DEADLOCK FALSE
