SPECIFICATION Spec
CONSTANTS
    None = None
    Settings <- MCSettings
    MaxUpgrades = 2
INVARIANTS
    TypeOK
    ProtectedIsGuarded
    GroupsAreRequested
    RefreshHasToken
PROPERTIES
    ComesUp
CHECK_DEADLOCK FALSE
