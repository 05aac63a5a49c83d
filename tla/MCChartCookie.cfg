SPECIFICATION Spec
CONSTANTS
    None = None
    Settings <- MCCookieSettings
    MaxUpgrades = 2
PROPERTIES
    ComesUp
CHECK_DEADLOCK FALSE
