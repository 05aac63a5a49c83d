SPECIFICATION Spec
CONSTANTS
    None = None
    Requests = {"r1", "r2"}
    Settings <- MCLateRefresh
    DefaultExpire = 4
    Lifetime = 6
    Margin = 2
    MaxFlight = 2
    MaxIncidents = 2
PROPERTIES
    NeverStranded
