SPECIFICATION Spec
CONSTANTS
    Refresh = 5
    Timeout = 2
    MaxVersion = 3
    AgeCap = 10
INVARIANTS
    TypeOK
    KeysUsable
    BoundedStaleness
PROPERTIES
    FeedSpec
    CatchesUp
    StopsOnCancel
