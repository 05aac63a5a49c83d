SPECIFICATION Spec
CONSTANTS
    None = None
    Requests = {"r1", "r2"}
    Subjects = {"alice", "bob"}
    Bodies <- MCBodies
INVARIANTS
    TypeOK
    OwnProfile
PROPERTIES
    DisplayNeverFails
CHECK_DEADLOCK FALSE
