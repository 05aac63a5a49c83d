SPECIFICATION Spec
CONSTANTS
    None = None
    Requests = {"r1", "r2"}
    Subjects = {"alice", "bob"}
    Bodies <- MCAllBodies
PROPERTIES
    DisplayNeverFails
CHECK_DEADLOCK FALSE
