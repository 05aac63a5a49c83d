SPECIFICATION Spec
CONSTANTS
    None = None
    Roles = {"operator", "viewer"}
    Stacks <- MCStacks
    Issued <- MCIssued
    Sent <- MCSent
INVARIANTS
    RealmAccessArrives
CHECK_DEADLOCK FALSE
