SPECIFICATION Spec
CONSTANTS
    None = None
    Roles = {"operator", "viewer"}
    Stacks <- MCTsStacks
    Issued <- MCIssued
    Sent <- MCSent
INVARIANTS
    HoldsOneOfTheRoles
CHECK_DEADLOCK FALSE
