SPECIFICATION Spec
CONSTANTS
    None = None
    Roles = {"operator", "viewer"}
    Stacks <- MCStacks
    Issued <- MCIssued
    Sent <- MCSent
INVARIANTS
    TypeOK
    HandlerSeesIdentity
    EveryRoleCheckHolds
    RolesArrive
    RefusedForAReason

    
CHECK_DEADLOCK FALSE
