SPECIFICATION Spec
CONSTANTS
    a1 = a1
    a2 = a2
    alice = alice
    bob = bob
    Blank = Blank
    Requests = {a1, a2}
    Subjects = {alice, bob}
    SubjectOf <- MCSubjectOf
    TTL = 3
    Timeout = 2
    MaxVersion = 2
    AgeCap = 5
INVARIANTS
    TypeOK
    OwnProfile
PROPERTIES
    DisplayIsRecent
    FillReturns
