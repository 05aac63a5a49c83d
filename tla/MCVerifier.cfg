SPECIFICATION Spec
CONSTANTS
    None = None
    Tokens <- MCTokens
    Subjects = {"alice", "bob"}
    Issuer = "here"
    KeysIn <- MCKeysIn
    MaxVersion = 3
    Requests = {"r1"}
    Headers <- MCHeaders
INVARIANTS
    TypeOK
    ForwardsVerified
PROPERTIES
    AuthnSpec
CHECK_DEADLOCK FALSE
