SPECIFICATION Spec
CONSTANTS
    Users = {1, 2}
    Username <- MCUsername
    NoName = NoName
    Conns = {1, 2}
    Legacy = {1}
    Password <- MCPassword
    Requests <- MCRequests
    MaxRequests = 3
CHECK_DEADLOCK FALSE
INVARIANTS
    PrivilegedOnlyWhileLoggedIn
    RepliesTellSession
    PayloadsDecodeAsSent
PROPERTY
    GatesLikeSessionModel
