SPECIFICATION FairSpecLegacy
CONSTANTS
    Conns <- TwoConns
    Infos <- MCInfos
    Users <- OneUser
    Username <- MCUsername
    NoName = NoName
    MaxPresenceId = 1
    Absent = Absent
    MaxRequests = 3
CHECK_DEADLOCK FALSE
INVARIANTS
    ServedSessionsArePublished
PROPERTIES
    ShutdownCompletes
