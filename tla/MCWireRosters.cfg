SPECIFICATION SpecWire
CONSTANTS
    Conns <- ThreeConns
    Infos <- MCInfos
    Users <- OneUser
    Username <- MCUsername
    NoName = NoName
    NameLen <- MCNameLen
    MaxPresenceId = 3
    Absent = Absent
    QueueCapacity = 1
    RetryAttempts = 2
    MaxRequests = 2
    Workload = {"login", "set", "list"}
    LateRegistration = FALSE
    ReplyBeforePushes = TRUE
CHECK_DEADLOCK FALSE
INVARIANTS
    RegistryMirrorsSessions
    
