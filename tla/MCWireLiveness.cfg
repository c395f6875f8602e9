SPECIFICATION FairSpecWire
CONSTANTS
    Conns <- TwoConns
    Infos <- LongInfos
    Users <- OneUser
    Username <- MCUsername
    NoName = NoName
    NameLen <- MCNameLen
    MaxPresenceId = 2
    Absent = Absent
    QueueCapacity = 1
    RetryAttempts = 2
    MaxRequests = 3
    Workload = {"login", "denied", "failing", "set", "list", "info"}
    LateRegistration = TRUE
    ReplyBeforePushes = FALSE
CHECK_DEADLOCK FALSE
PROPERTIES
    RequestsAnswered
    DeparturesAnnounced
