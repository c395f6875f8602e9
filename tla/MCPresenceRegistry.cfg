SPECIFICATION SpecReuse
CONSTANTS
    Conns <- MCConns
    Infos <- MCInfos
    MaxPresenceId <- MCMaxPresenceId
    Absent = Absent
INVARIANTS
    UniquePresenceIds
PROPERTIES
    PresenceIdStable
    FullSweepBeforeReuse
    ImplementsDirectory
