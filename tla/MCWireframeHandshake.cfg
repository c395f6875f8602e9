SPECIFICATION Spec
CONSTANTS
    Conns <- MCConns
    TaskIds <- MCTaskIds
    SubVersions <- MCSubVersions
    None = None
CHECK_DEADLOCK FALSE
INVARIANTS
    BuiltFromOwnHandshake
    ContextsHaveOwners
    RepliesMatchLegacy
