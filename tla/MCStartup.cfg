SPECIFICATION FairSpec
CONSTANTS
    d1 = d1
    c1 = c1
    w1 = w1
    alice = alice
    typed = typed
    stored = stored
    Procs = {d1, c1, w1}
    Kind <- MCKind
    Migrations = 2
    Usernames = {alice}
    Passwords = {typed, stored}
    Arguments <- MCArguments
    Databases <- MCDatabases
    NoProc = NoProc
    None = None
    MaxFaults = 1
    MaxStarts <- MCMaxStarts
INVARIANTS
    StartedOnFullSchema
    OneMigrationAfterCancel
    CreatedUsersCanLogIn
PROPERTIES
    MigrationCallsReturn
CHECK_DEADLOCK FALSE
