SPECIFICATION Spec
CONSTANTS
    Fixtures = {f1, f2}
    Admins = {a1}
    Readers = {a1}
    Users = {1, 2}
    Alice = 1
    Names <- MCNames
    Groups = {g1}
    Everyone = g1
    Templates <- MCTemplates
    Paths <- MCPaths
    LegacyRows <- MCLegacyRows
    MaxWrites = 1
SYMMETRY MCSymmetry
INVARIANTS
    
    NodesAnswerToTheirPath
    AnswersNameTheirRows
    ListingsBracketed
    FixtureContract
CHECK_DEADLOCK FALSE
