SPECIFICATION Spec
CONSTANTS
    v1 = v1
    v2 = v2
    v3 = v3
    v4 = v4
    Values <- MCValues
    GivenExternalIds <- MCGivenExternalIds
    Requests = {r1}
    TAXONOMY_MAX_DEPTH = 2
    MaxTags = 3
    Levels = 19
    Interleaved = FALSE
    MovesBelowSelf = FALSE
    NoInstance = NoInstance
    NoExternalId = NoExternalId
    NotCached = NotCached
SYMMETRY MCSymmetry
INVARIANTS QueriesSeeTheTree PopulateRestoresTheCopies BackfilledIdsAreUnique
PROPERTY ImplementsForest
