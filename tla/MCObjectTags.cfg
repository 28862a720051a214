SPECIFICATION ObjectTagsSpec
CONSTANTS
    v1 = v1
    v2 = v2
    Values <- MCValues
    GivenExternalIds = {NoExternalId}
    Requests = {}
    TAXONOMY_MAX_DEPTH = 1
    MaxTags = 2
    Interleaved = FALSE
    MovesBelowSelf = FALSE
    NoInstance = NoInstance
    NoExternalId = NoExternalId
    NotCached = NotCached
    Objects = {o1, o2}
    Users = {staff}
    Staff = {staff}
    MayTag = {staff}
    Settings <- MCSettings
    TagLists <- MCTagLists
    OBJECT_MAX_TAGS = 2
    MaxObjectTags = 2
    MaxTaxonomies = 2
    NoTaxonomy = NoTaxonomy
    NoCall = NoCall
    EmptyValue = EmptyValue
INVARIANTS CountsFollowTheTree
PROPERTIES TaggingAppliesExactly ReaddedTagsAreRelinked CopiesFollowTheSource
SYMMETRY MCSymmetry
