SPECIFICATION TagEventsSpec
CONSTANTS
    v1 = v1
    v2 = v2
    Values <- MCValues
    GivenExternalIds = {NoExternalId}
    Requests = {}
    TAXONOMY_MAX_DEPTH = 1
    MaxTags = 2
    Interleaved = FALSE
    MovesBelowSelf = FALSE
    NoInstance = NoInstance
    NoExternalId = NoExternalId
    NotCached = NotCached
    Objects = {o1}
    Users = {staff}
    Staff = {staff}
    MayTag = {staff}
    Settings <- MCSettings
    TagLists <- MCTagLists
    OBJECT_MAX_TAGS = 2
    MaxObjectTags = 2
    MaxTasks = 2
    MaxTaxonomies = 1
    NoTaxonomy = NoTaxonomy
    NoCall = NoCall
    EmptyValue = EmptyValue
PROPERTY OldValuesLeaveTheIndex
