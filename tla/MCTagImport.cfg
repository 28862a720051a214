SPECIFICATION ImportSpec
CONSTANTS
    v1 = v1
    v2 = v2
    v3 = v3
    Values <- MCValues
    GivenExternalIds <- MCGivenExternalIds
    Requests = {r1}
    Workers = {w1}
    Files <- MCFiles
    StartTags <- MCStartTags
    MaxImports = 1
    EditsDuring = {"planned"}
    TAXONOMY_MAX_DEPTH = 1
    MaxTags = 3
    Interleaved = FALSE
    MovesBelowSelf = FALSE
    NoInstance = NoInstance
    NoExternalId = NoExternalId
    NotCached = NotCached
    NoParentId = NoParentId
    Absent = Absent
    Malformed = Malformed
CHECK_DEADLOCK FALSE
INVARIANTS ExportCanBeImported BlockedOnlyWhileImporting
PROPERTY ReplaceYieldsTheFile
