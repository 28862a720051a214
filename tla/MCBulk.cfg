SPECIFICATION CSpec
CONSTANTS
    c1 = c1
    c2 = c2
    u1 = u1
    s1 = s1
    lp1 = lp1
    NoRow = NoRow
    Entities = {c1, u1}
    Packages = {lp1}
    PackageOf <- OnePackage
    Level <- ThreeLevels
    DependencySets <- LowerEntities
    ListInputs <- UnitsOfTwo
    ListActions = {"replace"}
    MaxVersion <- TwoVersions
    MaxSerial = 4
    MaxPublishes = 1
    MaxSelected = 1
    MaxNesting = 1
    Reentrant = FALSE
    QuerysetKinds = {"fixed"}
INVARIANTS
    TypeOK
    HistoryReplays
    NoEmptyDraftLog
    ListsMatchVersions
PROPERTIES
    LogsCaptureAfterState
    CommittedHistoryImmutable
CHECK_DEADLOCK FALSE
