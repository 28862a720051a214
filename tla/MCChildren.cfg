SPECIFICATION CSpec
CONSTANTS
    c1 = c1
    c2 = c2
    u1 = u1
    s1 = s1
    lp1 = lp1
    NoRow = NoRow
    Entities = {c1, u1}
    Packages = {lp1}
    PackageOf <- OnePackage
    Level <- ThreeLevels
    DependencySets <- LowerEntities
    ListInputs <- UnitsOfOne
    ListActions = {"append", "remove", "replace"}
    MaxVersion <- FewVersions
    MaxSerial = 4
    MaxPublishes = 2
    MaxSelected = 1
    MaxNesting = 0
    Reentrant = FALSE
    QuerysetKinds = {"fixed"}
INVARIANTS
    UnchangedContainersReadAlike
    HistoryLeadsToDraft
    PublishEntriesExplainThePublish
    QueriesAgree
    BackfillRestoresDigests
    BootstrapExplainsDrafts
PROPERTIES
    SnapshotsStayTrue
    ImplementsPublishing
CHECK_DEADLOCK FALSE
