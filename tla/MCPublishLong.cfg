SPECIFICATION Spec
CONSTANTS
    c1 = c1
    c2 = c2
    u1 = u1
    s1 = s1
    lp1 = lp1
    lp2 = lp2
    NoRow = NoRow
    Entities = {c1, u1, s1}
    Packages = {lp1}
    PackageOf <- OnePackage
    Level <- ThreeLevels
    DependencySets <- Hierarchies
    MaxVersion <- ManyVersions
    MaxSerial = 6
    MaxPublishes = 3
    MaxSelected = 1
    MaxNesting = 0
    Reentrant = FALSE
    QuerysetKinds = {"fixed"}
INVARIANTS
    DigestsFresh
    UnpublishedChangesDetected
PROPERTIES
    PublishIncludesDependencies
    ResetLeavesNothingUnpublished
CHECK_DEADLOCK FALSE
ACTION_CONSTRAINT BuiltBottomUp
