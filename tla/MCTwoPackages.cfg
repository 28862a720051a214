SPECIFICATION Spec
CONSTANTS
    c1 = c1
    c2 = c2
    u1 = u1
    s1 = s1
    lp1 = lp1
    lp2 = lp2
    NoRow = NoRow
    Entities = {c1, c2}
    Packages = {lp1, lp2}
    PackageOf <- TwoPackages
    Level <- ThreeLevels
    DependencySets <- Hierarchies
    MaxVersion <- FewVersions
    MaxSerial = 5
    MaxPublishes = 1
    MaxSelected = 1
    MaxNesting = 2
    Reentrant = FALSE
    QuerysetKinds = {"fixed"}
INVARIANTS
    RecordsInOwnPackage
    EventsReplay
CHECK_DEADLOCK FALSE
