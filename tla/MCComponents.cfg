SPECIFICATION Spec
CONSTANTS
    c1 = c1
    lp1 = lp1
    lp2 = lp2
    xml = xml
    png = png
    bad = bad
    d1 = d1
    ComponentIds = {c1}
    Packages = {lp1, lp2}
    PackageOf <- MCPackageOf
    Paths = {xml, png, bad}
    BadPaths = {bad}
    TypeOf <- MCTypeOf
    Contents = {d1}
    Callers = {k1}
    Deltas <- MCDeltas
    MediaPaths = {png}
    Numbers = {2}
    MaxVersion = 2
    GivenAsIds = TRUE
    Remove = Remove
    NoMedia = NoMedia
    NoCall = NoCall
INVARIANTS ComponentsTypeOK RedirectsFindTheFile
PROPERTIES NextVersionsBuildOnTheLast
CHECK_DEADLOCK FALSE
