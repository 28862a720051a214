SPECIFICATION BackupSpec
CONSTANTS
    None = None
    p1 = p1
    p2 = p2
    Packages = {p1, p2}
    EntityRefs <- MCEntityRefs
    KindOf <- MCKindOf
    NameOf <- MCNameOf
    Contents <- MCContents
    Codes <- MCCodes
    Slug <- MCSlug
    OddTypes <- MCOddTypes

    EmptyText = ""
    MaxVersion = 2
    MaxEdits = 2
PROPERTIES RestoreMatchesSource RestoreInventsNothing
CHECK_DEADLOCK FALSE
SYMMETRY MCSymmetry
