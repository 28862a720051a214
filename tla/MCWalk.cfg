SPECIFICATION Spec
CONSTANTS
    C = C
    U = U
    SS = SS
    S = S
    Entities = {C, U, SS, S}
    Graphs <- NestingsAndCycles
INVARIANTS
    WalkReachesAncestors
PROPERTIES
    Termination
CHECK_DEADLOCK FALSE
