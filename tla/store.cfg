\* Two reviews with one of two bodies each, every result of persist.
CONSTANTS
    r1 = r1  r2 = r2
    b1 = b1  b2 = b2
    NoBody = NoBody
    Ids <- MCIds2
    Bodies <- MCBodies
    PersistResults <- Results
SPECIFICATION StoreSpec
SYMMETRY MCSymmetry2
INVARIANTS
    TypeOK
    MemoryMatchesDisk
    OwnStateLoads
    AcceptedIsNotLost
    ClaimIsDurable
