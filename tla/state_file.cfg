\* Two reviews of three kinds; every call of save may fail and the process may
\* be killed before each.
CONSTANTS
    r1 = r1  r2 = r2  c1 = c1
    None = None  NoReview = NoReview  Missing = Missing  Torn = Torn
    Ids <- MCIds
    Reviews <- MCReviews
SPECIFICATION Spec
SYMMETRY MCSymmetry
INVARIANTS
    FileIsOldOrNew
    TemporaryFilesAreRemoved
PROPERTY
    ImplementsStore
