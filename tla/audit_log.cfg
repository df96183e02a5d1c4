CONSTANTS
    w1 = w1  w2 = w2  w3 = w3
    NoWriter = NoWriter
    Writers <- MCThree
    FileExists = FALSE
    WriteFaults <- Calls
    Outages = {"crash", "power"}
SPECIFICATION FairSpec

CHECK_DEADLOCK FALSE
INVARIANTS
    TypeOK
    LinesDoNotInterleave
    ReportedIsSynced
PROPERTIES
    CallReturns
    ImplementsTrail
