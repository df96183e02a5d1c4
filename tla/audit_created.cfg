CONSTANTS
    w1 = w1  w2 = w2  w3 = w3
    NoWriter = NoWriter
    Writers <- MCTwo
    FileExists = FALSE
    WriteFaults = {"syncNew"}
    Outages = {"power"}
SPECIFICATION Spec
CHECK_DEADLOCK FALSE
INVARIANT ReportedIsDurable
