\* A request whose purpose is not valid.
CONSTANTS
    r1 = r1  r2 = r2
    c0 = c0  c1 = c1  c2 = c2
    NoBody = NoBody  NoCapture = NoCapture  NoId = NoId
    Bodies <- MCBodies
    Payload <- MCPayload
    InitialContent = c0
    Ids <- MCOne
    Kind <- MCWrite
    ValidPurpose <- MCNone
    Configs <- MCDefaultOnly
    EditContents = {}
    PersistResults = {"ok"}
    AuditResults = {"ok"}
    Outages = {}
SPECIFICATION Spec
INVARIANT InvalidIsNotExecuted
