\* A reviewed and an allowed request, every failure of both files.
CONSTANTS
    r1 = r1  r2 = r2
    c0 = c0  c1 = c1  c2 = c2
    NoBody = NoBody  NoCapture = NoCapture  NoId = NoId
    Bodies <- MCBodies
    Payload <- MCPayload
    InitialContent = c0
    Ids <- MCTwo
    Kind <- MCWriteRead
    ValidPurpose <- MCTwo
    Configs <- MCDefaultOnly
    EditContents = {}
    PersistResults = {"ok", "beforeCommit", "afterCommit"}
    AuditResults = {"ok", "lost", "unsynced"}
    Outages = {"crash", "power"}
SPECIFICATION FairSpec
INVARIANTS
    GatewayTypeOK
    AuditedBeforeEffect
PROPERTIES
    CommandIsAnswered
    CallIsAnswered
    StoreSpec
