\* The target of a write is edited while its approval is under way.
CONSTANTS
    r1 = r1  r2 = r2
    c0 = c0  c1 = c1  c2 = c2
    NoBody = NoBody  NoCapture = NoCapture  NoId = NoId
    Bodies <- MCBodies
    Payload <- MCPayload
    InitialContent = c0
    Ids <- MCOne
    Kind <- MCWrite
    ValidPurpose <- MCOne
    Configs <- MCDefaultOnly
    EditContents = {c2}
    PersistResults = {"ok"}
    AuditResults = {"ok"}
    Outages = {}
SPECIFICATION Spec
INVARIANT WriteReplacesReviewedState
