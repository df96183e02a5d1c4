\* A review outlives the policy it was made under.
CONSTANTS
    r1 = r1  r2 = r2
    c0 = c0  c1 = c1  c2 = c2
    NoBody = NoBody  NoCapture = NoCapture  NoId = NoId
    Bodies <- MCBodies
    Payload <- MCPayload
    InitialContent = c0
    Ids <- MCOne
    Kind <- MCWrite
    ValidPurpose <- MCOne
    Configs <- MCPolicyChange
    EditContents = {}
    PersistResults = {"ok"}
    AuditResults = {"ok"}
    Outages = {"crash"}
SPECIFICATION FairSpec
PROPERTY BlockedIsNotExecuted
