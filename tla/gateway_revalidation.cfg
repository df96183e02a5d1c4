\* A workspace that is edited and a configuration that changes at a restart.
CONSTANTS
    r1 = r1  r2 = r2
    c0 = c0  c1 = c1  c2 = c2
    NoBody = NoBody  NoCapture = NoCapture  NoId = NoId
    Bodies <- MCBodies
    Payload <- MCPayload
    InitialContent = c0
    Ids <- MCTwo
    Kind <- MCCargoPost
    ValidPurpose <- MCOne
    Configs <- MCAllConfigs
    EditContents = {c0, c1}
    PersistResults = {"ok", "afterCommit"}
    AuditResults = {"ok"}
    Outages = {"crash"}
SPECIFICATION Spec
INVARIANTS
    CargoRunsOnReviewedTree
    EffectLeavesATrace
PROPERTIES
    PostOnlyToAllowedHost
