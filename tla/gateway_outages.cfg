\* A write and a cargo test under every outage.
CONSTANTS
    r1 = r1  r2 = r2
    c0 = c0  c1 = c1  c2 = c2
    NoBody = NoBody  NoCapture = NoCapture  NoId = NoId
    Bodies <- MCBodies
    Payload <- MCPayload
    InitialContent = c0
    Ids <- MCTwo
    Kind <- MCWriteCargo
    ValidPurpose <- MCTwo
    Configs <- MCDefaultOnly
    EditContents = {}
    PersistResults = {"ok", "beforeCommit", "afterCommit"}
    AuditResults = {"ok", "lost"}
    Outages = {"crash", "power"}
SPECIFICATION Spec
INVARIANTS
    EffectAtMostOnce
    RejectedIsNotExecuted
    HeldIsAccountedFor
PROPERTIES
    AcknowledgedIsFinal
