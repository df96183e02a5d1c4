\* Lines around a length of 2, two connections, two starts; the socket path
\* changed twice, the parent directory replaced once.
CONSTANTS
    Lines <- MCLines
    MaxLength = 2
    MaxConnections = 2
    Inodes = {1, 2}
    MaxReplaced = 2
    OutsideDirs = {"state"}
    WorkspaceDirs = {"inside"}
    MaxMoves = 1
    MaxRuns = 2
SPECIFICATION Spec
CHECK_DEADLOCK FALSE
INVARIANTS
    OnlyOwnersLinesTakeEffect
    StopCleansSocket
    AnchoredWhereValidated
PROPERTIES
    ShutdownEnds
    QueueMoves
