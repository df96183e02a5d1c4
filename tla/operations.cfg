\* Two addresses of each family; bodies and outputs around a limit of 2 in reads
\* of 2, one body without an end; three Cargo inputs with two edits; a file around a limit
\* of 2 with two edits; up to three status entries against a maximum of 2;
\* configuration files and requests around a maximum of 2 for limits and messages.
CONSTANTS
    ConfigFiles <- MCConfigFiles
    Requests <- MCRequests
    Maximum <- MCMaximum
    MaxMessage = 2
    FuelNeeded = 2
    FuelLimits = {1, 2}
    Addresses <- MCAddresses
    RequestLengths = {0, 2, 3}
    ResponseBodies <- MCResponseBodies
    MaxRequest = 2
    MaxResponse = 2
    BufferSize = 2
    Statuses = {200, 302}
    manifest = manifest  lib = lib  test = test  c1 = c1  c2 = c2
    RootFiles <- MCRootFiles
    Manifest = manifest
    SrcFiles <- MCSrcFiles
    TestFiles <- MCTestFiles
    Contents <- MCContents
    Absent = Absent  Link = Link  Outside = Outside
    Trees <- MCTrees
    MaxEdits = 2
    Outputs <- MCOutputs
    MaxOutput = 2
    Texts <- MCTexts
    OutsideText <- MCOutsideText
    PayloadSizes = {2, 3}
    MaxRead = 2
    MaxWrite = 2
    MaxFileEdits = 2
    MaxEntries = 2
    MaxListed = 3
    EntryFlags <- MCEntryFlags
SPECIFICATION Spec
CHECK_DEADLOCK FALSE
INVARIANTS
    DecisionIsBacked
    ContactsVettedAddress
    OutputIsBounded
    TestRunsOnApprovedTree
    VerdictIsTheTests
    StaysInsideWorkspace
    TargetIsWhole
    NothingLeftBehind
PROPERTY
    OperationEnds
