CONSTANTS
    fa = fa
    fb = fb
    fc = fc
    FileIds = {fa, fb}
    Root = Root
    None = None
    NoActor = NoActor
    Applier = Applier
    Readers = {r1}
    History <- HistTrashRestore
    PageSize = 2
    ChanCap = 2
    InodeFloor = 1000
    ReaderOps = {"children"}
    InitRemoteLen = 2
    MaxPolls = 2
    MaxCrashes = 1
    MaxWriteFailures = 0
    MaxFetchFailures = 1
    MaxReadFailures = 1
SPECIFICATION Spec
INVARIANT TypeOK
INVARIANT CheckpointCoversCommitted
