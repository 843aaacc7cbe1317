CONSTANTS
    fa = fa
    fb = fb
    fc = fc
    FileIds = {fa, fb}
    Root = Root
    None = None
    NoActor = NoActor
    Applier = Applier
    Readers = {r1}
    History <- HistDeleteThenCreate
    PageSize = 2
    ChanCap = 2
    InodeFloor = 1000
    ReaderOps = {"inode"}
    InitRemoteLen = 3
    MaxPolls = 1
    MaxCrashes = 0
    MaxWriteFailures = 0
    MaxFetchFailures = 0
    MaxReadFailures = 0
SPECIFICATION Spec
INVARIANT CheckpointCoversCommitted
