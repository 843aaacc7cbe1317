CONSTANTS
    fa = fa
    fb = fb
    fc = fc
    FileIds = {fa, fb}
    Root = Root
    None = None
    NoActor = NoActor
    Applier = Applier
    Readers = {}
    History <- HistCreateTrash
    PageSize = 2
    ChanCap = 2
    InodeFloor = 1000
    ReaderOps = {}
    InitRemoteLen = 3
    MaxPolls = 2
    MaxCrashes = 0
    MaxWriteFailures = 1
    MaxFetchFailures = 0
    MaxReadFailures = 0
SPECIFICATION Spec
INVARIANT NoSkippedChange
