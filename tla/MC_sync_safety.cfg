CONSTANTS
    fa = fa
    fb = fb
    fc = fc
    FileIds = {fa, fb}
    Root = Root
    None = None
    NoActor = NoActor
    Applier = Applier
    Readers = {r1, r2}
    History <- HistDeleteThenCreate
    PageSize = 2
    ChanCap = 2
    InodeFloor = 1000
    ReaderOps = {"children", "refresh"}
    InitRemoteLen = 1
    MaxPolls = 2
    MaxCrashes = 0
    MaxWriteFailures = 1
    MaxFetchFailures = 1
    MaxReadFailures = 0
SPECIFICATION Spec
PROPERTY ImplementsInodeMap
