CONSTANTS
    fa = fa
    fb = fb
    fc = fc
    FileIds = {fa, fb, fc}
    Root = Root
    None = None
    NoActor = NoActor
    Applier = Applier
    Readers = {r1}
    History <- HistDeleteThenCreateTwo
    PageSize = 2
    ChanCap = 2
    InodeFloor = 1000
    ReaderOps = {"inode"}
    InitRemoteLen = 4
    MaxPolls = 2
    MaxCrashes = 1
    MaxWriteFailures = 0
    MaxFetchFailures = 0
    MaxReadFailures = 0
SPECIFICATION Spec
PROPERTY InodeNeverReassigned
