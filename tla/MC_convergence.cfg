CONSTANTS
    fa = fa
    fb = fb
    fc = fc
    FileIds = {fa, fb}
    Root = Root
    None = None
    NoActor = NoActor
    Applier = Applier
    Readers = {r1}
    History <- HistTrashRestore
    PageSize = 2
    ChanCap = 2
    InodeFloor = 1000
    ReaderOps = {"inode", "children", "file", "roots", "flush", "wait"}
    InitRemoteLen = 4
    MaxPolls = 2
    MaxCrashes = 0
    MaxWriteFailures = 0
    MaxFetchFailures = 0
    MaxReadFailures = 0
SPECIFICATION FairSpec
PROPERTY Convergence
PROPERTY WokenWhenSynced
