CONSTANTS
    fa = fa
    fb = fb
    FileIds = {fa, fb}
    Root = Root
    None = None
    Readers = {r1}
    History <- LegacyTrashRestore
    PageSize = 2
    InitRemoteLen = 4
    MaxCrashes = 0
    MaxWriteFailures = 0
    MaxFetchFailures = 0
    MaxReadFailures = 0
SPECIFICATION FairSpec
INVARIANT FilesHaveInodes
