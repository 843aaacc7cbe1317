CONSTANTS
    fa = fa
    fb = fb
    FileIds = {fa, fb}
    Root = Root
    None = None
    Readers = {r1}
    History <- LegacyCreateTrash
    PageSize = 2
    InitRemoteLen = 1
    MaxCrashes = 1
    MaxWriteFailures = 1
    MaxFetchFailures = 1
    MaxReadFailures = 0
SPECIFICATION FairSpec
INVARIANT TypeOK
INVARIANT InodesAgree
PROPERTY CacheConverges
PROPERTY WaitersWoken
