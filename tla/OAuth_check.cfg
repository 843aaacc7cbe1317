SPECIFICATION FairSpec
CONSTANTS
    CacheToken = TRUE
    MaxHandlers = 2
    MaxCrashes = 2
    MaxExchangeFails = 1
    MaxSaveFails = 1
INVARIANT TypeOK
INVARIANT ClientTokenIssued
PROPERTY EventuallyClient
