SPECIFICATION FairSpec
CONSTANTS
    CacheToken = TRUE
    MaxHandlers = 2
    MaxCrashes = 0
    MaxExchangeFails = 0
    MaxSaveFails = 0
PROPERTY HandlersReturn
