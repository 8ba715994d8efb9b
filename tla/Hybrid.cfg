SPECIFICATION HybridSpec
CONSTANTS
    MaxCounter <- MCMaxCounter
    MaxCount <- MCMaxCount
    Configurations <- MCConfigurations
    GuestAddresses <- MCGuestAddresses
    BackendConforms = FALSE
    DolphinConforms = TRUE
    MaxRuns = 2
    MaxDispatches = 3
    RegisterCount = 1
    MaxOriginals = 2
INVARIANT BodyRunsAsAsked
INVARIANT ReasonsAgree
PROPERTY ConformingBackend
\* The process may terminate in a callback, and no run is left to be called.
CHECK_DEADLOCK FALSE
