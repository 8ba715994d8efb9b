SPECIFICATION Spec
CONSTANTS
    MaxCounter <- MCMaxCounter
    MaxCount <- MCMaxCount
    GuestAddresses <- MCGuestAddresses
    Configurations <- MCConfigurations
    BackendConforms = FALSE
    MaxRuns = 2
    MaxDispatches = 1
INVARIANT RecordedBeforeJit
\* The embedder may stop calling run, and a rejected session does nothing.
CHECK_DEADLOCK FALSE
