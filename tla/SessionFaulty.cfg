SPECIFICATION Spec
CONSTANTS
    MaxCounter <- MCMaxCounter
    MaxCount <- MCMaxCount
    GuestAddresses <- MCGuestAddresses
    Configurations <- MCConfigurations
    BackendConforms = FALSE
    MaxRuns = 2
    MaxDispatches = 2
INVARIANT ReasonsPartitionTotals
INVARIANT DispatchAccounting
PROPERTY UnrecordedEndsRun
PROPERTY RunsEnd
\* The embedder may stop calling run, and a rejected session does nothing.
CHECK_DEADLOCK FALSE
