SPECIFICATION Spec
CONSTANTS
    MaxCounter <- MCMaxCounter
    MaxCount <- MCMaxCount
    GuestAddresses <- MCGuestAddresses
    Configurations <- MCConfigurations
    BackendConforms = TRUE
    MaxRuns = 2
    MaxDispatches = 2
INVARIANT TypeOK
INVARIANT BudgetRespected
INVARIANT AccountingExact
INVARIANT StopIsJustified
INVARIANT LimitIsUsable
PROPERTY MetersFallback
\* The embedder may stop calling run, and a rejected session does nothing.
CHECK_DEADLOCK FALSE
