SPECIFICATION Spec
CONSTANTS
    Absent = Absent
    Within <- MCWithin
    SOURCE_LIMIT = 1200
    Workflows <- MCWorkflows
    Labels <- MCLabels
    Images <- MCImages
    Entries <- MCEntries
INVARIANT HostedCoverage
