SPECIFICATION Spec
CONSTANTS
    library = library
    library_test = library_test
    new = new
    adapter = adapter
    adapter_test = adapter_test
    header = header
    extra = extra
    common = common
    posix = posix
    x64 = x64
    other = other
    pinned = pinned
    lost = lost
    doubled = doubled
    frontend = frontend
    backend = backend
    Absent = Absent
    Tests <- MCTests
    COMMON_TESTS <- MCCommon
    POSIX_TESTS <- MCPosix
    X64_TESTS <- MCX64
    Within <- MCWithin
    SOURCE_LIMIT <- MCLimit
    Files <- MCFiles
    Owner <- MCOwner
    Suffix <- MCSuffix
    DOLPHIN_DEPENDENT_SOURCES <- MCDeferred
    Content <- MCContent
    Revisions <- MCRevisions
    DolphinTests <- MCDolphinTests
    Surface <- MCSurface
    DolphinOptions <- MCOptions
    Compilers = {"Clang", "AppleClang"}
    CMakes = 2
    Campaigns <- FreshCampaigns
INVARIANT GateReproducible
