CONSTANTS
    ENOENT = ENOENT
    EACCES = EACCES
    EPERM = EPERM
    ENODEV = ENODEV
    ENOTDIR = ENOTDIR
    ENAMETOOLONG = ENAMETOOLONG
    ERANGE = ERANGE
    ENOMEM = ENOMEM
    EIO = EIO
    EDRIVER = EDRIVER
    MatchDepth = 8
    FS <- FSNative
    Unreadable <- MC_Unreadable
    NativeDirs <- MC_Native
    PathsArgs <- PathsRoot
    PatternArgs <- PatternNested
    FlagArgs <- FlagsNone
    LenArgs = {60}
    TREE_DEPTH = 3
    PATH_MAX = 20
    SEARCH_BUF = 8
    MetaLen = 3
    AllocCanFail = FALSE
    EnvFailures = FALSE
    DriverErrors = FALSE
SPECIFICATION Spec
INVARIANT ResultsCountRecords
CHECK_DEADLOCK FALSE
