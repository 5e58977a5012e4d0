CONSTANTS
    EINVAL = EINVAL
    ENXIO = ENXIO
    ESPIPE = ESPIPE
    EOVERFLOW = EOVERFLOW
    EBADF = EBADF
    EIO = EIO
    NoThread = NoThread
    Threads <- MC_Threads
    Calls <- MC_Calls
    CallsPerThread = 2
    FileOps <- MC_FileOps
    UIO_MAXIOV = 2
    DriverFaults = TRUE
    OUT_MAXBYTES = 3
    ModeArgs <- MC_Modes
    LOFF_BITS = 4
    OFF_BITS = 3
    S_MAXBYTES = 6
    MAX_RW_COUNT = 4
    ISIZE0 = 4
SPECIFICATION FairSpec
INVARIANTS
    FPosNonNegative
    SeekCurSerialized
PROPERTIES
    RwNeverRewinds
    TransferAccounted
    AllCallsReturn
CHECK_DEADLOCK FALSE
