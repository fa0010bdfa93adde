CONSTANTS
    NFDS = 3
    StartFd = 0
    FdCalls = {"open", "socket", "close", "dup", "dup2", "F_DUPFD", "ioctl", "read", "socketpair"}
    MaxDepth = 2
    Subs = {1, 3, 5, 17, 19, 20, 21, 42, 56, 57, 255}
    Errnos = {1, 2, 4, 22, 38, 122, 130, 512, 514}
    Signals = {7, 16, 21}
    MaxMasked = 2
    Limit = 4
    Ids = {0, 1, 3, 5}
    NSems = 10
    Arrays <- MCArrays
    Addresses <- MCAddresses
    IpcErrnos = {1, 22, 254}
    InFlags <- MCIn
    OutFlags <- MCOut
    CtlFlags <- MCCtl
    LocalFlags <- MCLocal
    Junk = {0, 77}
    MaxSaves = 2
    IpOptions = {5, 10}
    SockOptions = {4, 128}
    MsgFlags = {{}, {1}, {3}, {6}, {7}, {1, 7}, {3, 6}}
    MaxQueue = 2
    MaxSet = 2
    NameLens = {1, 15, 30}
    Inos = {5, 256}
    MaxEntries = 3
    Counts = {16, 33, 64}
    PerChunk = 2
    Stale = {0, 7}
    BLOCK = 4
    ULIM_MAX = 5
    Limits = {0, 3, 8, 13, 20, 31}
    FEB29 = 5
    Times = {1, 3, 4, 5, 6, 8}
    Minors = {0, 3, 8, 26}
    MAX_NON_LFS = 2
    Sizes = {0, 3}
SPECIFICATION Spec
INVARIANTS
    FilesAtRest
    StackKept ErrorReported
    SignalsKeepTheirNumber
    SetallReadBack
    TerminalRestored
    OptionReadBack ReceivesAsAsked
    ListedOnce
    LocksAsMeant SetIsTold
PROPERTIES
    RoutingKept
    AnswersTruthful
    RepeatAsksTheSame
    SetflKeeps
