SPECIFICATION AllSpec
CONSTANTS
    Channels = {c1, c2, c3}
    Fds = {0, 1, 2}
    NoChannel = NoChannel
    kCheapPrepend = 2
    kInitialSize = 1
    Byte = {0, 1}
    Radix = 2
    MaxLen = 2
    MaxSize = 6
    tag_ = 1
    OtherTag = 2
    kMaxMessageLen = 4
    Payloads <- MCPayloads
    Unparsable <- MCUnparsable
    RawOnly <- MCRawOnly
    MaxMessages = 2
    Callers = {u1, u2}
    MaxId = 3
    MaxLines = 6
    MaxHalves = 6
    Modules <- MCModules
    Names <- MCNames
    Favicon <- MCFavicon
    Paths <- MCPaths
    Pieces = {0, 1, 3, 5}
    kBufferSize_ = 1
    kMaxBufferSize = 2
    MaxInput = 7
    kBufferSize = 2
    MaxSizes = {0, 3, 5}
    MaxFile = 6
    rollSize_ = 4
    checkEveryN_ = 3
    flushInterval_ = 2
    kRollPerSeconds_ = 4
    MaxNow = 9
    LogThreads = {g1, g2}
    MaxSecond = 2
    SIZE = 9
    kMaxNumericSize = 5
    Strings = {1, 3}
    Integers8 <- MCIntegers
    Numbers <- MCNumbers
    FirstDays <- MCFirstDays
    MaxDays = 1100
    Offsets <- MCOffsets
    Spaces = {7, 8}
    Near = 3
    MaxTransitions = 4
SYMMETRY Symmetry
INVARIANTS
    PollSetAgrees
    EpollAgrees
    BufferIsQueue
    NetworkOrder
    FramingExact
    OneResponsePerCall
    RequestsAnswered
    RequestsDispatched
    StreamConserves
    FilesReadWhole
    RolledInTime
    StampIsCurrent
    LineReadsBack
    TimesInvert
CHECK_DEADLOCK FALSE
