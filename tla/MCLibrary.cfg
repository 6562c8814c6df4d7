CONSTANTS
    \* HttpParser, HttpStream, HttpExchange
    OnNotify <- Notify
    OnData <- Data
    MaxHeaderSize = 80
    ULLONG_MAX = 1000
    Streams <- MCStreams
    Requests <- MCRequests
    Paths = {"/e"}
    MaxSent = 2
    MaxReads = 2
    MaxChanges = 1
    \* ByteArray
    BaseSizes = {1, 2, 3}
    ByteBits = 2
    FixBytes = 2
    LenBytes = 1
    Width = 3
    Items <- MCItems
    MaxItems = 2
    MaxCapacity = 4
    \* Codec
    ByteValues = {0, 1, 15, 16, 200, 255}
    MaxBytes = 4
    Sextets = {0, 1, 63, 64, 65}
    MaxSextets = 5
    AddrBits = 5
    Addr6Bytes = 3
    Byte6Bits = 2
    Urls <- MCUrls
    Pairs <- MCPairs
    Parts <- MCParts
    MaxParts = 3
    Args <- MCArgs
    MaxArgs = 4
    \* HttpPool
    PoolFibers = {"f1", "f2"}
    MaxRequest = 2
    MaxAliveTime = 30
    NowMS = 1000
    MaxConnections = 3
    MaxCalls = 3
    \* Socket
    Socks = {1, 2}
    SockFibers = {"f1", "f2"}
    SockFds = {1, 2}
    OwnPort = 100
    Binders = {1}
    MaxConns = 2
    Remotes <- MCRemotes
    UsersOf <- MCUsersOf
    \* Chat
    Conns = {1, 2}
    Users = {1, 2}
    Threads = 1
    Slow = {1}
    MaxMsgs = 2
    \* Config
    Loaders = {"l1", "l2"}
    Names = {"a", "b"}
    MaxEdits = 2
    FileContents <- MCContents
    \* LogFile
    LogThreads = {"t1", "t2"}
    LineLevels = {1, 2}
    Level = 2
    Period = 3
    EndOfTime = 7
    \* ModuleManager
    Files = {"m1", "m2", "m3"}
    Removers = {"r1", "r2"}
    MaxLoads = 3
    IdOf <- MCIdOf
SPECIFICATION MCSpec
INVARIANTS
    
    ExchangeRight
    BytesRight
    
    PoolRight
    SocketsRight
    SessionsRight
    ConfigFollowed
    ModulesRight

    
    
CHECK_DEADLOCK FALSE
