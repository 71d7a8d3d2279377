\* The source changes under the client; faults of every kind.
SPECIFICATION UploadSpec
CONSTANTS
    pathA = pathA
    NoFile = NoFile
    NoSession = NoSession
    Conns <- MCConns
    Block <- MCBlock
    Zero = 0
    Crc <- MCCrc
    Paths <- MCPaths
    Path = pathA
    Rid = 1
    Sources <- MCChanging
    Metas <- MCMetas
    InitParts <- MCNoParts
    InitDest <- MCInitDest
    MaxRetries = 2
    MaxFaults = 2
    MaxChanges = 2
    MaxFileSize = 2
    ChunkSize = 1
    MaxPartialBytes = 8
    MaxPartialFiles = 8
    StorageFaults = TRUE
    PowerMayFail = TRUE
INVARIANT SuccessIsDurable
CHECK_DEADLOCK FALSE
