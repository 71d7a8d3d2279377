\* A source that stays as it is; leftovers, kills, power failures, lost connections.
SPECIFICATION FairSpec
CONSTANTS
    pathA = pathA
    NoFile = NoFile
    NoSession = NoSession
    Conns <- MCConns
    Block <- MCBlock
    Zero = 0
    Crc <- MCCrc
    Paths <- MCPaths
    Path = pathA
    Rid = 1
    Sources <- MCStable
    Metas <- MCMetas
    InitParts <- MCLeftovers
    InitDest <- MCInitDest
    MaxRetries = 2
    MaxFaults = 2
    MaxChanges = 0
    MaxFileSize = 3
    ChunkSize = 2
    MaxPartialBytes = 8
    MaxPartialFiles = 8
    StorageFaults = FALSE
    PowerMayFail = TRUE
INVARIANT StableSourceNeverRejected
PROPERTIES ResumesAcknowledged RecoversWithinRetries MutexReleased
CHECK_DEADLOCK FALSE
