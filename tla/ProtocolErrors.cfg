\* A request id that leaves no room for the uploads.
SPECIFICATION FairSpec
CONSTANTS
    NoFile = NoFile
    NoSync = NoSync
    Conns <- MCConns
    Paths <- MCPaths
    Sizes = {0, 1}
    Checksums = {0, 1}
    Versions = {1, 2, 3}
    SizeOf <- MCSizeOf
    ChecksumOf <- MCChecksumOf
    MaxId = 10
    Rids = {10}
    MaxRetries = 2
    InitSource <- MCInitSource
    InitDest <- MCInitDest
    StorageFaults = FALSE
    PowerMayFail = FALSE
    MaxFaults = 0
    MaxChanges = 0
INVARIANT ProtocolErrorsNotRetried
CHECK_DEADLOCK FALSE
