\* A tree that stays as it is, and as many lost connections as retries.
SPECIFICATION FairSpec
CONSTANTS
    NoFile = NoFile
    NoSync = NoSync
    Conns <- MCConns
    Paths <- MCPaths
    Sizes = {0, 1}
    Checksums = {0, 1}
    Versions = {1, 2, 3}
    SizeOf <- MCSizeOf
    ChecksumOf <- MCChecksumOf
    MaxId = 10
    Rids = {1}
    MaxRetries = 2
    InitSource <- MCInitSource
    InitDest <- MCInitDest
    StorageFaults = FALSE
    PowerMayFail = TRUE
    MaxFaults = 2
    MaxChanges = 0
INVARIANT TransferredOnce
PROPERTY RecoversWithinRetries
CHECK_DEADLOCK FALSE
