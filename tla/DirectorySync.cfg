\* A tree that changes, lost connections, kills, power failures, storage faults.
SPECIFICATION Spec
CONSTANTS
    NoFile = NoFile
    NoSync = NoSync
    Conns <- MCConns
    Paths <- MCPaths
    Sizes = {0, 1}
    Checksums = {0, 1}
    Versions = {1, 2, 3}
    SizeOf <- MCSizeOf
    ChecksumOf <- MCChecksumOf
    MaxId = 10
    Rids = {8}
    MaxRetries = 1
    InitSource <- MCInitSource
    InitDest <- MCOldDest
    StorageFaults = TRUE
    PowerMayFail = TRUE
    MaxFaults = 2
    MaxChanges = 2
INVARIANTS SuccessMeansSynced NeverOutOfStep
CHECK_DEADLOCK FALSE
