\* Any peers, storage faults, kills, power failures.
SPECIFICATION Spec
CONSTANTS
    NoFile = NoFile
    NoSync = NoSync
    Conns = {1, 2}
    Paths <- MCPaths
    Sizes = {0, 1}
    Checksums = {0, 1}
    Versions = {1, 2, 3}
    SizeOf <- MCSizeOf
    ChecksumOf <- MCChecksumOf
    MaxId = 4
    InitDest <- MCInitDest
    StorageFaults = TRUE
    PeerFrames <- MCFrames
PROPERTIES OnlyOutdatedReplaced 
CHECK_DEADLOCK FALSE
