\* Any peers, storage faults, process kills and power failures.
SPECIFICATION Spec
CONSTANTS
    pathA = pathA
    pathB = pathB
    NoFile = NoFile
    NoSession = NoSession
    Conns = {c1, c2}
    Block <- MCBlock
    Zero = 0
    Crc <- MCCrc
    Paths <- MCPaths
    Metas <- MCMetas
    InitParts <- MCInitParts
    InitDest <- MCInitDest
    PeerFrames <- MCPeerFrames
    MaxFileSize = 2
    ChunkSize = 2
    MaxPartialBytes = 3
    MaxPartialFiles = 2
    StorageFaults = TRUE
    PowerMayFail = TRUE
INVARIANTS TypeOK ChecksumDescribesPartial NeverTorn AcknowledgedIsDurable
           PartialBudgetKept
PROPERTY UploadsAreAtomic
SYMMETRY MCSymmetry
VIEW MCView
CHECK_DEADLOCK FALSE
