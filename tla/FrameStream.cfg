\* A stream of frames, cut anywhere, lost anywhere, read in two ways.
SPECIFICATION FairSpec
CONSTANTS
    Magic = 3
    Version = 1
    Types <- MCTypes
    MaxPayload = 3
    MaxBuffer = 18
    SocketBuffer = 14
    Scripts <- MCScripts
    ReadSizes = {9, 14}
INVARIANTS SplitIsIrrelevant BufferSuffices
PROPERTIES StreamIsChannel NothingLeftBehind
CHECK_DEADLOCK FALSE
