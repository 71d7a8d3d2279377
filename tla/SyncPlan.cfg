\* All pairs of manifests over four paths; payloads of others.
SPECIFICATION ExchangeSpec
CONSTANTS
    Base = 12
    Dot = 1
    Slash = 2
    Forbidden = {0}
    PartialDirectory <- MCPartialDirectory
    MaxPathLength = 3
    MaxNameLength = 2
    Spelling <- MCSpelling
    Paths <- MCPaths
    Sizes <- MCSizes
    Checksums <- MCChecksums
    Manifests <- MCManifests
    MaxEntries = 3
    MaxPayload = 49
    Transfers <- MCTransfers
    Foreign <- MCForeign
    Nothing = Nothing
INVARIANTS PlanIsAccepted PlanIsExact PlanArrives RoundTrip OnlyCanonical AcceptedPathsAreSafe
CHECK_DEADLOCK FALSE
