\* A ping command with retries, other programs on both sides, lost
\* connections and failures of OpenSSL.
SPECIFICATION FairSpec
CONSTANTS
    Conns <- MCConns
    Secrets = {a, b}
    ServerSecret = a
    Strangers = {9}
    Replies <- MCReplies
    Requests <- MCRequests
    RequestId = 1
    MaxRetries = 1
    MaxFaults = 1
    MaxStray = 3
INVARIANTS   RetriesOnlyFaults
PROPERTIES HandshakeEnds 
CHECK_DEADLOCK FALSE
