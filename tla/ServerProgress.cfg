\* The server makes progress, with clients that may stay silent.
SPECIFICATION FairSpec
CONSTANTS
    None = None
    Clients = {k1, k2}
    Workers = {w1, w2}
    Fds = {1, 2}
    MaxPending = 1
    SystemFaults = FALSE
PROPERTIES ShutdownCompletes EveryClientIsServed
CHECK_DEADLOCK FALSE
