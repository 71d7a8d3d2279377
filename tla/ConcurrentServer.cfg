\* Every interleaving of the owner, two workers and a stopping thread.
SPECIFICATION Spec
CONSTANTS
    None = None
    Clients = {k1, k2, k3}
    Workers = {w1, w2}
    Fds = {1, 2, 3}
    MaxPending = 1
    SystemFaults = TRUE
INVARIANTS TypeOK ActiveAreInProgress OneHolder NobodyMissedByShutdown
           EveryConnectionCounted NoLostWakeup
SYMMETRY MCSymmetry
CHECK_DEADLOCK FALSE
