------------------------- MODULE MCConcurrentServer -------------------------
EXTENDS ConcurrentServer, TLC

MCSymmetry == Permutations(Clients) \cup Permutations(Workers)
=============================================================================
