------------------------------ MODULE MCSatRun ------------------------------
EXTENDS SatRun, TLC

Symmetry == Permutations(Threads) \cup Permutations(Page) \cup Permutations(Pattern)

=============================================================================
