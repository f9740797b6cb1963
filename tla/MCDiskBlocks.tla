---------------------------- MODULE MCDiskBlocks ----------------------------
(* Symmetry of DiskBlocks for the runs that check invariants only.          *)
EXTENDS DiskBlocks, TLC

Symmetry == Permutations(Addr) \cup Permutations(Block)
=============================================================================
