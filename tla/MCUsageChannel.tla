--------------------------- MODULE MCUsageChannel ---------------------------
(* Small instances of UsageChannel for TLC.  Sessions are interchangeable. *)
EXTENDS UsageChannel, TLC
Symmetry == Permutations(Owners)
=============================================================================
