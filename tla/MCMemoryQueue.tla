--------------------------- MODULE MCMemoryQueue ----------------------------
(* A small instance of MemoryQueue for TLC. *)
EXTENDS MemoryQueue, TLC

CONSTANTS a, b, c, d, x, y

MCSymmetry == Permutations(IDs) \cup Permutations(Contents)

=============================================================================
