-------------------------- MODULE MCCollectorPool ---------------------------
(* A small instance of CollectorPool for TLC. *)
EXTENDS CollectorPool

CONSTANTS w1, w2, w3

=============================================================================
