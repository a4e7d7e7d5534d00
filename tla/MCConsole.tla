----------------------------- MODULE MCConsole ------------------------------
(* A small instance of Console for TLC. *)
EXTENDS Console

CONSTANTS r1, r2, f1, f2

=============================================================================
