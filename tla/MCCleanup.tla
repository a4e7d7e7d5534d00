----------------------------- MODULE MCCleanup ------------------------------
(* A small instance of Cleanup for TLC. *)
EXTENDS Cleanup

CONSTANTS v1, v2

(* Both volumes were provisioned for the same claim, one after the other. *)
SamePath == [v \in Volumes |-> "queue-data"]

=============================================================================
