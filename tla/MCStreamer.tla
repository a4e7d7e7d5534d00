----------------------------- MODULE MCStreamer -----------------------------
(* Small instances of Streamer for TLC. *)
EXTENDS Streamer

(* All files of up to three records. *)
MCFiles == UNION {[1 .. n -> {"valid", "invalid"}] : n \in 0 .. 3}

=============================================================================
