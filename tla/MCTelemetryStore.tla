-------------------------- MODULE MCTelemetryStore --------------------------
(* Small instances of TelemetryStore for TLC. *)
EXTENDS TelemetryStore

CONSTANTS s1, s2

Event(id, at, meta) == [id |-> id, gpu |-> "g", at |-> at, meta |-> meta, value |-> 0]

(* Out of order, a tie in time, and event IDs reused with other metadata     *)
(* and with another value for another GPU.                                   *)
MCEvents == {Event(1, 2, "a"), Event(2, 1, "b"), Event(3, 2, "c"), Event(2, 3, "d"),
             [Event(1, 2, "a") EXCEPT !.value = 1, !.gpu = "h"]}

=============================================================================
