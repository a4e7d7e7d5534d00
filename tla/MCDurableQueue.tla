--------------------------- MODULE MCDurableQueue ---------------------------
(* Small instances of DurableQueue for TLC.                                 *)
EXTENDS DurableQueue, TLC

CONSTANTS e1, e2, e3, e4, pA, pB, bad

(* pB is the larger event; bad is refused by validation. *)
MCBytes == [p \in Payloads |-> IF p = pB THEN 600 ELSE 2]

MCMaxPayloadBytes == 600

(* Two small events fit beside two completions, two large ones not even     *)
(* beside one: in the limits run the byte limit refuses what the capacities *)
(* admit, and the dedup capacity what the byte limit admits.                *)
MCMaxLogicalBytes == 2 * 1024 + 2 * (4096 + 2)

Running == {1}
Jumping == {1, -1}

MCSymmetry == Permutations(EventIDs)

=============================================================================
