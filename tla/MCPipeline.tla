----------------------------- MODULE MCPipeline -----------------------------
(* Small instances of Pipeline for TLC. *)
EXTENDS Pipeline, TLC

CONSTANTS e1, e2, good, poison, w1, w2

MCBytes == [p \in Payloads |-> 200]

(* One good event, or two poison events that compete for quarantine. *)
MCFeeds == {[id \in EventIDs |-> IF id = e1 THEN good ELSE NoPayload],
            [id \in EventIDs |-> poison]}

MCMaxLogicalBytes == 2 * (4096 + 200)
Running == {1}
MCSymmetry == Permutations(Workers)

=============================================================================
