---------------------------- MODULE ReliableQueue ---------------------------
(***************************************************************************)
(* What the durable broker promises its producers and consumers            *)
(* (docs/DAY2_PROTOCOL.md), with clocks, indexes and counters left out: an *)
(* accepted event is kept, with its content, until the consumer that holds *)
(* its current delivery settles it.  A step may first take expired leases  *)
(* back and forget completed events, and then serve one request.           *)
(***************************************************************************)
EXTENDS Naturals, FiniteSets

CONSTANTS EventIDs, Payloads, NoPayload,
          Limit     \* how many unsettled events the broker keeps

VARIABLES
  status,    \* of each event
  content,   \* of each event the broker knows
  holder,    \* the delivery that holds or settled the event, 0 when none
  issued     \* deliveries made so far

absVars == <<status, content, holder, issued>>

With(states) == {id \in EventIDs : status[id] \in states}

AbsTypeOK ==
  /\ status \in [EventIDs -> {"unknown", "waiting", "held", "parked", "done"}]
  /\ content \in [EventIDs -> Payloads \cup {NoPayload}]
  /\ holder \in [EventIDs -> Nat]
  /\ issued \in Nat

(* The state after the held events back were taken back and the done events *)
(* gone were forgotten.                                                     *)
SweptStatus(back, gone) ==
  [id \in EventIDs |-> IF id \in back THEN "waiting"
                       ELSE IF id \in gone THEN "unknown" ELSE status[id]]
SweptContent(gone) == [id \in EventIDs |-> IF id \in gone THEN NoPayload ELSE content[id]]
SweptHolder(cleared) == [id \in EventIDs |-> IF id \in cleared THEN 0 ELSE holder[id]]

Sweep(back, gone) ==
  /\ status' = SweptStatus(back, gone)
  /\ content' = SweptContent(gone)
  /\ holder' = SweptHolder(back \cup gone)
  /\ UNCHANGED issued

Accept(gone, id, p) ==
  /\ SweptStatus({}, gone)[id] = "unknown"
  /\ Cardinality(With({"waiting", "held", "parked"})) < Limit
  /\ status' = [SweptStatus({}, gone) EXCEPT ![id] = "waiting"]
  /\ content' = [SweptContent(gone) EXCEPT ![id] = p]
  /\ holder' = SweptHolder(gone)
  /\ UNCHANGED issued

Deliver(back, id) ==
  /\ SweptStatus(back, {})[id] = "waiting"
  /\ issued' = issued + 1
  /\ status' = [SweptStatus(back, {}) EXCEPT ![id] = "held"]
  /\ holder' = [SweptHolder(back) EXCEPT ![id] = issued + 1]
  /\ UNCHANGED content

(* The holder of an event acknowledges it, hands it back or parks it for good. *)
Settle(id, outcome) ==
  /\ status[id] = "held"
  /\ status' = [status EXCEPT ![id] = outcome]
  /\ holder' = [holder EXCEPT ![id] = IF outcome = "done" THEN @ ELSE 0]
  /\ UNCHANGED <<content, issued>>

AbsInit ==
  /\ status = [id \in EventIDs |-> "unknown"]
  /\ content = [id \in EventIDs |-> NoPayload]
  /\ holder = [id \in EventIDs |-> 0]
  /\ issued = 0

AbsNext ==
  \/ \E back \in SUBSET With({"held"}), gone \in SUBSET With({"done"}) : Sweep(back, gone)
  \/ \E gone \in SUBSET With({"done"}), id \in EventIDs, p \in Payloads : Accept(gone, id, p)
  \/ \E back \in SUBSET With({"held"}), id \in EventIDs : Deliver(back, id)
  \/ \E id \in EventIDs, outcome \in {"done", "waiting", "parked"} : Settle(id, outcome)

AbsSpec == AbsInit /\ [][AbsNext]_absVars

=============================================================================
