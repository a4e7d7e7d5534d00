---------------------------- MODULE MemoryQueue -----------------------------
(***************************************************************************)
(* The in-memory broker of internal/queue/memory.go: a fixed ring, a map   *)
(* of seen identities and a list of tombstones in order of delivery.  Both *)
(* operations run under one mutex, so each is one step.  q.now() is        *)
(* time.Now with its monotonic reading: the clock never steps back.        *)
(***************************************************************************)
EXTENDS Integers, Sequences, FiniteSets

CONSTANTS
  IDs, Contents,
  Unknown,                    \* no entry, or no event
  Capacity, DedupCapacity, TTL,
  MaxClock, MaxReceived       \* bounds

ASSUME MemoryAssumption ==
  /\ Capacity \in Nat \ {0}
  /\ DedupCapacity \in Nat /\ DedupCapacity >= Capacity
  /\ TTL \in Nat \ {0}
  /\ Unknown \notin Contents

VARIABLES
  ring, head, size,
  seen,       \* [hash, expires] by identity; expires is 0 until delivery
  expired,    \* tombstones, oldest first
  clock,
  received    \* deliveries so far

memVars == <<ring, head, size, seen, expired, clock, received>>

NoEvent == [id |-> Unknown, content |-> Unknown]
Unseen == [hash |-> Unknown, expires |-> 0]

MemTypeOK ==
  /\ ring \in [0 .. Capacity - 1 -> [id : IDs, content : Contents] \cup {NoEvent}]
  /\ head \in 0 .. Capacity - 1 /\ size \in 0 .. Capacity
  /\ seen \in [IDs -> [hash : Contents \cup {Unknown}, expires : Nat]]
  /\ expired \in Seq([id : IDs, expires : Nat])
  /\ clock \in Nat /\ received \in Nat

-----------------------------------------------------------------------------
(* Mutant: a tombstone is over one tick early. *)
Dropped_Early == {i \in 1 .. Len(expired) : \A j \in 1 .. i : expired[j].expires <= clock + 1}

(* Publish first drops tombstones from the front of the list until one is  *)
(* not over yet.                                                           *)
Dropped == {i \in 1 .. Len(expired) : \A j \in 1 .. i : expired[j].expires <= clock}

SeenNow ==
  [id \in IDs |-> IF \E i \in Dropped : expired[i].id = id THEN Unseen ELSE seen[id]]

SeenCount(s) == Cardinality({id \in IDs : s[id] # Unseen})

Room(s) == size < Capacity /\ SeenCount(s) # DedupCapacity

(* Mutant: the slot ignores head. *)
FreeSlot_NoHead == size % Capacity

FreeSlot == (head + size) % Capacity

Publish(id, p) ==
  /\ expired' = SubSeq(expired, Cardinality(Dropped) + 1, Len(expired))
  /\ \/ /\ SeenNow[id] = Unseen
        /\ Room(SeenNow)
        /\ ring' = [ring EXCEPT ![FreeSlot] = [id |-> id, content |-> p]]
        /\ size' = size + 1
        /\ seen' = [SeenNow EXCEPT ![id] = [hash |-> p, expires |-> 0]]
     \/ \* duplicate, conflict or full: only the tombstones are gone
        /\ SeenNow[id] # Unseen \/ ~Room(SeenNow)
        /\ seen' = SeenNow
        /\ UNCHANGED <<ring, size>>
  /\ UNCHANGED <<head, clock, received>>

(* Mutant: the tombstone carries the time of delivery. *)
Tombstone_NoTTL(id) == [id |-> id, expires |-> clock]

Tombstone(id) == [id |-> id, expires |-> clock + TTL]

NextHead == (head + 1) % Capacity

Receive ==
  /\ size > 0
  /\ received < MaxReceived
  /\ LET id == ring[head].id IN
     /\ seen' = [seen EXCEPT ![id].expires = clock + TTL]
     /\ expired' = Append(expired, Tombstone(id))
  /\ ring' = [ring EXCEPT ![head] = NoEvent]
  /\ head' = NextHead
  /\ size' = size - 1
  /\ received' = received + 1
  /\ UNCHANGED clock

Advance ==
  /\ clock < MaxClock
  /\ clock' = clock + 1
  /\ UNCHANGED <<ring, head, size, seen, expired, received>>

MemInit ==
  /\ ring = [i \in 0 .. Capacity - 1 |-> NoEvent] /\ head = 0 /\ size = 0
  /\ seen = [id \in IDs |-> Unseen] /\ expired = <<>>
  /\ clock = 0 /\ received = 0

MemNext ==
  \/ \E id \in IDs, p \in Contents : Publish(id, p)
  \/ Receive
  \/ Advance

MemSpec == MemInit /\ [][MemNext]_memVars

-----------------------------------------------------------------------------
Fifo == INSTANCE DedupFifo WITH
  waiting <- [i \in 1 .. size |-> ring[(head + i - 1) % Capacity]],
  known   <- [id \in IDs |-> seen[id].hash]

(* Ring, head and size implement a first-in first-out queue across every   *)
(* wrap-around, and no identity is forgotten while its event waits.        *)
ImplementsFifo == Fifo!FifoSpec

(* The tombstone list and the map agree: one tombstone per delivered       *)
(* identity still remembered, with its expiry, oldest first.  A second     *)
(* tombstone would later delete a newer entry of the same identity.  With  *)
(* the waiting events they fill the map, which DedupCapacity bounds.       *)
TombstonesExact ==
  /\ {expired[i] : i \in 1 .. Len(expired)} =
       {[id |-> id, expires |-> seen[id].expires] : id \in {i \in IDs : seen[i].expires # 0}}
  /\ \A i, j \in 1 .. Len(expired) : i < j =>
       expired[i].id # expired[j].id /\ expired[i].expires <= expired[j].expires
  /\ SeenCount(seen) = size + Len(expired) /\ SeenCount(seen) <= DedupCapacity

(* "Never evicts unexpired IDs": the entry of an event stays while it      *)
(* waits and for the whole TTL after it was received.                      *)
WindowKept ==
  [][\A id \in IDs : seen[id] # Unseen =>
       \/ seen'[id].hash = seen[id].hash /\ seen'[id].expires >= seen[id].expires
       \/ seen[id].expires # 0 /\ seen[id].expires <= clock]_memVars

=============================================================================
