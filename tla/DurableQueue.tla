---------------------------- MODULE DurableQueue ----------------------------
(***************************************************************************)
(* The durable broker of internal/queue/durable.go at the granularity of   *)
(* its bbolt transactions.  Every operation runs as one read-write         *)
(* transaction under the broker's gate (Durable.update): it reads the wall *)
(* clock once, works on the buckets and either commits as a whole or is    *)
(* rolled back as a whole.  The gate itself, the long poll, Stop and Close *)
(* are the subject of BrokerGate.                                          *)
(*                                                                         *)
(* db is the database file.  It survives a crash of the process: a crash   *)
(* before a commit is a transaction that did not happen, a crash after it  *)
(* is a reply the client never sees, so any request may be repeated at any *)
(* later time, with any token that was ever handed out.                    *)
(***************************************************************************)
EXTENDS Integers, FiniteSets, Sequences

CONSTANTS
  EventIDs,            \* event identities producers may use
  Payloads,            \* event contents; equal SHA-256 hashes = equal contents
  Malformed,           \* contents telemetry.Event.Validate refuses
  Bytes,               \* length of the JSON encoding of a content
  Delays, Reasons,     \* what consumers put into a NACK
  MaxNackDelay,
  Capacity, DedupCapacity, QuarantineCapacity,
  MaxPayloadBytes, MaxLogicalBytes,
  LeaseDuration, CompletionTTL, CleanupBatch,
  ClockSteps,          \* what the wall clock may do: {1} runs, {1, -1} also jumps back
  NoPayload, NoNack,   \* a record without event, a record without NACK hash
  MaxNow, MaxAccepted, MaxDeliveries   \* bounds of the clock and of the counters

activeOverhead == 4096
completedOverhead == 1024

NoToken == 0

NackRequests == [delay : Delays, permanent : BOOLEAN, reason : Reasons]

(***************************************************************************)
(* What DurableOptions.Validate demands of the limits, and what Go's types *)
(* give: lengths and delays are natural numbers.                           *)
(***************************************************************************)
ASSUME OptionsAssumption ==
  /\ Capacity \in Nat \ {0}
  /\ DedupCapacity \in Nat /\ DedupCapacity >= Capacity
  /\ QuarantineCapacity \in Nat \ {0}
  /\ MaxPayloadBytes \in Nat \ {0}
  /\ MaxLogicalBytes \in Nat
  /\ MaxLogicalBytes >= activeOverhead + MaxPayloadBytes
  /\ LeaseDuration \in Nat \ {0}
  /\ CompletionTTL \in Nat \ {0}
  /\ CleanupBatch \in Nat \ {0}

ASSUME InputsAssumption ==
  /\ IsFiniteSet(EventIDs)
  /\ Malformed \subseteq Payloads
  /\ Bytes \in [Payloads -> Nat]
  /\ Delays \subseteq Nat
  /\ MaxNackDelay \in Nat
  /\ ClockSteps \subseteq Int
  /\ MaxNow \in Nat
  /\ NoPayload \notin Payloads
  /\ NoNack \notin NackRequests

VARIABLES
  db,        \* the bbolt file: buckets, sequence counter and persisted statistics
  now,       \* wall clock of the broker host, d.opts.Now()
  granted    \* every delivery a consumer received, by token, and what became of it

vars == <<db, now, granted>>

-----------------------------------------------------------------------------
(* Stored data *)

(***************************************************************************)
(* diskRecord.  A key missing from the bucket is a record in state         *)
(* "absent".  lastNackHash is the request it was computed from; Reason is  *)
(* that request's reason.                                                  *)
(***************************************************************************)
Record == [state : {"absent", "ready", "leased", "quarantined", "completed"},
           event : Payloads \cup {NoPayload}, hash : Payloads \cup {NoPayload},
           seq : Nat, attempt : Nat, due : Nat, token : Nat,
           lastNackToken : Nat, lastNackHash : NackRequests \cup {NoNack}]

Absent == [state |-> "absent", event |-> NoPayload, hash |-> NoPayload,
           seq |-> 0, attempt |-> 0, due |-> 0, token |-> NoToken,
           lastNackToken |-> NoToken, lastNackHash |-> NoNack]

(* A bucket entry: indexKey(due, seq) mapped to an event ID. *)
Entry == [due : Nat, seq : Nat, id : EventIDs]

Stats == [ready : Int, leased : Int, quarantined : Int, completed : Int,
          logicalBytes : Int, accepted : Nat, acked : Nat,
          deliveries : Nat, redeliveries : Nat]

Database == [records : [EventIDs -> Record],
             ready : SUBSET Entry, leases : SUBSET Entry,
             completions : SUBSET Entry,
             sequence : Nat, stats : Stats]

(* A delivery as its consumer knows it, and the outcome the broker confirmed. *)
Grant == [id : EventIDs, expires : Nat, outcome : {"open", "acked", "nacked"},
          request : NackRequests \cup {NoNack}, until : Nat]

-----------------------------------------------------------------------------
(* Buckets *)

(* Mutant: the index key is the due time alone. *)
SameKey_DueOnly(e, f) == e.due = f.due

SameKey(e, f) == e.due = f.due /\ e.seq = f.seq
KeyLess(e, f) == e.due < f.due \/ (e.due = f.due /\ e.seq < f.seq)

Key(r, id) == [due |-> r.due, seq |-> r.seq, id |-> id]

(* Deletes the keys of the entries es; puts the entries es, overwriting equal keys. *)
DeleteKeys(b, es) == {e \in b : \A f \in es : ~SameKey(e, f)}
PutEntries(b, es) == DeleteKeys(b, es) \cup es

(* The first entry in key order if it is due, as a set of at most one entry. *)
DueFirst(b, t) == {e \in b : e.due <= t /\ \A f \in b : ~KeyLess(f, e)}

(* Mutant: a lease or completion is due one tick early. *)
DueBatch_Early(b, t) ==
  {e \in b : e.due <= t + 1 /\ Cardinality({f \in b : KeyLess(f, e)}) < CleanupBatch}

(* What CleanupBatch rounds of DueFirst return when each removes its entry. *)
DueBatch(b, t) ==
  {e \in b : e.due <= t /\ Cardinality({f \in b : KeyLess(f, e)}) < CleanupBatch}

(* Steps shared by the transactions: database in, database out *)

(* Mutant: the token survives. *)
Reclaimed_KeepsToken(r, t) == [r EXCEPT !.state = "ready", !.due = t]

Reclaimed(r, t) == [r EXCEPT !.state = "ready", !.token = NoToken, !.due = t]

expireLeases(d, t) ==
  LET batch == DueBatch(d.leases, t)
      back  == {e.id : e \in batch}
  IN [d EXCEPT
       !.records = [id \in EventIDs |->
                      IF id \in back THEN Reclaimed(d.records[id], t) ELSE d.records[id]],
       !.leases = DeleteKeys(d.leases, batch),
       !.ready = PutEntries(d.ready, {[due |-> t, seq |-> d.records[id].seq, id |-> id] : id \in back}),
       !.stats = [d.stats EXCEPT !.leased = d.stats.leased - Cardinality(batch),
                                 !.ready = d.stats.ready + Cardinality(batch)]]

(* Mutant: the gauges are adjusted once per batch, not once per record. *)
removeCompleted_CountsOnce(d, ids) ==
  [d EXCEPT
    !.records = [id \in EventIDs |-> IF id \in ids THEN Absent ELSE d.records[id]],
    !.completions = DeleteKeys(d.completions, {Key(d.records[id], id) : id \in ids}),
    !.stats = [d.stats EXCEPT !.completed = d.stats.completed - 1,
                              !.logicalBytes = d.stats.logicalBytes - completedOverhead]]

removeCompleted(d, ids) ==
  [d EXCEPT
    !.records = [id \in EventIDs |-> IF id \in ids THEN Absent ELSE d.records[id]],
    !.completions = DeleteKeys(d.completions, {Key(d.records[id], id) : id \in ids}),
    !.stats = [d.stats EXCEPT !.completed = d.stats.completed - Cardinality(ids),
                              !.logicalBytes = d.stats.logicalBytes - completedOverhead * Cardinality(ids)]]

expireCompleted(d, t) ==
  removeCompleted(d, {e.id : e \in DueBatch(d.completions, t)})

-----------------------------------------------------------------------------
(* PublishContext *)

(* The database as the transaction sees it before it decides: expired       *)
(* completions are gone, the addressed one even when the batch missed it.   *)
PublishView(d, id, t) ==
  LET d1 == expireCompleted(d, t)
  IN IF d1.records[id].state = "completed" /\ d1.records[id].due <= t
     THEN removeCompleted(d1, {id})
     ELSE d1

ActiveCount(s) == s.ready + s.leased + s.quarantined

(* Mutant: the byte limit ignores what the new event adds. *)
Full_BytesBefore(s, p) ==
  \/ ActiveCount(s) >= Capacity
  \/ s.logicalBytes > MaxLogicalBytes

Full(s, p) ==
  \/ ActiveCount(s) >= Capacity
  \/ s.logicalBytes + Bytes[p] + activeOverhead > MaxLogicalBytes

(* Mutant: admission reserves no slot for the completion. *)
DedupFull_NoReserve(s) == s.completed >= DedupCapacity

DedupFull(s) == ActiveCount(s) + s.completed >= DedupCapacity

(* telemetry.Event.Validate *)
Valid(p) == p \notin Malformed

PublishAnswer(d, id, p, t) ==
  LET v == PublishView(d, id, t)
      r == v.records[id]
  IN IF ~Valid(p) \/ Bytes[p] > MaxPayloadBytes THEN "invalid"
     ELSE IF r.state # "absent" THEN (IF r.hash = p THEN "duplicate" ELSE "conflict")
     ELSE IF Full(v.stats, p) THEN "full"
     ELSE IF DedupFull(v.stats) THEN "dedup_full"
     ELSE "accepted"

(* bucket.NextSequence *)
NextSequence(d) == d.sequence + 1

Admit(d, id, p, t) ==
  LET q == NextSequence(d)
  IN [d EXCEPT
       !.sequence = q,
       !.records = [d.records EXCEPT ![id] =
          [Absent EXCEPT !.state = "ready", !.event = p, !.hash = p, !.seq = q, !.due = t]],
       !.ready = PutEntries(d.ready, {[due |-> t, seq |-> q, id |-> id]}),
       !.stats = [d.stats EXCEPT !.ready = d.stats.ready + 1,
                                 !.accepted = d.stats.accepted + 1,
                                 !.logicalBytes = d.stats.logicalBytes + Bytes[p] + activeOverhead]]

Publish(id, p) ==
  LET v == PublishView(db, id, now)
      a == PublishAnswer(db, id, p, now)
  IN /\ \/ /\ a = "accepted"
           /\ db.sequence < MaxAccepted
           /\ db' = Admit(v, id, p, now)
        \/ a = "duplicate" /\ db' = v      \* commits the expiry only
        \/ a \in {"invalid", "conflict", "full", "dedup_full"} /\ db' = db
     /\ UNCHANGED <<now, granted>>

-----------------------------------------------------------------------------
(* Lease: the transaction tryLease *)

(* The token telemetry.NewID draws never repeats: the number of the delivery. *)
NewToken(d) == d.stats.deliveries + 1

(* Mutant: the first delivery counts as a redelivery. *)
Redelivery_First(attempt) == IF attempt > 0 THEN 1 ELSE 0

Redelivery(attempt) == IF attempt > 1 THEN 1 ELSE 0

Checkout(d, id, t) ==
  LET r == d.records[id]
      u == [r EXCEPT !.state = "leased", !.token = NewToken(d),
                     !.due = t + LeaseDuration, !.attempt = r.attempt + 1,
                     !.lastNackToken = NoToken, !.lastNackHash = NoNack]
  IN [d EXCEPT
       !.records = [d.records EXCEPT ![id] = u],
       !.ready = DeleteKeys(d.ready, {Key(r, id)}),
       !.leases = PutEntries(d.leases, {Key(u, id)}),
       !.stats = [d.stats EXCEPT !.ready = d.stats.ready - 1,
                                 !.leased = d.stats.leased + 1,
                                 !.deliveries = d.stats.deliveries + 1,
                                 !.redeliveries = d.stats.redeliveries + Redelivery(u.attempt)]]

(* Without a due event the transaction fails with errNoReady and is rolled  *)
(* back, the leases it expired included.                                    *)
LeaseAnswer(d, t) ==
  IF DueFirst(expireLeases(d, t).ready, t) = {} THEN "none" ELSE "delivery"

LeasedID(d, t) == (CHOOSE e \in DueFirst(expireLeases(d, t).ready, t) : TRUE).id

Lease ==
  LET v  == expireLeases(db, now)
      id == LeasedID(db, now)
  IN \/ /\ LeaseAnswer(db, now) = "delivery"
        /\ db.stats.deliveries < MaxDeliveries
        /\ db' = Checkout(v, id, now)
        /\ granted' = Append(granted,
                        [id |-> id, expires |-> now + LeaseDuration, outcome |-> "open",
                         request |-> NoNack, until |-> 0])
        /\ UNCHANGED now
     \/ LeaseAnswer(db, now) = "none" /\ UNCHANGED vars

-----------------------------------------------------------------------------
(* Ack *)

(* Mutant: the token is not compared. *)
HoldsLease_AnyToken(r, token, t) == r.state = "leased" /\ r.due > t

HoldsLease(r, token, t) == r.state = "leased" /\ r.token = token /\ r.due > t

AckAnswer(d, id, token, t) ==
  LET r == d.records[id]
  IN IF r.state = "completed" /\ r.token = token /\ r.due > t THEN "duplicate"
     ELSE IF HoldsLease(r, token, t) THEN "completed"
     ELSE "stale"

(* Mutant: the completion that remains is not charged. *)
Refund_All(p) == Bytes[p] + activeOverhead

(* What an ACK gives back of the charge made at admission. *)
Refund(p) == Bytes[p] + activeOverhead - completedOverhead

Complete(d, id, t) ==
  LET r == d.records[id]
      u == [r EXCEPT !.state = "completed", !.event = NoPayload, !.due = t + CompletionTTL]
  IN [d EXCEPT
       !.records = [d.records EXCEPT ![id] = u],
       !.leases = DeleteKeys(d.leases, {Key(r, id)}),
       !.completions = PutEntries(d.completions, {Key(u, id)}),
       !.stats = [d.stats EXCEPT !.leased = d.stats.leased - 1,
                                 !.completed = d.stats.completed + 1,
                                 !.acked = d.stats.acked + 1,
                                 !.logicalBytes = d.stats.logicalBytes - Refund(r.event)]]

Ack(id, token) ==
  \/ /\ AckAnswer(db, id, token, now) = "completed"
     /\ db' = Complete(db, id, now)
     /\ granted' = [granted EXCEPT ![token].outcome = "acked",
                                   ![token].until = now + CompletionTTL]
     /\ UNCHANGED now
  \/ AckAnswer(db, id, token, now) \in {"duplicate", "stale"} /\ UNCHANGED vars

-----------------------------------------------------------------------------
(* Nack *)

ValidNack(n) == n.delay <= MaxNackDelay /\ (n.permanent => n.delay = 0)

(* Mutant: a repetition is recognised only for events that went back. *)
RepeatsNack_ReadyOnly(r, token) == r.state = "ready" /\ r.lastNackToken = token

RepeatsNack(r, token) == r.state \in {"ready", "quarantined"} /\ r.lastNackToken = token

NackAnswer(d, id, token, n, t) ==
  LET r == d.records[id]
  IN IF ~ValidNack(n) THEN "invalid"
     ELSE IF RepeatsNack(r, token) THEN (IF r.lastNackHash = n THEN "duplicate" ELSE "conflict")
     ELSE IF ~HoldsLease(r, token, t) THEN "stale"
     ELSE IF n.permanent /\ d.stats.quarantined >= QuarantineCapacity THEN "full"
     ELSE IF n.permanent THEN "quarantined" ELSE "returned"

(* Mutant: the attempts start over. *)
Rejected_ResetsAttempt(r, token, n, state, due) ==
  [r EXCEPT !.state = state, !.due = due, !.token = NoToken, !.attempt = 1,
            !.lastNackToken = token, !.lastNackHash = n]

(* The record both kinds of NACK leave; the caller sets its state and due time. *)
Rejected(r, token, n, state, due) ==
  [r EXCEPT !.state = state, !.due = due, !.token = NoToken,
            !.lastNackToken = token, !.lastNackHash = n]

RetryAt(n, t) == t + n.delay

Return(d, id, token, n, t) ==
  LET r == d.records[id]
      u == Rejected(r, token, n, "ready", RetryAt(n, t))
  IN [d EXCEPT
       !.records = [d.records EXCEPT ![id] = u],
       !.leases = DeleteKeys(d.leases, {Key(r, id)}),
       !.ready = PutEntries(d.ready, {Key(u, id)}),
       !.stats = [d.stats EXCEPT !.leased = d.stats.leased - 1,
                                 !.ready = d.stats.ready + 1]]

Quarantine(d, id, token, n) ==
  LET r == d.records[id]
  IN [d EXCEPT
       !.records = [d.records EXCEPT ![id] = Rejected(r, token, n, "quarantined", 0)],
       !.leases = DeleteKeys(d.leases, {Key(r, id)}),
       !.stats = [d.stats EXCEPT !.leased = d.stats.leased - 1,
                                 !.quarantined = d.stats.quarantined + 1]]

Nack(id, token, n) ==
  LET a == NackAnswer(db, id, token, n, now)
  IN \/ /\ \/ a = "returned" /\ db' = Return(db, id, token, n, now)
           \/ a = "quarantined" /\ db' = Quarantine(db, id, token, n)
        /\ granted' = [granted EXCEPT ![token].outcome = "nacked", ![token].request = n]
        /\ UNCHANGED now
     \/ a \in {"invalid", "duplicate", "conflict", "stale", "full"} /\ UNCHANGED vars

-----------------------------------------------------------------------------
(* The cleanup worker, the clock, and the system *)

(* Mutant: the probe looks at the completions only. *)
Expired_NoLeases(d, t) == DueFirst(d.completions, t) # {}

Expired(d, t) == DueFirst(d.leases, t) # {} \/ DueFirst(d.completions, t) # {}

(* Cleanup writes only when its read-only probe finds something due; both   *)
(* batches then commit together.  Probe and update are two transactions:    *)
(* when the second finds nothing due any more it changes nothing.           *)
Cleanup ==
  /\ Expired(db, now)
  /\ db' = expireCompleted(expireLeases(db, now), now)
  /\ UNCHANGED <<now, granted>>

(* Wall time passes, or is stepped by time synchronisation. *)
Tick ==
  /\ \E s \in ClockSteps : now + s \in 0 .. MaxNow /\ now' = now + s
  /\ UNCHANGED <<db, granted>>

EmptyDatabase ==
  [records |-> [id \in EventIDs |-> Absent],
   ready |-> {}, leases |-> {}, completions |-> {}, sequence |-> 0,
   stats |-> [ready |-> 0, leased |-> 0, quarantined |-> 0, completed |-> 0,
              logicalBytes |-> 0, accepted |-> 0, acked |-> 0,
              deliveries |-> 0, redeliveries |-> 0]]

Init == db = EmptyDatabase /\ now = 0 /\ granted = <<>>

Next ==
  \/ \E id \in EventIDs, p \in Payloads : Publish(id, p)
  \/ Lease
  \/ \E id \in EventIDs, token \in DOMAIN granted : Ack(id, token)
  \/ \E id \in EventIDs, token \in DOMAIN granted, n \in NackRequests : Nack(id, token, n)
  \/ Cleanup
  \/ Tick

(* The ticker goroutine of OpenDurable runs Cleanup again and again. *)
Spec == Init /\ [][Next]_vars
LiveSpec == Spec /\ WF_vars(Cleanup)

-----------------------------------------------------------------------------
(* Correctness *)

InState(d, states) == {id \in EventIDs : d.records[id].state \in states}

ActiveStates == {"ready", "leased", "quarantined"}
Active(d) == InState(d, ActiveStates)
Present(d) == InState(d, ActiveStates \cup {"completed"})

Index(d, state) == {Key(d.records[id], id) : id \in InState(d, {state})}

(* Every variable stays within its type; the clock never runs negative. *)
TypeOK ==
  /\ db \in Database
  /\ now \in Nat
  /\ granted \in Seq(Grant)

(* Each of the three bucket indexes lists exactly the records in its state, *)
(* under the record's current due time and sequence number.  An orphaned or *)
(* missing entry would leave an event undeliverable or delivered twice.     *)
IndexesMatch ==
  /\ db.ready = Index(db, "ready")
  /\ db.leases = Index(db, "leased")
  /\ db.completions = Index(db, "completed")

(* Sequence numbers identify records, so no two records share an index key  *)
(* and a put never overwrites another event's entry.                        *)
SequencesUnique ==
  /\ \A id \in Present(db) : db.records[id].seq \in 1 .. db.sequence
  /\ \A a, b \in Present(db) : db.records[a].seq = db.records[b].seq => a = b

(* The persisted gauges, adjusted one operation at a time over restarts,    *)
(* equal the number of records in each state.                               *)
CountersMatch ==
  /\ db.stats.ready = Cardinality(InState(db, {"ready"}))
  /\ db.stats.leased = Cardinality(InState(db, {"leased"}))
  /\ db.stats.quarantined = Cardinality(InState(db, {"quarantined"}))
  /\ db.stats.completed = Cardinality(InState(db, {"completed"}))

(* The bytes of the contents the broker holds, one element for each. *)
Content(id, p) == {<<id, k>> : k \in 1 .. Bytes[p]}
StoredBytes(d) == UNION {Content(id, d.records[id].event) : id \in Active(d)}

(* LogicalBytes is what the stored records are charged, a fixed sum for     *)
(* each and the length of every content still held: ACK and removal return  *)
(* exactly what admission took.                                             *)
BytesMatch ==
  db.stats.logicalBytes =
    completedOverhead * Cardinality(InState(db, {"completed"}))
      + activeOverhead * Cardinality(Active(db)) + Cardinality(StoredBytes(db))

(* No configured limit is ever exceeded.  Admission reserves a completion   *)
(* slot per event, so ACK, which checks nothing, cannot break the bounds.   *)
WithinLimits ==
  /\ ActiveCount(db.stats) <= Capacity
  /\ ActiveCount(db.stats) + db.stats.completed <= DedupCapacity
  /\ db.stats.quarantined <= QuarantineCapacity
  /\ db.stats.logicalBytes <= MaxLogicalBytes

(* The cumulative counters balance: every accepted event is still active or *)
(* was acknowledged exactly once, and every first delivery belongs to an    *)
(* acknowledged event or to an active one that was attempted.               *)
LedgerBalances ==
  /\ db.stats.accepted = ActiveCount(db.stats) + db.stats.acked
  /\ db.stats.deliveries - db.stats.redeliveries =
       db.stats.acked + Cardinality({id \in Active(db) : db.records[id].attempt > 0})

(* Fencing: the token that may settle an event is the one of its latest     *)
(* delivery, for as long as the broker told that consumer.  A superseded    *)
(* token, or the token of another event, never settles anything.            *)
TokensFenced ==
  \A id \in EventIDs : db.records[id].state = "leased" =>
    LET r == db.records[id] IN
    /\ r.token \in DOMAIN granted
    /\ granted[r.token] = [id |-> id, expires |-> r.due, outcome |-> "open",
                           request |-> NoNack, until |-> 0]
    /\ \A u \in DOMAIN granted : granted[u].id = id => u <= r.token

(* While the clock only advances, an unexpired unsettled delivery still     *)
(* owns its event, however many other requests were served meanwhile: no    *)
(* overlapping valid leases (docs/DAY2_PROTOCOL.md:45).                     *)
LeaseHonoured ==
  \A token \in DOMAIN granted :
    granted[token].outcome = "open" /\ granted[token].expires > now
      => AckAnswer(db, granted[token].id, token, now) = "completed"

(* While the clock only advances, an ACK whose reply was lost is answered   *)
(* as a duplicate for the whole completion TTL.                             *)
AckRetrySafe ==
  \A token \in DOMAIN granted :
    granted[token].outcome = "acked" /\ granted[token].until > now
      => AckAnswer(db, granted[token].id, token, now) = "duplicate"

(* Receipts are honoured: what a consumer was told of its lease and of its  *)
(* ACK stays true for as long as it was told so.                            *)
ReceiptsHonoured == LeaseHonoured /\ AckRetrySafe

LatestDelivery(token) ==
  \A u \in DOMAIN granted : granted[u].id = granted[token].id => u <= token

(* A NACK whose reply was lost may be repeated until the event is delivered *)
(* again: the same request is a duplicate, any other one a conflict.        *)
NackRetrySafe ==
  \A token \in DOMAIN granted :
    granted[token].outcome = "nacked" /\ LatestDelivery(token) =>
      \A n \in NackRequests : ValidNack(n) =>
        NackAnswer(db, granted[token].id, token, n, now) =
          IF n = granted[token].request THEN "duplicate" ELSE "conflict"

(* What a step from d and g to r and h at time t may do to active events    *)
(* and to completed ones.                                                   *)
ActiveKept(d, g, r, h, t) ==
  \A id \in Active(d) :
    LET o == d.records[id]  s == r.records[id] IN
    /\ s.seq = o.seq /\ s.hash = o.hash
    /\ \/ /\ id \in Active(r) /\ s.event = o.event
          /\ s.attempt = o.attempt +
               Cardinality({u \in DOMAIN h \ DOMAIN g : h[u].id = id})
       \/ /\ s.state = "completed" /\ HoldsLease(o, s.token, t)
          /\ s.attempt = o.attempt

CompletedKept(d, r, t) ==
  \A id \in InState(d, {"completed"}) :
    \/ r.records[id] = d.records[id]
    \/ /\ d.records[id].due <= t
       /\ r.records[id] = Absent \/ r.records[id].seq > d.sequence

(* An accepted event is never dropped, altered or renumbered: it stays      *)
(* active until the holder of its unexpired lease acknowledges it, and      *)
(* its attempt count grows exactly with its deliveries.                     *)
NothingLost == [][ActiveKept(db, granted, db', granted', now)]_vars

(* A completed identity keeps rejecting republication until its TTL is over *)
(* and is never revived: the next record of that event is a new admission.  *)
CompletionRetained == [][CompletedKept(db, db', now)]_vars

(* No step of the broker loses, alters or revives a record. *)
RecordsKept == NothingLost /\ CompletionRetained

Overdue(id) ==
  db.records[id].state \in {"leased", "completed"} /\ db.records[id].due <= now

(* An expired lease is eventually taken back and an expired completion      *)
(* forgotten, also by a broker that serves nobody and sweeps CleanupBatch   *)
(* entries at a time.                                                       *)
ExpiredSwept == \A id \in EventIDs : Overdue(id) ~> ~Overdue(id)

-----------------------------------------------------------------------------
(* The promise the broker implements *)

AbsStatus(r) ==
  CASE r.state = "absent"      -> "unknown"
    [] r.state = "ready"       -> "waiting"
    [] r.state = "leased"      -> "held"
    [] r.state = "quarantined" -> "parked"
    [] r.state = "completed"   -> "done"

Promise == INSTANCE ReliableQueue WITH
  Limit   <- Capacity,
  status  <- [id \in EventIDs |-> AbsStatus(db.records[id])],
  content <- [id \in EventIDs |-> db.records[id].hash],
  holder  <- [id \in EventIDs |-> db.records[id].token],
  issued  <- db.stats.deliveries

(* The broker implements ReliableQueue: under every interleaving of requests, *)
(* retries, expiry and clock jumps a transaction is one promised step.        *)
Reliable == Promise!AbsSpec

=============================================================================
