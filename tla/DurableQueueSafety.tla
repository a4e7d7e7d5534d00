------------------------- MODULE DurableQueueSafety -------------------------
(***************************************************************************)
(* What the broker of durable.go keeps over time, proved for every value   *)
(* of the constants: fencing of tokens, retries of lost replies, the       *)
(* cumulative counters, the bytes charged, the fate of every record, and   *)
(* the refinement of ReliableQueue.                                        *)
(*                                                                         *)
(* Every transaction is first shown to be one of five moves, which speak   *)
(* of the records, the deliveries, the counters and the account and no     *)
(* longer of buckets and gauges.  Each result then follows move by move.   *)
(***************************************************************************)
EXTENDS DurableQueueProofs

USE DEF NoToken

-----------------------------------------------------------------------------
(* The five moves: database d and deliveries g become r and h at time t *)

Due(d, st, t) == {id \in EventIDs : d.records[id].state = st /\ d.records[id].due <= t}

SweptRecords(d, back, gone, t) ==
  [id \in EventIDs |-> IF id \in back THEN Reclaimed(d.records[id], t)
                       ELSE IF id \in gone THEN Absent ELSE d.records[id]]

(* What accepting a, acknowledging k, delivering n events, m of them again, *)
(* does to the counters.                                                    *)
Tally(d, r, a, k, n, m) ==
  /\ r.stats.accepted = d.stats.accepted + a
  /\ ActiveCount(r.stats) = ActiveCount(d.stats) + a - k
  /\ r.stats.acked = d.stats.acked + k
  /\ r.stats.deliveries = d.stats.deliveries + n
  /\ r.stats.redeliveries = d.stats.redeliveries + m

(* What is left of the bytes charged once every record's fixed part is      *)
(* taken off, and how a step changes it.                                    *)
Account(s) ==
  s.logicalBytes - completedOverhead * s.completed - activeOverhead * ActiveCount(s)

Billed(d, r, b) == Account(r.stats) = Account(d.stats) + b

Admitted(p, q, t) ==
  [Absent EXCEPT !.state = "ready", !.event = p, !.hash = p, !.seq = q, !.due = t]

HandedOut(o, k, t) ==
  [o EXCEPT !.state = "leased", !.token = k, !.due = t + LeaseDuration,
            !.attempt = o.attempt + 1, !.lastNackToken = NoToken, !.lastNackHash = NoNack]

Acknowledged(o, t) ==
  [o EXCEPT !.state = "completed", !.event = NoPayload, !.due = t + CompletionTTL]

NewGrant(id, t) ==
  [id |-> id, expires |-> t + LeaseDuration, outcome |-> "open",
   request |-> NoNack, until |-> 0]

SweepMove(d, g, r, h, t) ==
  \E back \in SUBSET Due(d, "leased", t), gone \in SUBSET Due(d, "completed", t) :
    /\ r.records = SweptRecords(d, back, gone, t)
    /\ Tally(d, r, 0, 0, 0, 0)
    /\ h = g

AcceptMove(d, g, r, h, t) ==
  \E gone \in SUBSET Due(d, "completed", t), id \in EventIDs, p \in Payloads :
    LET v == SweptRecords(d, {}, gone, t) IN
    /\ v[id].state = "absent"
    /\ ActiveCount(d.stats) < Capacity
    /\ r.records = [v EXCEPT ![id] = Admitted(p, d.sequence + 1, t)]
    /\ Tally(d, r, 1, 0, 0, 0)
    /\ h = g

DeliverMove(d, g, r, h, t) ==
  \E back \in SUBSET Due(d, "leased", t), id \in EventIDs :
    LET v == SweptRecords(d, back, {}, t) IN
    /\ v[id].state = "ready"
    /\ r.records = [v EXCEPT ![id] = HandedOut(v[id], d.stats.deliveries + 1, t)]
    /\ Tally(d, r, 0, 0, 1, Redelivery(v[id].attempt + 1))
    /\ h = Append(g, NewGrant(id, t))

AckMove(d, g, r, h, t) ==
  \E id \in EventIDs, token \in DOMAIN g :
    /\ HoldsLease(d.records[id], token, t)
    /\ r.records = [d.records EXCEPT ![id] = Acknowledged(d.records[id], t)]
    /\ Tally(d, r, 0, 1, 0, 0)
    /\ h = [g EXCEPT ![token].outcome = "acked", ![token].until = t + CompletionTTL]

NackMove(d, g, r, h, t) ==
  \E id \in EventIDs, token \in DOMAIN g, n \in NackRequests,
     st \in {"ready", "quarantined"}, due \in Nat :
    /\ HoldsLease(d.records[id], token, t)
    /\ r.records = [d.records EXCEPT ![id] = Rejected(d.records[id], token, n, st, due)]
    /\ Tally(d, r, 0, 0, 0, 0)
    /\ h = [g EXCEPT ![token].outcome = "nacked", ![token].request = n]

-----------------------------------------------------------------------------
(* What the steps inside a transaction do to records and counters *)

(* A sweep of a bucket takes only records that are due. *)
LEMMA BatchIsDue ==
  ASSUME NEW d, DBInv(d), NEW t \in Nat, NEW st \in Indexed
  PROVE  {e.id : e \in DueBatch(Bucket(d, st), t)} \in SUBSET Due(d, st, t)
<1> SUFFICES ASSUME NEW e \in DueBatch(Bucket(d, st), t) PROVE e.id \in Due(d, st, t)
  OBVIOUS
<1>1. e \in Index(d, st) /\ e.due <= t
  BY DEF DueBatch, DBInv, IndexOK
<1>2. PICK id \in InState(d, {st}) : e = Key(d.records[id], id)
  BY <1>1 DEF Index
<1>3. e.id = id /\ e.due = d.records[id].due
  BY <1>2 DEF Key
<1> QED BY <1>1, <1>2, <1>3 DEF InState, Due

(* Numbers are typed in every database. *)
LEMMA StatsNumbers ==
  ASSUME NEW d \in Database
  PROVE  /\ d.stats \in Stats /\ d.records \in [EventIDs -> Record] /\ d.sequence \in Nat
         /\ d.stats.ready \in Int /\ d.stats.leased \in Int /\ d.stats.quarantined \in Int
         /\ d.stats.completed \in Int /\ d.stats.logicalBytes \in Int
         /\ d.stats.accepted \in Nat /\ d.stats.acked \in Nat
         /\ d.stats.deliveries \in Nat /\ d.stats.redeliveries \in Nat
         /\ ActiveCount(d.stats) \in Int
<1>1. d.stats \in Stats /\ d.records \in [EventIDs -> Record] /\ d.sequence \in Nat
  BY DEF Database
<1>2. /\ d.stats.ready \in Int /\ d.stats.leased \in Int /\ d.stats.quarantined \in Int
      /\ d.stats.completed \in Int /\ d.stats.logicalBytes \in Int
      /\ d.stats.accepted \in Nat /\ d.stats.acked \in Nat
      /\ d.stats.deliveries \in Nat /\ d.stats.redeliveries \in Nat
  BY <1>1 DEF Stats
<1> QED BY <1>1, <1>2 DEF ActiveCount

LEMMA ExpireLeasesMove ==
  ASSUME NEW d, DBInv(d), NEW t \in Nat
  PROVE  /\ \E back \in SUBSET Due(d, "leased", t) :
              /\ expireLeases(d, t).records = SweptRecords(d, back, {}, t)
              /\ Tally(d, expireLeases(d, t), 0, 0, 0, 0)
         /\ Billed(d, expireLeases(d, t), 0)
<1> DEFINE r == expireLeases(d, t)
           batch == DueBatch(d.leases, t)
           back == {e.id : e \in batch}
           n == Cardinality(batch)
<1>1. "leased" \in Indexed /\ Bucket(d, "leased") = d.leases
  BY DEF Indexed, Bucket
<1>2. back \in SUBSET Due(d, "leased", t) /\ n \in Nat
  BY <1>1, BatchIsDue, BatchOfState
<1>3. /\ r.records = [id \in EventIDs |->
           IF id \in back
           THEN [d.records[id] EXCEPT !.state = "ready", !.token = NoToken, !.due = t]
           ELSE d.records[id]]
      /\ r.stats = [d.stats EXCEPT !.leased = d.stats.leased - n,
                                   !.ready = d.stats.ready + n]
  BY ExpireLeasesFields
<1> HIDE DEF r, back, n
<1>4. r.records = SweptRecords(d, back, {}, t)
  BY <1>3 DEF SweptRecords, Reclaimed
<1>5. Tally(d, r, 0, 0, 0, 0) /\ Billed(d, r, 0)
  <2> DEFINE x == d.stats.leased - n
             y == d.stats.ready + n
  <2>0. d \in Database
    BY DEF DBInv
  <2>1. d.stats \in Stats
    BY <2>0, StatsNumbers
  <2>2. r.stats = [d.stats EXCEPT !.leased = x, !.ready = y]
    BY <1>3
  <2> HIDE DEF x, y
  <2>3. /\ r.stats.leased = x /\ r.stats.ready = y
        /\ r.stats.quarantined = d.stats.quarantined
        /\ r.stats.accepted = d.stats.accepted /\ r.stats.acked = d.stats.acked
        /\ r.stats.deliveries = d.stats.deliveries
        /\ r.stats.redeliveries = d.stats.redeliveries
        /\ r.stats.completed = d.stats.completed /\ r.stats.logicalBytes = d.stats.logicalBytes
    BY <2>1, <2>2 DEF Stats
  <2>4. ActiveCount(r.stats) = ActiveCount(d.stats)
    BY <1>2, <2>0, <2>3, StatsNumbers DEF ActiveCount, x, y
  <2>5. Billed(d, r, 0)
    BY <2>0, <2>3, <2>4, StatsNumbers DEF Billed, Account, completedOverhead, activeOverhead
  <2> QED BY <2>0, <2>3, <2>4, <2>5, StatsNumbers DEF Tally
<1> QED BY <1>2, <1>4, <1>5 DEF r

LEMMA RemoveCompletedMove ==
  ASSUME NEW d \in Database, NEW S \in SUBSET EventIDs
  PROVE  /\ removeCompleted(d, S).records
              = [id \in EventIDs |-> IF id \in S THEN Absent ELSE d.records[id]]
         /\ removeCompleted(d, S).sequence = d.sequence
         /\ Tally(d, removeCompleted(d, S), 0, 0, 0, 0)
         /\ Billed(d, removeCompleted(d, S), 0)
<1> DEFINE A == [id \in EventIDs |-> IF id \in S THEN Absent ELSE d.records[id]]
           B == DeleteKeys(d.completions, {Key(d.records[id], id) : id \in S})
           x == d.stats.completed - Cardinality(S)
           y == d.stats.logicalBytes - completedOverhead * Cardinality(S)
           D == [d.stats EXCEPT !.completed = x, !.logicalBytes = y]
           r == [d EXCEPT !.records = A, !.completions = B, !.stats = D]
<1>1. removeCompleted(d, S) = r
  BY Zenon DEF removeCompleted
<1>2. r.records = A /\ r.stats = D /\ r.sequence = d.sequence
  <2> HIDE DEF A, B, D
  <2> QED BY DEF Database
<1>3. /\ D.leased = d.stats.leased /\ D.ready = d.stats.ready
      /\ D.quarantined = d.stats.quarantined
      /\ D.accepted = d.stats.accepted /\ D.acked = d.stats.acked
      /\ D.deliveries = d.stats.deliveries /\ D.redeliveries = d.stats.redeliveries
      /\ D.completed = x /\ D.logicalBytes = y
  <2> HIDE DEF x, y
  <2> QED BY StatsNumbers DEF Stats
<1> HIDE DEF r, D
<1>4. ActiveCount(r.stats) = ActiveCount(d.stats)
  BY <1>2, <1>3 DEF ActiveCount
<1>5. Tally(d, r, 0, 0, 0, 0)
  BY <1>2, <1>3, <1>4, StatsNumbers DEF Tally
<1>6. Billed(d, r, 0)
  <2> DEFINE n == Cardinality(S)
  <2>1. n \in Nat
    BY FS_Subset, FS_CardinalityType, InputsAssumption
  <2>2. r.stats.completed = d.stats.completed - n
        /\ r.stats.logicalBytes = d.stats.logicalBytes - completedOverhead * n
    BY <1>2, <1>3
  <2> HIDE DEF n
  <2> QED BY <1>4, <2>1, <2>2, StatsNumbers DEF Billed, Account, completedOverhead, activeOverhead
<1> QED BY <1>1, <1>2, <1>5, <1>6, Zenon

LEMMA ExpireCompletedMove ==
  ASSUME NEW d, DBInv(d), NEW t \in Nat
  PROVE  /\ \E gone \in SUBSET Due(d, "completed", t) :
              /\ expireCompleted(d, t).records = SweptRecords(d, {}, gone, t)
              /\ expireCompleted(d, t).sequence = d.sequence
              /\ Tally(d, expireCompleted(d, t), 0, 0, 0, 0)
         /\ Billed(d, expireCompleted(d, t), 0)
<1> DEFINE gone == {e.id : e \in DueBatch(d.completions, t)}
<1>1. "completed" \in Indexed /\ Bucket(d, "completed") = d.completions
  BY DEF Indexed, Bucket
<1>2. gone \in SUBSET Due(d, "completed", t)
  BY <1>1, BatchIsDue
<1>3. expireCompleted(d, t) = removeCompleted(d, gone)
  BY DEF expireCompleted
<1> HIDE DEF gone
<1>4. d \in Database /\ gone \in SUBSET EventIDs
  BY <1>2 DEF DBInv, Due
<1>5. SweptRecords(d, {}, gone, t)
        = [id \in EventIDs |-> IF id \in gone THEN Absent ELSE d.records[id]]
  BY DEF SweptRecords
<1> QED BY <1>2, <1>3, <1>4, <1>5, RemoveCompletedMove

(* The view of PublishContext: some lapsed completions are forgotten. *)
LEMMA PublishViewMove ==
  ASSUME NEW d, DBInv(d), LimitsOK(d), NEW t \in Nat, NEW id \in EventIDs
  PROVE  /\ \E gone \in SUBSET Due(d, "completed", t) :
              /\ PublishView(d, id, t).records = SweptRecords(d, {}, gone, t)
              /\ PublishView(d, id, t).sequence = d.sequence
              /\ Tally(d, PublishView(d, id, t), 0, 0, 0, 0)
         /\ Billed(d, PublishView(d, id, t), 0)
<1> DEFINE e == expireCompleted(d, t)
<1>1. PICK gone \in SUBSET Due(d, "completed", t) :
        /\ e.records = SweptRecords(d, {}, gone, t)
        /\ e.sequence = d.sequence
        /\ Tally(d, e, 0, 0, 0, 0)
  BY ExpireCompletedMove
<1>b. Billed(d, e, 0)
  BY ExpireCompletedMove
<1>2. DBInv(e)
  BY ExpireCompletedInv
<1>3. PublishView(d, id, t) = IF e.records[id].state = "completed" /\ e.records[id].due <= t
                              THEN removeCompleted(e, {id}) ELSE e
  BY DEF PublishView
<1> HIDE DEF e
<1>4. d \in Database /\ e \in Database
  BY <1>2 DEF DBInv
<1>5. CASE e.records[id].state = "completed" /\ e.records[id].due <= t
  <2> DEFINE v == removeCompleted(e, {id})
             all == gone \cup {id}
  <2>1. /\ v.records = [o \in EventIDs |-> IF o \in {id} THEN Absent ELSE e.records[o]]
        /\ v.sequence = e.sequence
        /\ Tally(e, v, 0, 0, 0, 0)
        /\ Billed(e, v, 0)
    BY <1>4, RemoveCompletedMove
  <2> HIDE DEF v
  <2>2. id \notin gone
    BY <1>1, <1>5 DEF SweptRecords, Absent
  <2>3. e.records[id] = d.records[id]
    BY <1>1, <2>2 DEF SweptRecords
  <2>4. all \in SUBSET Due(d, "completed", t)
    BY <1>5, <2>3 DEF Due
  <2>5. v.records = SweptRecords(d, {}, all, t)
    BY <1>1, <2>1 DEF SweptRecords
  <2>6. Tally(d, v, 0, 0, 0, 0)
    BY <1>1, <1>4, <2>1, StatsNumbers DEF Tally
  <2>8. Billed(d, v, 0)
    <3>1. Account(d.stats) \in Int
      BY <1>4, StatsNumbers DEF Account, completedOverhead, activeOverhead
    <3> QED BY <1>b, <2>1, <3>1 DEF Billed
  <2>7. PublishView(d, id, t) = v
    BY <1>3, <1>5 DEF v
  <2> QED BY <1>1, <2>1, <2>4, <2>5, <2>6, <2>7, <2>8
<1>6. CASE ~(e.records[id].state = "completed" /\ e.records[id].due <= t)
  BY <1>1, <1>b, <1>3, <1>6
<1> QED BY <1>5, <1>6

LEMMA AdmitMove ==
  ASSUME NEW d \in Database, NEW id \in EventIDs, NEW p \in Payloads, NEW t \in Nat
  PROVE  /\ Admit(d, id, p, t).records
              = [d.records EXCEPT ![id] = Admitted(p, d.sequence + 1, t)]
         /\ Tally(d, Admit(d, id, p, t), 1, 0, 0, 0)
         /\ Billed(d, Admit(d, id, p, t), Bytes[p])
<1> DEFINE q == d.sequence + 1
           A == [d.records EXCEPT ![id] = Admitted(p, q, t)]
           B == PutEntries(d.ready, {[due |-> t, seq |-> q, id |-> id]})
           x == d.stats.ready + 1
           y == d.stats.accepted + 1
           z == d.stats.logicalBytes + Bytes[p] + activeOverhead
           D == [d.stats EXCEPT !.ready = x, !.accepted = y, !.logicalBytes = z]
           r == [d EXCEPT !.sequence = q, !.records = A, !.ready = B, !.stats = D]
<1>1. Admit(d, id, p, t) = r
  BY Zenon DEF Admit, NextSequence, Admitted
<1>2. r.records = A /\ r.stats = D
  <2> HIDE DEF q, A, B, D
  <2> QED BY DEF Database
<1>3. /\ D.ready = x /\ D.accepted = y
      /\ D.leased = d.stats.leased /\ D.quarantined = d.stats.quarantined
      /\ D.acked = d.stats.acked /\ D.deliveries = d.stats.deliveries
      /\ D.redeliveries = d.stats.redeliveries
      /\ D.completed = d.stats.completed /\ D.logicalBytes = z
  <2> HIDE DEF x, y, z
  <2> QED BY StatsNumbers DEF Stats
<1> HIDE DEF r, D
<1>4. Tally(d, r, 1, 0, 0, 0)
  <2> HIDE DEF A
  <2> QED BY <1>2, <1>3, StatsNumbers DEF Tally, ActiveCount
<1>5. Billed(d, r, Bytes[p])
  <2>1. Bytes[p] \in Nat
    BY InputsAssumption
  <2> HIDE DEF A
  <2> QED BY <1>2, <1>3, <2>1, StatsNumbers
          DEF Billed, Account, ActiveCount, completedOverhead, activeOverhead
<1> QED BY <1>1, <1>2, <1>4, <1>5, Zenon

LEMMA CheckoutMove ==
  ASSUME NEW d \in Database, NEW id \in EventIDs, NEW t \in Nat
  PROVE  /\ Checkout(d, id, t).records
              = [d.records EXCEPT ![id] =
                   HandedOut(d.records[id], d.stats.deliveries + 1, t)]
         /\ Tally(d, Checkout(d, id, t), 0, 0, 1, Redelivery(d.records[id].attempt + 1))
         /\ Billed(d, Checkout(d, id, t), 0)
<1> DEFINE o == d.records[id]
           m == o.attempt + 1
           u == [o EXCEPT !.state = "leased", !.token = NewToken(d),
                          !.due = t + LeaseDuration, !.attempt = m,
                          !.lastNackToken = NoToken, !.lastNackHash = NoNack]
           A == [d.records EXCEPT ![id] = u]
           B == DeleteKeys(d.ready, {Key(o, id)})
           C == PutEntries(d.leases, {Key(u, id)})
           x == d.stats.ready - 1
           y == d.stats.leased + 1
           z == d.stats.deliveries + 1
           w == d.stats.redeliveries + Redelivery(u.attempt)
           D == [d.stats EXCEPT !.ready = x, !.leased = y, !.deliveries = z, !.redeliveries = w]
           r == [d EXCEPT !.records = A, !.ready = B, !.leases = C, !.stats = D]
<1>1. Checkout(d, id, t) = r
  BY Zenon DEF Checkout
<1>2. u = HandedOut(o, d.stats.deliveries + 1, t)
  BY Zenon DEF HandedOut, NewToken
<1>3. o \in Record
  BY StatsNumbers
<1>4. u.attempt = m /\ m \in Nat
  <2>1. o.attempt \in Nat
    BY <1>3 DEF Record
  <2>2. m \in Nat
    BY <2>1
  <2> HIDE DEF o, m
  <2> QED BY <1>3, <2>2 DEF Record
<1>5. r.records = A /\ r.stats = D
  <2> HIDE DEF A, B, C, D
  <2> QED BY DEF Database
<1>6. /\ D.ready = x /\ D.leased = y /\ D.deliveries = z /\ D.redeliveries = w
      /\ D.quarantined = d.stats.quarantined
      /\ D.acked = d.stats.acked /\ D.accepted = d.stats.accepted
      /\ D.completed = d.stats.completed /\ D.logicalBytes = d.stats.logicalBytes
  <2> HIDE DEF x, y, z, w
  <2> QED BY StatsNumbers DEF Stats
<1> HIDE DEF r, D, u, m
<1>7. Tally(d, r, 0, 0, 1, Redelivery(m))
  <2> HIDE DEF A, B, C
  <2> QED BY <1>4, <1>5, <1>6, StatsNumbers DEF Tally, ActiveCount
<1>8. r.records = [d.records EXCEPT ![id] = HandedOut(o, d.stats.deliveries + 1, t)]
  BY <1>2, <1>5
<1>9. Tally(d, Checkout(d, id, t), 0, 0, 1, Redelivery(d.records[id].attempt + 1))
  BY <1>1, <1>7, Zenon DEF m
<1>10. Billed(d, r, 0)
  <2> HIDE DEF A, B, C
  <2> QED BY <1>5, <1>6, StatsNumbers
          DEF Billed, Account, ActiveCount, completedOverhead, activeOverhead
<1> QED BY <1>1, <1>8, <1>9, <1>10, Zenon

LEMMA CompleteMove ==
  ASSUME NEW d \in Database, NEW id \in EventIDs, NEW t \in Nat
  PROVE  /\ Complete(d, id, t).records
              = [d.records EXCEPT ![id] = Acknowledged(d.records[id], t)]
         /\ Tally(d, Complete(d, id, t), 0, 1, 0, 0)
         /\ d.records[id].event \in Payloads =>
              Billed(Complete(d, id, t), d, Bytes[d.records[id].event])
<1> DEFINE o == d.records[id]
           u == [o EXCEPT !.state = "completed", !.event = NoPayload,
                          !.due = t + CompletionTTL]
           A == [d.records EXCEPT ![id] = u]
           B == DeleteKeys(d.leases, {Key(o, id)})
           C == PutEntries(d.completions, {Key(u, id)})
           x == d.stats.leased - 1
           y == d.stats.completed + 1
           z == d.stats.acked + 1
           w == d.stats.logicalBytes - Refund(o.event)
           D == [d.stats EXCEPT !.leased = x, !.completed = y, !.acked = z, !.logicalBytes = w]
           r == [d EXCEPT !.records = A, !.leases = B, !.completions = C, !.stats = D]
<1>1. Complete(d, id, t) = r
  BY Zenon DEF Complete
<1>2. u = Acknowledged(o, t)
  BY Zenon DEF Acknowledged
<1>3. r.records = A /\ r.stats = D
  <2> HIDE DEF A, B, C, D
  <2> QED BY DEF Database
<1>4. /\ D.leased = x /\ D.acked = z
      /\ D.ready = d.stats.ready /\ D.quarantined = d.stats.quarantined
      /\ D.accepted = d.stats.accepted /\ D.deliveries = d.stats.deliveries
      /\ D.redeliveries = d.stats.redeliveries
      /\ D.completed = y /\ D.logicalBytes = w
  <2> HIDE DEF x, y, z, w
  <2> QED BY StatsNumbers DEF Stats
<1> HIDE DEF r, D, u
<1>5. Tally(d, r, 0, 1, 0, 0)
  <2> HIDE DEF A, B, C
  <2> QED BY <1>3, <1>4, StatsNumbers DEF Tally, ActiveCount
<1>6. ASSUME o.event \in Payloads PROVE Billed(r, d, Bytes[o.event])
  <2>1. Bytes[o.event] \in Nat
    BY <1>6, InputsAssumption
  <2> DEFINE b == Bytes[o.event]
  <2>2. /\ r.stats.leased = d.stats.leased - 1 /\ r.stats.completed = d.stats.completed + 1
        /\ r.stats.ready = d.stats.ready /\ r.stats.quarantined = d.stats.quarantined
        /\ r.stats.logicalBytes = d.stats.logicalBytes - (b + 4096 - 1024)
    BY <1>3, <1>4 DEF Refund, completedOverhead, activeOverhead
  <2>3. b \in Nat
    BY <2>1
  <2> HIDE DEF A, B, C, o, b
  <2>4. Account(d.stats) = Account(r.stats) + b
    <3>1. /\ d.stats.leased \in Int /\ d.stats.completed \in Int /\ d.stats.ready \in Int
          /\ d.stats.quarantined \in Int /\ d.stats.logicalBytes \in Int
      BY StatsNumbers
    <3>2. ActiveCount(d.stats) \in Int /\ ActiveCount(r.stats) = ActiveCount(d.stats) - 1
      BY <2>2, <3>1 DEF ActiveCount
    <3> QED BY <2>2, <2>3, <3>1, <3>2 DEF Account, completedOverhead, activeOverhead
  <2> QED BY <2>4 DEF Billed, b
<1> QED BY <1>1, <1>2, <1>3, <1>5, <1>6, Zenon

LEMMA ReturnMove ==
  ASSUME NEW d \in Database, NEW id \in EventIDs, NEW token, NEW n, NEW t \in Nat
  PROVE  /\ Return(d, id, token, n, t).records
              = [d.records EXCEPT ![id] =
                   Rejected(d.records[id], token, n, "ready", t + n.delay)]
         /\ Tally(d, Return(d, id, token, n, t), 0, 0, 0, 0)
         /\ Billed(d, Return(d, id, token, n, t), 0)
<1> DEFINE o == d.records[id]
           u == Rejected(o, token, n, "ready", t + n.delay)
           A == [d.records EXCEPT ![id] = u]
           B == DeleteKeys(d.leases, {Key(o, id)})
           C == PutEntries(d.ready, {Key(u, id)})
           x == d.stats.leased - 1
           y == d.stats.ready + 1
           D == [d.stats EXCEPT !.leased = x, !.ready = y]
           r == [d EXCEPT !.records = A, !.leases = B, !.ready = C, !.stats = D]
<1>1. Return(d, id, token, n, t) = r
  BY Zenon DEF Return, RetryAt
<1>2. r.records = A /\ r.stats = D
  <2> HIDE DEF A, B, C, D
  <2> QED BY DEF Database
<1>3. /\ D.leased = x /\ D.ready = y
      /\ D.acked = d.stats.acked /\ D.quarantined = d.stats.quarantined
      /\ D.accepted = d.stats.accepted /\ D.deliveries = d.stats.deliveries
      /\ D.redeliveries = d.stats.redeliveries
      /\ D.completed = d.stats.completed /\ D.logicalBytes = d.stats.logicalBytes
  <2> HIDE DEF x, y
  <2> QED BY StatsNumbers DEF Stats
<1> HIDE DEF r, D, u
<1>4. Tally(d, r, 0, 0, 0, 0)
  <2> HIDE DEF A, B, C
  <2> QED BY <1>2, <1>3, StatsNumbers DEF Tally, ActiveCount
<1>5. Billed(d, r, 0)
  <2> HIDE DEF A, B, C
  <2> QED BY <1>2, <1>3, StatsNumbers
          DEF Billed, Account, ActiveCount, completedOverhead, activeOverhead
<1> QED BY <1>1, <1>2, <1>4, <1>5, Zenon DEF u

LEMMA QuarantineMove ==
  ASSUME NEW d \in Database, NEW id \in EventIDs, NEW token, NEW n
  PROVE  /\ Quarantine(d, id, token, n).records
              = [d.records EXCEPT ![id] =
                   Rejected(d.records[id], token, n, "quarantined", 0)]
         /\ Tally(d, Quarantine(d, id, token, n), 0, 0, 0, 0)
         /\ Billed(d, Quarantine(d, id, token, n), 0)
<1> DEFINE o == d.records[id]
           u == Rejected(o, token, n, "quarantined", 0)
           A == [d.records EXCEPT ![id] = u]
           B == DeleteKeys(d.leases, {Key(o, id)})
           x == d.stats.leased - 1
           y == d.stats.quarantined + 1
           D == [d.stats EXCEPT !.leased = x, !.quarantined = y]
           r == [d EXCEPT !.records = A, !.leases = B, !.stats = D]
<1>1. Quarantine(d, id, token, n) = r
  BY Zenon DEF Quarantine
<1>2. r.records = A /\ r.stats = D
  <2> HIDE DEF A, B, D
  <2> QED BY DEF Database
<1>3. /\ D.leased = x /\ D.quarantined = y
      /\ D.acked = d.stats.acked /\ D.ready = d.stats.ready
      /\ D.accepted = d.stats.accepted /\ D.deliveries = d.stats.deliveries
      /\ D.redeliveries = d.stats.redeliveries
      /\ D.completed = d.stats.completed /\ D.logicalBytes = d.stats.logicalBytes
  <2> HIDE DEF x, y
  <2> QED BY StatsNumbers DEF Stats
<1> HIDE DEF r, D, u
<1>4. Tally(d, r, 0, 0, 0, 0)
  <2> HIDE DEF A, B
  <2> QED BY <1>2, <1>3, StatsNumbers DEF Tally, ActiveCount
<1>5. Billed(d, r, 0)
  <2> HIDE DEF A, B
  <2> QED BY <1>2, <1>3, StatsNumbers
          DEF Billed, Account, ActiveCount, completedOverhead, activeOverhead
<1> QED BY <1>1, <1>2, <1>4, <1>5, Zenon DEF u

-----------------------------------------------------------------------------
(* Every step is one of the moves *)

LEMMA TallyAfterSweep ==
  ASSUME NEW d \in Database, NEW v \in Database, NEW r,
         NEW a \in Nat, NEW k \in Nat, NEW n \in Nat, NEW m \in Nat,
         Tally(d, v, 0, 0, 0, 0), Tally(v, r, a, k, n, m)
  PROVE  Tally(d, r, a, k, n, m)
BY StatsNumbers DEF Tally

LEMMA NothingSwept ==
  ASSUME NEW d \in Database, NEW g, NEW t
  PROVE  SweepMove(d, g, d, g, t)
<1>1. d.records = SweptRecords(d, {}, {}, t)
  BY StatsNumbers DEF SweptRecords
<1>2. Tally(d, d, 0, 0, 0, 0)
  BY StatsNumbers DEF Tally
<1> QED BY <1>1, <1>2 DEF SweepMove

Move(d, g, r, h, t) ==
  \/ AcceptMove(d, g, r, h, t)
  \/ DeliverMove(d, g, r, h, t)
  \/ AckMove(d, g, r, h, t)
  \/ NackMove(d, g, r, h, t)

LEMMA StepIsMove ==
  ASSUME IInv, [Next]_vars
  PROVE  \/ SweepMove(db, granted, db', granted', now)
         \/ now' = now /\ Move(db, granted, db', granted', now)
<1> DEFINE Goal == \/ SweepMove(db, granted, db', granted', now)
                   \/ now' = now /\ Move(db, granted, db', granted', now)
<1>0. DBInv(db) /\ LimitsOK(db) /\ now \in Nat /\ granted \in Seq(Grant) /\ db \in Database
  BY DEF IInv, TypeOK
<1>u. ASSUME db' = db, granted' = granted PROVE Goal
  BY <1>0, <1>u, NothingSwept
<1>1. ASSUME NEW id \in EventIDs, NEW p \in Payloads, Publish(id, p) PROVE Goal
  <2> DEFINE v == PublishView(db, id, now)
             a == PublishAnswer(db, id, p, now)
  <2>1. PICK gone \in SUBSET Due(db, "completed", now) :
          /\ v.records = SweptRecords(db, {}, gone, now)
          /\ v.sequence = db.sequence
          /\ Tally(db, v, 0, 0, 0, 0)
    BY <1>0, PublishViewMove
  <2>2. v \in Database
    BY <1>0, PublishViewInv DEF DBInv
  <2>3. now' = now /\ granted' = granted
    BY <1>1 DEF Publish
  <2>4. CASE a = "accepted" /\ db' = Admit(v, id, p, now)
    <3>1. v.records[id].state = "absent" /\ ~Full(v.stats, p)
      BY <2>4 DEF PublishAnswer
    <3> HIDE DEF v
    <3>2. /\ db'.records = [v.records EXCEPT ![id] = Admitted(p, v.sequence + 1, now)]
          /\ Tally(v, db', 1, 0, 0, 0)
      BY <1>0, <2>2, <2>4, AdmitMove
    <3>3. Tally(db, db', 1, 0, 0, 0)
      BY <1>0, <2>1, <2>2, <3>2, TallyAfterSweep
    <3>4. ActiveCount(db.stats) < Capacity
      <4>1. ActiveCount(v.stats) = ActiveCount(db.stats)
        BY <1>0, <2>1, StatsNumbers DEF Tally
      <4> QED BY <1>0, <3>1, <4>1, StatsNumbers, OptionsAssumption DEF Full
    <3>5. AcceptMove(db, granted, db', granted', now)
      BY <2>1, <2>3, <3>1, <3>2, <3>3, <3>4 DEF AcceptMove
    <3> QED BY <2>3, <3>5 DEF Move
  <2>5. CASE db' = v
    <3> HIDE DEF v
    <3>1. db'.records = SweptRecords(db, {}, gone, now) /\ Tally(db, db', 0, 0, 0, 0)
      BY <2>1, <2>5
    <3> QED BY <2>3, <3>1 DEF SweepMove
  <2>6. CASE db' = db
    BY <1>u, <2>3, <2>6
  <2> QED BY <1>1, <2>4, <2>5, <2>6 DEF Publish
<1>2. ASSUME Lease PROVE Goal
  <2> DEFINE v == expireLeases(db, now)
             id == LeasedID(db, now)
  <2>1. CASE UNCHANGED vars
    BY <1>u, <2>1 DEF vars
  <2>2. CASE /\ LeaseAnswer(db, now) = "delivery"
             /\ db' = Checkout(v, id, now) /\ granted' = Append(granted, NewGrant(id, now))
             /\ UNCHANGED now
    <3>1. DBInv(v)
      BY <1>0, ExpireLeasesInv
    <3>2. id \in EventIDs /\ v.records[id].state = "ready"
      BY <1>0, <2>2, <3>1, LeasedIsReady
    <3>3. PICK back \in SUBSET Due(db, "leased", now) :
            /\ v.records = SweptRecords(db, back, {}, now)
            /\ Tally(db, v, 0, 0, 0, 0)
      BY <1>0, ExpireLeasesMove
    <3> HIDE DEF v, id
    <3>4. v \in Database
      BY <3>1 DEF DBInv
    <3>5. /\ db'.records = [v.records EXCEPT ![id] =
               HandedOut(v.records[id], v.stats.deliveries + 1, now)]
          /\ Tally(v, db', 0, 0, 1, Redelivery(v.records[id].attempt + 1))
      BY <1>0, <2>2, <3>2, <3>4, CheckoutMove
    <3>6. v.stats.deliveries = db.stats.deliveries
      BY <1>0, <3>3, StatsNumbers DEF Tally
    <3>7. Tally(db, db', 0, 0, 1, Redelivery(v.records[id].attempt + 1))
      <4>1. Redelivery(v.records[id].attempt + 1) \in Nat
        BY DEF Redelivery
      <4> QED BY <1>0, <3>3, <3>4, <3>5, <4>1, TallyAfterSweep
    <3>8. DeliverMove(db, granted, db', granted', now)
      BY <2>2, <3>2, <3>3, <3>5, <3>6, <3>7 DEF DeliverMove
    <3> QED BY <2>2, <3>8 DEF Move
  <2> QED BY <1>2, <2>1, <2>2 DEF Lease, NewGrant
<1>3. ASSUME NEW id \in EventIDs, NEW token \in DOMAIN granted, Ack(id, token) PROVE Goal
  <2>1. CASE UNCHANGED vars
    BY <1>u, <2>1 DEF vars
  <2>2. CASE /\ AckAnswer(db, id, token, now) = "completed"
             /\ db' = Complete(db, id, now)
             /\ granted' = [granted EXCEPT ![token].outcome = "acked",
                                           ![token].until = now + CompletionTTL]
             /\ UNCHANGED now
    <3>1. HoldsLease(db.records[id], token, now)
      BY <2>2 DEF AckAnswer
    <3>2. /\ db'.records = [db.records EXCEPT ![id] = Acknowledged(db.records[id], now)]
          /\ Tally(db, db', 0, 1, 0, 0)
      BY <1>0, <2>2, CompleteMove
    <3>3. AckMove(db, granted, db', granted', now)
      BY <2>2, <3>1, <3>2 DEF AckMove
    <3> QED BY <2>2, <3>3 DEF Move
  <2> QED BY <1>3, <2>1, <2>2 DEF Ack
<1>4. ASSUME NEW id \in EventIDs, NEW token \in DOMAIN granted, NEW n \in NackRequests,
             Nack(id, token, n)
      PROVE  Goal
  <2> DEFINE a == NackAnswer(db, id, token, n, now)
  <2>1. CASE UNCHANGED vars
    BY <1>u, <2>1 DEF vars
  <2>2. CASE /\ \/ a = "returned" /\ db' = Return(db, id, token, n, now)
                \/ a = "quarantined" /\ db' = Quarantine(db, id, token, n)
             /\ granted' = [granted EXCEPT ![token].outcome = "nacked", ![token].request = n]
             /\ UNCHANGED now
    <3>1. HoldsLease(db.records[id], token, now)
      BY <2>2 DEF NackAnswer
    <3>2. \E st \in {"ready", "quarantined"}, due \in Nat :
            /\ db'.records = [db.records EXCEPT ![id] =
                                Rejected(db.records[id], token, n, st, due)]
            /\ Tally(db, db', 0, 0, 0, 0)
      <4>1. CASE db' = Return(db, id, token, n, now)
        <5>0. n.delay \in Nat
          BY InputsAssumption DEF NackRequests
        <5>1. now + n.delay \in Nat
          BY <1>0, <5>0
        <5>2. /\ db'.records = [db.records EXCEPT ![id] =
                   Rejected(db.records[id], token, n, "ready", now + n.delay)]
              /\ Tally(db, db', 0, 0, 0, 0)
          BY <1>0, <4>1, ReturnMove
        <5> QED BY <5>1, <5>2
      <4>2. CASE db' = Quarantine(db, id, token, n)
        <5>1. /\ db'.records = [db.records EXCEPT ![id] =
                   Rejected(db.records[id], token, n, "quarantined", 0)]
              /\ Tally(db, db', 0, 0, 0, 0)
          BY <1>0, <4>2, QuarantineMove
        <5> QED BY <5>1
      <4> QED BY <2>2, <4>1, <4>2
    <3>3. NackMove(db, granted, db', granted', now)
      BY <2>2, <3>1, <3>2 DEF NackMove
    <3> QED BY <2>2, <3>3 DEF Move
  <2> QED BY <1>4, <2>1, <2>2 DEF Nack
<1>5. ASSUME Cleanup PROVE Goal
  <2> DEFINE v == expireLeases(db, now)
  <2>1. PICK back \in SUBSET Due(db, "leased", now) :
          /\ v.records = SweptRecords(db, back, {}, now)
          /\ Tally(db, v, 0, 0, 0, 0)
    BY <1>0, ExpireLeasesMove
  <2>2. DBInv(v) /\ db' = expireCompleted(v, now) /\ granted' = granted
    BY <1>0, <1>5, ExpireLeasesInv DEF Cleanup
  <2> HIDE DEF v
  <2>3. PICK gone \in SUBSET Due(v, "completed", now) :
          /\ db'.records = SweptRecords(v, {}, gone, now)
          /\ Tally(v, db', 0, 0, 0, 0)
    BY <1>0, <2>2, ExpireCompletedMove
  <2>4. \A id \in back : v.records[id].state = "ready"
    <3> SUFFICES ASSUME NEW id \in back PROVE v.records[id].state = "ready"
      OBVIOUS
    <3>1. id \in EventIDs
      BY DEF Due
    <3>2. db.records[id] \in Record
      BY <1>0, <3>1, StatsNumbers
    <3>3. v.records[id] = Reclaimed(db.records[id], now)
      BY <2>1, <3>1 DEF SweptRecords
    <3> QED BY <3>2, <3>3 DEF Reclaimed, Record
  <2>5. gone \cap back = {} /\ gone \in SUBSET EventIDs
    BY <2>3, <2>4 DEF Due
  <2>6. gone \in SUBSET Due(db, "completed", now)
    <3>1. \A id \in gone : v.records[id] = db.records[id]
      BY <2>1, <2>5 DEF SweptRecords
    <3> QED BY <2>3, <3>1 DEF Due
  <2>7. db'.records = SweptRecords(db, back, gone, now)
    BY <2>1, <2>3, <2>5 DEF SweptRecords
  <2>8. Tally(db, db', 0, 0, 0, 0)
    BY <1>0, <2>1, <2>2, <2>3, TallyAfterSweep DEF DBInv
  <2> QED BY <2>2, <2>6, <2>7, <2>8 DEF SweepMove
<1>6. ASSUME Tick PROVE Goal
  BY <1>u, <1>6 DEF Tick
<1>7. CASE UNCHANGED vars
  BY <1>u, <1>7 DEF vars
<1> QED BY <1>1, <1>2, <1>3, <1>4, <1>5, <1>6, <1>7 DEF Next

-----------------------------------------------------------------------------
(* The inductive invariant on records, deliveries and counters *)

(* A key that is not in the bucket carries nothing. *)
Blank(d) == \A id \in EventIDs : d.records[id].state = "absent" => d.records[id] = Absent

Attempted(d) == \A id \in EventIDs : d.records[id].state = "leased" => d.records[id].attempt > 0

(* Deliveries are numbered by the counter that draws the tokens. *)
Numbered(d, g) == Len(g) = d.stats.deliveries

OpenGrant(id, r) == [id |-> id, expires |-> r.due, outcome |-> "open",
                     request |-> NoNack, until |-> 0]

Fenced(d, g) ==
  \A id \in EventIDs : d.records[id].state = "leased" =>
    /\ d.records[id].token \in DOMAIN g
    /\ g[d.records[id].token] = OpenGrant(id, d.records[id])
    /\ \A u \in DOMAIN g : g[u].id = id => u <= d.records[id].token

Latest(g, token) == \A u \in DOMAIN g : g[u].id = g[token].id => u <= token

(* Until its event is delivered again, the broker remembers a NACK. *)
NackKept(d, g) ==
  \A token \in DOMAIN g : g[token].outcome = "nacked" /\ Latest(g, token) =>
    /\ d.records[g[token].id].state \in {"ready", "quarantined"}
    /\ d.records[g[token].id].lastNackToken = token
    /\ d.records[g[token].id].lastNackHash = g[token].request

Tried(d) == {id \in Active(d) : d.records[id].attempt > 0}

Ledger(d) ==
  /\ d.stats.accepted = ActiveCount(d.stats) + d.stats.acked
  /\ d.stats.deliveries - d.stats.redeliveries = d.stats.acked + Cardinality(Tried(d))

SafeInv(d, g) ==
  /\ Blank(d) /\ Attempted(d) /\ Numbered(d, g)
  /\ Fenced(d, g) /\ NackKept(d, g) /\ Ledger(d)

SInv == IInv /\ SafeInv(db, granted)

(* A delivery that was not settled owns its event until it expires, and an  *)
(* ACK is remembered until the time it was told.                            *)
LeaseOwned(d, g, t) ==
  \A token \in DOMAIN g : g[token].outcome = "open" /\ g[token].expires > t =>
    /\ d.records[g[token].id].state = "leased"
    /\ d.records[g[token].id].token = token

AckKept(d, g, t) ==
  \A token \in DOMAIN g : g[token].outcome = "acked" /\ g[token].until > t =>
    /\ d.records[g[token].id].state = "completed"
    /\ d.records[g[token].id].token = token
    /\ d.records[g[token].id].due = g[token].until

ReceiptInv(d, g, t) == LeaseOwned(d, g, t) /\ AckKept(d, g, t)

-----------------------------------------------------------------------------
(* The records the moves write *)

IsReclaimed(o, t, u) ==
  /\ u \in Record /\ u.state = "ready" /\ u.token = NoToken /\ u.due = t
  /\ u.event = o.event /\ u.hash = o.hash /\ u.seq = o.seq /\ u.attempt = o.attempt

IsHandedOut(o, k, t, u) ==
  /\ u \in Record /\ u.state = "leased" /\ u.token = k
  /\ u.due = t + LeaseDuration /\ u.attempt = o.attempt + 1
  /\ u.event = o.event /\ u.hash = o.hash /\ u.seq = o.seq

IsAcknowledged(o, t, u) ==
  /\ u \in Record /\ u.state = "completed" /\ u.token = o.token
  /\ u.due = t + CompletionTTL
  /\ u.hash = o.hash /\ u.seq = o.seq /\ u.attempt = o.attempt

IsRejected(o, k, n, st, u) ==
  /\ u \in Record /\ u.state = st /\ u.token = NoToken
  /\ u.event = o.event /\ u.hash = o.hash /\ u.seq = o.seq /\ u.attempt = o.attempt
  /\ u.lastNackToken = k /\ u.lastNackHash = n

LEMMA ReclaimedRecord ==
  ASSUME NEW o \in Record, NEW t \in Nat
  PROVE  IsReclaimed(o, t, Reclaimed(o, t))
BY DEF Reclaimed, Record, IsReclaimed

LEMMA HandedOutRecord ==
  ASSUME NEW o \in Record, NEW k \in Nat, NEW t \in Nat
  PROVE  IsHandedOut(o, k, t, HandedOut(o, k, t))
<1> DEFINE x == t + LeaseDuration
           y == o.attempt + 1
           v == [o EXCEPT !.state = "leased", !.token = k, !.due = x, !.attempt = y,
                          !.lastNackToken = NoToken, !.lastNackHash = NoNack]
<1>1. o.attempt \in Nat
  BY DEF Record
<1>2. x \in Nat /\ y \in Nat
  BY <1>1, OptionsAssumption
<1>3. HandedOut(o, k, t) = v
  BY Zenon DEF HandedOut
<1>4. /\ v \in Record /\ v.state = "leased" /\ v.token = k /\ v.due = x /\ v.attempt = y
      /\ v.event = o.event /\ v.hash = o.hash /\ v.seq = o.seq
  <2> HIDE DEF x, y
  <2> QED BY <1>2 DEF Record
<1> HIDE DEF v
<1> QED BY <1>3, <1>4 DEF IsHandedOut

LEMMA AcknowledgedRecord ==
  ASSUME NEW o \in Record, NEW t \in Nat
  PROVE  IsAcknowledged(o, t, Acknowledged(o, t))
<1> DEFINE x == t + CompletionTTL
           v == [o EXCEPT !.state = "completed", !.event = NoPayload, !.due = x]
<1>1. x \in Nat
  BY OptionsAssumption
<1>2. Acknowledged(o, t) = v
  BY Zenon DEF Acknowledged
<1>3. /\ v \in Record /\ v.state = "completed" /\ v.token = o.token /\ v.due = x
      /\ v.attempt = o.attempt /\ v.hash = o.hash /\ v.seq = o.seq
  <2> HIDE DEF x
  <2> QED BY <1>1 DEF Record
<1> HIDE DEF v
<1> QED BY <1>2, <1>3 DEF IsAcknowledged

LEMMA RejectedRecord ==
  ASSUME NEW o \in Record, NEW k \in Nat, NEW n \in NackRequests,
         NEW st \in {"ready", "quarantined"}, NEW due \in Nat
  PROVE  IsRejected(o, k, n, st, Rejected(o, k, n, st, due))
BY DEF Rejected, Record, IsRejected

LEMMA AdmittedRecord ==
  ASSUME NEW p \in Payloads, NEW q \in Nat, NEW t \in Nat
  PROVE  LET u == Admitted(p, q, t) IN
         /\ u \in Record /\ u.state = "ready" /\ u.event = p /\ u.hash = p /\ u.seq = q
         /\ u.attempt = 0 /\ u.token = NoToken
BY DEF Admitted, Absent, Record

LEMMA AbsentRecord ==
  /\ Absent \in Record /\ Absent.state = "absent" /\ Absent.attempt = 0
  /\ Absent.token = NoToken /\ Absent.hash = NoPayload
BY DEF Absent, Record

(* What a sweep makes of one record: o becomes u. *)
SweptTo(o, u, t) ==
  \/ /\ o.state = "leased" /\ o.due <= t /\ u.state = "ready" /\ u.token = NoToken
     /\ u.event = o.event /\ u.hash = o.hash /\ u.seq = o.seq
     /\ u.attempt = o.attempt
  \/ o.state = "completed" /\ o.due <= t /\ u = Absent
  \/ u = o

LEMMA SweptRecord ==
  ASSUME NEW d \in Database, NEW t \in Nat, NEW id \in EventIDs,
         NEW back \in SUBSET Due(d, "leased", t), NEW gone \in SUBSET Due(d, "completed", t)
  PROVE  /\ d.records[id] \in Record
         /\ SweptRecords(d, back, gone, t)[id] \in Record
         /\ SweptTo(d.records[id], SweptRecords(d, back, gone, t)[id], t)
<1> DEFINE o == d.records[id]
           u == SweptRecords(d, back, gone, t)[id]
<1>1. o \in Record
  BY StatsNumbers
<1>2. u = IF id \in back THEN Reclaimed(o, t) ELSE IF id \in gone THEN Absent ELSE o
  BY DEF SweptRecords
<1> HIDE DEF o, u
<1>3. CASE id \in back
  <2>1. o.state = "leased" /\ o.due <= t
    BY <1>3 DEF Due, o
  <2>2. u = Reclaimed(o, t)
    BY <1>2, <1>3
  <2>3. /\ u \in Record /\ u.state = "ready" /\ u.token = NoToken
        /\ u.event = o.event /\ u.hash = o.hash /\ u.seq = o.seq
        /\ u.attempt = o.attempt
    BY <1>1, <2>2, ReclaimedRecord DEF IsReclaimed
  <2> QED BY <1>1, <2>1, <2>3 DEF SweptTo, o, u
<1>4. CASE id \notin back /\ id \in gone
  <2>1. o.state = "completed" /\ o.due <= t
    BY <1>4 DEF Due, o
  <2>2. u = Absent
    BY <1>2, <1>4
  <2> QED BY <1>1, <2>1, <2>2, AbsentRecord DEF SweptTo, o, u
<1>5. CASE id \notin back /\ id \notin gone
  <2>1. u = o
    BY <1>2, <1>5
  <2> QED BY <1>1, <2>1 DEF SweptTo, o, u
<1> QED BY <1>3, <1>4, <1>5

-----------------------------------------------------------------------------
(* Each move keeps the invariant *)

LEMMA SweepSafe ==
  ASSUME NEW d \in Database, NEW r \in Database, NEW g \in Seq(Grant), NEW t \in Nat,
         SafeInv(d, g), SweepMove(d, g, r, g, t)
  PROVE  SafeInv(r, g)
<1>1. PICK back \in SUBSET Due(d, "leased", t), gone \in SUBSET Due(d, "completed", t) :
        /\ r.records = SweptRecords(d, back, gone, t)
        /\ Tally(d, r, 0, 0, 0, 0)
  BY DEF SweepMove
<1>2. ASSUME NEW id \in EventIDs
      PROVE  \/ /\ d.records[id].state = "leased" /\ r.records[id].state = "ready"
                /\ r.records[id].attempt = d.records[id].attempt
             \/ d.records[id].state = "completed" /\ r.records[id] = Absent
             \/ r.records[id] = d.records[id]
  <2>1. r.records[id] = SweptRecords(d, back, gone, t)[id]
    BY <1>1
  <2>2. SweptTo(d.records[id], SweptRecords(d, back, gone, t)[id], t)
    BY SweptRecord, Zenon
  <2> QED BY <2>1, <2>2 DEF SweptTo
<1>3. Blank(r)
  BY <1>2 DEF SafeInv, Blank
<1>4. Attempted(r)
  BY <1>2, AbsentRecord DEF SafeInv, Attempted
<1>5. Numbered(r, g)
  BY <1>1, StatsNumbers DEF SafeInv, Numbered, Tally
<1>6. Fenced(r, g)
  <2>1. \A id \in EventIDs : r.records[id].state = "leased" => r.records[id] = d.records[id]
    BY <1>2, AbsentRecord
  <2> QED BY <2>1 DEF SafeInv, Fenced
<1>7. NackKept(r, g)
  <2> SUFFICES ASSUME NEW token \in DOMAIN g, g[token].outcome = "nacked", Latest(g, token)
               PROVE  /\ r.records[g[token].id].state \in {"ready", "quarantined"}
                      /\ r.records[g[token].id].lastNackToken = token
                      /\ r.records[g[token].id].lastNackHash = g[token].request
    BY DEF NackKept
  <2> DEFINE id == g[token].id
  <2>1. id \in EventIDs
    <3>1. g[token] \in Grant
      OBVIOUS
    <3> QED BY <3>1 DEF Grant
  <2>2. /\ d.records[id].state \in {"ready", "quarantined"}
        /\ d.records[id].lastNackToken = token
        /\ d.records[id].lastNackHash = g[token].request
    BY DEF SafeInv, NackKept
  <2> HIDE DEF id
  <2>3. r.records[id] = d.records[id]
    BY <1>2, <2>1, <2>2
  <2> QED BY <2>2, <2>3 DEF id
<1>8. Ledger(r)
  <2>1. Tried(r) = Tried(d)
    <3>1. ASSUME NEW id \in EventIDs PROVE id \in Tried(r) <=> id \in Tried(d)
      BY <1>2, AbsentRecord DEF Tried, Active, InState, ActiveStates
    <3> QED BY <3>1 DEF Tried, Active, InState
  <2> QED BY <1>1, <2>1, StatsNumbers DEF SafeInv, Ledger, Tally
<1> QED BY <1>3, <1>4, <1>5, <1>6, <1>7, <1>8 DEF SafeInv

(* A move may be seen as a sweep followed by the writing of one record. *)
LEMMA SweptDatabase ==
  ASSUME NEW d \in Database, NEW g \in Seq(Grant), NEW t \in Nat, SafeInv(d, g),
         NEW back \in SUBSET Due(d, "leased", t), NEW gone \in SUBSET Due(d, "completed", t)
  PROVE  LET w == [d EXCEPT !.records = SweptRecords(d, back, gone, t)]
         IN /\ w \in Database /\ w.records = SweptRecords(d, back, gone, t)
            /\ w.stats = d.stats /\ SafeInv(w, g)
<1> DEFINE v == SweptRecords(d, back, gone, t)
           w == [d EXCEPT !.records = v]
<1>1. v \in [EventIDs -> Record]
  <2>1. \A id \in EventIDs : v[id] \in Record
    BY SweptRecord
  <2> QED BY <2>1 DEF SweptRecords
<1>2. w.records = v /\ w.stats = d.stats /\ w \in Database
  <2> HIDE DEF v
  <2> QED BY <1>1 DEF Database
<1>3. Tally(d, w, 0, 0, 0, 0)
  <2> HIDE DEF w
  <2> QED BY <1>2, StatsNumbers DEF Tally
<1>4. SweepMove(d, g, w, g, t)
  <2> HIDE DEF w
  <2> QED BY <1>2, <1>3 DEF SweepMove
<1>5. SafeInv(w, g)
  <2> HIDE DEF w
  <2> QED BY <1>2, <1>4, SweepSafe
<1> QED BY <1>2, <1>5

LEMMA AppendedGrant ==
  ASSUME NEW g \in Seq(Grant), NEW v \in Grant
  PROVE  LET h == Append(g, v) IN
         /\ h \in Seq(Grant) /\ Len(h) = Len(g) + 1
         /\ DOMAIN g = 1 .. Len(g) /\ DOMAIN h = 1 .. (Len(g) + 1) /\ Len(g) \in Nat
         /\ h[Len(g) + 1] = v
         /\ \A u \in DOMAIN g : h[u] = g[u]
OBVIOUS

(* h is g with another outcome of the delivery token. *)
IsSettled(g, h, token) ==
  /\ h \in Seq(Grant) /\ Len(h) = Len(g) /\ DOMAIN h = DOMAIN g
  /\ h[token].id = g[token].id /\ h[token].expires = g[token].expires
  /\ \A u \in DOMAIN g \ {token} : h[u] = g[u]

IsAcked(g, h, token, x) ==
  IsSettled(g, h, token) /\ h[token].outcome = "acked" /\ h[token].until = x

IsNacked(g, h, token, n) ==
  IsSettled(g, h, token) /\ h[token].outcome = "nacked" /\ h[token].request = n

LEMMA AckedGrant ==
  ASSUME NEW g \in Seq(Grant), NEW token \in DOMAIN g, NEW x \in Nat
  PROVE  IsAcked(g, [g EXCEPT ![token].outcome = "acked", ![token].until = x], token, x)
<1> DEFINE v == [g[token] EXCEPT !.outcome = "acked", !.until = x]
           h == [g EXCEPT ![token].outcome = "acked", ![token].until = x]
<1>1. g[token] \in Grant
  OBVIOUS
<1>2. /\ v \in Grant /\ v.id = g[token].id /\ v.expires = g[token].expires
      /\ v.outcome = "acked" /\ v.until = x
  BY <1>1 DEF Grant
<1>3. h = [g EXCEPT ![token] = v]
  OBVIOUS
<1>4. h \in Seq(Grant)
  BY AckedTyped
<1> HIDE DEF v, h
<1>5. Len(h) = Len(g) /\ DOMAIN h = DOMAIN g /\ h[token] = v
      /\ \A u \in DOMAIN g \ {token} : h[u] = g[u]
  BY <1>2, <1>3, <1>4
<1> QED BY <1>2, <1>4, <1>5 DEF h, IsAcked, IsSettled

LEMMA NackedGrant ==
  ASSUME NEW g \in Seq(Grant), NEW token \in DOMAIN g, NEW n \in NackRequests
  PROVE  IsNacked(g, [g EXCEPT ![token].outcome = "nacked", ![token].request = n], token, n)
<1> DEFINE v == [g[token] EXCEPT !.outcome = "nacked", !.request = n]
           h == [g EXCEPT ![token].outcome = "nacked", ![token].request = n]
<1>1. g[token] \in Grant
  OBVIOUS
<1>2. /\ v \in Grant /\ v.id = g[token].id /\ v.expires = g[token].expires
      /\ v.outcome = "nacked" /\ v.request = n
  BY <1>1 DEF Grant
<1>3. h = [g EXCEPT ![token] = v]
  OBVIOUS
<1>4. h \in Seq(Grant)
  BY NackedTyped
<1> HIDE DEF v, h
<1>5. Len(h) = Len(g) /\ DOMAIN h = DOMAIN g /\ h[token] = v
      /\ \A u \in DOMAIN g \ {token} : h[u] = g[u]
  BY <1>2, <1>3, <1>4
<1> QED BY <1>2, <1>4, <1>5 DEF h, IsNacked, IsSettled

(* Deliveries are of known events. *)
LEMMA GrantedIDs ==
  ASSUME NEW g \in Seq(Grant), NEW token \in DOMAIN g
  PROVE  g[token].id \in EventIDs /\ token \in Nat
<1>1. g[token] \in Grant
  OBVIOUS
<1> QED BY <1>1 DEF Grant

(* The tried events are finitely many, and one more or less changes their   *)
(* number by one.                                                           *)
LEMMA TriedCount ==
  ASSUME NEW d, NEW r, NEW id \in EventIDs
  PROVE  /\ Cardinality(Tried(d)) \in Nat
         /\ Tried(r) = Tried(d) \cup {id} /\ id \notin Tried(d)
              => Cardinality(Tried(r)) = Cardinality(Tried(d)) + 1
         /\ Tried(r) = Tried(d) \ {id} /\ id \in Tried(d)
              => Cardinality(Tried(r)) = Cardinality(Tried(d)) - 1
<1>1. Tried(d) \subseteq EventIDs
  BY DEF Tried, Active, InState
<1>2. IsFiniteSet(Tried(d))
  BY <1>1, FS_Subset, InputsAssumption
<1> QED BY <1>2, FS_CardinalityType, FS_AddElement, FS_RemoveElement

(* The ledger balances when the tried events follow the tally. *)
LEMMA LedgerStep ==
  ASSUME NEW w \in Database, NEW r \in Database, Ledger(w),
         NEW a \in Nat, NEW k \in Nat, NEW n \in Nat, NEW m \in Nat,
         Tally(w, r, a, k, n, m),
         NEW c \in Nat, c = Cardinality(Tried(w)),
         Cardinality(Tried(r)) = c + n - m - k
  PROVE  Ledger(r)
<1>1. /\ w.stats.deliveries \in Int /\ w.stats.redeliveries \in Int /\ w.stats.acked \in Int
      /\ w.stats.accepted \in Int /\ ActiveCount(w.stats) \in Int
  BY StatsNumbers
<1>2. /\ w.stats.accepted = ActiveCount(w.stats) + w.stats.acked
      /\ w.stats.deliveries - w.stats.redeliveries = w.stats.acked + c
  BY DEF Ledger
<1>3. r.stats.accepted = ActiveCount(r.stats) + r.stats.acked
  BY <1>1, <1>2 DEF Tally
<1>4. r.stats.deliveries - r.stats.redeliveries = r.stats.acked + Cardinality(Tried(r))
  <2> DEFINE x == w.stats.deliveries
             y == w.stats.redeliveries
             z == w.stats.acked
  <2>0. x \in Int /\ y \in Int /\ z \in Int /\ x - y = z + c
    BY <1>1, <1>2
  <2>1. (x + n) - (y + m) = (z + k) + (c + n - m - k)
    <3> HIDE DEF x, y, z
    <3>1. (x + n) - (y + m) = (x - y) + (n - m)
      BY <2>0
    <3>2. (z + k) + (c + n - m - k) = (z + c) + (n - m)
      BY <2>0
    <3> QED BY <2>0, <3>1, <3>2
  <2>2. /\ r.stats.deliveries = w.stats.deliveries + n
        /\ r.stats.redeliveries = w.stats.redeliveries + m
        /\ r.stats.acked = w.stats.acked + k
    BY DEF Tally
  <2> QED BY <2>1, <2>2, Zenon
<1> QED BY <1>3, <1>4 DEF Ledger

LEMMA AcceptSafe ==
  ASSUME NEW w \in Database, NEW r \in Database, NEW g \in Seq(Grant), SafeInv(w, g),
         NEW id \in EventIDs, NEW p \in Payloads, NEW q \in Nat, NEW t \in Nat,
         w.records[id].state = "absent",
         r.records = [w.records EXCEPT ![id] = Admitted(p, q, t)],
         Tally(w, r, 1, 0, 0, 0)
  PROVE  SafeInv(r, g)
<1> DEFINE u == Admitted(p, q, t)
<1>1. u.state = "ready" /\ u.attempt = 0
  BY AdmittedRecord
<1>2. r.records[id] = u /\ \A o \in EventIDs \ {id} : r.records[o] = w.records[o]
  <2>1. r.records = [w.records EXCEPT ![id] = u] /\ w.records \in [EventIDs -> Record]
    BY StatsNumbers
  <2> HIDE DEF u
  <2> QED BY <2>1
<1> HIDE DEF u
<1>3. Blank(r)
  BY <1>1, <1>2 DEF SafeInv, Blank
<1>4. Attempted(r)
  BY <1>1, <1>2 DEF SafeInv, Attempted
<1>5. Numbered(r, g)
  BY StatsNumbers DEF SafeInv, Numbered, Tally
<1>6. Fenced(r, g)
  <2>1. \A o \in EventIDs : r.records[o].state = "leased" => r.records[o] = w.records[o]
    BY <1>1, <1>2
  <2> QED BY <2>1 DEF SafeInv, Fenced
<1>7. NackKept(r, g)
  <2>1. \A o \in EventIDs : w.records[o].state \in {"ready", "quarantined"}
                              => r.records[o] = w.records[o]
    BY <1>2
  <2> QED BY <2>1, GrantedIDs DEF SafeInv, NackKept
<1>8. Ledger(r)
  <2>1. Tried(r) = Tried(w)
    <3>1. ASSUME NEW o \in EventIDs PROVE o \in Tried(r) <=> o \in Tried(w)
      BY <1>1, <1>2 DEF Tried, Active, InState, ActiveStates
    <3> QED BY <3>1 DEF Tried, Active, InState
  <2>2. Cardinality(Tried(w)) \in Nat
    BY TriedCount
  <2>3. Cardinality(Tried(r)) = Cardinality(Tried(w)) + 0 - 0 - 0
    BY <2>1, <2>2
  <2> QED BY <2>2, <2>3, LedgerStep DEF SafeInv
<1> QED BY <1>3, <1>4, <1>5, <1>6, <1>7, <1>8 DEF SafeInv

(* Event id is handed out with token k: its record becomes u. *)
HandsOut(w, r, id, t, k, u, m, e) ==
  /\ w.records[id].state = "ready" /\ m = w.records[id].attempt
  /\ k = w.stats.deliveries + 1 /\ e = Redelivery(m + 1)
  /\ IsHandedOut(w.records[id], k, t, u)
  /\ r.records = [w.records EXCEPT ![id] = u]
  /\ Tally(w, r, 0, 0, 1, e)

LEMMA DeliverSafe ==
  ASSUME NEW w \in Database, NEW r \in Database, NEW g \in Seq(Grant), SafeInv(w, g),
         NEW id \in EventIDs, NEW t \in Nat, NEW k, NEW u, NEW m, NEW e,
         HandsOut(w, r, id, t, k, u, m, e)
  PROVE  SafeInv(r, Append(g, NewGrant(id, t)))
<1> DEFINE v == NewGrant(id, t)
           h == Append(g, v)
<1>h. /\ w.records[id].state = "ready" /\ m = w.records[id].attempt
      /\ k = w.stats.deliveries + 1 /\ e = Redelivery(m + 1)
      /\ r.records = [w.records EXCEPT ![id] = u] /\ Tally(w, r, 0, 0, 1, e)
  BY DEF HandsOut
<1>0. w.records[id] \in Record /\ w.stats.deliveries \in Nat /\ k \in Nat
  BY <1>h, StatsNumbers
<1>a. m \in Nat
  BY <1>0, <1>h DEF Record
<1>1. u.state = "leased" /\ u.token = k /\ u.due = t + LeaseDuration /\ u.attempt = m + 1
  BY DEF HandsOut, IsHandedOut
<1>2. r.records[id] = u /\ \A o \in EventIDs \ {id} : r.records[o] = w.records[o]
  <2>1. w.records \in [EventIDs -> Record]
    BY StatsNumbers
  <2> QED BY <1>h, <2>1
<1>3. v \in Grant /\ v.id = id /\ v.outcome = "open"
  <2>1. t + LeaseDuration \in Nat
    BY OptionsAssumption
  <2> QED BY <2>1 DEF NewGrant, Grant
<1>4. Len(g) = w.stats.deliveries
  BY DEF SafeInv, Numbered
<1>5. v = OpenGrant(id, u)
  BY <1>1 DEF NewGrant, OpenGrant
<1> HIDE DEF v
<1>6. /\ h \in Seq(Grant) /\ Len(h) = k
      /\ DOMAIN g = 1 .. w.stats.deliveries /\ DOMAIN h = 1 .. k
      /\ h[k] = v /\ \A o \in DOMAIN g : h[o] = g[o]
  BY <1>h, <1>3, <1>4, AppendedGrant
<1> HIDE DEF h
<1>7. Blank(r)
  BY <1>1, <1>2 DEF SafeInv, Blank
<1>8. Attempted(r)
  BY <1>1, <1>2, <1>a DEF SafeInv, Attempted
<1>9. Numbered(r, h)
  BY <1>h, <1>0, <1>6 DEF Numbered, Tally
<1>t. DOMAIN g \subseteq DOMAIN h /\ k \in DOMAIN h /\ \A o \in DOMAIN h : o \in DOMAIN g \/ o = k
  BY <1>h, <1>0, <1>6
<1>l. \A o \in DOMAIN h : o <= k
  BY <1>h, <1>0, <1>6
<1>10. Fenced(r, h)
  <2> SUFFICES ASSUME NEW o \in EventIDs, r.records[o].state = "leased"
               PROVE  /\ r.records[o].token \in DOMAIN h
                      /\ h[r.records[o].token] = OpenGrant(o, r.records[o])
                      /\ \A x \in DOMAIN h : h[x].id = o => x <= r.records[o].token
    BY DEF Fenced
  <2>1. CASE o = id
    BY <1>1, <1>2, <1>5, <1>6, <1>t, <1>l, <2>1
  <2>2. CASE o # id
    <3>1. r.records[o] = w.records[o]
      BY <1>2, <2>2
    <3>2. /\ w.records[o].token \in DOMAIN g
          /\ g[w.records[o].token] = OpenGrant(o, w.records[o])
          /\ \A x \in DOMAIN g : g[x].id = o => x <= w.records[o].token
      BY <3>1 DEF SafeInv, Fenced
    <3> QED BY <1>3, <1>6, <1>t, <2>2, <3>1, <3>2
  <2> QED BY <2>1, <2>2
<1>11. NackKept(r, h)
  <2> SUFFICES ASSUME NEW x \in DOMAIN h, h[x].outcome = "nacked", Latest(h, x)
               PROVE  /\ r.records[h[x].id].state \in {"ready", "quarantined"}
                      /\ r.records[h[x].id].lastNackToken = x
                      /\ r.records[h[x].id].lastNackHash = h[x].request
    BY DEF NackKept
  <2>1. x \in DOMAIN g /\ h[x] = g[x]
    BY <1>3, <1>6, <1>t
  <2>2. g[x].id # id
    <3>1. ~(k <= x)
      BY <1>h, <1>0, <1>6, <2>1
    <3> QED BY <1>3, <1>6, <1>t, <2>1, <3>1 DEF Latest
  <2>3. Latest(g, x)
    BY <1>6, <1>t, <2>1 DEF Latest
  <2>4. g[x].id \in EventIDs
    BY <2>1, GrantedIDs
  <2>5. /\ w.records[g[x].id].state \in {"ready", "quarantined"}
        /\ w.records[g[x].id].lastNackToken = x
        /\ w.records[g[x].id].lastNackHash = g[x].request
    BY <2>1, <2>3 DEF SafeInv, NackKept
  <2> QED BY <1>2, <2>1, <2>2, <2>4, <2>5
<1>12. Ledger(r)
  <2> DEFINE c == Cardinality(Tried(w))
  <2>1. c \in Nat
    BY TriedCount
  <2>2. \A o \in EventIDs \ {id} : o \in Tried(r) <=> o \in Tried(w)
    BY <1>2 DEF Tried, Active, InState
  <2>3. id \in Tried(r) /\ (id \in Tried(w) <=> m > 0)
    BY <1>h, <1>1, <1>2, <1>a DEF Tried, Active, InState, ActiveStates
  <2>4. Tried(r) \subseteq EventIDs /\ Tried(w) \subseteq EventIDs
    BY DEF Tried, Active, InState
  <2>5. CASE m > 0
    <3>1. \A o \in EventIDs : o \in Tried(r) <=> o \in Tried(w)
      BY <2>2, <2>3, <2>5
    <3>2. Tried(r) = Tried(w)
      BY <2>4, <3>1
    <3>3. e = 1
      BY <1>h, <1>a, <2>5 DEF Redelivery
    <3>4. Cardinality(Tried(r)) = c + 1 - e - 0
      BY <2>1, <3>2, <3>3
    <3> HIDE DEF c
    <3> QED BY <1>h, <2>1, <3>3, <3>4, LedgerStep DEF SafeInv, c
  <2>6. CASE m = 0
    <3>1. Tried(r) = Tried(w) \cup {id} /\ id \notin Tried(w)
      BY <2>2, <2>3, <2>4, <2>6
    <3>2. e = 0
      BY <1>h, <2>6 DEF Redelivery
    <3>3. Cardinality(Tried(r)) = c + 1
      BY <3>1, TriedCount
    <3>4. Cardinality(Tried(r)) = c + 1 - e - 0
      BY <2>1, <3>2, <3>3
    <3> HIDE DEF c
    <3> QED BY <1>h, <2>1, <3>2, <3>4, LedgerStep DEF SafeInv, c
  <2> QED BY <1>a, <2>5, <2>6
<1> QED BY <1>7, <1>8, <1>9, <1>10, <1>11, <1>12 DEF SafeInv, h, v

(* What is common to both ways of settling: the token is the one of the     *)
(* current delivery of its event, and no other event is concerned.          *)
LEMMA Settling ==
  ASSUME NEW w \in Database, NEW g \in Seq(Grant), SafeInv(w, g), NEW t \in Nat,
         NEW id \in EventIDs, NEW token \in DOMAIN g, HoldsLease(w.records[id], token, t)
  PROVE  /\ w.records[id].state = "leased" /\ w.records[id].token = token
         /\ w.records[id].attempt > 0
         /\ g[token].id = id /\ g[token].outcome = "open"
         /\ \A u \in DOMAIN g : g[u].id = id => u <= token
         /\ \A o \in EventIDs \ {id} : w.records[o].state = "leased" => w.records[o].token # token
<1>1. w.records[id].state = "leased" /\ w.records[id].token = token
  BY DEF HoldsLease
<1>2. /\ g[token] = OpenGrant(id, w.records[id])
      /\ \A u \in DOMAIN g : g[u].id = id => u <= token
  BY <1>1 DEF SafeInv, Fenced
<1>3. g[token].id = id /\ g[token].outcome = "open"
  BY <1>2 DEF OpenGrant
<1>4. ASSUME NEW o \in EventIDs \ {id}, w.records[o].state = "leased"
      PROVE  w.records[o].token # token
  <2>1. g[w.records[o].token] = OpenGrant(o, w.records[o])
    BY <1>4 DEF SafeInv, Fenced
  <2>2. g[w.records[o].token].id = o
    BY <2>1 DEF OpenGrant
  <2> QED BY <1>3, <2>2
<1>5. w.records[id].attempt > 0
  BY <1>1 DEF SafeInv, Attempted
<1> QED BY <1>1, <1>2, <1>3, <1>4, <1>5

(* Record id becomes u and the delivery token changes its outcome. *)
Settles(w, r, g, h, id, token, u) ==
  r.records = [w.records EXCEPT ![id] = u] /\ IsSettled(g, h, token)

(* Settling keeps the parts of the invariant that do not look at outcomes.  *)
LEMMA SettledSafe ==
  ASSUME NEW w \in Database, NEW r, NEW g \in Seq(Grant), SafeInv(w, g), NEW t \in Nat,
         NEW id \in EventIDs, NEW token \in DOMAIN g, HoldsLease(w.records[id], token, t),
         NEW u, u.state # "absent", u.state # "leased",
         NEW h, Settles(w, r, g, h, id, token, u)
  PROVE  /\ r.records[id] = u /\ \A o \in EventIDs \ {id} : r.records[o] = w.records[o]
         /\ Blank(r) /\ Attempted(r) /\ Fenced(r, h)
         /\ \A x \in DOMAIN h : Latest(h, x) => Latest(g, x)
<1>1. r.records[id] = u /\ \A o \in EventIDs \ {id} : r.records[o] = w.records[o]
  <2>1. w.records \in [EventIDs -> Record]
    BY StatsNumbers
  <2> QED BY <2>1 DEF Settles, IsSettled
<1>2. Blank(r)
  BY <1>1 DEF SafeInv, Blank
<1>3. Attempted(r)
  BY <1>1 DEF SafeInv, Attempted
<1>4. Fenced(r, h)
  <2> SUFFICES ASSUME NEW o \in EventIDs, r.records[o].state = "leased"
               PROVE  /\ r.records[o].token \in DOMAIN h
                      /\ h[r.records[o].token] = OpenGrant(o, r.records[o])
                      /\ \A x \in DOMAIN h : h[x].id = o => x <= r.records[o].token
    BY DEF Fenced
  <2>1. o # id /\ r.records[o] = w.records[o]
    BY <1>1
  <2>2. w.records[o].token # token
    BY <2>1, Settling
  <2>3. /\ w.records[o].token \in DOMAIN g
        /\ g[w.records[o].token] = OpenGrant(o, w.records[o])
        /\ \A x \in DOMAIN g : g[x].id = o => x <= w.records[o].token
    BY <2>1 DEF SafeInv, Fenced
  <2>4. h[w.records[o].token] = g[w.records[o].token]
    BY <2>2, <2>3 DEF Settles, IsSettled
  <2>5. DOMAIN h = DOMAIN g /\ \A x \in DOMAIN h : h[x].id = g[x].id
    BY DEF Settles, IsSettled
  <2> QED BY <2>1, <2>3, <2>4, <2>5
<1>5. \A x \in DOMAIN h : Latest(h, x) => Latest(g, x)
  <2>1. DOMAIN h = DOMAIN g /\ \A x \in DOMAIN g : h[x].id = g[x].id
    BY DEF Settles, IsSettled
  <2> QED BY <2>1 DEF Latest
<1> QED BY <1>1, <1>2, <1>3, <1>4, <1>5

LEMMA AckSafe ==
  ASSUME NEW w \in Database, NEW r \in Database, NEW g \in Seq(Grant), SafeInv(w, g),
         NEW id \in EventIDs, NEW token \in DOMAIN g, NEW t \in Nat,
         HoldsLease(w.records[id], token, t),
         NEW u, u.state = "completed", NEW h, Settles(w, r, g, h, id, token, u),
         Tally(w, r, 0, 1, 0, 0), h[token].outcome = "acked"
  PROVE  SafeInv(r, h)
<1>1. /\ w.records[id].state = "leased" /\ w.records[id].attempt > 0
      /\ g[token].id = id
  BY Settling
<1>2. /\ r.records[id] = u /\ \A o \in EventIDs \ {id} : r.records[o] = w.records[o]
      /\ Blank(r) /\ Attempted(r) /\ Fenced(r, h)
      /\ \A x \in DOMAIN h : Latest(h, x) => Latest(g, x)
  <2>1. u.state # "absent" /\ u.state # "leased"
    OBVIOUS
  <2> QED BY <2>1, SettledSafe
<1>3. Numbered(r, h)
  BY StatsNumbers DEF SafeInv, Numbered, Tally, Settles, IsSettled
<1>4. NackKept(r, h)
  <2> SUFFICES ASSUME NEW x \in DOMAIN h, h[x].outcome = "nacked", Latest(h, x)
               PROVE  /\ r.records[h[x].id].state \in {"ready", "quarantined"}
                      /\ r.records[h[x].id].lastNackToken = x
                      /\ r.records[h[x].id].lastNackHash = h[x].request
    BY DEF NackKept
  <2>1. x \in DOMAIN g /\ x # token /\ h[x] = g[x] /\ Latest(g, x)
    BY <1>2 DEF Settles, IsSettled
  <2>2. /\ w.records[g[x].id].state \in {"ready", "quarantined"}
        /\ w.records[g[x].id].lastNackToken = x
        /\ w.records[g[x].id].lastNackHash = g[x].request
    BY <2>1 DEF SafeInv, NackKept
  <2>3. g[x].id \in EventIDs
    BY <2>1, GrantedIDs
  <2>4. r.records[g[x].id] = w.records[g[x].id]
    BY <1>1, <1>2, <2>2, <2>3
  <2> QED BY <2>1, <2>2, <2>4
<1>5. Ledger(r)
  <2> DEFINE c == Cardinality(Tried(w))
  <2>1. c \in Nat
    BY TriedCount
  <2>2. Tried(r) = Tried(w) \ {id} /\ id \in Tried(w)
    <3>1. \A o \in EventIDs \ {id} : o \in Tried(r) <=> o \in Tried(w)
      BY <1>2 DEF Tried, Active, InState
    <3>2. id \notin Tried(r) /\ id \in Tried(w)
      BY <1>1, <1>2 DEF Tried, Active, InState, ActiveStates
    <3>3. Tried(r) \subseteq EventIDs /\ Tried(w) \subseteq EventIDs
      BY DEF Tried, Active, InState
    <3> QED BY <3>1, <3>2, <3>3
  <2>3. Cardinality(Tried(r)) = c - 1
    BY <2>2, TriedCount
  <2>4. Cardinality(Tried(r)) = c + 0 - 0 - 1
    BY <2>1, <2>3
  <2> HIDE DEF c
  <2> QED BY <2>1, <2>4, LedgerStep DEF SafeInv, c
<1> QED BY <1>2, <1>3, <1>4, <1>5 DEF SafeInv

LEMMA NackSafe ==
  ASSUME NEW w \in Database, NEW r \in Database, NEW g \in Seq(Grant), SafeInv(w, g),
         NEW id \in EventIDs, NEW token \in DOMAIN g, NEW t \in Nat, NEW n,
         HoldsLease(w.records[id], token, t),
         NEW st \in {"ready", "quarantined"}, NEW u, IsRejected(w.records[id], token, n, st, u),
         NEW h, Settles(w, r, g, h, id, token, u),
         Tally(w, r, 0, 0, 0, 0), h[token].request = n
  PROVE  SafeInv(r, h)
<1>u. /\ u.state \in {"ready", "quarantined"} /\ u.attempt = w.records[id].attempt
      /\ u.lastNackToken = token /\ u.lastNackHash = n
  BY DEF IsRejected
<1>1. /\ w.records[id].state = "leased" /\ w.records[id].attempt > 0
      /\ g[token].id = id
  BY Settling
<1>2. /\ r.records[id] = u /\ \A o \in EventIDs \ {id} : r.records[o] = w.records[o]
      /\ Blank(r) /\ Attempted(r) /\ Fenced(r, h)
      /\ \A x \in DOMAIN h : Latest(h, x) => Latest(g, x)
  <2>1. u.state # "absent" /\ u.state # "leased"
    BY <1>u
  <2> QED BY <2>1, SettledSafe
<1>3. Numbered(r, h)
  BY StatsNumbers DEF SafeInv, Numbered, Tally, Settles, IsSettled
<1>4. NackKept(r, h)
  <2> SUFFICES ASSUME NEW x \in DOMAIN h, h[x].outcome = "nacked", Latest(h, x)
               PROVE  /\ r.records[h[x].id].state \in {"ready", "quarantined"}
                      /\ r.records[h[x].id].lastNackToken = x
                      /\ r.records[h[x].id].lastNackHash = h[x].request
    BY DEF NackKept
  <2>1. CASE x = token
    BY <1>u, <1>1, <1>2, <2>1 DEF Settles, IsSettled
  <2>2. CASE x # token
    <3>1. x \in DOMAIN g /\ h[x] = g[x] /\ Latest(g, x)
      BY <1>2, <2>2 DEF Settles, IsSettled
    <3>2. /\ w.records[g[x].id].state \in {"ready", "quarantined"}
          /\ w.records[g[x].id].lastNackToken = x
          /\ w.records[g[x].id].lastNackHash = g[x].request
      BY <3>1 DEF SafeInv, NackKept
    <3>3. g[x].id \in EventIDs
      BY <3>1, GrantedIDs
    <3>4. r.records[g[x].id] = w.records[g[x].id]
      BY <1>1, <1>2, <3>2, <3>3
    <3> QED BY <3>1, <3>2, <3>4
  <2> QED BY <2>1, <2>2
<1>5. Ledger(r)
  <2> DEFINE c == Cardinality(Tried(w))
  <2>1. c \in Nat
    BY TriedCount
  <2>2. Tried(r) = Tried(w)
    <3>1. \A o \in EventIDs \ {id} : o \in Tried(r) <=> o \in Tried(w)
      BY <1>2 DEF Tried, Active, InState
    <3>2. id \in Tried(r) /\ id \in Tried(w)
      BY <1>u, <1>1, <1>2 DEF Tried, Active, InState, ActiveStates
    <3>3. Tried(r) \subseteq EventIDs /\ Tried(w) \subseteq EventIDs
      BY DEF Tried, Active, InState
    <3>4. \A o \in EventIDs : o \in Tried(r) <=> o \in Tried(w)
      BY <3>1, <3>2
    <3> QED BY <3>3, <3>4
  <2>3. Cardinality(Tried(r)) = c + 0 - 0 - 0
    BY <2>1, <2>2
  <2> HIDE DEF c
  <2> QED BY <2>1, <2>3, LedgerStep DEF SafeInv, c
<1> QED BY <1>2, <1>3, <1>4, <1>5 DEF SafeInv

LEMMA MoveSafe ==
  ASSUME NEW d \in Database, NEW r \in Database, NEW g \in Seq(Grant), NEW h, NEW t \in Nat,
         SafeInv(d, g), SweepMove(d, g, r, h, t) \/ Move(d, g, r, h, t)
  PROVE  SafeInv(r, h)
<1>1. CASE SweepMove(d, g, r, h, t)
  <2>1. h = g
    BY <1>1 DEF SweepMove
  <2> QED BY <1>1, <2>1, SweepSafe
<1>2. CASE AcceptMove(d, g, r, h, t)
  <2>1. PICK gone \in SUBSET Due(d, "completed", t), id \in EventIDs, p \in Payloads :
          /\ SweptRecords(d, {}, gone, t)[id].state = "absent"
          /\ r.records = [SweptRecords(d, {}, gone, t) EXCEPT
                            ![id] = Admitted(p, d.sequence + 1, t)]
          /\ Tally(d, r, 1, 0, 0, 0)
          /\ h = g
    BY <1>2 DEF AcceptMove
  <2> DEFINE w == [d EXCEPT !.records = SweptRecords(d, {}, gone, t)]
             q == d.sequence + 1
  <2>2. /\ w \in Database /\ w.records = SweptRecords(d, {}, gone, t)
        /\ w.stats = d.stats /\ SafeInv(w, g)
    <3>1. {} \in SUBSET Due(d, "leased", t)
      OBVIOUS
    <3> QED BY <3>1, SweptDatabase, Zenon
  <2>3. q \in Nat
    BY StatsNumbers
  <2> HIDE DEF w, q
  <2>4. /\ w.records[id].state = "absent"
        /\ r.records = [w.records EXCEPT ![id] = Admitted(p, q, t)]
        /\ Tally(w, r, 1, 0, 0, 0)
    BY <2>1, <2>2 DEF Tally, q
  <2> QED BY <2>1, <2>2, <2>3, <2>4, AcceptSafe
<1>3. CASE DeliverMove(d, g, r, h, t)
  <2>1. PICK back \in SUBSET Due(d, "leased", t), id \in EventIDs :
          LET v == SweptRecords(d, back, {}, t) IN
          /\ v[id].state = "ready"
          /\ r.records = [v EXCEPT ![id] = HandedOut(v[id], d.stats.deliveries + 1, t)]
          /\ Tally(d, r, 0, 0, 1, Redelivery(v[id].attempt + 1))
          /\ h = Append(g, NewGrant(id, t))
    BY <1>3 DEF DeliverMove
  <2> DEFINE w == [d EXCEPT !.records = SweptRecords(d, back, {}, t)]
  <2>2. /\ w \in Database /\ w.records = SweptRecords(d, back, {}, t)
        /\ w.stats = d.stats /\ SafeInv(w, g)
    <3>1. {} \in SUBSET Due(d, "completed", t)
      OBVIOUS
    <3> QED BY <3>1, SweptDatabase, Zenon
  <2> HIDE DEF w
  <2> DEFINE k == w.stats.deliveries + 1
             m == w.records[id].attempt
             e == Redelivery(m + 1)
             u == HandedOut(w.records[id], k, t)
  <2>3. /\ w.records[id].state = "ready"
        /\ r.records = [w.records EXCEPT ![id] = u]
        /\ Tally(w, r, 0, 0, 1, e)
    BY <2>1, <2>2 DEF Tally
  <2>4. k \in Nat /\ w.records[id] \in Record
    BY <2>2, StatsNumbers
  <2>5. IsHandedOut(w.records[id], k, t, u)
    <3> HIDE DEF k
    <3> QED BY <2>4, HandedOutRecord
  <2>6. SafeInv(r, Append(g, NewGrant(id, t)))
    <3>1. HandsOut(w, r, id, t, k, u, m, e)
      BY <2>3, <2>5, Zenon DEF HandsOut
    <3> HIDE DEF k, m, e, u
    <3> QED BY <2>2, <3>1, DeliverSafe, Zenon
  <2> QED BY <2>1, <2>6, Zenon
<1>4. CASE AckMove(d, g, r, h, t)
  <2>1. PICK id \in EventIDs, token \in DOMAIN g :
          /\ HoldsLease(d.records[id], token, t)
          /\ r.records = [d.records EXCEPT ![id] = Acknowledged(d.records[id], t)]
          /\ Tally(d, r, 0, 1, 0, 0)
          /\ h = [g EXCEPT ![token].outcome = "acked", ![token].until = t + CompletionTTL]
    BY <1>4 DEF AckMove
  <2> DEFINE u == Acknowledged(d.records[id], t)
             x == t + CompletionTTL
  <2>2. d.records[id] \in Record /\ x \in Nat
    BY StatsNumbers, OptionsAssumption
  <2>3. u.state = "completed"
    BY <2>2, AcknowledgedRecord DEF IsAcknowledged
  <2> HIDE DEF x
  <2>4. IsAcked(g, h, token, x)
    BY <2>1, <2>2, AckedGrant DEF x
  <2> HIDE DEF u
  <2>5. Settles(d, r, g, h, id, token, u) /\ h[token].outcome = "acked"
    BY <2>1, <2>4, Zenon DEF Settles, IsAcked, u
  <2> QED BY <2>1, <2>3, <2>5, AckSafe, Zenon
<1>5. CASE NackMove(d, g, r, h, t)
  <2>1. PICK id \in EventIDs, token \in DOMAIN g, n \in NackRequests,
             st \in {"ready", "quarantined"}, due \in Nat :
          /\ HoldsLease(d.records[id], token, t)
          /\ r.records = [d.records EXCEPT ![id] = Rejected(d.records[id], token, n, st, due)]
          /\ Tally(d, r, 0, 0, 0, 0)
          /\ h = [g EXCEPT ![token].outcome = "nacked", ![token].request = n]
    BY <1>5 DEF NackMove
  <2> DEFINE u == Rejected(d.records[id], token, n, st, due)
  <2>2. d.records[id] \in Record /\ token \in Nat
    BY StatsNumbers
  <2>3. IsRejected(d.records[id], token, n, st, u)
    BY <2>1, <2>2, RejectedRecord
  <2>4. IsNacked(g, h, token, n)
    BY <2>1, NackedGrant
  <2> HIDE DEF u
  <2>5. Settles(d, r, g, h, id, token, u) /\ h[token].request = n
    BY <2>1, <2>4, Zenon DEF Settles, IsNacked, u
  <2> QED BY <2>1, <2>3, <2>5, NackSafe, Zenon
<1> QED BY <1>1, <1>2, <1>3, <1>4, <1>5 DEF Move

LEMMA InitSInv == Init => SInv
<1> SUFFICES ASSUME Init PROVE SInv
  OBVIOUS
<1>1. IInv
  BY InitIInv
<1>2. db = EmptyDatabase /\ granted = <<>>
  BY DEF Init
<1>3. \A id \in EventIDs : db.records[id] = Absent
  BY <1>2 DEF EmptyDatabase
<1>4. /\ db.stats.deliveries = 0 /\ db.stats.redeliveries = 0 /\ db.stats.accepted = 0
      /\ db.stats.acked = 0 /\ ActiveCount(db.stats) = 0
  BY <1>2 DEF EmptyDatabase, ActiveCount
<1>5. Tried(db) = {}
  BY <1>3, AbsentRecord DEF Tried, Active, InState, ActiveStates
<1>6. Cardinality(Tried(db)) = 0
  BY <1>5, FS_EmptySet
<1>7. Blank(db) /\ Attempted(db) /\ Fenced(db, granted)
  BY <1>3, AbsentRecord DEF Blank, Attempted, Fenced
<1>8. Numbered(db, granted) /\ NackKept(db, granted)
  BY <1>2, <1>4 DEF Numbered, NackKept
<1>9. Ledger(db)
  BY <1>4, <1>6 DEF Ledger
<1> QED BY <1>1, <1>7, <1>8, <1>9 DEF SInv, SafeInv

LEMMA NextSInv == SInv /\ [Next]_vars => SInv'
<1> SUFFICES ASSUME SInv, [Next]_vars PROVE SInv'
  OBVIOUS
<1>1. IInv /\ SafeInv(db, granted)
  BY DEF SInv
<1>2. IInv'
  BY <1>1, NextIInv
<1>3. /\ db \in Database /\ granted \in Seq(Grant) /\ now \in Nat /\ db' \in Database
  BY <1>1, <1>2 DEF IInv, TypeOK
<1>4. \/ SweepMove(db, granted, db', granted', now)
      \/ Move(db, granted, db', granted', now)
  BY <1>1, StepIsMove
<1>5. SafeInv(db', granted')
  BY <1>1, <1>3, <1>4, MoveSafe
<1> QED BY <1>2, <1>5
        DEF SInv, SafeInv, Blank, Attempted, Numbered, Fenced, NackKept, Ledger, Tried,
            Active, InState, Latest

(* The strengthened invariant holds in every reachable state. *)
THEOREM SafetyInvariant == Spec => []SInv
BY InitSInv, NextSInv, PTL DEF Spec

(* Fencing: whatever was delivered, reclaimed, retried or swept before, and *)
(* whichever way the clock was stepped, the token stored with a lease is    *)
(* the one of the event's latest delivery, open and with the expiry its     *)
(* consumer was told, so Ack and Nack of durable.go settle nothing for a    *)
(* superseded token.                                                        *)
THEOREM TokensAreFenced == Spec => []TokensFenced
<1>1. SInv => TokensFenced
  BY DEF SInv, SafeInv, Fenced, OpenGrant, TokensFenced
<1> QED BY <1>1, SafetyInvariant, PTL

(* A NACK whose reply was lost can be repeated until redelivery: Nack of    *)
(* durable.go then answers duplicate to the same request and conflict to    *)
(* any other, also for quarantined events and after any sweep.              *)
THEOREM NackRetries == Spec => []NackRetrySafe
<1>1. SInv => NackRetrySafe
  <2> SUFFICES ASSUME SInv, NEW token \in DOMAIN granted,
                      granted[token].outcome = "nacked", LatestDelivery(token),
                      NEW n \in NackRequests, ValidNack(n)
               PROVE  NackAnswer(db, granted[token].id, token, n, now) =
                        IF n = granted[token].request THEN "duplicate" ELSE "conflict"
    BY DEF NackRetrySafe
  <2>1. Latest(granted, token)
    BY DEF LatestDelivery, Latest
  <2>2. /\ db.records[granted[token].id].state \in {"ready", "quarantined"}
        /\ db.records[granted[token].id].lastNackToken = token
        /\ db.records[granted[token].id].lastNackHash = granted[token].request
    BY <2>1 DEF SInv, SafeInv, NackKept
  <2> QED BY <2>2 DEF NackAnswer, RepeatsNack
<1> QED BY <1>1, SafetyInvariant, PTL

(* The persisted totals of durable.go balance: accepted events are active   *)
(* or acknowledged, and first deliveries belong to acknowledged events or   *)
(* to active ones that were attempted.                                      *)
THEOREM LedgerCorrect == Spec => []LedgerBalances
<1>1. SInv => LedgerBalances
  BY DEF SInv, SafeInv, Ledger, Tried, LedgerBalances
<1> QED BY <1>1, SafetyInvariant, PTL

-----------------------------------------------------------------------------
(* The fate of records *)

(* How many deliveries of an event a step adds to g to give h. *)
New(g, h, id) == Cardinality({u \in DOMAIN h \ DOMAIN g : h[u].id = id})

LEMMA NoDelivery ==
  ASSUME NEW g, NEW h, NEW id, DOMAIN h = DOMAIN g
  PROVE  New(g, h, id) = 0
<1>1. {u \in DOMAIN h \ DOMAIN g : h[u].id = id} = {}
  OBVIOUS
<1> QED BY <1>1, FS_EmptySet DEF New

LEMMA OtherDelivery ==
  ASSUME NEW g \in Seq(Grant), NEW v \in Grant, NEW id, v.id # id
  PROVE  New(g, Append(g, v), id) = 0
<1> DEFINE h == Append(g, v)
<1>1. /\ DOMAIN g = 1 .. Len(g) /\ DOMAIN h = 1 .. (Len(g) + 1) /\ Len(g) \in Nat
      /\ h[Len(g) + 1] = v
  BY AppendedGrant
<1> HIDE DEF h
<1>2. DOMAIN h \ DOMAIN g = {Len(g) + 1}
  BY <1>1
<1>3. {u \in DOMAIN h \ DOMAIN g : h[u].id = id} = {}
  BY <1>1, <1>2
<1> QED BY <1>3, FS_EmptySet DEF h, New

LEMMA NewDelivery ==
  ASSUME NEW g \in Seq(Grant), NEW v \in Grant
  PROVE  New(g, Append(g, v), v.id) = 1
<1> DEFINE h == Append(g, v)
<1>1. /\ DOMAIN g = 1 .. Len(g) /\ DOMAIN h = 1 .. (Len(g) + 1) /\ Len(g) \in Nat
      /\ h[Len(g) + 1] = v
  BY AppendedGrant
<1> HIDE DEF h
<1>2. {u \in DOMAIN h \ DOMAIN g : h[u].id = v.id} = {Len(g) + 1}
  <2>1. DOMAIN h \ DOMAIN g = {Len(g) + 1}
    BY <1>1
  <2> QED BY <1>1, <2>1
<1>3. Cardinality({Len(g) + 1}) = 1
  BY FS_Singleton
<1> QED BY <1>2, <1>3 DEF h, New

(* Record o becomes s in a step with n deliveries of its event. *)
ActiveTo(o, s, n, t) ==
  /\ s.seq = o.seq /\ s.hash = o.hash
  /\ \/ s.state \in ActiveStates /\ s.event = o.event /\ s.attempt = o.attempt + n
     \/ s.state = "completed" /\ HoldsLease(o, s.token, t) /\ s.attempt = o.attempt

CompletedTo(o, s, q, t) ==
  s = o \/ (o.due <= t /\ (s = Absent \/ s.seq > q))

KeptRecord(d, g, r, h, t, id) ==
  /\ d.records[id].state \in ActiveStates
       => ActiveTo(d.records[id], r.records[id], New(g, h, id), t)
  /\ d.records[id].state = "completed"
       => CompletedTo(d.records[id], r.records[id], d.sequence, t)

(* Records that no step but a sweep touched. *)
LEMMA UntouchedKept ==
  ASSUME NEW d \in Database, NEW g, NEW h, NEW r, NEW t \in Nat, NEW id \in EventIDs,
         NEW back \in SUBSET Due(d, "leased", t), NEW gone \in SUBSET Due(d, "completed", t),
         r.records[id] = SweptRecords(d, back, gone, t)[id], New(g, h, id) = 0
  PROVE  KeptRecord(d, g, r, h, t, id)
<1> DEFINE o == d.records[id]
           s == r.records[id]
<1>1. o \in Record /\ SweptTo(o, s, t)
  BY SweptRecord, Zenon
<1>2. o.attempt \in Nat
  BY <1>1 DEF Record
<1> HIDE DEF o, s
<1>3. ASSUME o.state \in ActiveStates PROVE ActiveTo(o, s, New(g, h, id), t)
  BY <1>1, <1>2, <1>3 DEF SweptTo, ActiveTo, ActiveStates
<1>4. ASSUME o.state = "completed" PROVE CompletedTo(o, s, d.sequence, t)
  BY <1>1, <1>4 DEF SweptTo, CompletedTo
<1> QED BY <1>3, <1>4 DEF KeptRecord, o, s

LEMMA MoveKept ==
  ASSUME NEW d \in Database, NEW r \in Database, NEW g \in Seq(Grant), NEW h, NEW t \in Nat,
         SafeInv(d, g), SweepMove(d, g, r, h, t) \/ Move(d, g, r, h, t), NEW id \in EventIDs
  PROVE  KeptRecord(d, g, r, h, t, id)
<1>0. d.records \in [EventIDs -> Record] /\ d.records[id] \in Record
  BY StatsNumbers
<1>e. {} \in SUBSET Due(d, "leased", t) /\ {} \in SUBSET Due(d, "completed", t)
  OBVIOUS
<1>z. DOMAIN h = DOMAIN g => New(g, h, id) = 0
  BY NoDelivery
<1>s. d.records[id] = SweptRecords(d, {}, {}, t)[id]
  BY DEF SweptRecords
<1>1. CASE SweepMove(d, g, r, h, t)
  <2>1. PICK back \in SUBSET Due(d, "leased", t), gone \in SUBSET Due(d, "completed", t) :
          r.records = SweptRecords(d, back, gone, t) /\ h = g
    BY <1>1 DEF SweepMove
  <2>2. New(g, h, id) = 0 /\ r.records[id] = SweptRecords(d, back, gone, t)[id]
    BY <1>z, <2>1
  <2> QED BY <2>2, UntouchedKept, Zenon
<1>2. CASE AcceptMove(d, g, r, h, t)
  <2>1. PICK gone \in SUBSET Due(d, "completed", t), i \in EventIDs, p \in Payloads :
          /\ SweptRecords(d, {}, gone, t)[i].state = "absent"
          /\ r.records = [SweptRecords(d, {}, gone, t) EXCEPT
                            ![i] = Admitted(p, d.sequence + 1, t)]
          /\ h = g
    BY <1>2 DEF AcceptMove
  <2>2. New(g, h, id) = 0
    BY <1>z, <2>1
  <2> DEFINE v == SweptRecords(d, {}, gone, t)
  <2>3. CASE id = i
    <3>1. SweptTo(d.records[id], v[id], t)
      BY <1>e, SweptRecord, Zenon
    <3>2. d.records[id].state = "absent" \/ (d.records[id].state = "completed"
                                               /\ d.records[id].due <= t)
      BY <2>1, <2>3, <3>1 DEF SweptTo
    <3>3. r.records[id].seq > d.sequence
      <4> DEFINE q == d.sequence + 1
      <4>1. q \in Nat /\ q > d.sequence
        BY StatsNumbers
      <4>2. r.records[id] = Admitted(p, q, t)
        BY <2>1, <2>3 DEF SweptRecords
      <4> HIDE DEF q
      <4>3. r.records[id].seq = q
        BY <4>1, <4>2, AdmittedRecord
      <4> QED BY <4>1, <4>3
    <3> QED BY <3>2, <3>3 DEF KeptRecord, CompletedTo, ActiveStates
  <2>4. CASE id # i
    <3>1. r.records[id] = v[id]
      BY <2>1, <2>4 DEF SweptRecords
    <3> QED BY <1>e, <2>2, <3>1, UntouchedKept, Zenon
  <2> QED BY <2>3, <2>4
<1>3. CASE DeliverMove(d, g, r, h, t)
  <2>1. PICK back \in SUBSET Due(d, "leased", t), i \in EventIDs :
          LET v == SweptRecords(d, back, {}, t) IN
          /\ v[i].state = "ready"
          /\ r.records = [v EXCEPT ![i] = HandedOut(v[i], d.stats.deliveries + 1, t)]
          /\ h = Append(g, NewGrant(i, t))
    BY <1>3 DEF DeliverMove
  <2> DEFINE v == SweptRecords(d, back, {}, t)
             a == NewGrant(i, t)
  <2>2. a \in Grant /\ a.id = i
    <3>1. t + LeaseDuration \in Nat
      BY OptionsAssumption
    <3> QED BY <3>1 DEF NewGrant, Grant
  <2>3. SweptTo(d.records[id], v[id], t) /\ v[id] \in Record
    BY <1>e, SweptRecord, Zenon
  <2>4. CASE id = i
    <3> DEFINE k == d.stats.deliveries + 1
               s == r.records[id]
    <3>1. k \in Nat
      BY StatsNumbers
    <3>2. s = HandedOut(v[id], k, t)
      BY <2>1, <2>4 DEF SweptRecords
    <3> HIDE DEF k
    <3>3. IsHandedOut(v[id], k, t, s)
      BY <2>3, <3>1, <3>2, HandedOutRecord, Zenon
    <3>4. New(g, h, id) = 1
      <4> HIDE DEF a
      <4>1. h = Append(g, a)
        BY <2>1 DEF a
      <4> QED BY <2>2, <2>4, <4>1, NewDelivery
    <3>5. d.records[id].state # "completed"
      BY <2>1, <2>3, <2>4, AbsentRecord DEF SweptTo
    <3>6. ASSUME d.records[id].state \in ActiveStates
          PROVE  ActiveTo(d.records[id], s, 1, t)
      <4>1. /\ v[id].seq = d.records[id].seq /\ v[id].hash = d.records[id].hash
            /\ v[id].event = d.records[id].event /\ v[id].attempt = d.records[id].attempt
        BY <2>3, <3>6 DEF SweptTo, ActiveStates
      <4> HIDE DEF s, v
      <4> QED BY <3>3, <4>1 DEF IsHandedOut, ActiveTo, ActiveStates
    <3> QED BY <3>4, <3>5, <3>6 DEF KeptRecord
  <2>5. CASE id # i
    <3>1. r.records[id] = v[id]
      BY <2>1, <2>5 DEF SweptRecords
    <3>2. New(g, h, id) = 0
      <4> HIDE DEF a
      <4>1. h = Append(g, a) /\ a.id # id
        BY <2>1, <2>2, <2>5 DEF a
      <4> QED BY <2>2, <4>1, OtherDelivery
    <3> QED BY <1>e, <3>1, <3>2, UntouchedKept, Zenon
  <2> QED BY <2>4, <2>5
<1>4. CASE AckMove(d, g, r, h, t)
  <2>1. PICK i \in EventIDs, token \in DOMAIN g :
          /\ HoldsLease(d.records[i], token, t)
          /\ r.records = [d.records EXCEPT ![i] = Acknowledged(d.records[i], t)]
          /\ h = [g EXCEPT ![token].outcome = "acked", ![token].until = t + CompletionTTL]
    BY <1>4 DEF AckMove
  <2>2. New(g, h, id) = 0
    <3>1. DOMAIN h = DOMAIN g
      BY <2>1
    <3> QED BY <1>z, <3>1
  <2>3. CASE id = i
    <3> DEFINE o == d.records[id]
               s == r.records[id]
    <3>1. s = Acknowledged(o, t)
      BY <1>0, <2>1, <2>3
    <3>2. IsAcknowledged(o, t, s)
      BY <1>0, <3>1, AcknowledgedRecord, Zenon
    <3>3. o.state = "leased" /\ o.token = token /\ HoldsLease(o, token, t)
      BY <2>1, <2>3 DEF HoldsLease
    <3> HIDE DEF o, s
    <3>4. ActiveTo(o, s, 0, t)
      BY <3>2, <3>3 DEF IsAcknowledged, ActiveTo
    <3> QED BY <2>2, <3>3, <3>4 DEF KeptRecord, o, s
  <2>4. CASE id # i
    <3>1. r.records[id] = SweptRecords(d, {}, {}, t)[id]
      BY <1>0, <1>s, <2>1, <2>4
    <3> QED BY <1>e, <2>2, <3>1, UntouchedKept, Zenon
  <2> QED BY <2>3, <2>4
<1>5. CASE NackMove(d, g, r, h, t)
  <2>1. PICK i \in EventIDs, token \in DOMAIN g, n \in NackRequests,
             st \in {"ready", "quarantined"}, due \in Nat :
          /\ HoldsLease(d.records[i], token, t)
          /\ r.records = [d.records EXCEPT ![i] = Rejected(d.records[i], token, n, st, due)]
          /\ Tally(d, r, 0, 0, 0, 0)
          /\ h = [g EXCEPT ![token].outcome = "nacked", ![token].request = n]
    BY <1>5 DEF NackMove
  <2>2. New(g, h, id) = 0
    <3>1. DOMAIN h = DOMAIN g
      BY <2>1
    <3> QED BY <1>z, <3>1
  <2>3. CASE id = i
    <3> DEFINE o == d.records[id]
               s == r.records[id]
    <3>1. s = Rejected(o, token, n, st, due) /\ token \in Nat
      BY <1>0, <2>1, <2>3
    <3>2. IsRejected(o, token, n, st, s)
      BY <1>0, <3>1, RejectedRecord
    <3>3. o.state = "leased" /\ o.attempt \in Nat
      BY <1>0, <2>1, <2>3 DEF HoldsLease, Record
    <3> HIDE DEF o, s
    <3>4. ActiveTo(o, s, 0, t)
      BY <3>2, <3>3 DEF IsRejected, ActiveTo, ActiveStates
    <3> QED BY <2>2, <3>3, <3>4 DEF KeptRecord, o, s
  <2>4. CASE id # i
    <3>1. r.records[id] = SweptRecords(d, {}, {}, t)[id]
      BY <1>0, <1>s, <2>1, <2>4
    <3> QED BY <1>e, <2>2, <3>1, UntouchedKept, Zenon
  <2> QED BY <2>3, <2>4
<1> QED BY <1>1, <1>2, <1>3, <1>4, <1>5 DEF Move

(* No transaction of durable.go loses, alters, renumbers or revives an      *)
(* event: an active one stays, with its content, until the holder of an     *)
(* unexpired lease acknowledges it, attempts grow exactly with deliveries,  *)
(* and a completion is forgotten only after its TTL.                        *)
THEOREM RecordsAreKept == Spec => RecordsKept
<1>1. SInv /\ [Next]_vars => [ActiveKept(db, granted, db', granted', now)]_vars
                             /\ [CompletedKept(db, db', now)]_vars
  <2> SUFFICES ASSUME SInv, [Next]_vars
               PROVE  ActiveKept(db, granted, db', granted', now) /\ CompletedKept(db, db', now)
    OBVIOUS
  <2>1. IInv /\ SafeInv(db, granted) /\ SInv'
    BY NextSInv DEF SInv
  <2>2. db \in Database /\ granted \in Seq(Grant) /\ now \in Nat /\ db' \in Database
    BY <2>1 DEF SInv, IInv, TypeOK
  <2>3. \/ SweepMove(db, granted, db', granted', now)
        \/ Move(db, granted, db', granted', now)
    BY <2>1, StepIsMove
  <2>4. \A id \in EventIDs : KeptRecord(db, granted, db', granted', now, id)
    BY <2>1, <2>2, <2>3, MoveKept, Zenon
  <2>5. ActiveKept(db, granted, db', granted', now)
    BY <2>4 DEF ActiveKept, KeptRecord, ActiveTo, New, Active, InState
  <2>6. CompletedKept(db, db', now)
    BY <2>4 DEF CompletedKept, KeptRecord, CompletedTo, InState
  <2> QED BY <2>5, <2>6
<1> QED BY <1>1, SafetyInvariant, PTL DEF Spec, RecordsKept, NothingLost, CompletionRetained

-----------------------------------------------------------------------------
(* Receipts, while the clock does not run backwards *)

LEMMA SweptReceipts ==
  ASSUME NEW d \in Database, NEW g \in Seq(Grant), NEW t \in Nat,
         SafeInv(d, g), ReceiptInv(d, g, t),
         NEW back \in SUBSET Due(d, "leased", t), NEW gone \in SUBSET Due(d, "completed", t),
         NEW w, w.records = SweptRecords(d, back, gone, t)
  PROVE  ReceiptInv(w, g, t)
<1>0. \A id \in EventIDs : d.records[id] \in Record /\ SweptTo(d.records[id], w.records[id], t)
  BY SweptRecord, Zenon
<1>1. LeaseOwned(w, g, t)
  <2> SUFFICES ASSUME NEW token \in DOMAIN g, g[token].outcome = "open", g[token].expires > t
               PROVE  w.records[g[token].id].state = "leased" /\ w.records[g[token].id].token = token
    BY DEF LeaseOwned
  <2> DEFINE o == d.records[g[token].id]
  <2>1. g[token].id \in EventIDs
    BY GrantedIDs
  <2>2. o.state = "leased" /\ o.token = token
    BY DEF ReceiptInv, LeaseOwned
  <2>3. g[token] = OpenGrant(g[token].id, o)
    BY <2>1, <2>2 DEF SafeInv, Fenced
  <2>4. g[token].expires = o.due
    BY <2>3 DEF OpenGrant
  <2>5. o.due \in Nat
    BY <1>0, <2>1 DEF Record
  <2>6. w.records[g[token].id] = o
    BY <1>0, <2>1, <2>2, <2>4, <2>5 DEF SweptTo
  <2> QED BY <2>2, <2>6
<1>2. AckKept(w, g, t)
  <2> SUFFICES ASSUME NEW token \in DOMAIN g, g[token].outcome = "acked", g[token].until > t
               PROVE  /\ w.records[g[token].id].state = "completed"
                      /\ w.records[g[token].id].token = token
                      /\ w.records[g[token].id].due = g[token].until
    BY DEF AckKept
  <2> DEFINE o == d.records[g[token].id]
  <2>1. g[token].id \in EventIDs
    BY GrantedIDs
  <2>2. o.state = "completed" /\ o.token = token /\ o.due = g[token].until
    BY DEF ReceiptInv, AckKept
  <2>3. o.due \in Nat
    BY <1>0, <2>1 DEF Record
  <2>4. w.records[g[token].id] = o
    BY <1>0, <2>1, <2>2, <2>3 DEF SweptTo
  <2> QED BY <2>2, <2>4
<1> QED BY <1>1, <1>2 DEF ReceiptInv

(* Writing a record that is neither leased nor completed disturbs no receipt. *)
LEMMA WrittenReceipts ==
  ASSUME NEW w \in Database, NEW g \in Seq(Grant), NEW t, ReceiptInv(w, g, t), NEW r,
         NEW id \in EventIDs, w.records[id].state \notin {"leased", "completed"},
         \A o \in EventIDs \ {id} : r.records[o] = w.records[o]
  PROVE  ReceiptInv(r, g, t)
<1>1. \A token \in DOMAIN g : g[token].id \in EventIDs
  BY GrantedIDs
<1>2. LeaseOwned(r, g, t)
  BY <1>1 DEF ReceiptInv, LeaseOwned
<1>3. AckKept(r, g, t)
  BY <1>1 DEF ReceiptInv, AckKept
<1> QED BY <1>2, <1>3 DEF ReceiptInv

LEMMA MoveReceipts ==
  ASSUME NEW d \in Database, NEW r \in Database, NEW g \in Seq(Grant), NEW h, NEW t \in Nat,
         SafeInv(d, g), ReceiptInv(d, g, t),
         SweepMove(d, g, r, h, t) \/ Move(d, g, r, h, t)
  PROVE  ReceiptInv(r, h, t)
<1>0. d.records \in [EventIDs -> Record]
  BY StatsNumbers
<1>e. {} \in SUBSET Due(d, "leased", t) /\ {} \in SUBSET Due(d, "completed", t)
  OBVIOUS
<1>1. CASE SweepMove(d, g, r, h, t)
  <2>1. PICK back \in SUBSET Due(d, "leased", t), gone \in SUBSET Due(d, "completed", t) :
          r.records = SweptRecords(d, back, gone, t) /\ h = g
    BY <1>1 DEF SweepMove
  <2>2. ReceiptInv(r, g, t)
    BY <2>1, SweptReceipts, Zenon
  <2> QED BY <2>1, <2>2
<1>2. CASE AcceptMove(d, g, r, h, t)
  <2>1. PICK gone \in SUBSET Due(d, "completed", t), i \in EventIDs, p \in Payloads :
          /\ SweptRecords(d, {}, gone, t)[i].state = "absent"
          /\ r.records = [SweptRecords(d, {}, gone, t) EXCEPT
                            ![i] = Admitted(p, d.sequence + 1, t)]
          /\ h = g
    BY <1>2 DEF AcceptMove
  <2> DEFINE w == [d EXCEPT !.records = SweptRecords(d, {}, gone, t)]
  <2>2. /\ w \in Database /\ w.records = SweptRecords(d, {}, gone, t)
        /\ w.stats = d.stats /\ SafeInv(w, g)
    <3>1. {} \in SUBSET Due(d, "leased", t)
      OBVIOUS
    <3> QED BY <3>1, SweptDatabase, Zenon
  <2> HIDE DEF w
  <2>3. ReceiptInv(w, g, t)
    BY <1>e, <2>2, SweptReceipts, Zenon
  <2>4. \A o \in EventIDs \ {i} : r.records[o] = w.records[o]
    BY <2>1, <2>2 DEF SweptRecords
  <2>5. w.records[i].state \notin {"leased", "completed"}
    BY <2>1, <2>2
  <2>6. ReceiptInv(r, g, t)
    BY <2>2, <2>3, <2>4, <2>5, WrittenReceipts, Zenon
  <2> QED BY <2>1, <2>6
<1>3. CASE DeliverMove(d, g, r, h, t)
  <2>1. PICK back \in SUBSET Due(d, "leased", t), i \in EventIDs :
          LET v == SweptRecords(d, back, {}, t) IN
          /\ v[i].state = "ready"
          /\ r.records = [v EXCEPT ![i] = HandedOut(v[i], d.stats.deliveries + 1, t)]
          /\ h = Append(g, NewGrant(i, t))
    BY <1>3 DEF DeliverMove
  <2> DEFINE w == [d EXCEPT !.records = SweptRecords(d, back, {}, t)]
             k == d.stats.deliveries + 1
             a == NewGrant(i, t)
  <2>2. /\ w \in Database /\ w.records = SweptRecords(d, back, {}, t)
        /\ w.stats = d.stats /\ SafeInv(w, g)
    <3>1. {} \in SUBSET Due(d, "completed", t)
      OBVIOUS
    <3> QED BY <3>1, SweptDatabase, Zenon
  <2> HIDE DEF w
  <2>3. ReceiptInv(w, g, t)
    BY <1>e, <2>2, SweptReceipts, Zenon
  <2>4. \A o \in EventIDs \ {i} : r.records[o] = w.records[o]
    BY <2>1, <2>2 DEF SweptRecords
  <2>5. w.records[i].state \notin {"leased", "completed"}
    BY <2>1, <2>2
  <2>6. ReceiptInv(r, g, t)
    BY <2>2, <2>3, <2>4, <2>5, WrittenReceipts, Zenon
  <2>7. r.records[i].state = "leased" /\ r.records[i].token = k
    <3>1. k \in Nat /\ w.records[i] \in Record
      BY <2>2, StatsNumbers
    <3>2. r.records[i] = HandedOut(w.records[i], k, t)
      BY <2>1, <2>2 DEF SweptRecords
    <3> HIDE DEF k
    <3> QED BY <3>1, <3>2, HandedOutRecord DEF IsHandedOut
  <2>8. a \in Grant /\ a.id = i /\ a.outcome = "open"
    <3>1. t + LeaseDuration \in Nat
      BY OptionsAssumption
    <3> QED BY <3>1 DEF NewGrant, Grant
  <2>9. /\ \A x \in DOMAIN h : x = k \/ (x \in DOMAIN g /\ h[x] = g[x])
        /\ h[k] = a
    <3>1. h = Append(g, a) /\ Len(g) = d.stats.deliveries
      BY <2>1 DEF SafeInv, Numbered
    <3> HIDE DEF a
    <3>2. /\ DOMAIN g = 1 .. Len(g) /\ DOMAIN h = 1 .. (Len(g) + 1) /\ Len(g) \in Nat
          /\ h[Len(g) + 1] = a /\ \A u \in DOMAIN g : h[u] = g[u]
      BY <2>8, <3>1, AppendedGrant
    <3> QED BY <3>1, <3>2
  <2> HIDE DEF a, k
  <2>10. LeaseOwned(r, h, t)
    BY <2>6, <2>7, <2>8, <2>9 DEF LeaseOwned, ReceiptInv
  <2>11. AckKept(r, h, t)
    BY <2>6, <2>8, <2>9 DEF AckKept, ReceiptInv
  <2> QED BY <2>10, <2>11 DEF ReceiptInv
<1>4. CASE AckMove(d, g, r, h, t)
  <2>1. PICK i \in EventIDs, token \in DOMAIN g :
          /\ HoldsLease(d.records[i], token, t)
          /\ r.records = [d.records EXCEPT ![i] = Acknowledged(d.records[i], t)]
          /\ h = [g EXCEPT ![token].outcome = "acked", ![token].until = t + CompletionTTL]
    BY <1>4 DEF AckMove
  <2> DEFINE x == t + CompletionTTL
             u == Acknowledged(d.records[i], t)
  <2>2. x \in Nat /\ d.records[i] \in Record
    BY <1>0, OptionsAssumption
  <2>3. IsAcknowledged(d.records[i], t, u)
    BY <2>2, AcknowledgedRecord, Zenon
  <2>4. IsAcked(g, h, token, x)
    <3> HIDE DEF x
    <3> QED BY <2>1, <2>2, AckedGrant DEF x
  <2>5. /\ d.records[i].state = "leased" /\ d.records[i].token = token /\ g[token].id = i
    BY <2>1, Settling
  <2> HIDE DEF u
  <2>6. r.records[i] = u /\ \A o \in EventIDs \ {i} : r.records[o] = d.records[o]
    BY <1>0, <2>1 DEF u
  <2>7. u.state = "completed" /\ u.token = token /\ u.due = x
    BY <2>3, <2>5 DEF IsAcknowledged
  <2>8. /\ h[token].id = i /\ h[token].outcome = "acked" /\ h[token].until = x
        /\ DOMAIN h = DOMAIN g
        /\ \A y \in DOMAIN g \ {token} : h[y] = g[y]
    BY <2>4, <2>5 DEF IsAcked, IsSettled
  <2>9. \A y \in DOMAIN g : g[y].id \in EventIDs
    BY GrantedIDs
  <2> HIDE DEF x
  <2>10. LeaseOwned(r, h, t)
    BY <2>5, <2>6, <2>8, <2>9 DEF LeaseOwned, ReceiptInv
  <2>11. AckKept(r, h, t)
    BY <2>5, <2>6, <2>7, <2>8, <2>9 DEF AckKept, ReceiptInv
  <2> QED BY <2>10, <2>11 DEF ReceiptInv
<1>5. CASE NackMove(d, g, r, h, t)
  <2>1. PICK i \in EventIDs, token \in DOMAIN g, n \in NackRequests,
             st \in {"ready", "quarantined"}, due \in Nat :
          /\ HoldsLease(d.records[i], token, t)
          /\ r.records = [d.records EXCEPT ![i] = Rejected(d.records[i], token, n, st, due)]
          /\ Tally(d, r, 0, 0, 0, 0)
          /\ h = [g EXCEPT ![token].outcome = "nacked", ![token].request = n]
    BY <1>5 DEF NackMove
  <2>2. IsNacked(g, h, token, n)
    BY <2>1, NackedGrant
  <2>3. /\ d.records[i].state = "leased" /\ d.records[i].token = token /\ g[token].id = i
    BY <2>1, Settling
  <2>4. \A o \in EventIDs \ {i} : r.records[o] = d.records[o]
    BY <1>0, <2>1
  <2>5. /\ h[token].outcome = "nacked" /\ DOMAIN h = DOMAIN g
        /\ \A y \in DOMAIN g \ {token} : h[y] = g[y]
    BY <2>2 DEF IsNacked, IsSettled
  <2>6. \A y \in DOMAIN g : g[y].id \in EventIDs
    BY GrantedIDs
  <2>7. LeaseOwned(r, h, t)
    BY <2>3, <2>4, <2>5, <2>6 DEF LeaseOwned, ReceiptInv
  <2>8. AckKept(r, h, t)
    BY <2>3, <2>4, <2>5, <2>6 DEF AckKept, ReceiptInv
  <2> QED BY <2>7, <2>8 DEF ReceiptInv
<1> QED BY <1>1, <1>2, <1>3, <1>4, <1>5 DEF Move

RInv == SInv /\ ReceiptInv(db, granted, now)

LEMMA ClockAdvances ==
  ASSUME ClockSteps \subseteq Nat, now \in Nat, [Next]_vars
  PROVE  now' \in Nat /\ now <= now'
<1>1. CASE Tick
  BY <1>1 DEF Tick
<1>2. CASE now' = now
  BY <1>2
<1> QED BY <1>1, <1>2 DEF Next, vars, Publish, Lease, Ack, Nack, Cleanup

LEMMA NextReceipts ==
  ASSUME ClockSteps \subseteq Nat, SInv, ReceiptInv(db, granted, now), [Next]_vars
  PROVE  ReceiptInv(db', granted', now')
<1>1. IInv /\ SafeInv(db, granted) /\ SInv'
  BY NextSInv DEF SInv
<1>2. /\ db \in Database /\ granted \in Seq(Grant) /\ now \in Nat
      /\ db' \in Database /\ granted' \in Seq(Grant)
  BY <1>1 DEF SInv, IInv, TypeOK
<1>3. \/ SweepMove(db, granted, db', granted', now)
      \/ Move(db, granted, db', granted', now)
  BY <1>1, StepIsMove
<1>4. ReceiptInv(db', granted', now)
  BY <1>1, <1>2, <1>3, MoveReceipts, Zenon
<1>5. now' \in Nat /\ now <= now'
  BY <1>2, ClockAdvances
<1>6. \A x \in DOMAIN granted' : granted'[x].expires \in Nat /\ granted'[x].until \in Nat
  <2> SUFFICES ASSUME NEW x \in DOMAIN granted'
               PROVE  granted'[x].expires \in Nat /\ granted'[x].until \in Nat
    OBVIOUS
  <2>1. granted'[x] \in Grant
    BY <1>2
  <2> QED BY <2>1 DEF Grant
<1> QED BY <1>2, <1>4, <1>5, <1>6 DEF ReceiptInv, LeaseOwned, AckKept

(* As long as the wall clock of the broker never steps back, every receipt  *)
(* durable.go hands out is honoured: an unexpired, unsettled delivery can   *)
(* still be acknowledged, and a repeated ACK is answered as a duplicate for *)
(* the whole completion TTL.                                                *)
THEOREM ReceiptsAreHonoured ==
  ASSUME ClockSteps \subseteq Nat
  PROVE  Spec => []ReceiptsHonoured
<1>1. Init => RInv
  <2>1. Init => ReceiptInv(db, granted, now)
    BY DEF Init, ReceiptInv, LeaseOwned, AckKept
  <2> QED BY <2>1, InitSInv DEF RInv
<1>2. RInv /\ [Next]_vars => RInv'
  <2> SUFFICES ASSUME RInv, [Next]_vars PROVE RInv'
    OBVIOUS
  <2>1. SInv' /\ ReceiptInv(db', granted', now')
    BY NextSInv, NextReceipts DEF RInv
  <2> QED BY <2>1 DEF RInv, ReceiptInv, LeaseOwned, AckKept
<1>3. RInv => ReceiptsHonoured
  <2> SUFFICES ASSUME RInv, NEW token \in DOMAIN granted
               PROVE  /\ granted[token].outcome = "open" /\ granted[token].expires > now
                           => AckAnswer(db, granted[token].id, token, now) = "completed"
                      /\ granted[token].outcome = "acked" /\ granted[token].until > now
                           => AckAnswer(db, granted[token].id, token, now) = "duplicate"
    BY DEF ReceiptsHonoured, LeaseHonoured, AckRetrySafe
  <2> DEFINE id == granted[token].id
  <2>1. granted \in Seq(Grant) /\ SafeInv(db, granted) /\ ReceiptInv(db, granted, now)
    BY DEF RInv, SInv, IInv, TypeOK
  <2>2. id \in EventIDs
    BY <2>1, GrantedIDs
  <2>3. ASSUME granted[token].outcome = "open", granted[token].expires > now
        PROVE  AckAnswer(db, id, token, now) = "completed"
    <3>1. db.records[id].state = "leased" /\ db.records[id].token = token
      BY <2>1, <2>3 DEF ReceiptInv, LeaseOwned
    <3>2. granted[token] = OpenGrant(id, db.records[id])
      BY <2>1, <2>2, <3>1 DEF SafeInv, Fenced
    <3>3. granted[token].expires = db.records[id].due
      BY <3>2 DEF OpenGrant
    <3> QED BY <2>3, <3>1, <3>3 DEF AckAnswer, HoldsLease
  <2>4. ASSUME granted[token].outcome = "acked", granted[token].until > now
        PROVE  AckAnswer(db, id, token, now) = "duplicate"
    <3>1. /\ db.records[id].state = "completed" /\ db.records[id].token = token
          /\ db.records[id].due = granted[token].until
      BY <2>1, <2>4 DEF ReceiptInv, AckKept
    <3> QED BY <2>4, <3>1 DEF AckAnswer
  <2> QED BY <2>3, <2>4
<1> QED BY <1>1, <1>2, <1>3, PTL DEF Spec

-----------------------------------------------------------------------------
(* The broker implements ReliableQueue *)

LEMMA StatusOf ==
  ASSUME NEW o \in Record
  PROVE  /\ o.state = "absent" <=> AbsStatus(o) = "unknown"
         /\ o.state = "ready" <=> AbsStatus(o) = "waiting"
         /\ o.state = "leased" <=> AbsStatus(o) = "held"
         /\ o.state = "quarantined" <=> AbsStatus(o) = "parked"
         /\ o.state = "completed" <=> AbsStatus(o) = "done"
<1>1. o.state \in {"absent", "ready", "leased", "quarantined", "completed"}
  BY DEF Record
<1> QED BY <1>1 DEF AbsStatus

(* How the promise sees a sweep of one record: o becomes u. *)
AbsSwept(o, u, isBack, isGone) ==
  /\ AbsStatus(u) = IF isBack THEN "waiting" ELSE IF isGone THEN "unknown" ELSE AbsStatus(o)
  /\ u.hash = IF isGone THEN NoPayload ELSE o.hash
  /\ u.token = IF isBack \/ isGone THEN 0 ELSE o.token

LEMMA SweptAbs ==
  ASSUME NEW d \in Database, NEW t \in Nat, NEW id \in EventIDs,
         NEW back \in SUBSET Due(d, "leased", t), NEW gone \in SUBSET Due(d, "completed", t)
  PROVE  AbsSwept(d.records[id], SweptRecords(d, back, gone, t)[id], id \in back, id \in gone)
<1> DEFINE o == d.records[id]
           u == SweptRecords(d, back, gone, t)[id]
<1>1. o \in Record
  BY StatsNumbers
<1>2. u = IF id \in back THEN Reclaimed(o, t) ELSE IF id \in gone THEN Absent ELSE o
  BY DEF SweptRecords
<1>3. ~(id \in back /\ id \in gone)
  BY DEF Due
<1> HIDE DEF o, u
<1>4. CASE id \in back
  <2>1. IsReclaimed(o, t, u)
    BY <1>1, <1>2, <1>4, ReclaimedRecord
  <2>2. u \in Record /\ u.state = "ready" /\ u.hash = o.hash /\ u.token = 0
    BY <2>1 DEF IsReclaimed
  <2>3. AbsStatus(u) = "waiting"
    BY <2>2, StatusOf
  <2> QED BY <1>3, <1>4, <2>2, <2>3 DEF AbsSwept, o, u
<1>5. CASE id \in gone
  <2>1. u = Absent
    BY <1>2, <1>3, <1>5
  <2>2. AbsStatus(Absent) = "unknown" /\ Absent.token = 0 /\ Absent.hash = NoPayload
    BY AbsentRecord, StatusOf
  <2> QED BY <1>3, <1>5, <2>1, <2>2 DEF AbsSwept, o, u
<1>6. CASE id \notin back /\ id \notin gone
  BY <1>2, <1>6 DEF AbsSwept, o, u
<1> QED BY <1>4, <1>5, <1>6

(* The active gauges count the events the promise bounds. *)
LEMMA ActiveCounted ==
  ASSUME NEW d, DBInv(d)
  PROVE  Cardinality(Active(d)) = ActiveCount(d.stats)
<1> DEFINE A == InState(d, {"ready"})
           B == InState(d, {"leased"})
           C == InState(d, {"quarantined"})
<1>1. A \subseteq EventIDs /\ B \subseteq EventIDs /\ C \subseteq EventIDs
  BY DEF InState
<1>2. IsFiniteSet(A) /\ IsFiniteSet(B) /\ IsFiniteSet(C)
  BY <1>1, FS_Subset, InputsAssumption
<1>3. A \cap B = {} /\ (A \cup B) \cap C = {}
  BY DEF InState
<1>4. Active(d) = (A \cup B) \cup C
  BY DEF Active, InState, ActiveStates
<1>5. /\ d.stats.ready = Cardinality(A) /\ d.stats.leased = Cardinality(B)
      /\ d.stats.quarantined = Cardinality(C)
  BY DEF DBInv, CountOK, Counted, Indexed, Gauge
<1> HIDE DEF A, B, C
<1>6. ASSUME NEW S, NEW T, IsFiniteSet(S), IsFiniteSet(T), S \cap T = {}
      PROVE  /\ IsFiniteSet(S \cup T)
             /\ Cardinality(S \cup T) = Cardinality(S) + Cardinality(T)
  <2>1. /\ IsFiniteSet(S \cup T)
        /\ Cardinality(S \cup T) = Cardinality(S) + Cardinality(T) - Cardinality(S \cap T)
    BY <1>6, FS_Union
  <2>2. Cardinality(S \cap T) = 0 /\ Cardinality(S) \in Nat /\ Cardinality(T) \in Nat
    BY <1>6, FS_EmptySet, FS_CardinalityType
  <2> QED BY <2>1, <2>2
<1>7. IsFiniteSet(A \cup B) /\ Cardinality(A \cup B) = Cardinality(A) + Cardinality(B)
  BY <1>2, <1>3, <1>6
<1>8. Cardinality((A \cup B) \cup C) = Cardinality(A \cup B) + Cardinality(C)
  BY <1>2, <1>3, <1>6, <1>7
<1> QED BY <1>4, <1>5, <1>7, <1>8 DEF ActiveCount


(* What the promise calls held, done and unsettled. *)
LEMMA AbsSets ==
  ASSUME db \in Database
  PROVE  /\ \A t : Due(db, "leased", t) \subseteq Promise!With({"held"})
         /\ \A t : Due(db, "completed", t) \subseteq Promise!With({"done"})
         /\ Promise!With({"waiting", "held", "parked"}) = Active(db)
<1>1. \A id \in EventIDs : db.records[id] \in Record
  BY StatsNumbers
<1>2. \A id \in EventIDs :
        /\ db.records[id].state = "ready" <=> AbsStatus(db.records[id]) = "waiting"
        /\ db.records[id].state = "leased" <=> AbsStatus(db.records[id]) = "held"
        /\ db.records[id].state = "quarantined" <=> AbsStatus(db.records[id]) = "parked"
        /\ db.records[id].state = "completed" <=> AbsStatus(db.records[id]) = "done"
  BY <1>1, StatusOf
<1> QED BY <1>2 DEF Promise!With, Due, Active, InState, ActiveStates

LEMMA SweepReliable ==
  ASSUME SInv, SweepMove(db, granted, db', granted', now)
  PROVE  Promise!AbsNext
<1>0. db \in Database /\ now \in Nat
  BY DEF SInv, IInv, TypeOK
<1>1. PICK back \in SUBSET Due(db, "leased", now), gone \in SUBSET Due(db, "completed", now) :
        /\ db'.records = SweptRecords(db, back, gone, now)
        /\ Tally(db, db', 0, 0, 0, 0)
        /\ granted' = granted
  BY DEF SweepMove
<1>2. \A id \in EventIDs : AbsSwept(db.records[id], db'.records[id], id \in back, id \in gone)
  BY <1>0, <1>1, SweptAbs
<1>3. db'.stats.deliveries = db.stats.deliveries
  BY <1>0, <1>1, StatsNumbers DEF Tally
<1>4. Promise!Sweep(back, gone)
  BY <1>2, <1>3 DEF AbsSwept, Promise!Sweep, Promise!SweptStatus, Promise!SweptContent,
                    Promise!SweptHolder
<1>5. back \in SUBSET Promise!With({"held"}) /\ gone \in SUBSET Promise!With({"done"})
  BY <1>0, AbsSets
<1> QED BY <1>4, <1>5 DEF Promise!AbsNext

LEMMA AcceptReliable ==
  ASSUME SInv, AcceptMove(db, granted, db', granted', now)
  PROVE  Promise!AbsNext
<1>0. db \in Database /\ now \in Nat /\ DBInv(db) /\ SafeInv(db, granted)
  BY DEF SInv, IInv, TypeOK
<1>1. PICK gone \in SUBSET Due(db, "completed", now), i \in EventIDs, p \in Payloads :
        LET v == SweptRecords(db, {}, gone, now) IN
        /\ v[i].state = "absent"
        /\ ActiveCount(db.stats) < Capacity
        /\ db'.records = [v EXCEPT ![i] = Admitted(p, db.sequence + 1, now)]
        /\ Tally(db, db', 1, 0, 0, 0)
        /\ granted' = granted
  BY DEF AcceptMove
<1> DEFINE v == SweptRecords(db, {}, gone, now)
           u == Admitted(p, db.sequence + 1, now)
<1>2. \A o \in EventIDs : v[o] \in Record /\ AbsSwept(db.records[o], v[o], FALSE, o \in gone)
  <2> SUFFICES ASSUME NEW o \in EventIDs
               PROVE  v[o] \in Record /\ AbsSwept(db.records[o], v[o], FALSE, o \in gone)
    OBVIOUS
  <2>1. {} \in SUBSET Due(db, "leased", now)
    OBVIOUS
  <2>2. v[o] \in Record
    BY <1>0, <2>1, SweptRecord, Zenon
  <2>3. AbsSwept(db.records[o], v[o], o \in {}, o \in gone)
    BY <1>0, <2>1, SweptAbs, Zenon
  <2>4. (o \in {}) = FALSE
    OBVIOUS
  <2> QED BY <2>2, <2>3, <2>4
<1>3. AbsStatus(u) = "waiting" /\ u.hash = p /\ u.token = 0
  <2>1. db.sequence + 1 \in Nat
    BY <1>0 DEF Database
  <2>2. u \in Record /\ u.state = "ready" /\ u.hash = p /\ u.token = 0
    BY <1>0, <2>1, AdmittedRecord
  <2> HIDE DEF u
  <2> QED BY <2>2, StatusOf
<1>4. /\ v[i].state = "absent"
      /\ db'.records = [v EXCEPT ![i] = u]
      /\ db'.stats.deliveries = db.stats.deliveries
  BY <1>0, <1>1, StatsNumbers DEF Tally
<1>5. DOMAIN v = EventIDs
  BY DEF SweptRecords
<1>6. AbsStatus(v[i]) = "unknown"
  BY <1>2, <1>4, StatusOf
<1>7. i \in gone \/ db.records[i].token = 0
  <2>1. ASSUME i \notin gone PROVE db.records[i] = Absent
    <3>1. v[i] = db.records[i]
      BY <2>1 DEF SweptRecords
    <3> QED BY <1>0, <1>4, <3>1 DEF SafeInv, Blank
  <2> QED BY <2>1, AbsentRecord
<1> HIDE DEF u, v
<1>8. Promise!Cardinality(Promise!With({"waiting", "held", "parked"})) < Capacity
  <2>1. \A S : Promise!Cardinality(S) = Cardinality(S)
    BY Zenon DEF Promise!Cardinality, Cardinality
  <2>2. Cardinality(Active(db)) < Capacity
    BY <1>0, <1>1, ActiveCounted
  <2> QED BY <1>0, <2>1, <2>2, AbsSets
<1>9. db'.records[i] = u /\ \A o \in EventIDs \ {i} : db'.records[o] = v[o]
  BY <1>4, <1>5
<1>10. Promise!Accept(gone, i, p)
  <2>1. Promise!SweptStatus({}, gone)[i] = "unknown"
    BY <1>2, <1>6 DEF AbsSwept, Promise!SweptStatus
  <2>2. [o \in EventIDs |-> AbsStatus(db'.records[o])]
          = [Promise!SweptStatus({}, gone) EXCEPT ![i] = "waiting"]
    BY <1>2, <1>3, <1>9 DEF AbsSwept, Promise!SweptStatus
  <2>3. [o \in EventIDs |-> db'.records[o].hash]
          = [Promise!SweptContent(gone) EXCEPT ![i] = p]
    BY <1>2, <1>3, <1>9 DEF AbsSwept, Promise!SweptContent
  <2>4. [o \in EventIDs |-> db'.records[o].token] = Promise!SweptHolder(gone)
    BY <1>2, <1>3, <1>7, <1>9 DEF AbsSwept, Promise!SweptHolder
  <2>5. db'.stats.deliveries = db.stats.deliveries
    BY <1>4
  <2> QED BY <1>8, <2>1, <2>2, <2>3, <2>4, <2>5, Zenon DEF Promise!Accept
<1>11. gone \in SUBSET Promise!With({"done"})
  BY <1>0, AbsSets
<1> QED BY <1>10, <1>11 DEF Promise!AbsNext

LEMMA DeliverReliable ==
  ASSUME SInv, DeliverMove(db, granted, db', granted', now)
  PROVE  Promise!AbsNext
<1>0. db \in Database /\ now \in Nat
  BY DEF SInv, IInv, TypeOK
<1>1. PICK back \in SUBSET Due(db, "leased", now), i \in EventIDs :
        LET v == SweptRecords(db, back, {}, now) IN
        /\ v[i].state = "ready"
        /\ db'.records = [v EXCEPT ![i] = HandedOut(v[i], db.stats.deliveries + 1, now)]
        /\ Tally(db, db', 0, 0, 1, Redelivery(v[i].attempt + 1))
        /\ granted' = Append(granted, NewGrant(i, now))
  BY DEF DeliverMove
<1> DEFINE v == SweptRecords(db, back, {}, now)
           k == db.stats.deliveries + 1
           u == HandedOut(v[i], k, now)
<1>2. \A o \in EventIDs : v[o] \in Record /\ AbsSwept(db.records[o], v[o], o \in back, FALSE)
  <2> SUFFICES ASSUME NEW o \in EventIDs
               PROVE  v[o] \in Record /\ AbsSwept(db.records[o], v[o], o \in back, FALSE)
    OBVIOUS
  <2>1. {} \in SUBSET Due(db, "completed", now)
    OBVIOUS
  <2>2. v[o] \in Record
    BY <1>0, <2>1, SweptRecord, Zenon
  <2>3. AbsSwept(db.records[o], v[o], o \in back, o \in {})
    BY <1>0, <2>1, SweptAbs, Zenon
  <2>4. (o \in {}) = FALSE
    OBVIOUS
  <2> QED BY <2>2, <2>3, <2>4
<1>3. AbsStatus(u) = "held" /\ u.hash = v[i].hash /\ u.token = k
  <2>0. k \in Nat
    BY <1>0, StatsNumbers
  <2>1. v[i] \in Record
    BY <1>2, Zenon
  <2> HIDE DEF k
  <2>2. IsHandedOut(v[i], k, now, u)
    BY <1>0, <2>0, <2>1, HandedOutRecord
  <2> HIDE DEF u
  <2>3. u \in Record /\ u.state = "leased" /\ u.hash = v[i].hash /\ u.token = k
    BY <2>2 DEF IsHandedOut
  <2> QED BY <2>3, StatusOf
<1>4. v[i].state = "ready" /\ db'.records = [v EXCEPT ![i] = u] /\ db'.stats.deliveries = k
  BY <1>1 DEF Tally
<1>5. DOMAIN v = EventIDs
  BY DEF SweptRecords
<1>6. AbsStatus(v[i]) = "waiting"
  BY <1>2, <1>4, StatusOf
<1> HIDE DEF u, v
<1>7. db'.records[i] = u /\ \A o \in EventIDs \ {i} : db'.records[o] = v[o]
  BY <1>4, <1>5
<1>8. Promise!Deliver(back, i)
  <2>1. Promise!SweptStatus(back, {})[i] = "waiting"
    BY <1>2, <1>6 DEF AbsSwept, Promise!SweptStatus
  <2>2. [o \in EventIDs |-> AbsStatus(db'.records[o])]
          = [Promise!SweptStatus(back, {}) EXCEPT ![i] = "held"]
    BY <1>2, <1>3, <1>7 DEF AbsSwept, Promise!SweptStatus
  <2>3. [o \in EventIDs |-> db'.records[o].token]
          = [Promise!SweptHolder(back) EXCEPT ![i] = k]
    <3> HIDE DEF k
    <3> QED BY <1>2, <1>3, <1>7 DEF AbsSwept, Promise!SweptHolder
  <2>4. [o \in EventIDs |-> db'.records[o].hash] = [o \in EventIDs |-> db.records[o].hash]
    BY <1>2, <1>3, <1>7 DEF AbsSwept
  <2> QED BY <1>4, <2>1, <2>2, <2>3, <2>4 DEF Promise!Deliver
<1>9. back \in SUBSET Promise!With({"held"})
  BY <1>0, AbsSets
<1> QED BY <1>8, <1>9 DEF Promise!AbsNext

(* The holder of a lease settles it: record i of db becomes u. *)
LEMMA SettleReliable ==
  ASSUME db \in Database, NEW i \in EventIDs, NEW u \in Record,
         NEW outcome \in {"done", "waiting", "parked"},
         db.records[i].state = "leased",
         db'.records = [db.records EXCEPT ![i] = u],
         db'.stats.deliveries = db.stats.deliveries,
         AbsStatus(u) = outcome, u.hash = db.records[i].hash,
         u.token = IF outcome = "done" THEN db.records[i].token ELSE 0
  PROVE  Promise!AbsNext
<1>1. db.records \in [EventIDs -> Record]
  BY StatsNumbers
<1>2. AbsStatus(db.records[i]) = "held"
  BY <1>1, StatusOf
<1>3. db'.records[i] = u /\ \A o \in EventIDs \ {i} : db'.records[o] = db.records[o]
  BY <1>1
<1>4. Promise!Settle(i, outcome)
  BY <1>2, <1>3 DEF Promise!Settle
<1> QED BY <1>4 DEF Promise!AbsNext

LEMMA AckReliable ==
  ASSUME SInv, AckMove(db, granted, db', granted', now)
  PROVE  Promise!AbsNext
<1>0. db \in Database /\ now \in Nat /\ db.records \in [EventIDs -> Record]
  BY StatsNumbers DEF SInv, IInv, TypeOK
<1>1. PICK i \in EventIDs, token \in DOMAIN granted :
        /\ HoldsLease(db.records[i], token, now)
        /\ db'.records = [db.records EXCEPT ![i] = Acknowledged(db.records[i], now)]
        /\ Tally(db, db', 0, 1, 0, 0)
        /\ granted' = [granted EXCEPT ![token].outcome = "acked",
                                      ![token].until = now + CompletionTTL]
  BY DEF AckMove
<1> DEFINE u == Acknowledged(db.records[i], now)
<1>2. IsAcknowledged(db.records[i], now, u)
  BY <1>0, AcknowledgedRecord
<1>3. db'.stats.deliveries = db.stats.deliveries
  BY <1>0, <1>1, StatsNumbers DEF Tally
<1>4. db.records[i].state = "leased"
  BY <1>1 DEF HoldsLease
<1> HIDE DEF u
<1>5. u \in Record /\ u.state = "completed" /\ u.hash = db.records[i].hash
      /\ u.token = db.records[i].token
  BY <1>2 DEF IsAcknowledged
<1>6. AbsStatus(u) = "done"
  BY <1>5, StatusOf
<1>7. db'.records = [db.records EXCEPT ![i] = u]
  BY <1>1 DEF u
<1> QED BY <1>0, <1>3, <1>4, <1>5, <1>6, <1>7, SettleReliable

LEMMA NackReliable ==
  ASSUME SInv, NackMove(db, granted, db', granted', now)
  PROVE  Promise!AbsNext
<1>0. /\ db \in Database /\ now \in Nat /\ db.records \in [EventIDs -> Record]
      /\ granted \in Seq(Grant)
  BY StatsNumbers DEF SInv, IInv, TypeOK
<1>1. PICK i \in EventIDs, token \in DOMAIN granted, n \in NackRequests,
           st \in {"ready", "quarantined"}, due \in Nat :
        /\ HoldsLease(db.records[i], token, now)
        /\ db'.records = [db.records EXCEPT ![i] = Rejected(db.records[i], token, n, st, due)]
        /\ Tally(db, db', 0, 0, 0, 0)
        /\ granted' = [granted EXCEPT ![token].outcome = "nacked", ![token].request = n]
  BY DEF NackMove
<1> DEFINE u == Rejected(db.records[i], token, n, st, due)
<1>2. IsRejected(db.records[i], token, n, st, u)
  BY <1>0, GrantedIDs, RejectedRecord
<1>3. db'.stats.deliveries = db.stats.deliveries
  BY <1>0, <1>1, StatsNumbers DEF Tally
<1>4. db.records[i].state = "leased"
  BY <1>1 DEF HoldsLease
<1>7. db'.records = [db.records EXCEPT ![i] = u]
  BY <1>1
<1> HIDE DEF u
<1>5. u \in Record /\ u.state = st /\ u.hash = db.records[i].hash /\ u.token = 0
  BY <1>2 DEF IsRejected
<1>6. /\ st = "ready" => AbsStatus(u) = "waiting"
      /\ st = "quarantined" => AbsStatus(u) = "parked"
  BY <1>5, StatusOf
<1> QED BY <1>0, <1>3, <1>4, <1>5, <1>6, <1>7, SettleReliable

(* The broker keeps the promise of docs/DAY2_PROTOCOL.md: whatever requests *)
(* arrive, repeat and cross, whatever expires and however the clock jumps,  *)
(* every committed transaction of durable.go is one step of ReliableQueue,  *)
(* and no transaction admits an event above the configured capacity.        *)
THEOREM BrokerIsReliable == Spec => Reliable
<1>1. Init => Promise!AbsInit
  <2>1. AbsStatus(Absent) = "unknown" /\ Absent.token = 0 /\ Absent.hash = NoPayload
    BY AbsentRecord, StatusOf
  <2> QED BY <2>1 DEF Init, EmptyDatabase, Promise!AbsInit
<1>2. SInv /\ [Next]_vars => [Promise!AbsNext]_Promise!absVars
  <2> SUFFICES ASSUME SInv, [Next]_vars PROVE Promise!AbsNext
    OBVIOUS
  <2>1. \/ SweepMove(db, granted, db', granted', now)
        \/ Move(db, granted, db', granted', now)
    BY StepIsMove DEF SInv
  <2> QED BY <2>1, SweepReliable, AcceptReliable, DeliverReliable, AckReliable, NackReliable
          DEF Move
<1> QED BY <1>1, <1>2, SafetyInvariant, PTL DEF Spec, Reliable, Promise!AbsSpec

-----------------------------------------------------------------------------
(* The byte account *)

(* What is left of LogicalBytes without the fixed parts is the number of    *)
(* bytes of the contents held.                                              *)
BytesOK(d) ==
  /\ IsFiniteSet(StoredBytes(d))
  /\ Account(d.stats) = Cardinality(StoredBytes(d))

LEMMA ContentCount ==
  ASSUME NEW id, NEW p \in Payloads
  PROVE  IsFiniteSet(Content(id, p)) /\ Cardinality(Content(id, p)) = Bytes[p]
<1> DEFINE n == Bytes[p]
           C == Content(id, p)
           f == [k \in 1 .. n |-> <<id, k>>]
<1>1. n \in Nat
  BY InputsAssumption
<1>2. IsFiniteSet(1 .. n) /\ Cardinality(1 .. n) = n
  BY <1>1, FS_Interval
<1>3. f \in [1 .. n -> C] /\ \A c \in C : \E k \in 1 .. n : f[k] = c
  BY DEF Content
<1>4. \A j, k \in 1 .. n : f[j] = f[k] => j = k
  OBVIOUS
<1> HIDE DEF f, C, n
<1>5. f \in Surjection(1 .. n, C)
  BY <1>3 DEF Surjection
<1>6. f \in Injection(1 .. n, C)
  BY <1>3, <1>4 DEF Injection, IsInjective
<1>7. IsFiniteSet(C) /\ Cardinality(C) = Cardinality(1 .. n)
  BY <1>2, <1>5, <1>6, FS_Surjection
<1> QED BY <1>2, <1>7 DEF C, n

(* A step that keeps the contents held, and bills nothing for them. *)
HoldsSame(d, r) ==
  \A id \in EventIDs :
    /\ d.records[id].state \in ActiveStates <=> r.records[id].state \in ActiveStates
    /\ d.records[id].state \in ActiveStates => r.records[id].event = d.records[id].event

LEMMA SameBytes ==
  ASSUME NEW d \in Database, NEW r, BytesOK(d), HoldsSame(d, r), Billed(d, r, 0)
  PROVE  BytesOK(r)
<1>1. Active(r) = Active(d)
  BY DEF HoldsSame, Active, InState
<1>2. \A id \in Active(d) : r.records[id].event = d.records[id].event
  BY DEF HoldsSame, Active, InState
<1>3. StoredBytes(r) = StoredBytes(d)
  BY <1>1, <1>2 DEF StoredBytes
<1>4. Account(r.stats) = Account(d.stats)
  <2>1. Account(d.stats) \in Int
    BY StatsNumbers DEF Account, completedOverhead, activeOverhead
  <2> QED BY <2>1 DEF Billed
<1> QED BY <1>3, <1>4 DEF BytesOK

LEMMA SweepBytes ==
  ASSUME NEW d \in Database, NEW r, NEW t \in Nat, BytesOK(d), Billed(d, r, 0),
         NEW back \in SUBSET Due(d, "leased", t), NEW gone \in SUBSET Due(d, "completed", t),
         r.records = SweptRecords(d, back, gone, t)
  PROVE  BytesOK(r)
<1>1. ASSUME NEW id \in EventIDs
      PROVE  /\ d.records[id].state \in ActiveStates <=> r.records[id].state \in ActiveStates
             /\ d.records[id].state \in ActiveStates => r.records[id].event = d.records[id].event
  <2>1. SweptTo(d.records[id], r.records[id], t)
    BY SweptRecord
  <2> QED BY <2>1, AbsentRecord DEF SweptTo, ActiveStates
<1>2. HoldsSame(d, r)
  BY <1>1 DEF HoldsSame
<1> QED BY <1>2, SameBytes

(* One record is replaced by another with the same content. *)
LEMMA RewriteBytes ==
  ASSUME NEW d \in Database, NEW r, BytesOK(d), Billed(d, r, 0), NEW id \in EventIDs, NEW u,
         r.records = [d.records EXCEPT ![id] = u],
         d.records[id].state \in ActiveStates, u.state \in ActiveStates,
         u.event = d.records[id].event
  PROVE  BytesOK(r)
<1>1. r.records[id] = u /\ \A o \in EventIDs \ {id} : r.records[o] = d.records[o]
  BY StatsNumbers
<1>2. HoldsSame(d, r)
  BY <1>1 DEF HoldsSame
<1> QED BY <1>2, SameBytes

(* d and r differ in one event, which only r holds. *)
HoldsMore(d, r, id) ==
  /\ \A o \in EventIDs \ {id} : r.records[o] = d.records[o]
  /\ d.records[id].state \notin ActiveStates
  /\ r.records[id].state \in ActiveStates /\ r.records[id].event \in Payloads

LEMMA MoreBytes ==
  ASSUME NEW d, NEW r, NEW id \in EventIDs, HoldsMore(d, r, id)
  PROVE  /\ IsFiniteSet(StoredBytes(d)) <=> IsFiniteSet(StoredBytes(r))
         /\ IsFiniteSet(StoredBytes(d)) =>
              Cardinality(StoredBytes(r)) = Cardinality(StoredBytes(d)) + Bytes[r.records[id].event]
<1> DEFINE p == r.records[id].event
           C == Content(id, p)
           S == StoredBytes(d)
           T == StoredBytes(r)
<1>0. p \in Payloads
  BY DEF HoldsMore
<1>1. Active(r) = Active(d) \cup {id} /\ id \notin Active(d)
  BY DEF HoldsMore, Active, InState
<1>2. \A o \in Active(d) : o # id /\ r.records[o] = d.records[o]
  BY <1>1 DEF HoldsMore, Active, InState
<1>3. T = S \cup C
  <2>1. \A b : b \in T <=> \E o \in Active(r) : b \in Content(o, r.records[o].event)
    BY DEF StoredBytes
  <2>2. \A b : b \in S <=> \E o \in Active(d) : b \in Content(o, d.records[o].event)
    BY DEF StoredBytes
  <2> HIDE DEF S, T
  <2>3. \A b : b \in T <=> b \in S \/ b \in C
    BY <1>1, <1>2, <2>1, <2>2
  <2> QED BY <2>3
<1>4. S \cap C = {}
  <2>1. \A o, q : \A b \in Content(o, q) : b[1] = o
    BY DEF Content
  <2>2. \A b \in S : \E o \in Active(d) : b \in Content(o, d.records[o].event)
    BY DEF StoredBytes
  <2> HIDE DEF S
  <2>3. ASSUME NEW b \in S, b \in C PROVE FALSE
    <3>1. PICK o \in Active(d) : b \in Content(o, d.records[o].event)
      BY <2>2
    <3>2. b[1] = o /\ b[1] = id
      BY <2>1, <2>3, <3>1
    <3> QED BY <1>1, <3>2
  <2> QED BY <2>3
<1>5. IsFiniteSet(C) /\ Cardinality(C) = Bytes[p]
  BY <1>0, ContentCount
<1> HIDE DEF p, C, S, T
<1>6. IsFiniteSet(T) => IsFiniteSet(S)
  <2>1. S \in SUBSET T
    BY <1>3
  <2> QED BY <2>1, FS_Subset
<1>7. ASSUME IsFiniteSet(S) PROVE IsFiniteSet(T) /\ Cardinality(T) = Cardinality(S) + Bytes[p]
  <2>1. /\ IsFiniteSet(S \cup C)
        /\ Cardinality(S \cup C) = Cardinality(S) + Cardinality(C) - Cardinality(S \cap C)
    BY <1>5, <1>7, FS_Union
  <2>2. Cardinality(S \cap C) = 0 /\ Cardinality(S) \in Nat /\ Cardinality(C) \in Nat
    BY <1>4, <1>5, <1>7, FS_EmptySet, FS_CardinalityType
  <2> QED BY <1>3, <1>5, <2>1, <2>2
<1> QED BY <1>6, <1>7 DEF S, T, p

LEMMA ExpireLeasesBytes ==
  ASSUME NEW d, DBInv(d), BytesOK(d), NEW t \in Nat PROVE BytesOK(expireLeases(d, t))
<1> DEFINE r == expireLeases(d, t)
<1>1. PICK back \in SUBSET Due(d, "leased", t) : r.records = SweptRecords(d, back, {}, t)
  BY ExpireLeasesMove
<1>2. Billed(d, r, 0) /\ d \in Database
  BY ExpireLeasesMove DEF DBInv
<1> HIDE DEF r
<1>3. BytesOK(r)
  BY <1>1, <1>2, SweepBytes
<1> QED BY <1>3 DEF r

LEMMA ExpireCompletedBytes ==
  ASSUME NEW d, DBInv(d), BytesOK(d), NEW t \in Nat PROVE BytesOK(expireCompleted(d, t))
<1> DEFINE r == expireCompleted(d, t)
<1>1. PICK gone \in SUBSET Due(d, "completed", t) : r.records = SweptRecords(d, {}, gone, t)
  BY ExpireCompletedMove
<1>2. Billed(d, r, 0) /\ d \in Database
  BY ExpireCompletedMove DEF DBInv
<1> HIDE DEF r
<1>3. BytesOK(r)
  BY <1>1, <1>2, SweepBytes
<1> QED BY <1>3 DEF r

LEMMA PublishViewBytes ==
  ASSUME NEW d, DBInv(d), LimitsOK(d), BytesOK(d), NEW t \in Nat, NEW id \in EventIDs
  PROVE  BytesOK(PublishView(d, id, t))
<1> DEFINE r == PublishView(d, id, t)
<1>1. PICK gone \in SUBSET Due(d, "completed", t) : r.records = SweptRecords(d, {}, gone, t)
  BY PublishViewMove
<1>2. Billed(d, r, 0) /\ d \in Database
  BY PublishViewMove DEF DBInv
<1> HIDE DEF r
<1>3. BytesOK(r)
  BY <1>1, <1>2, SweepBytes
<1> QED BY <1>3 DEF r

LEMMA AdmitBytes ==
  ASSUME NEW d \in Database, BytesOK(d), NEW id \in EventIDs, NEW p \in Payloads, NEW t \in Nat,
         d.records[id].state = "absent"
  PROVE  BytesOK(Admit(d, id, p, t))
<1> DEFINE r == Admit(d, id, p, t)
           u == Admitted(p, d.sequence + 1, t)
<1>1. r.records = [d.records EXCEPT ![id] = u] /\ Billed(d, r, Bytes[p])
  BY AdmitMove
<1>2. u.state = "ready" /\ u.event = p
  BY StatsNumbers, AdmittedRecord
<1> HIDE DEF r, u
<1>3. r.records[id] = u /\ \A o \in EventIDs \ {id} : r.records[o] = d.records[o]
  BY <1>1, StatsNumbers
<1>4. HoldsMore(d, r, id) /\ r.records[id].event = p
  BY <1>2, <1>3 DEF HoldsMore, ActiveStates
<1>5. IsFiniteSet(StoredBytes(r))
      /\ Cardinality(StoredBytes(r)) = Cardinality(StoredBytes(d)) + Bytes[p]
  BY <1>4, MoreBytes DEF BytesOK
<1>6. Account(r.stats) = Account(d.stats) + Bytes[p]
  BY <1>1 DEF Billed
<1>7. BytesOK(r)
  BY <1>5, <1>6 DEF BytesOK
<1> QED BY <1>7 DEF r

LEMMA CheckoutBytes ==
  ASSUME NEW d \in Database, BytesOK(d), NEW id \in EventIDs, NEW t \in Nat,
         d.records[id].state = "ready"
  PROVE  BytesOK(Checkout(d, id, t))
<1> DEFINE r == Checkout(d, id, t)
           k == d.stats.deliveries + 1
           u == HandedOut(d.records[id], k, t)
<1>1. r.records = [d.records EXCEPT ![id] = u] /\ Billed(d, r, 0)
  BY CheckoutMove
<1>2. IsHandedOut(d.records[id], k, t, u)
  <2>1. d.records[id] \in Record /\ k \in Nat
    BY StatsNumbers
  <2> QED BY <2>1, HandedOutRecord
<1> HIDE DEF r, u
<1>3. u.state = "leased" /\ u.event = d.records[id].event
  BY <1>2 DEF IsHandedOut
<1>4. BytesOK(r)
  BY <1>1, <1>3, RewriteBytes DEF ActiveStates
<1> QED BY <1>4 DEF r

LEMMA CompleteBytes ==
  ASSUME NEW d, DBInv(d), LimitsOK(d), BytesOK(d), NEW id \in EventIDs, NEW t \in Nat,
         d.records[id].state = "leased"
  PROVE  BytesOK(Complete(d, id, t))
<1> DEFINE r == Complete(d, id, t)
           u == Acknowledged(d.records[id], t)
           b == Bytes[d.records[id].event]
<1>0. d \in Database /\ d.records[id] \in Record
  BY StatsNumbers DEF DBInv
<1>1. d.records[id].event \in Payloads
  BY DEF DBInv, EventOK, Active, InState, ActiveStates
<1>2. r.records = [d.records EXCEPT ![id] = u] /\ Billed(r, d, b)
  BY <1>0, <1>1, CompleteMove
<1>3. IsAcknowledged(d.records[id], t, u)
  BY <1>0, AcknowledgedRecord
<1>4. r \in Database
  BY CompleteInv DEF DBInv
<1>5. b \in Nat
  BY <1>1, InputsAssumption
<1> HIDE DEF r, u
<1>6. r.records[id] = u /\ \A o \in EventIDs \ {id} : r.records[o] = d.records[o]
  BY <1>0, <1>2, StatsNumbers
<1>7. HoldsMore(r, d, id)
  BY <1>1, <1>3, <1>6 DEF HoldsMore, IsAcknowledged, ActiveStates
<1>8. IsFiniteSet(StoredBytes(r)) /\ Cardinality(StoredBytes(d)) = Cardinality(StoredBytes(r)) + b
  BY <1>7, MoreBytes DEF BytesOK
<1>9. Account(d.stats) = Account(r.stats) + b /\ Account(r.stats) \in Int
  <2>1. Account(r.stats) \in Int
    BY <1>4, StatsNumbers DEF Account, completedOverhead, activeOverhead
  <2> QED BY <1>2, <2>1 DEF Billed
<1>10. Cardinality(StoredBytes(r)) \in Nat
  BY <1>8, FS_CardinalityType
<1> HIDE DEF b
<1>11. BytesOK(r)
  BY <1>5, <1>8, <1>9, <1>10 DEF BytesOK
<1> QED BY <1>11 DEF r

LEMMA RejectBytes ==
  ASSUME NEW d \in Database, BytesOK(d), NEW r, NEW id \in EventIDs, NEW token \in Nat,
         NEW n \in NackRequests, NEW st \in {"ready", "quarantined"}, NEW due \in Nat,
         d.records[id].state = "leased", Billed(d, r, 0),
         r.records = [d.records EXCEPT ![id] = Rejected(d.records[id], token, n, st, due)]
  PROVE  BytesOK(r)
<1> DEFINE u == Rejected(d.records[id], token, n, st, due)
<1>1. IsRejected(d.records[id], token, n, st, u)
  <2>1. d.records[id] \in Record
    BY StatsNumbers
  <2> QED BY <2>1, RejectedRecord
<1>2. r.records = [d.records EXCEPT ![id] = u]
  OBVIOUS
<1> HIDE DEF u
<1>3. u.state = st /\ u.event = d.records[id].event
  BY <1>1 DEF IsRejected
<1> QED BY <1>2, <1>3, RewriteBytes DEF ActiveStates

LEMMA NextBytes ==
  ASSUME IInv, BytesOK(db), [Next]_vars PROVE BytesOK(db')
<1>0. DBInv(db) /\ LimitsOK(db) /\ now \in Nat /\ granted \in Seq(Grant) /\ db \in Database
  BY DEF IInv, TypeOK
<1>1. ASSUME NEW id \in EventIDs, NEW p \in Payloads, Publish(id, p) PROVE BytesOK(db')
  <2> DEFINE v == PublishView(db, id, now)
             a == PublishAnswer(db, id, p, now)
  <2>1. BytesOK(v) /\ v \in Database
    BY <1>0, PublishViewBytes, PublishViewInv DEF DBInv
  <2>2. CASE a = "accepted" /\ db' = Admit(v, id, p, now)
    <3>1. v.records[id].state = "absent"
      BY <2>2 DEF PublishAnswer
    <3> HIDE DEF v
    <3> QED BY <1>0, <2>1, <2>2, <3>1, AdmitBytes
  <2>3. CASE db' = v
    BY <2>1, <2>3
  <2>4. CASE db' = db
    BY <2>4
  <2> QED BY <1>1, <2>2, <2>3, <2>4 DEF Publish
<1>2. ASSUME Lease PROVE BytesOK(db')
  <2> DEFINE v == expireLeases(db, now)
             id == LeasedID(db, now)
  <2>1. CASE UNCHANGED vars
    BY <2>1 DEF vars
  <2>2. CASE LeaseAnswer(db, now) = "delivery" /\ db' = Checkout(v, id, now)
    <3>1. BytesOK(v) /\ DBInv(v)
      BY <1>0, ExpireLeasesBytes, ExpireLeasesInv
    <3>2. id \in EventIDs /\ v.records[id].state = "ready"
      BY <1>0, <2>2, <3>1, LeasedIsReady
    <3> HIDE DEF v, id
    <3>3. v \in Database
      BY <3>1 DEF DBInv
    <3> QED BY <1>0, <2>2, <3>1, <3>2, <3>3, CheckoutBytes
  <2> QED BY <1>2, <2>1, <2>2 DEF Lease
<1>3. ASSUME NEW id \in EventIDs, NEW token \in DOMAIN granted, Ack(id, token) PROVE BytesOK(db')
  <2>1. CASE UNCHANGED vars
    BY <2>1 DEF vars
  <2>2. CASE AckAnswer(db, id, token, now) = "completed" /\ db' = Complete(db, id, now)
    <3>1. db.records[id].state = "leased"
      BY <2>2 DEF AckAnswer, HoldsLease
    <3> QED BY <1>0, <2>2, <3>1, CompleteBytes
  <2> QED BY <1>3, <2>1, <2>2 DEF Ack
<1>4. ASSUME NEW id \in EventIDs, NEW token \in DOMAIN granted, NEW n \in NackRequests,
             Nack(id, token, n)
      PROVE  BytesOK(db')
  <2> DEFINE a == NackAnswer(db, id, token, n, now)
  <2>1. CASE UNCHANGED vars
    BY <2>1 DEF vars
  <2>2. CASE \/ a = "returned" /\ db' = Return(db, id, token, n, now)
             \/ a = "quarantined" /\ db' = Quarantine(db, id, token, n)
    <3>1. db.records[id].state = "leased"
      BY <2>2 DEF NackAnswer, HoldsLease
    <3>2. token \in Nat /\ n.delay \in Nat
      <4>1. token \in Nat
        BY <1>0
      <4>2. n.delay \in Nat
        BY InputsAssumption DEF NackRequests
      <4> QED BY <4>1, <4>2
    <3>3. now + n.delay \in Nat
      BY <1>0, <3>2
    <3>4. CASE db' = Return(db, id, token, n, now)
      <4>1. /\ db'.records = [db.records EXCEPT ![id] =
                 Rejected(db.records[id], token, n, "ready", now + n.delay)]
            /\ Billed(db, db', 0)
        BY <1>0, <3>4, ReturnMove
      <4> QED BY <1>0, <3>1, <3>2, <3>3, <4>1, RejectBytes
    <3>5. CASE db' = Quarantine(db, id, token, n)
      <4>1. /\ db'.records = [db.records EXCEPT ![id] =
                 Rejected(db.records[id], token, n, "quarantined", 0)]
            /\ Billed(db, db', 0)
        BY <1>0, <3>5, QuarantineMove
      <4> QED BY <1>0, <3>1, <3>2, <4>1, RejectBytes
    <3> QED BY <2>2, <3>4, <3>5
  <2> QED BY <1>4, <2>1, <2>2 DEF Nack
<1>5. ASSUME Cleanup PROVE BytesOK(db')
  <2>1. DBInv(expireLeases(db, now)) /\ BytesOK(expireLeases(db, now))
    BY <1>0, ExpireLeasesInv, ExpireLeasesBytes
  <2>2. BytesOK(expireCompleted(expireLeases(db, now), now))
    BY <1>0, <2>1, ExpireCompletedBytes
  <2> QED BY <1>5, <2>2 DEF Cleanup
<1>6. ASSUME Tick PROVE BytesOK(db')
  BY <1>6 DEF Tick
<1>7. CASE UNCHANGED vars
  BY <1>7 DEF vars
<1> QED BY <1>1, <1>2, <1>3, <1>4, <1>5, <1>6, <1>7 DEF Next

(* LogicalBytes of durable.go, which every operation adjusts by a           *)
(* difference and every admission is decided by, never drifts: it is 4096   *)
(* for each active event, 1024 for each completion, and the length of every *)
(* content still held.                                                      *)
THEOREM BytesCorrect == Spec => []BytesMatch
<1> DEFINE BInv == BytesOK(db)
<1>1. Init => BInv
  <2> SUFFICES ASSUME Init PROVE BytesOK(db)
    OBVIOUS
  <2>1. Active(db) = {}
    BY AbsentRecord DEF Init, EmptyDatabase, Active, InState, ActiveStates
  <2>2. StoredBytes(db) = {}
    BY <2>1 DEF StoredBytes
  <2>3. Account(db.stats) = 0
    BY DEF Init, EmptyDatabase, Account, ActiveCount, completedOverhead, activeOverhead
  <2> QED BY <2>2, <2>3, FS_EmptySet DEF BytesOK
<1>2. IInv /\ BInv /\ [Next]_vars => BInv'
  <2> SUFFICES ASSUME IInv, BytesOK(db), [Next]_vars PROVE BInv'
    OBVIOUS
  <2>1. BytesOK(db')
    BY NextBytes
  <2> QED BY <2>1 DEF BytesOK, StoredBytes, Account, Active, InState, ActiveCount, Content
<1>3. IInv /\ BInv => BytesMatch
  <2> SUFFICES ASSUME IInv, BytesOK(db) PROVE BytesMatch
    OBVIOUS
  <2>1. DBInv(db) /\ db \in Database
    BY DEF IInv, TypeOK
  <2>2. Cardinality(Active(db)) = ActiveCount(db.stats)
    BY <2>1, ActiveCounted
  <2>3. Cardinality(InState(db, {"completed"})) = db.stats.completed
    BY <2>1 DEF DBInv, CountOK, Counted, Indexed, Gauge
  <2>4. Account(db.stats) = Cardinality(StoredBytes(db))
    BY DEF BytesOK
  <2>5. db.stats.logicalBytes = completedOverhead * db.stats.completed
          + activeOverhead * ActiveCount(db.stats) + Cardinality(StoredBytes(db))
    BY <2>1, <2>4, StatsNumbers DEF Account, completedOverhead, activeOverhead
  <2> QED BY <2>2, <2>3, <2>5 DEF BytesMatch
<1> HIDE DEF BInv
<1> QED BY <1>1, <1>2, <1>3, BrokerInvariant, PTL DEF Spec

=============================================================================
