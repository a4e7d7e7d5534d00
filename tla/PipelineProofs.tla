--------------------------- MODULE PipelineProofs ---------------------------
(***************************************************************************)
(* Proofs about Pipeline for every value of its constants: commit before   *)
(* ACK, no confirmed event is lost, and a receipt sent in time is never    *)
(* stale.  The broker's part is cited from DurableQueueSafety.             *)
(***************************************************************************)
EXTENDS Pipeline, DurableQueueSafety

-----------------------------------------------------------------------------
(* The inductive invariant *)

(* Events whose row is in the table, with the content of the feed. *)
Rowed == {id \in EventIDs : rows[id] = content[id]}

(* The broker's completions and acknowledged deliveries are in K, and the   *)
(* events of C are in K or still active.                                    *)
Backed(d, g, K, C) ==
  /\ \A id \in EventIDs : d.records[id].state = "completed" => id \in K
  /\ \A token \in DOMAIN g : g[token].outcome = "acked" => g[token].id \in K
  /\ \A id \in C : id \in Active(d) \/ id \in K

(* Only storable content gets into the table, and only its own. *)
RowsOK ==
  \A id \in EventIDs :
    /\ rows[id] \in {NoPayload, content[id]}
    /\ rows[id] # NoPayload \/ id \in uncertain => Storable(content[id])

(* A receipt or a worker speaks for a delivery of its event. *)
Names(g, token, id) == token \in DOMAIN g /\ g[token].id = id

(* Where a worker, by its place, has brought the delivery: K are the events *)
(* with a row, c their contents.                                            *)
Reached(d, g, K, c) ==
  d # Idle =>
    /\ Names(g, d.token, d.id)
    /\ d.pc \in {"persisting", "acking"} => Storable(c[d.id])
    /\ d.pc = "acking" => d.id \in K
    /\ d.pc = "nacking" => ~Storable(c[d.id])

LateOK(m, g, K, c) ==
  /\ Names(g, m.token, m.id)
  /\ m.nack = NoNack => m.id \in K
  /\ m.nack # NoNack => ~Storable(c[m.id])

NackedOK(g, c) ==
  \A token \in DOMAIN g : g[token].outcome = "nacked" => ~Storable(c[g[token].id])

PInv ==
  /\ SInv /\ PipeTypeOK
  /\ RowsOK /\ NackedOK(granted, content)
  /\ \A w \in Workers : Reached(worker[w], granted, Rowed, content)
  /\ \A m \in late : LateOK(m, granted, Rowed, content)
  /\ Backed(db, granted, Rowed, confirmed)

(* With a clock that never steps back: how long deliveries, completions and *)
(* workers' deadlines last.                                                 *)
Timed(g, t) ==
  \A token \in DOMAIN g :
    /\ g[token].expires <= t + LeaseDuration
    /\ g[token].outcome = "acked" =>
         g[token].until + LeaseDuration >= g[token].expires + CompletionTTL

InTime(g, d) ==
  d # Idle =>
    d.deadline + (IF d.pc = "leased" THEN 0 ELSE ExpiryMargin) <= g[d.token].expires

TInv ==
  /\ PInv
  /\ ReceiptInv(db, granted, now)
  /\ Timed(granted, now)
  /\ \A w \in Workers : InTime(granted, worker[w])

-----------------------------------------------------------------------------
(* What a step of the broker does to the history and to completions *)

(* Deliveries keep their event and their expiry; new ones are open. *)
HistoryKept(g, h) ==
  /\ \A token \in DOMAIN g :
       token \in DOMAIN h /\ h[token].id = g[token].id /\ h[token].expires = g[token].expires
  /\ \A token \in DOMAIN h \ DOMAIN g : h[token].outcome = "open"

(* An event becomes completed only with one of its deliveries acknowledged. *)
Completes(d, g, r, h) ==
  \A id \in EventIDs : r.records[id].state = "completed" =>
    \/ d.records[id].state = "completed"
    \/ \E token \in DOMAIN g :
         g[token].id = id /\ g[token].outcome = "open" /\ h[token].outcome = "acked"

LEMMA SweptCompletions ==
  ASSUME NEW d \in Database, NEW t \in Nat, NEW id \in EventIDs,
         NEW back \in SUBSET Due(d, "leased", t), NEW gone \in SUBSET Due(d, "completed", t),
         SweptRecords(d, back, gone, t)[id].state = "completed"
  PROVE  d.records[id].state = "completed"
<1>1. SweptTo(d.records[id], SweptRecords(d, back, gone, t)[id], t)
  BY SweptRecord
<1> QED BY <1>1, AbsentRecord DEF SweptTo

LEMMA MoveCompletes ==
  ASSUME NEW d \in Database, NEW r \in Database, NEW g \in Seq(Grant), NEW h, NEW t \in Nat,
         SafeInv(d, g), SweepMove(d, g, r, h, t) \/ Move(d, g, r, h, t)
  PROVE  HistoryKept(g, h) /\ Completes(d, g, r, h)
<1>0. d.records \in [EventIDs -> Record]
  BY StatsNumbers
<1>e. {} \in SUBSET Due(d, "leased", t) /\ {} \in SUBSET Due(d, "completed", t)
  OBVIOUS
<1>h. HistoryKept(g, g)
  BY DEF HistoryKept
<1>1. CASE SweepMove(d, g, r, h, t)
  <2>1. PICK back \in SUBSET Due(d, "leased", t), gone \in SUBSET Due(d, "completed", t) :
          r.records = SweptRecords(d, back, gone, t) /\ h = g
    BY <1>1 DEF SweepMove
  <2>2. \A id \in EventIDs : r.records[id].state = "completed" => d.records[id].state = "completed"
    BY <2>1, SweptCompletions
  <2> QED BY <1>h, <2>1, <2>2 DEF Completes
<1>2. CASE AcceptMove(d, g, r, h, t)
  <2>1. PICK gone \in SUBSET Due(d, "completed", t), i \in EventIDs, p \in Payloads :
          /\ r.records = [SweptRecords(d, {}, gone, t) EXCEPT
                            ![i] = Admitted(p, d.sequence + 1, t)]
          /\ h = g
    BY <1>2 DEF AcceptMove
  <2>2. \A o \in EventIDs \ {i} : r.records[o] = SweptRecords(d, {}, gone, t)[o]
    BY <2>1 DEF SweptRecords
  <2>3. r.records[i].state = "ready"
    <3>1. d.sequence + 1 \in Nat
      BY DEF Database
    <3>2. Admitted(p, d.sequence + 1, t).state = "ready"
      BY <3>1, AdmittedRecord
    <3>3. r.records[i] = Admitted(p, d.sequence + 1, t)
      BY <2>1 DEF SweptRecords
    <3> QED BY <3>2, <3>3
  <2>4. \A o \in EventIDs \ {i} :
          SweptRecords(d, {}, gone, t)[o].state = "completed" => d.records[o].state = "completed"
    BY <1>e, SweptCompletions
  <2>5. \A id \in EventIDs : r.records[id].state = "completed" => d.records[id].state = "completed"
    BY <2>2, <2>3, <2>4
  <2> QED BY <1>h, <2>1, <2>5 DEF Completes
<1>3. CASE DeliverMove(d, g, r, h, t)
  <2>1. PICK back \in SUBSET Due(d, "leased", t), i \in EventIDs :
          LET v == SweptRecords(d, back, {}, t) IN
          /\ r.records = [v EXCEPT ![i] = HandedOut(v[i], d.stats.deliveries + 1, t)]
          /\ h = Append(g, NewGrant(i, t))
    BY <1>3 DEF DeliverMove
  <2> DEFINE v == SweptRecords(d, back, {}, t)
             k == d.stats.deliveries + 1
             a == NewGrant(i, t)
  <2>2. \A o \in EventIDs \ {i} : r.records[o] = v[o]
    BY <2>1 DEF SweptRecords
  <2>3. r.records[i].state = "leased"
    <3>1. v[i] \in Record
      BY <1>e, SweptRecord, Zenon
    <3>2. k \in Nat
      BY StatsNumbers
    <3>3. r.records[i] = HandedOut(v[i], k, t)
      BY <2>1 DEF SweptRecords
    <3> HIDE DEF v, k
    <3>4. IsHandedOut(v[i], k, t, HandedOut(v[i], k, t))
      BY <3>1, <3>2, HandedOutRecord
    <3> QED BY <3>3, <3>4 DEF IsHandedOut
  <2>4. \A o \in EventIDs : v[o].state = "completed" => d.records[o].state = "completed"
    BY <1>e, SweptCompletions
  <2>5. a \in Grant /\ a.outcome = "open"
    <3>1. t + LeaseDuration \in Nat
      BY OptionsAssumption
    <3> QED BY <3>1 DEF NewGrant, Grant
  <2>6. h = Append(g, a)
    BY <2>1
  <2> HIDE DEF a, v
  <2>7. /\ DOMAIN g = 1 .. Len(g) /\ DOMAIN h = 1 .. (Len(g) + 1) /\ Len(g) \in Nat
        /\ h[Len(g) + 1] = a /\ \A u \in DOMAIN g : h[u] = g[u]
    BY <2>5, <2>6, AppendedGrant
  <2>8. HistoryKept(g, h)
    BY <2>5, <2>7 DEF HistoryKept
  <2>9. \A id \in EventIDs : r.records[id].state = "completed" => d.records[id].state = "completed"
    BY <2>2, <2>3, <2>4
  <2> QED BY <2>8, <2>9 DEF Completes
<1>4. CASE AckMove(d, g, r, h, t)
  <2>1. PICK i \in EventIDs, token \in DOMAIN g :
          /\ HoldsLease(d.records[i], token, t)
          /\ r.records = [d.records EXCEPT ![i] = Acknowledged(d.records[i], t)]
          /\ h = [g EXCEPT ![token].outcome = "acked", ![token].until = t + CompletionTTL]
    BY <1>4 DEF AckMove
  <2> DEFINE x == t + CompletionTTL
  <2>2. x \in Nat
    BY OptionsAssumption
  <2>3. IsAcked(g, h, token, x)
    <3> HIDE DEF x
    <3> QED BY <2>1, <2>2, AckedGrant DEF x
  <2>4. g[token].id = i /\ g[token].outcome = "open"
    BY <2>1, Settling
  <2>5. \A o \in EventIDs \ {i} : r.records[o] = d.records[o]
    BY <1>0, <2>1
  <2>6. HistoryKept(g, h)
    BY <2>3 DEF HistoryKept, IsAcked, IsSettled
  <2>7. h[token].outcome = "acked"
    BY <2>3 DEF IsAcked
  <2> QED BY <2>4, <2>5, <2>6, <2>7 DEF Completes
<1>5. CASE NackMove(d, g, r, h, t)
  <2>1. PICK i \in EventIDs, token \in DOMAIN g, n \in NackRequests,
             st \in {"ready", "quarantined"}, due \in Nat :
          /\ HoldsLease(d.records[i], token, t)
          /\ r.records = [d.records EXCEPT ![i] = Rejected(d.records[i], token, n, st, due)]
          /\ Tally(d, r, 0, 0, 0, 0)
          /\ h = [g EXCEPT ![token].outcome = "nacked", ![token].request = n]
    BY <1>5 DEF NackMove
  <2>2. IsNacked(g, h, token, n)
    BY <2>1, NackedGrant
  <2>3. r.records[i].state = st
    <3>1. IsRejected(d.records[i], token, n, st, Rejected(d.records[i], token, n, st, due))
      BY <1>0, GrantedIDs, RejectedRecord
    <3>2. r.records[i] = Rejected(d.records[i], token, n, st, due)
      BY <1>0, <2>1
    <3> QED BY <3>1, <3>2 DEF IsRejected
  <2>4. \A o \in EventIDs \ {i} : r.records[o] = d.records[o]
    BY <1>0, <2>1
  <2>5. HistoryKept(g, h)
    BY <2>2 DEF HistoryKept, IsNacked, IsSettled
  <2>6. \A id \in EventIDs : r.records[id].state = "completed" => d.records[id].state = "completed"
    BY <2>3, <2>4
  <2> QED BY <2>5, <2>6 DEF Completes
<1> QED BY <1>1, <1>2, <1>3, <1>4, <1>5 DEF Move

(* The broker's evidence survives a step that acknowledges only deliveries  *)
(* of events in K.                                                          *)
LEMMA MoveBacked ==
  ASSUME NEW d \in Database, NEW r \in Database, NEW g \in Seq(Grant), NEW h, NEW t \in Nat,
         SafeInv(d, g), SweepMove(d, g, r, h, t) \/ Move(d, g, r, h, t),
         NEW K, NEW C \in SUBSET EventIDs, Backed(d, g, K, C),
         \A token \in DOMAIN g :
           h[token].outcome = "acked" => g[token].outcome = "acked" \/ g[token].id \in K
  PROVE  Backed(r, h, K, C)
<1>1. HistoryKept(g, h) /\ Completes(d, g, r, h)
  BY MoveCompletes
<1>2. \A id \in EventIDs : r.records[id].state = "completed" => id \in K
  <2> SUFFICES ASSUME NEW id \in EventIDs, r.records[id].state = "completed" PROVE id \in K
    OBVIOUS
  <2> QED BY <1>1 DEF Completes, Backed
<1>3. \A token \in DOMAIN h : h[token].outcome = "acked" => h[token].id \in K
  BY <1>1 DEF HistoryKept, Backed
<1>4. ASSUME NEW id \in C PROVE id \in Active(r) \/ id \in K
  <2>1. CASE id \in K
    BY <2>1
  <2>2. CASE id \in Active(d)
    <3>1. KeptRecord(d, g, r, h, t, id)
      BY MoveKept
    <3>2. d.records[id].state \in ActiveStates
      BY <2>2 DEF Active, InState
    <3>3. r.records[id].state \in ActiveStates \cup {"completed"}
      BY <3>1, <3>2 DEF KeptRecord, ActiveTo
    <3> QED BY <1>2, <3>3 DEF Active, InState
  <2> QED BY <2>1, <2>2 DEF Backed
<1> QED BY <1>2, <1>3, <1>4 DEF Backed

-----------------------------------------------------------------------------
(* Every step of the pipeline is a step of the broker, or leaves it alone *)

LEMMA HeldWorker ==
  ASSUME PInv, NEW w \in Workers, worker[w] # Idle
  PROVE  /\ worker[w].id \in EventIDs /\ worker[w].token \in DOMAIN granted
         /\ granted[worker[w].token].id = worker[w].id
         /\ worker[w].pc \in {"leased", "persisting", "acking", "nacking"}
         /\ worker[w].deadline \in Int /\ worker[w].token \in Nat
<1>1. worker[w] \in WorkerState /\ Reached(worker[w], granted, Rowed, content)
  BY DEF PInv, PipeTypeOK
<1> QED BY <1>1 DEF WorkerState, Reached, Names

LEMMA LateOne ==
  ASSUME PInv, NEW m \in late
  PROVE  /\ m \in Receipt /\ m.id \in EventIDs /\ m.token \in DOMAIN granted
         /\ LateOK(m, granted, Rowed, content)
<1>1. m \in Receipt /\ LateOK(m, granted, Rowed, content)
  BY DEF PInv, PipeTypeOK
<1> QED BY <1>1 DEF Receipt, LateOK, Names

LEMMA FeedContent ==
  ASSUME PInv, NEW id \in EventIDs
  PROVE  content[id] \in Payloads \cup {NoPayload} /\ rows[id] \in Payloads \cup {NoPayload}
<1>1. content \in [EventIDs -> Payloads \cup {NoPayload}]
  BY PipelineAssumption DEF PInv, PipeTypeOK
<1>2. rows \in [EventIDs -> Payloads \cup {NoPayload}]
  BY DEF PInv, PipeTypeOK
<1> QED BY <1>1, <1>2

NotIdle == \A w \in Workers : worker[w].pc \in {"leased", "persisting", "acking", "nacking"}
                                => worker[w] # Idle

LEMMA PlaceIsNotIdle == NotIdle
BY DEF NotIdle, Idle

LEMMA PipeStep == PInv /\ [PipeNext]_pipeVars => [Next]_vars
<1> SUFFICES ASSUME PInv, [PipeNext]_pipeVars PROVE [Next]_vars
  OBVIOUS
<1>0. NotIdle
  BY PlaceIsNotIdle
<1>1. ASSUME NEW id \in EventIDs, PublishAttempt(id) PROVE [Next]_vars
  <2>1. content[id] \in Payloads
    BY <1>1, FeedContent DEF PublishAttempt
  <2> QED BY <1>1, <2>1 DEF PublishAttempt, Next
<1>2. ASSUME NEW w \in Workers, WorkerStep(w) PROVE [Next]_vars
  <2>1. CASE Acquire(w)
    BY <2>1 DEF Acquire, Next
  <2>2. CASE Process(w) \/ PersistCommitted(w) \/ PersistUncertain(w) \/ Abandon(w)
    BY <2>2 DEF Process, PersistCommitted, PersistUncertain, Abandon, vars
  <2>3. CASE AckCall(w)
    <3>1. worker[w] # Idle
      BY <1>0, <2>3 DEF AckCall, NotIdle
    <3>2. worker[w].id \in EventIDs /\ worker[w].token \in DOMAIN granted
      BY <3>1, HeldWorker
    <3> QED BY <2>3, <3>2 DEF AckCall, Next, vars
  <2>4. ASSUME NEW n \in NackRequests, NackCall(w, n) PROVE [Next]_vars
    <3>1. worker[w] # Idle
      BY <1>0, <2>4 DEF NackCall, NotIdle
    <3>2. worker[w].id \in EventIDs /\ worker[w].token \in DOMAIN granted
      BY <3>1, HeldWorker
    <3> QED BY <2>4, <3>2 DEF NackCall, Next, vars
  <2> QED BY <1>2, <2>1, <2>2, <2>3, <2>4 DEF WorkerStep
<1>3. ASSUME NEW id \in EventIDs, LateCommit(id) PROVE [Next]_vars
  BY <1>3 DEF LateCommit, vars
<1>4. ASSUME NEW m \in late, LateReceipt(m) PROVE [Next]_vars
  <2>1. m \in Receipt /\ m.id \in EventIDs /\ m.token \in DOMAIN granted
    BY LateOne
  <2>2. m.nack # NoNack => m.nack \in NackRequests
    BY <2>1 DEF Receipt
  <2> QED BY <1>4, <2>1, <2>2 DEF LateReceipt, Next
<1>5. CASE BrokerStep
  BY <1>5 DEF BrokerStep, Next
<1>6. CASE UNCHANGED pipeVars
  BY <1>6 DEF pipeVars, vars
<1> QED BY <1>1, <1>2, <1>3, <1>4, <1>5, <1>6 DEF PipeNext

-----------------------------------------------------------------------------
(* Who settles deliveries, and who writes rows *)

LEMMA SeqGranted ==
  ASSUME PInv
  PROVE  /\ granted \in Seq(Grant) /\ now \in Nat /\ db \in Database
         /\ IInv /\ SafeInv(db, granted) /\ DBInv(db) /\ LimitsOK(db)
BY DEF PInv, SInv, IInv, TypeOK

LEMMA AckOutcome ==
  ASSUME PInv, NEW id, NEW token \in DOMAIN granted, Ack(id, token)
  PROVE  \A u \in DOMAIN granted :
           \/ granted'[u] = granted[u]
           \/ u = token /\ granted'[u].outcome = "acked"
<1>1. CASE UNCHANGED vars
  BY <1>1 DEF vars
<1>2. CASE granted' = [granted EXCEPT ![token].outcome = "acked",
                                      ![token].until = now + CompletionTTL]
  <2> DEFINE x == now + CompletionTTL
  <2>1. x \in Nat
    BY SeqGranted, OptionsAssumption
  <2>2. granted' = [granted EXCEPT ![token].outcome = "acked", ![token].until = x]
    BY <1>2
  <2> HIDE DEF x
  <2>3. IsAcked(granted, granted', token, x)
    BY <2>1, <2>2, SeqGranted, AckedGrant
  <2> QED BY <2>3 DEF IsAcked, IsSettled
<1> QED BY <1>1, <1>2 DEF Ack

LEMMA NackOutcome ==
  ASSUME PInv, NEW id, NEW token \in DOMAIN granted, NEW n \in NackRequests,
         Nack(id, token, n)
  PROVE  \A u \in DOMAIN granted :
           \/ granted'[u] = granted[u]
           \/ u = token /\ granted'[u].outcome = "nacked"
<1>1. CASE UNCHANGED vars
  BY <1>1 DEF vars
<1>2. CASE granted' = [granted EXCEPT ![token].outcome = "nacked", ![token].request = n]
  <2>1. IsNacked(granted, granted', token, n)
    BY <1>2, SeqGranted, NackedGrant
  <2> QED BY <2>1 DEF IsNacked, IsSettled
<1> QED BY <1>1, <1>2 DEF Nack

(* A delivery: the lease call hands out what it recorded. *)
LEMMA LeaseOutcome ==
  ASSUME PInv, Lease
  PROVE  /\ \A u \in DOMAIN granted : u \in DOMAIN granted' /\ granted'[u] = granted[u]
         /\ Delivered => /\ LeasedID(db, now) \in EventIDs
                         /\ NewToken(db) \in DOMAIN granted' /\ NewToken(db) \in Nat
                         /\ granted'[NewToken(db)].id = LeasedID(db, now)
                         /\ granted'[NewToken(db)].expires = now + LeaseDuration
<1>0. /\ granted \in Seq(Grant) /\ now \in Nat /\ DBInv(db) /\ LimitsOK(db)
      /\ SafeInv(db, granted)
  BY SeqGranted
<1>1. CASE LeaseAnswer(db, now) = "none" /\ UNCHANGED vars
  BY <1>1 DEF vars, Delivered
<1>2. CASE /\ LeaseAnswer(db, now) = "delivery"
           /\ granted' = Append(granted, NewGrant(LeasedID(db, now), now))
  <2> DEFINE a == NewGrant(LeasedID(db, now), now)
  <2>1. DBInv(expireLeases(db, now))
    BY <1>0, ExpireLeasesInv
  <2>2. LeasedID(db, now) \in EventIDs
    BY <1>0, <1>2, <2>1, LeasedIsReady
  <2>3. now + LeaseDuration \in Nat
    BY <1>0, OptionsAssumption
  <2>4. a \in Grant /\ a.id = LeasedID(db, now) /\ a.expires = now + LeaseDuration
    BY <2>2, <2>3 DEF NewGrant, Grant
  <2>5. granted' = Append(granted, a)
    BY <1>2
  <2> HIDE DEF a
  <2>6. /\ DOMAIN granted = 1 .. Len(granted)
        /\ DOMAIN granted' = 1 .. (Len(granted) + 1) /\ Len(granted) \in Nat
        /\ granted'[Len(granted) + 1] = a
        /\ \A u \in DOMAIN granted : granted'[u] = granted[u]
    BY <1>0, <2>4, <2>5, AppendedGrant
  <2>7. NewToken(db) = Len(granted) + 1
    BY <1>0 DEF SafeInv, Numbered, NewToken
  <2> QED BY <2>2, <2>4, <2>6, <2>7
<1> QED BY <1>1, <1>2 DEF Lease, NewGrant

(* A delivery is acknowledged only for an event with a row, and returned    *)
(* only for one that cannot have a row.                                     *)
Justified(g, h, K, c) ==
  \A u \in DOMAIN g :
    \/ h[u] = g[u]
    \/ h[u].outcome = "acked" /\ g[u].id \in K
    \/ h[u].outcome = "nacked" /\ ~Storable(c[g[u].id])

LEMMA StepJustified ==
  ASSUME PInv, [PipeNext]_pipeVars
  PROVE  Justified(granted, granted', Rowed, content)
<1> DEFINE Goal == Justified(granted, granted', Rowed, content)
<1>0. NotIdle
  BY PlaceIsNotIdle
<1>u. ASSUME granted' = granted PROVE Goal
  BY <1>u DEF Justified
<1>1. ASSUME NEW w \in Workers, Acquire(w) PROVE Goal
  BY <1>1, LeaseOutcome DEF Acquire, Justified
<1>2. ASSUME NEW w \in Workers, AckCall(w) PROVE Goal
  <2>1. worker[w] # Idle /\ worker[w].pc = "acking"
    BY <1>0, <1>2 DEF AckCall, NotIdle
  <2>2. worker[w].token \in DOMAIN granted /\ granted[worker[w].token].id = worker[w].id
    BY <2>1, HeldWorker
  <2>3. worker[w].id \in Rowed
    BY <2>1 DEF PInv, Reached
  <2>4. CASE Ack(worker[w].id, worker[w].token)
    BY <2>2, <2>3, <2>4, AckOutcome DEF Justified
  <2> QED BY <1>2, <1>u, <2>4 DEF AckCall
<1>3. ASSUME NEW w \in Workers, NEW n \in NackRequests, NackCall(w, n) PROVE Goal
  <2>1. worker[w] # Idle /\ worker[w].pc = "nacking"
    BY <1>0, <1>3 DEF NackCall, NotIdle
  <2>2. worker[w].token \in DOMAIN granted /\ granted[worker[w].token].id = worker[w].id
    BY <2>1, HeldWorker
  <2>3. ~Storable(content[worker[w].id])
    BY <2>1 DEF PInv, Reached
  <2>4. CASE Nack(worker[w].id, worker[w].token, n)
    BY <2>2, <2>3, <2>4, NackOutcome DEF Justified
  <2> QED BY <1>3, <1>u, <2>4 DEF NackCall
<1>4. ASSUME NEW m \in late, LateReceipt(m) PROVE Goal
  <2>1. m \in Receipt /\ m.token \in DOMAIN granted /\ LateOK(m, granted, Rowed, content)
    BY LateOne
  <2>2. granted[m.token].id = m.id
    BY <2>1 DEF LateOK, Names
  <2>3. CASE m.nack = NoNack
    <3>1. m.id \in Rowed /\ Ack(m.id, m.token)
      BY <1>4, <2>1, <2>3 DEF LateOK, LateReceipt
    <3> QED BY <2>1, <2>2, <3>1, AckOutcome DEF Justified
  <2>4. CASE m.nack # NoNack
    <3>1. ~Storable(content[m.id]) /\ Nack(m.id, m.token, m.nack) /\ m.nack \in NackRequests
      BY <1>4, <2>1, <2>4 DEF LateOK, LateReceipt, Receipt
    <3> QED BY <2>1, <2>2, <3>1, NackOutcome DEF Justified
  <2> QED BY <2>3, <2>4
<1>5. ASSUME NEW w \in Workers, WorkerStep(w) PROVE Goal
  <2>1. CASE Process(w) \/ PersistCommitted(w) \/ PersistUncertain(w) \/ Abandon(w)
    BY <1>u, <2>1 DEF Process, PersistCommitted, PersistUncertain, Abandon
  <2> QED BY <1>1, <1>2, <1>3, <1>5, <2>1 DEF WorkerStep
<1>6. ASSUME NEW id \in EventIDs, PublishAttempt(id) \/ LateCommit(id) PROVE Goal
  BY <1>u, <1>6 DEF PublishAttempt, Publish, LateCommit
<1>7. CASE BrokerStep \/ UNCHANGED pipeVars
  BY <1>u, <1>7 DEF BrokerStep, Cleanup, Tick, pipeVars
<1> QED BY <1>4, <1>5, <1>6, <1>7 DEF PipeNext

(* INSERT ... ON CONFLICT DO NOTHING of a storable event. *)
LEMMA InsertRows ==
  ASSUME PInv, NEW id \in EventIDs, Storable(content[id]), Insert(id),
         content' = content, uncertain' \subseteq uncertain
  PROVE  /\ rows' \in [EventIDs -> Payloads \cup {NoPayload}]
         /\ RowsOK' /\ Rowed \subseteq Rowed' /\ id \in Rowed'
<1>1. content[id] \in Payloads \cup {NoPayload}
  BY FeedContent
<1>2. rows \in [EventIDs -> Payloads \cup {NoPayload}] /\ RowsOK
  BY DEF PInv, PipeTypeOK
<1>3. rows' = [rows EXCEPT ![id] = IF rows[id] = NoPayload THEN content[id] ELSE rows[id]]
  BY DEF Insert
<1>4. rows' \in [EventIDs -> Payloads \cup {NoPayload}]
  BY <1>1, <1>2, <1>3
<1>5. rows'[id] = content[id]
  BY <1>2, <1>3 DEF RowsOK
<1>6. \A o \in EventIDs \ {id} : rows'[o] = rows[o]
  BY <1>2, <1>3
<1>7. RowsOK'
  <2> SUFFICES ASSUME NEW o \in EventIDs
               PROVE  /\ rows'[o] \in {NoPayload, content[o]}
                      /\ rows'[o] # NoPayload \/ o \in uncertain' => Storable(content[o])
    BY DEF RowsOK, Storable
  <2> QED BY <1>2, <1>5, <1>6 DEF RowsOK
<1>8. Rowed \subseteq Rowed' /\ id \in Rowed'
  BY <1>5, <1>6 DEF Rowed
<1> QED BY <1>4, <1>7, <1>8

(* What a step does to the table: nothing is taken out of it. *)
RowsStep ==
  /\ rows' \in [EventIDs -> Payloads \cup {NoPayload}] /\ uncertain' \subseteq EventIDs
  /\ content' = content /\ RowsOK' /\ Rowed \subseteq Rowed'

LEMMA StepRows ==
  ASSUME PInv, [PipeNext]_pipeVars
  PROVE  RowsStep
<1>0. NotIdle
  BY PlaceIsNotIdle
<1>t. /\ rows \in [EventIDs -> Payloads \cup {NoPayload}] /\ uncertain \subseteq EventIDs /\ RowsOK
  BY DEF PInv, PipeTypeOK
<1>u. ASSUME rows' = rows, uncertain' = uncertain, content' = content PROVE RowsStep
  BY <1>t, <1>u DEF RowsStep, RowsOK, Rowed
<1>1. ASSUME NEW w \in Workers, PersistCommitted(w) PROVE RowsStep
  <2>1. worker[w] # Idle /\ worker[w].pc = "persisting"
    BY <1>0, <1>1 DEF PersistCommitted, NotIdle
  <2>2. worker[w].id \in EventIDs /\ Storable(content[worker[w].id])
    BY <2>1, HeldWorker DEF PInv, Reached
  <2>3. content' = content /\ uncertain' = uncertain /\ Insert(worker[w].id)
    BY <1>1 DEF PersistCommitted
  <2> QED BY <1>t, <2>2, <2>3, InsertRows DEF RowsStep
<1>2. ASSUME NEW w \in Workers, PersistUncertain(w) PROVE RowsStep
  <2>1. worker[w] # Idle /\ worker[w].pc = "persisting"
    BY <1>0, <1>2 DEF PersistUncertain, NotIdle
  <2>2. worker[w].id \in EventIDs /\ Storable(content[worker[w].id])
    BY <2>1, HeldWorker DEF PInv, Reached
  <2>3. content' = content /\ rows' = rows /\ uncertain' = uncertain \cup {worker[w].id}
    BY <1>2 DEF PersistUncertain
  <2> QED BY <1>t, <2>2, <2>3 DEF RowsStep, RowsOK, Rowed, Storable
<1>3. ASSUME NEW id \in EventIDs, LateCommit(id) PROVE RowsStep
  <2>1. /\ id \in uncertain /\ content' = content /\ uncertain' = uncertain \ {id} /\ Insert(id)
    BY <1>3 DEF LateCommit
  <2>2. Storable(content[id])
    BY <1>t, <2>1 DEF RowsOK
  <2>3. uncertain' \subseteq uncertain
    BY <2>1
  <2> QED BY <1>t, <2>1, <2>2, <2>3, InsertRows DEF RowsStep
<1>4. ASSUME NEW w \in Workers, WorkerStep(w) PROVE RowsStep
  <2>1. CASE Acquire(w) \/ Process(w) \/ AckCall(w) \/ Abandon(w)
    BY <1>u, <2>1 DEF Acquire, Process, AckCall, Abandon
  <2>2. ASSUME NEW n \in NackRequests, NackCall(w, n) PROVE RowsStep
    BY <1>u, <2>2 DEF NackCall
  <2> QED BY <1>1, <1>2, <1>4, <2>1, <2>2 DEF WorkerStep
<1>5. ASSUME NEW id \in EventIDs, PublishAttempt(id) PROVE RowsStep
  BY <1>u, <1>5 DEF PublishAttempt
<1>6. ASSUME NEW m \in late, LateReceipt(m) PROVE RowsStep
  BY <1>u, <1>6 DEF LateReceipt
<1>7. CASE BrokerStep \/ UNCHANGED pipeVars
  BY <1>u, <1>7 DEF BrokerStep, pipeVars
<1> QED BY <1>3, <1>4, <1>5, <1>6, <1>7 DEF PipeNext

-----------------------------------------------------------------------------
(* Each part of the invariant is kept *)

(* What was reached is not lost again. *)
LEMMA NamesKept ==
  ASSUME NEW g, NEW h, HistoryKept(g, h), NEW token, NEW id, Names(g, token, id)
  PROVE  Names(h, token, id)
BY DEF HistoryKept, Names

LEMMA ReachedKept ==
  ASSUME NEW g, NEW h, HistoryKept(g, h), NEW K, NEW L, K \subseteq L, NEW c,
         NEW d, Reached(d, g, K, c)
  PROVE  Reached(d, h, L, c)
BY NamesKept DEF Reached

LEMMA LateKept ==
  ASSUME NEW g, NEW h, HistoryKept(g, h), NEW K, NEW L, K \subseteq L, NEW c,
         NEW m, LateOK(m, g, K, c)
  PROVE  LateOK(m, h, L, c)
BY NamesKept DEF LateOK

(* The record of an event the broker answers with success is there. *)
LEMMA ConfirmedPresent ==
  ASSUME PInv, NEW id \in EventIDs, NEW p \in Payloads, Publish(id, p),
         Status(PublishAnswer(db, id, p, now)) = 200
  PROVE  db'.records[id].state # "absent"
<1>0. db \in Database /\ now \in Nat /\ DBInv(db) /\ LimitsOK(db)
  BY SeqGranted
<1> DEFINE v == PublishView(db, id, now)
           a == PublishAnswer(db, id, p, now)
<1>1. a \in {"accepted", "duplicate"}
  BY DEF Status, PublishAnswer
<1>2. CASE a = "accepted" /\ db' = Admit(v, id, p, now)
  <2>1. v \in Database
    BY <1>0, PublishViewInv DEF DBInv
  <2> HIDE DEF v
  <2>2. db'.records = [v.records EXCEPT ![id] = Admitted(p, v.sequence + 1, now)]
    BY <1>0, <1>2, <2>1, AdmitMove
  <2>3. v.sequence + 1 \in Nat /\ v.records \in [EventIDs -> Record]
    BY <2>1 DEF Database
  <2>4. Admitted(p, v.sequence + 1, now).state = "ready"
    BY <1>0, <2>3, AdmittedRecord
  <2>5. db'.records[id] = Admitted(p, v.sequence + 1, now)
    BY <2>2, <2>3
  <2> QED BY <2>4, <2>5
<1>3. CASE a = "duplicate" /\ db' = v
  BY <1>3 DEF PublishAnswer
<1> QED BY <1>1, <1>2, <1>3 DEF Publish

Holding == [pc : {"leased", "persisting", "acking", "nacking"}, id : EventIDs, token : Nat,
            deadline : Int]

(* A worker goes on with its delivery. *)
LEMMA StepsOn ==
  ASSUME NEW x \in Holding, NEW q \in {"persisting", "acking", "nacking"}
  PROVE  LET y == [x EXCEPT !.pc = q] IN
         /\ y \in Holding /\ y.pc = q /\ y.id = x.id /\ y.token = x.token
         /\ y.deadline = x.deadline
BY DEF Holding

LEMMA WorkDeadline ==
  ASSUME PInv, NEW x \in Int
  PROVE  Deadline(x) \in Int /\ Deadline(x) <= x - ExpiryMargin
<1>1. now \in Int /\ WorkTimeout \in Int /\ ExpiryMargin \in Int
  BY SeqGranted, PipelineAssumption
<1> QED BY <1>1 DEF Deadline, Lesser

LEMMA StepWorkers ==
  ASSUME PInv, [PipeNext]_pipeVars, HistoryKept(granted, granted'), RowsStep
  PROVE  /\ worker' \in [Workers -> WorkerState]
         /\ \A w \in Workers : Reached(worker'[w], granted', Rowed', content)
<1> DEFINE Good(d) == d \in WorkerState /\ Reached(d, granted', Rowed', content)
           Goal == worker' \in [Workers -> WorkerState] /\ \A w \in Workers : Good(worker'[w])
<1>0. NotIdle
  BY PlaceIsNotIdle
<1>t. worker \in [Workers -> WorkerState] /\ Holding \subseteq WorkerState /\ Idle \in WorkerState
  BY DEF PInv, PipeTypeOK, WorkerState, Holding
<1>h. \A w \in Workers : worker[w] # Idle => worker[w] \in Holding
  BY <1>t DEF WorkerState, Holding
<1>k. \A w \in Workers : Good(worker[w])
  <2> SUFFICES ASSUME NEW w \in Workers PROVE Good(worker[w])
    OBVIOUS
  <2>1. Reached(worker[w], granted, Rowed, content)
    BY DEF PInv
  <2>2. Rowed \subseteq Rowed'
    BY DEF RowsStep
  <2> HIDE DEF Goal
  <2>3. Reached(worker[w], granted', Rowed', content)
    BY <2>1, <2>2, ReachedKept
  <2> QED BY <1>t, <2>3
<1>i. Good(Idle)
  BY <1>t DEF Reached
<1>u. ASSUME worker' = worker PROVE Goal
  BY <1>t, <1>k, <1>u
<1>r. ASSUME NEW w \in Workers, NEW d, Good(d), worker' = [worker EXCEPT ![w] = d] PROVE Goal
  <2> HIDE DEF Good
  <2>1. d \in WorkerState
    BY <1>r DEF Good
  <2> QED BY <1>t, <1>k, <1>r, <2>1
<1>1. ASSUME NEW w \in Workers, Acquire(w) PROVE Goal
  <2>1. Lease
    BY <1>1 DEF Acquire
  <2>2. CASE worker' = [worker EXCEPT ![w] = Leased] /\ Delivered
    <3>1. /\ LeasedID(db, now) \in EventIDs /\ NewToken(db) \in Nat
          /\ Names(granted', NewToken(db), LeasedID(db, now))
      BY <2>1, <2>2, LeaseOutcome DEF Names
    <3>2. now + LeaseDuration \in Int
      BY SeqGranted, OptionsAssumption
    <3>3. Leased \in Holding
      BY <3>1, <3>2 DEF Leased, Holding
    <3>4. Leased.pc = "leased" /\ Leased.token = NewToken(db) /\ Leased.id = LeasedID(db, now)
      BY DEF Leased
    <3>5. Good(Leased)
      BY <1>t, <3>1, <3>3, <3>4 DEF Reached
    <3> QED BY <1>r, <2>2, <3>5
  <2> QED BY <1>1, <1>u, <2>2 DEF Acquire
<1>2. ASSUME NEW w \in Workers, Process(w) PROVE Goal
  <2> DEFINE x == worker[w]
             q == Route(x.id)
             z == Deadline(x.deadline)
             y == [x EXCEPT !.pc = q, !.deadline = z]
  <2>1. x # Idle /\ x.pc = "leased"
    BY <1>0, <1>2 DEF Process, NotIdle
  <2>2. x \in Holding /\ Names(granted', x.token, x.id)
    <3>1. x \in Holding
      BY <1>h, <2>1
    <3>2. Good(x)
      BY <1>k
    <3> QED BY <2>1, <3>1, <3>2 DEF Reached
  <2>3. q \in {"persisting", "acking", "nacking"} /\ z \in Int
    <3>1. x.deadline \in Int
      BY <2>1, HeldWorker
    <3> QED BY <3>1, WorkDeadline DEF Route
  <2>4. /\ q \in {"persisting", "acking"} => Storable(content[x.id])
        /\ q = "nacking" => ~Storable(content[x.id])
        /\ q # "acking"
    BY DEF Route
  <2>5. worker' = [worker EXCEPT ![w] = y] \/ worker' = [worker EXCEPT ![w] = Idle]
    BY <1>2 DEF Process
  <2> HIDE DEF x, q, z
  <2>6. y \in Holding /\ y.pc = q /\ y.id = x.id /\ y.token = x.token
    BY <2>2, <2>3 DEF Holding
  <2> HIDE DEF y
  <2>7. Good(y)
    BY <1>t, <2>2, <2>4, <2>6 DEF Reached
  <2> QED BY <1>i, <1>r, <2>5, <2>7
<1>3. ASSUME NEW w \in Workers, PersistCommitted(w) PROVE Goal
  <2> DEFINE x == worker[w]
             y == [x EXCEPT !.pc = "acking"]
  <2>1. x # Idle /\ x.pc = "persisting"
    BY <1>0, <1>3 DEF PersistCommitted, NotIdle
  <2>2. x \in Holding /\ Names(granted', x.token, x.id) /\ Storable(content[x.id])
    <3>1. x \in Holding
      BY <1>h, <2>1
    <3>2. Good(x)
      BY <1>k
    <3> QED BY <2>1, <3>1, <3>2 DEF Reached
  <2>3. x.id \in EventIDs
    BY <2>1, HeldWorker
  <2>4. content' = content /\ uncertain' \subseteq uncertain /\ Insert(x.id)
    BY <1>3 DEF PersistCommitted
  <2>5. x.id \in Rowed'
    BY <2>2, <2>3, <2>4, InsertRows
  <2>6. worker' = [worker EXCEPT ![w] = y]
    BY <1>3 DEF PersistCommitted
  <2> HIDE DEF x
  <2>7. y \in Holding /\ y.pc = "acking" /\ y.id = x.id /\ y.token = x.token
    BY <2>2, StepsOn
  <2> HIDE DEF y
  <2>8. Good(y)
    BY <1>t, <2>2, <2>5, <2>7 DEF Reached
  <2> QED BY <1>r, <2>6, <2>8
<1>4. ASSUME NEW w \in Workers, WorkerStep(w) PROVE Goal
  <2>1. CASE PersistUncertain(w)
    BY <1>u, <2>1 DEF PersistUncertain
  <2>2. CASE AckCall(w)
    <3>1. worker' = worker \/ worker' = [worker EXCEPT ![w] = Idle]
      BY <2>2 DEF AckCall
    <3> QED BY <1>i, <1>r, <1>u, <3>1
  <2>3. ASSUME NEW n \in NackRequests, NackCall(w, n) PROVE Goal
    <3>1. worker' = worker \/ worker' = [worker EXCEPT ![w] = Idle]
      BY <2>3 DEF NackCall
    <3> QED BY <1>i, <1>r, <1>u, <3>1
  <2>4. CASE Abandon(w)
    <3>1. worker' = [worker EXCEPT ![w] = Idle]
      BY <2>4 DEF Abandon
    <3> QED BY <1>i, <1>r, <3>1
  <2> HIDE DEF Goal
  <2> QED BY <1>1, <1>2, <1>3, <1>4, <2>1, <2>2, <2>3, <2>4 DEF WorkerStep
<1>5. ASSUME NEW id \in EventIDs, PublishAttempt(id) \/ LateCommit(id) PROVE Goal
  BY <1>u, <1>5 DEF PublishAttempt, LateCommit
<1>6. ASSUME NEW m \in late, LateReceipt(m) PROVE Goal
  BY <1>u, <1>6 DEF LateReceipt
<1>7. CASE BrokerStep \/ UNCHANGED pipeVars
  BY <1>u, <1>7 DEF BrokerStep, pipeVars
<1>8. Goal
  <2>1. CASE \E w \in Workers : WorkerStep(w)
    BY <1>4, <2>1, Zenon
  <2>2. CASE \E id \in EventIDs : PublishAttempt(id) \/ LateCommit(id)
    BY <1>5, <2>2, Zenon
  <2>3. CASE \E m \in late : LateReceipt(m)
    BY <1>6, <2>3, Zenon
  <2> QED BY <1>7, <2>1, <2>2, <2>3, Zenon DEF PipeNext
<1> QED BY <1>8

LEMMA StepLate ==
  ASSUME PInv, [PipeNext]_pipeVars, HistoryKept(granted, granted'), RowsStep
  PROVE  late' \subseteq Receipt /\ \A m \in late' : LateOK(m, granted', Rowed', content)
<1> DEFINE Good(m) == m \in Receipt /\ LateOK(m, granted', Rowed', content)
           Goal == \A m \in late' : Good(m)
<1>0. NotIdle /\ NoNack \notin NackRequests
  BY PlaceIsNotIdle, InputsAssumption
<1>k. \A m \in late : Good(m)
  <2> SUFFICES ASSUME NEW m \in late PROVE Good(m)
    OBVIOUS
  <2>1. m \in Receipt /\ LateOK(m, granted, Rowed, content)
    BY LateOne
  <2>2. Rowed \subseteq Rowed'
    BY DEF RowsStep
  <2>3. LateOK(m, granted', Rowed', content)
    BY <2>1, <2>2, LateKept
  <2> QED BY <2>1, <2>3
<1>u. ASSUME late' \subseteq late PROVE Goal
  BY <1>k, <1>u
<1>1. ASSUME NEW w \in Workers, NEW n \in NackRequests \cup {NoNack},
             worker[w] # Idle, late' = late \cup {Sent(w, n)},
             worker[w].pc = IF n = NoNack THEN "acking" ELSE "nacking"
      PROVE  Goal
  <2> DEFINE m == Sent(w, n)
  <2>1. worker[w].id \in EventIDs /\ worker[w].token \in Nat
    BY <1>1, HeldWorker
  <2>2. m.id = worker[w].id /\ m.token = worker[w].token /\ m.nack = n /\ m \in Receipt
    BY <2>1 DEF Sent, Receipt
  <2>3. Reached(worker[w], granted, Rowed, content)
    BY DEF PInv
  <2>4. LateOK(m, granted, Rowed, content)
    <3> HIDE DEF m
    <3> QED BY <1>0, <1>1, <2>2, <2>3 DEF Reached, LateOK
  <2>5. Rowed \subseteq Rowed'
    BY DEF RowsStep
  <2>6. Good(m)
    <3> HIDE DEF m
    <3> QED BY <2>2, <2>4, <2>5, LateKept
  <2> QED BY <1>1, <1>k, <2>6
<1>2. ASSUME NEW w \in Workers, AckCall(w) PROVE Goal
  <2>1. worker[w] # Idle /\ worker[w].pc = "acking"
    BY <1>0, <1>2 DEF AckCall, NotIdle
  <2>2. CASE late' = late \cup {Sent(w, NoNack)}
    <3>1. NoNack \in NackRequests \cup {NoNack}
      OBVIOUS
    <3> QED BY <1>1, <2>1, <2>2, <3>1
  <2> QED BY <1>2, <1>u, <2>2 DEF AckCall
<1>3. ASSUME NEW w \in Workers, NEW n \in NackRequests, NackCall(w, n) PROVE Goal
  <2>1. worker[w] # Idle /\ worker[w].pc = "nacking"
    BY <1>0, <1>3 DEF NackCall, NotIdle
  <2>2. CASE late' = late \cup {Sent(w, n)}
    <3>1. n \in NackRequests \cup {NoNack} /\ n # NoNack
      BY <1>0
    <3> QED BY <1>1, <2>1, <2>2, <3>1
  <2> QED BY <1>3, <1>u, <2>2 DEF NackCall
<1>4. ASSUME NEW w \in Workers, WorkerStep(w) PROVE Goal
  <2>1. CASE Acquire(w) \/ Process(w) \/ PersistCommitted(w) \/ PersistUncertain(w) \/ Abandon(w)
    BY <1>u, <2>1 DEF Acquire, Process, PersistCommitted, PersistUncertain, Abandon
  <2> QED BY <1>2, <1>3, <1>4, <2>1, Zenon DEF WorkerStep
<1>5. ASSUME NEW id \in EventIDs, PublishAttempt(id) \/ LateCommit(id) PROVE Goal
  BY <1>u, <1>5 DEF PublishAttempt, LateCommit
<1>6. ASSUME NEW m \in late, LateReceipt(m) PROVE Goal
  BY <1>u, <1>6 DEF LateReceipt
<1>7. CASE BrokerStep \/ UNCHANGED pipeVars
  BY <1>u, <1>7 DEF BrokerStep, pipeVars
<1>8. Goal
  <2>1. CASE \E w \in Workers : WorkerStep(w)
    BY <1>4, <2>1, Zenon
  <2>2. CASE \E id \in EventIDs : PublishAttempt(id) \/ LateCommit(id)
    BY <1>5, <2>2, Zenon
  <2>3. CASE \E m \in late : LateReceipt(m)
    BY <1>6, <2>3, Zenon
  <2> QED BY <1>7, <2>1, <2>2, <2>3, Zenon DEF PipeNext
<1> QED BY <1>8

(* Growing K keeps the evidence. *)
LEMMA BackedMore ==
  ASSUME NEW d, NEW g, NEW K, NEW L, K \subseteq L, NEW C, NEW D, Backed(d, g, K, C),
         \A id \in D \ C : id \in Active(d) \/ id \in L
  PROVE  Backed(d, g, L, D)
BY DEF Backed

LEMMA StepBacked ==
  ASSUME PInv, [PipeNext]_pipeVars, SInv', RowsStep
  PROVE  confirmed' \subseteq EventIDs /\ Backed(db', granted', Rowed', confirmed')
<1>0. /\ granted \in Seq(Grant) /\ now \in Nat /\ db \in Database /\ IInv
      /\ SafeInv(db, granted) /\ db' \in Database
  BY SeqGranted DEF SInv, IInv, TypeOK
<1>t. confirmed \in SUBSET EventIDs /\ Backed(db, granted, Rowed, confirmed)
  BY DEF PInv, PipeTypeOK
<1>m. \/ SweepMove(db, granted, db', granted', now)
      \/ Move(db, granted, db', granted', now)
  BY <1>0, PipeStep, StepIsMove
<1>j. \A token \in DOMAIN granted :
        granted'[token].outcome = "acked"
          => granted[token].outcome = "acked" \/ granted[token].id \in Rowed
  BY StepJustified DEF Justified
<1>1. Backed(db', granted', Rowed, confirmed)
  BY <1>0, <1>t, <1>m, <1>j, MoveBacked, Zenon
<1>2. ASSUME NEW id \in EventIDs, PublishAttempt(id), confirmed' = confirmed \cup {id},
             Status(PublishAnswer(db, id, content[id], now)) = 200
      PROVE  id \in Active(db') \/ id \in Rowed
  <2>1. content[id] \in Payloads /\ Publish(id, content[id])
    BY <1>2, FeedContent DEF PublishAttempt
  <2>2. db'.records[id].state # "absent"
    BY <1>2, <2>1, ConfirmedPresent
  <2>3. db'.records[id] \in Record
    BY <1>0, StatsNumbers
  <2>4. db'.records[id].state \in ActiveStates \cup {"completed"}
    BY <2>2, <2>3 DEF Record, ActiveStates
  <2> QED BY <1>1, <2>4 DEF Backed, Active, InState
<1>3. /\ confirmed' \subseteq EventIDs
      /\ \A id \in confirmed' \ confirmed : id \in Active(db') \/ id \in Rowed
  <2> DEFINE Goal == /\ confirmed' \subseteq EventIDs
                     /\ \A id \in confirmed' \ confirmed : id \in Active(db') \/ id \in Rowed
  <2>u. ASSUME confirmed' = confirmed PROVE Goal
    BY <1>t, <2>u
  <2>1. ASSUME NEW id \in EventIDs, PublishAttempt(id) PROVE Goal
    <3>1. CASE /\ confirmed' = confirmed \cup {id}
               /\ Status(PublishAnswer(db, id, content[id], now)) = 200
      BY <1>2, <1>t, <2>1, <3>1
    <3> QED BY <2>1, <2>u, <3>1 DEF PublishAttempt
  <2>2. ASSUME NEW w \in Workers, WorkerStep(w) PROVE confirmed' = confirmed
    BY <2>2 DEF WorkerStep, Acquire, Process, PersistCommitted, PersistUncertain, AckCall,
                NackCall, Abandon
  <2>3. CASE \/ BrokerStep \/ UNCHANGED pipeVars
             \/ \E id \in EventIDs : LateCommit(id)
             \/ \E m \in late : LateReceipt(m)
    <3>1. confirmed' = confirmed
      BY <2>3 DEF BrokerStep, LateCommit, LateReceipt, pipeVars
    <3> QED BY <2>u, <3>1
  <2>4. CASE \E w \in Workers : WorkerStep(w)
    BY <2>2, <2>4, <2>u
  <2> QED BY <2>1, <2>3, <2>4, Zenon DEF PipeNext
<1>4. Rowed \subseteq Rowed'
  BY DEF RowsStep
<1> QED BY <1>1, <1>3, <1>4, BackedMore

-----------------------------------------------------------------------------
(* The theorems *)

LEMMA InitPInv == PipeInit => PInv
<1> SUFFICES ASSUME PipeInit PROVE PInv
  OBVIOUS
<1>1. SInv /\ TypeOK
  BY InitSInv DEF PipeInit, SInv, IInv
<1>2. /\ granted = <<>> /\ content \in Feeds /\ confirmed = {} /\ uncertain = {} /\ late = {}
      /\ rows = [id \in EventIDs |-> NoPayload] /\ worker = [w \in Workers |-> Idle]
  BY DEF PipeInit, Init
<1>3. PipeTypeOK
  BY <1>1, <1>2 DEF PipeTypeOK, WorkerState
<1>4. RowsOK /\ NackedOK(granted, content)
  BY <1>2 DEF RowsOK, NackedOK
<1>5. \A w \in Workers : Reached(worker[w], granted, Rowed, content)
  BY <1>2 DEF Reached
<1>6. \A id \in EventIDs : db.records[id].state # "completed"
  BY AbsentRecord DEF PipeInit, Init, EmptyDatabase
<1>7. Backed(db, granted, Rowed, confirmed)
  BY <1>2, <1>6 DEF Backed
<1> QED BY <1>1, <1>2, <1>3, <1>4, <1>5, <1>7 DEF PInv

LEMMA NextPInv == PInv /\ [PipeNext]_pipeVars => PInv'
<1> SUFFICES ASSUME PInv, [PipeNext]_pipeVars PROVE PInv'
  OBVIOUS
<1>1. SInv' /\ TypeOK'
  BY PipeStep, NextSInv DEF PInv, SInv, IInv
<1>2. RowsStep
  BY StepRows
<1>3. HistoryKept(granted, granted')
  <2>1. /\ granted \in Seq(Grant) /\ now \in Nat /\ db \in Database /\ IInv
        /\ SafeInv(db, granted) /\ db' \in Database
    BY <1>1, SeqGranted DEF TypeOK
  <2>2. \/ SweepMove(db, granted, db', granted', now)
        \/ Move(db, granted, db', granted', now)
    BY <2>1, PipeStep, StepIsMove
  <2> QED BY <2>1, <2>2, MoveCompletes, Zenon
<1>4. content' = content
  BY <1>2 DEF RowsStep
<1>5. /\ worker' \in [Workers -> WorkerState]
      /\ \A w \in Workers : Reached(worker'[w], granted', Rowed', content)
  BY <1>2, <1>3, StepWorkers
<1>6. late' \subseteq Receipt /\ \A m \in late' : LateOK(m, granted', Rowed', content)
  BY <1>2, <1>3, StepLate
<1>7. confirmed' \subseteq EventIDs /\ Backed(db', granted', Rowed', confirmed')
  BY <1>1, <1>2, StepBacked
<1>8. PipeTypeOK'
  BY <1>1, <1>2, <1>4, <1>5, <1>6, <1>7 DEF PInv, PipeTypeOK, RowsStep
<1>9. NackedOK(granted', content)
  <2>1. NackedOK(granted, content)
    BY DEF PInv
  <2>2. Justified(granted, granted', Rowed, content)
    BY StepJustified
  <2> QED BY <1>3, <2>1, <2>2 DEF NackedOK, Justified, HistoryKept
<1>10. \A w \in Workers : Reached(worker'[w], granted', Rowed', content')
  BY <1>4, <1>5
<1>11. \A m \in late' : LateOK(m, granted', Rowed', content')
  BY <1>4, <1>6
<1>12. RowsOK' /\ NackedOK(granted', content')
  BY <1>2, <1>4, <1>9 DEF RowsStep
<1> QED BY <1>1, <1>7, <1>8, <1>10, <1>11, <1>12
        DEF PInv, NackedOK, Reached, Names, LateOK, Backed, Active, InState, Storable

(* The invariant of the composed system holds in every reachable state. *)
THEOREM PipelineInvariant == PipeSpec => []PInv
BY InitPInv, NextPInv, PTL DEF PipeSpec

(* Inside the pipeline the broker of durable.go runs as DurableQueue says,  *)
(* so what is proved of it alone holds there too; in particular it keeps    *)
(* the promise of ReliableQueue to streamers and collectors.                *)
THEOREM PipelineRunsBroker == PipeSpec => Spec /\ Reliable
<1>1. PipeInit => Init
  BY DEF PipeInit
<1>2. PInv /\ [PipeNext]_pipeVars => [Next]_vars
  BY PipeStep
<1>3. PipeSpec => Spec
  BY <1>1, <1>2, PipelineInvariant, PTL DEF PipeSpec, Spec
<1> QED BY <1>3, BrokerIsReliable, PTL

(* Commit before ACK: whatever requests, replies and COMMITs are lost or    *)
(* late, whichever workers die and however deliveries are repeated,         *)
(* collector.Process lets the broker complete an event only once its row    *)
(* is in the table.                                                         *)
THEOREM CommitPrecedesAck == PipeSpec => []CommitBeforeAck
<1>1. PInv => CommitBeforeAck
  BY DEF PInv, Backed, Rowed, CommitBeforeAck
<1> QED BY <1>1, PipelineInvariant, PTL

(* A measurement whose producer saw a 202 is active in the broker or a row  *)
(* of the table, and one the table cannot hold is never dropped: no         *)
(* interleaving of streamers, broker and collectors loses it.               *)
THEOREM ConfirmedEventsKept == PipeSpec => []EventsKept
<1>1. PInv => NoConfirmedLoss
  BY DEF PInv, Backed, Rowed, NoConfirmedLoss
<1>2. PInv => PoisonKept
  <2> SUFFICES ASSUME PInv, NEW id \in EventIDs, ~Storable(content[id])
               PROVE  rows[id] = NoPayload /\ (id \in confirmed => id \in Active(db))
    BY DEF PoisonKept
  <2>1. rows[id] = NoPayload
    BY DEF PInv, RowsOK
  <2>2. content[id] # NoPayload
    BY PipelineAssumption, InputsAssumption DEF Storable
  <2> QED BY <1>1, <2>1, <2>2 DEF NoConfirmedLoss
<1> QED BY <1>1, <1>2, PipelineInvariant, PTL DEF EventsKept

-----------------------------------------------------------------------------
(* Receipts in time *)

LEMMA GrantTimes ==
  ASSUME NEW g \in Seq(Grant), NEW token \in DOMAIN g
  PROVE  g[token].expires \in Nat /\ g[token].until \in Nat
<1>1. g[token] \in Grant
  OBVIOUS
<1> QED BY <1>1 DEF Grant

LEMMA MoveTimed ==
  ASSUME NEW d \in Database, NEW r \in Database, NEW g \in Seq(Grant), NEW h, NEW t \in Nat,
         SafeInv(d, g), SweepMove(d, g, r, h, t) \/ Move(d, g, r, h, t), Timed(g, t)
  PROVE  Timed(h, t)
<1>0. LeaseDuration \in Nat /\ CompletionTTL \in Nat
  BY OptionsAssumption
<1>1. CASE SweepMove(d, g, r, h, t) \/ AcceptMove(d, g, r, h, t)
  <2>1. h = g
    BY <1>1 DEF SweepMove, AcceptMove
  <2> QED BY <2>1
<1>2. CASE DeliverMove(d, g, r, h, t)
  <2>1. PICK i \in EventIDs : h = Append(g, NewGrant(i, t))
    BY <1>2 DEF DeliverMove
  <2> DEFINE a == NewGrant(i, t)
  <2>2. t + LeaseDuration \in Nat
    BY <1>0
  <2>3. a \in Grant /\ a.outcome = "open" /\ a.expires = t + LeaseDuration
    BY <2>2 DEF NewGrant, Grant
  <2>4. h = Append(g, a)
    BY <2>1
  <2> HIDE DEF a
  <2>5. /\ DOMAIN g = 1 .. Len(g) /\ DOMAIN h = 1 .. (Len(g) + 1) /\ Len(g) \in Nat
        /\ h[Len(g) + 1] = a /\ \A u \in DOMAIN g : h[u] = g[u]
    BY <2>3, <2>4, AppendedGrant
  <2>6. \A u \in DOMAIN h : u \in DOMAIN g \/ h[u] = a
    BY <2>5
  <2> QED BY <2>2, <2>3, <2>5, <2>6 DEF Timed
<1>3. CASE AckMove(d, g, r, h, t)
  <2>1. PICK token \in DOMAIN g :
          h = [g EXCEPT ![token].outcome = "acked", ![token].until = t + CompletionTTL]
    BY <1>3 DEF AckMove
  <2> DEFINE x == t + CompletionTTL
  <2>2. x \in Nat
    BY <1>0
  <2>3. IsAcked(g, h, token, x)
    <3> HIDE DEF x
    <3> QED BY <2>1, <2>2, AckedGrant DEF x
  <2>4. /\ h[token].expires = g[token].expires /\ h[token].until = x
        /\ DOMAIN h = DOMAIN g /\ \A u \in DOMAIN g \ {token} : h[u] = g[u]
    BY <2>3 DEF IsAcked, IsSettled
  <2>5. g[token].expires \in Nat /\ g[token].expires <= t + LeaseDuration
    BY GrantTimes DEF Timed
  <2>6. h[token].until + LeaseDuration >= h[token].expires + CompletionTTL
    BY <1>0, <2>4, <2>5
  <2> QED BY <2>4, <2>5, <2>6 DEF Timed
<1>4. CASE NackMove(d, g, r, h, t)
  <2>1. PICK token \in DOMAIN g, n \in NackRequests :
          h = [g EXCEPT ![token].outcome = "nacked", ![token].request = n]
    BY <1>4 DEF NackMove
  <2>2. IsNacked(g, h, token, n)
    BY <2>1, NackedGrant
  <2> QED BY <2>2 DEF IsNacked, IsSettled, Timed
<1> QED BY <1>1, <1>2, <1>3, <1>4 DEF Move

LEMMA StepTimed ==
  ASSUME ClockSteps \subseteq Nat, PInv, PInv', Timed(granted, now), [PipeNext]_pipeVars
  PROVE  Timed(granted', now')
<1>1. /\ granted \in Seq(Grant) /\ now \in Nat /\ db \in Database /\ IInv
      /\ SafeInv(db, granted) /\ db' \in Database /\ granted' \in Seq(Grant)
  BY SeqGranted DEF PInv, SInv, IInv, TypeOK
<1>2. \/ SweepMove(db, granted, db', granted', now)
      \/ Move(db, granted, db', granted', now)
  BY <1>1, PipeStep, StepIsMove
<1>3. Timed(granted', now)
  BY <1>1, <1>2, MoveTimed, Zenon
<1>4. now' \in Nat /\ now <= now'
  BY <1>1, PipeStep, ClockAdvances
<1>5. \A u \in DOMAIN granted' : granted'[u].expires \in Nat
  BY <1>1, GrantTimes
<1> QED BY <1>1, <1>3, <1>4, <1>5, OptionsAssumption DEF Timed

LEMMA InTimeKept ==
  ASSUME NEW g, NEW h, HistoryKept(g, h), NEW d, Names(g, d.token, d.id) \/ d = Idle,
         InTime(g, d)
  PROVE  InTime(h, d)
BY DEF HistoryKept, Names, InTime

LEMMA StepInTime ==
  ASSUME PInv, [PipeNext]_pipeVars, HistoryKept(granted, granted'),
         \A w \in Workers : InTime(granted, worker[w])
  PROVE  \A w \in Workers : InTime(granted', worker'[w])
<1> DEFINE Goal == \A w \in Workers : InTime(granted', worker'[w])
<1>0. NotIdle
  BY PlaceIsNotIdle
<1>t. worker \in [Workers -> WorkerState]
  BY DEF PInv, PipeTypeOK
<1>h. \A w \in Workers : worker[w] # Idle => worker[w] \in Holding
  BY <1>t DEF WorkerState, Holding
<1>k. \A w \in Workers : InTime(granted', worker[w])
  <2> SUFFICES ASSUME NEW w \in Workers PROVE InTime(granted', worker[w])
    OBVIOUS
  <2>1. Names(granted, worker[w].token, worker[w].id) \/ worker[w] = Idle
    BY DEF PInv, Reached
  <2> QED BY <2>1, InTimeKept
<1>i. InTime(granted', Idle)
  BY DEF InTime
<1>u. ASSUME worker' = worker PROVE Goal
  BY <1>k, <1>u
<1>r. ASSUME NEW w \in Workers, NEW d, InTime(granted', d), worker' = [worker EXCEPT ![w] = d]
      PROVE  Goal
  BY <1>t, <1>k, <1>r
<1>1. ASSUME NEW w \in Workers, Acquire(w) PROVE Goal
  <2>1. Lease
    BY <1>1 DEF Acquire
  <2>2. CASE worker' = [worker EXCEPT ![w] = Leased] /\ Delivered
    <3>1. granted'[NewToken(db)].expires = now + LeaseDuration
      BY <2>1, <2>2, LeaseOutcome
    <3>2. now + LeaseDuration \in Int
      BY SeqGranted, OptionsAssumption
    <3>3. /\ Leased.pc = "leased" /\ Leased.token = NewToken(db)
          /\ Leased.deadline = now + LeaseDuration
      BY DEF Leased
    <3>4. InTime(granted', Leased)
      BY <3>1, <3>2, <3>3 DEF InTime
    <3> QED BY <1>r, <2>2, <3>4
  <2> QED BY <1>1, <1>u, <2>2 DEF Acquire
<1>2. ASSUME NEW w \in Workers, Process(w) PROVE Goal
  <2> DEFINE x == worker[w]
             q == Route(x.id)
             z == Deadline(x.deadline)
             y == [x EXCEPT !.pc = q, !.deadline = z]
  <2>1. x # Idle /\ x.pc = "leased"
    BY <1>0, <1>2 DEF Process, NotIdle
  <2>2. x \in Holding
    BY <1>h, <2>1
  <2>3. q \in {"persisting", "acking", "nacking"} /\ z \in Int /\ x.deadline \in Int
        /\ z <= x.deadline - ExpiryMargin
    <3>1. x.deadline \in Int
      BY <2>1, HeldWorker
    <3> QED BY <3>1, WorkDeadline DEF Route
  <2>4. InTime(granted', x)
    BY <1>k
  <2>5. worker' = [worker EXCEPT ![w] = y] \/ worker' = [worker EXCEPT ![w] = Idle]
    BY <1>2 DEF Process
  <2>6. granted'[x.token].expires \in Int
    <3>1. x.token \in DOMAIN granted
      BY <2>1, HeldWorker
    <3>2. granted[x.token].expires \in Nat
      BY <3>1, SeqGranted, GrantTimes
    <3> QED BY <3>1, <3>2 DEF HistoryKept
  <2> HIDE DEF x, q, z
  <2>7. y \in Holding /\ y.pc = q /\ y.id = x.id /\ y.token = x.token /\ y.deadline = z
    BY <2>2, <2>3 DEF Holding
  <2> HIDE DEF y
  <2>8. x.deadline <= granted'[x.token].expires
    BY <2>1, <2>3, <2>4, <2>6 DEF InTime
  <2>9. y.deadline + ExpiryMargin <= granted'[y.token].expires
    BY <2>3, <2>6, <2>7, <2>8, PipelineAssumption
  <2>10. InTime(granted', y)
    BY <2>3, <2>7, <2>9 DEF InTime
  <2> QED BY <1>i, <1>r, <2>5, <2>10
<1>3. ASSUME NEW w \in Workers, PersistCommitted(w) PROVE Goal
  <2> DEFINE x == worker[w]
             y == [x EXCEPT !.pc = "acking"]
  <2>1. x # Idle /\ x.pc = "persisting"
    BY <1>0, <1>3 DEF PersistCommitted, NotIdle
  <2>2. x \in Holding
    BY <1>h, <2>1
  <2>3. InTime(granted', x)
    BY <1>k
  <2>4. worker' = [worker EXCEPT ![w] = y]
    BY <1>3 DEF PersistCommitted
  <2> HIDE DEF x
  <2>5. /\ y.pc = "acking" /\ y.id = x.id /\ y.token = x.token /\ y.deadline = x.deadline
    BY <2>2, StepsOn
  <2> HIDE DEF y
  <2>6. InTime(granted', y)
    BY <2>1, <2>3, <2>5 DEF InTime
  <2> QED BY <1>r, <2>4, <2>6
<1>4. ASSUME NEW w \in Workers, WorkerStep(w) PROVE Goal
  <2>1. CASE PersistUncertain(w)
    BY <1>u, <2>1 DEF PersistUncertain
  <2>2. CASE AckCall(w) \/ Abandon(w)
    <3>1. worker' = worker \/ worker' = [worker EXCEPT ![w] = Idle]
      BY <2>2 DEF AckCall, Abandon
    <3> QED BY <1>i, <1>r, <1>u, <3>1
  <2>3. ASSUME NEW n \in NackRequests, NackCall(w, n) PROVE Goal
    <3>1. worker' = worker \/ worker' = [worker EXCEPT ![w] = Idle]
      BY <2>3 DEF NackCall
    <3> QED BY <1>i, <1>r, <1>u, <3>1
  <2> QED BY <1>1, <1>2, <1>3, <1>4, <2>1, <2>2, <2>3, Zenon DEF WorkerStep
<1>5. CASE \/ BrokerStep \/ UNCHANGED pipeVars
           \/ \E id \in EventIDs : PublishAttempt(id) \/ LateCommit(id)
           \/ \E m \in late : LateReceipt(m)
  <2>1. worker' = worker
    BY <1>5 DEF BrokerStep, PublishAttempt, LateCommit, LateReceipt, pipeVars
  <2> QED BY <1>u, <2>1
<1>6. CASE \E w \in Workers : WorkerStep(w)
  BY <1>4, <1>6, Zenon
<1> QED BY <1>5, <1>6, Zenon DEF PipeNext

(* A worker that is through with Persist before its deadline settles its    *)
(* own delivery: the broker never answers its ACK as stale, not even when   *)
(* an earlier reply was lost.  This needs a broker clock that is not        *)
(* stepped back, and a completion that is remembered for the part of a      *)
(* lease a worker uses; DefaultDurableOptions keeps it for an hour against  *)
(* leases of 30s.                                                           *)
THEOREM ReceiptsInTime ==
  ASSUME ClockSteps \subseteq Nat, LeaseDuration <= CompletionTTL + ExpiryMargin
  PROVE  PipeSpec => []ReceiptInTime
<1>1. PipeInit => TInv
  <2> SUFFICES ASSUME PipeInit PROVE TInv
    OBVIOUS
  <2>1. PInv /\ granted = <<>> /\ worker = [w \in Workers |-> Idle]
    BY InitPInv DEF PipeInit, Init
  <2> QED BY <2>1 DEF TInv, ReceiptInv, LeaseOwned, AckKept, Timed, InTime
<1>2. TInv /\ [PipeNext]_pipeVars => TInv'
  <2> SUFFICES ASSUME TInv, [PipeNext]_pipeVars PROVE TInv'
    OBVIOUS
  <2>1. PInv /\ PInv'
    BY NextPInv DEF TInv
  <2>2. ReceiptInv(db', granted', now')
    BY <2>1, PipeStep, NextReceipts DEF TInv, PInv
  <2>3. Timed(granted', now')
    BY <2>1, StepTimed DEF TInv
  <2>4. HistoryKept(granted, granted')
    <3>1. /\ granted \in Seq(Grant) /\ now \in Nat /\ db \in Database /\ IInv
          /\ SafeInv(db, granted) /\ db' \in Database
      BY <2>1, SeqGranted DEF PInv, SInv, IInv, TypeOK
    <3>2. \/ SweepMove(db, granted, db', granted', now)
          \/ Move(db, granted, db', granted', now)
      BY <2>1, <3>1, PipeStep, StepIsMove
    <3> QED BY <3>1, <3>2, MoveCompletes, Zenon
  <2>5. \A w \in Workers : InTime(granted', worker'[w])
    BY <2>1, <2>4, StepInTime DEF TInv
  <2> QED BY <2>1, <2>2, <2>3, <2>5 DEF TInv, ReceiptInv, LeaseOwned, AckKept, Timed, InTime
<1>3. TInv => ReceiptInTime
  <2> SUFFICES ASSUME TInv, NEW w \in Workers, worker[w] # Idle, worker[w].pc = "acking",
                      worker[w].deadline > now
               PROVE  AckAnswer(db, worker[w].id, worker[w].token, now) # "stale"
    BY DEF ReceiptInTime
  <2> DEFINE id == worker[w].id
             token == worker[w].token
             a == granted[token]
             z == worker[w].deadline
  <2>0. PInv /\ ReceiptInv(db, granted, now) /\ Timed(granted, now)
    BY DEF TInv
  <2>1. id \in EventIDs /\ token \in DOMAIN granted /\ a.id = id /\ z \in Int
    BY <2>0, HeldWorker
  <2>2. granted \in Seq(Grant) /\ now \in Nat /\ SafeInv(db, granted)
    BY <2>0, SeqGranted
  <2>3. a.expires \in Nat /\ a.until \in Nat /\ a.outcome \in {"open", "acked", "nacked"}
    <3>1. a \in Grant
      BY <2>1, <2>2
    <3> HIDE DEF a
    <3> QED BY <3>1 DEF Grant
  <2>4. z + ExpiryMargin <= a.expires
    BY DEF TInv, InTime
  <2>5. a.outcome # "nacked"
    <3>1. Storable(content[id])
      BY <2>0 DEF PInv, Reached
    <3> QED BY <2>0, <2>1, <3>1 DEF PInv, NackedOK
  <2> DEFINE o == db.records[id]
  <2>6. CASE a.outcome = "open"
    <3>1. a.expires > now
      BY <2>1, <2>2, <2>3, <2>4, PipelineAssumption
    <3>2. o.state = "leased" /\ o.token = token
      BY <2>0, <2>1, <2>6, <3>1 DEF ReceiptInv, LeaseOwned
    <3>3. a = OpenGrant(id, o)
      BY <2>1, <2>2, <3>2 DEF SafeInv, Fenced
    <3>4. o.due = a.expires
      BY <3>3 DEF OpenGrant
    <3> QED BY <3>1, <3>2, <3>4 DEF AckAnswer, HoldsLease
  <2>7. CASE a.outcome = "acked"
    <3>1. a.until + LeaseDuration >= a.expires + CompletionTTL
      BY <2>0, <2>1, <2>7 DEF Timed
    <3>2. a.until > now
      <4> HIDE DEF a, z
      <4>1. z > now
        BY DEF z
      <4> QED BY <2>1, <2>2, <2>3, <2>4, <3>1, <4>1, OptionsAssumption, PipelineAssumption
    <3>3. o.state = "completed" /\ o.token = token /\ o.due = a.until
      BY <2>0, <2>1, <2>7, <3>2 DEF ReceiptInv, AckKept
    <3> QED BY <3>2, <3>3 DEF AckAnswer
  <2> QED BY <2>3, <2>5, <2>6, <2>7
<1> QED BY <1>1, <1>2, <1>3, PTL DEF PipeSpec

=============================================================================
