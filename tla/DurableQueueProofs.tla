------------------------- MODULE DurableQueueProofs -------------------------
(***************************************************************************)
(* Proofs about DurableQueue for every value of its constants.             *)
(***************************************************************************)
EXTENDS DurableQueue, FiniteSetTheorems, FunctionTheorems, TLAPS

USE DEF NoToken

-----------------------------------------------------------------------------
(* The inductive invariant, as a predicate on a database so that it can be  *)
(* carried through the steps inside a transaction.                          *)

Indexed == {"ready", "leased", "completed"}
Counted == Indexed \cup {"quarantined"}

Bucket(d, st) == IF st = "ready" THEN d.ready
                 ELSE IF st = "leased" THEN d.leases ELSE d.completions

Gauge(d, st) == IF st = "ready" THEN d.stats.ready
                ELSE IF st = "leased" THEN d.stats.leased
                ELSE IF st = "completed" THEN d.stats.completed ELSE d.stats.quarantined

IndexOK(d) == \A st \in Indexed : Bucket(d, st) = Index(d, st)

CountOK(d) == \A st \in Counted : Gauge(d, st) = Cardinality(InState(d, {st}))

SeqOK(d) ==
  /\ \A id \in Present(d) : d.records[id].seq \in 1 .. d.sequence
  /\ \A a, b \in Present(d) : d.records[a].seq = d.records[b].seq => a = b

EventOK(d) == \A id \in Active(d) : d.records[id].event \in Payloads

DBInv(d) == d \in Database /\ IndexOK(d) /\ SeqOK(d) /\ EventOK(d) /\ CountOK(d)

LimitsOK(d) ==
  /\ ActiveCount(d.stats) <= Capacity
  /\ ActiveCount(d.stats) + d.stats.completed <= DedupCapacity
  /\ d.stats.quarantined <= QuarantineCapacity
  /\ d.stats.logicalBytes <= MaxLogicalBytes

-----------------------------------------------------------------------------
(* Buckets *)

(* When the records outside S are untouched, each index changes by the keys of S. *)
LEMMA IndexMove ==
  ASSUME NEW d, NEW r, NEW S \in SUBSET EventIDs, NEW st,
         \A id \in EventIDs \ S : r.records[id] = d.records[id]
  PROVE  Index(r, st) = (Index(d, st) \ {Key(d.records[id], id) : id \in S})
                          \cup {Key(r.records[id], id) : id \in InState(r, {st}) \cap S}
<1> DEFINE Old == {Key(d.records[id], id) : id \in S}
           New == {Key(r.records[id], id) : id \in InState(r, {st}) \cap S}
<1>1. ASSUME NEW k \in Index(r, st) PROVE k \in (Index(d, st) \ Old) \cup New
  <2>1. PICK id \in InState(r, {st}) : k = Key(r.records[id], id)
    BY <1>1 DEF Index
  <2>2. CASE id \in S
    BY <2>1, <2>2
  <2>3. CASE id \notin S
    <3>1. id \in InState(d, {st}) /\ k = Key(d.records[id], id)
      BY <2>1, <2>3 DEF InState
    <3>2. k \in Index(d, st)
      BY <3>1 DEF Index
    <3>3. k.id = id
      BY <3>1 DEF Key
    <3>4. \A j \in S : Key(d.records[j], j).id = j
      BY DEF Key
    <3> QED BY <3>2, <3>3, <3>4, <2>3
  <2> QED BY <2>2, <2>3
<1>2. ASSUME NEW k \in Index(d, st) \ Old PROVE k \in Index(r, st)
  <2>1. PICK id \in InState(d, {st}) : k = Key(d.records[id], id)
    BY <1>2 DEF Index
  <2>2. id \notin S
    BY <2>1, <1>2
  <2>3. id \in InState(r, {st}) /\ k = Key(r.records[id], id)
    BY <2>1, <2>2 DEF InState
  <2> QED BY <2>3 DEF Index
<1>3. New \subseteq Index(r, st)
  BY DEF Index
<1> QED BY <1>1, <1>2, <1>3

(* A bucket that holds only keys of present records has no two entries with *)
(* the same key: deleting the keys of its own entries removes just these.   *)
LEMMA DeleteExact ==
  ASSUME NEW d \in Database, SeqOK(d), NEW st \in ActiveStates \cup {"completed"},
         NEW es \in SUBSET Index(d, st)
  PROVE  DeleteKeys(Index(d, st), es) = Index(d, st) \ es
<1>1. ASSUME NEW e \in Index(d, st), NEW f \in Index(d, st), SameKey(e, f) PROVE e = f
  <2>1. PICK a \in InState(d, {st}) : e = Key(d.records[a], a)
    BY DEF Index
  <2>2. PICK b \in InState(d, {st}) : f = Key(d.records[b], b)
    BY DEF Index
  <2>3. a \in Present(d) /\ b \in Present(d)
    BY DEF InState, Present
  <2>4. d.records[a].seq = d.records[b].seq
    BY <1>1, <2>1, <2>2 DEF SameKey, Key
  <2> QED BY <2>1, <2>2, <2>3, <2>4 DEF SeqOK
<1>2. \A e : SameKey(e, e)
  BY DEF SameKey
<1> QED BY <1>1, <1>2 DEF DeleteKeys

(* Entries with sequence numbers of their own overwrite nothing. *)
LEMMA PutFresh ==
  ASSUME NEW b, NEW es, \A e \in b, f \in es : e.seq # f.seq
  PROVE  PutEntries(b, es) = b \cup es
BY DEF PutEntries, DeleteKeys, SameKey

(* The next three lemmas say how a step that rewrites the records of S      *)
(* changes the index of one state: all of S leaves it, all of S enters it,  *)
(* or S has nothing to do with it.                                          *)
Rewrites(d, r, S) ==
  /\ d \in Database /\ r \in Database /\ SeqOK(d)
  /\ S \subseteq EventIDs
  /\ \A id \in EventIDs \ S : r.records[id] = d.records[id]

LEMMA IndexLeft ==
  ASSUME NEW d, NEW r, NEW S, Rewrites(d, r, S),
         NEW st \in ActiveStates \cup {"completed"},
         \A id \in S : d.records[id].state = st /\ r.records[id].state # st
  PROVE  Index(r, st) = DeleteKeys(Index(d, st), {Key(d.records[id], id) : id \in S})
<1> DEFINE Old == {Key(d.records[id], id) : id \in S}
<1>1. Old \subseteq Index(d, st)
  BY DEF Index, InState, Rewrites
<1>2. InState(r, {st}) \cap S = {}
  BY DEF InState
<1>3. Index(r, st) = (Index(d, st) \ Old)
                       \cup {Key(r.records[id], id) : id \in InState(r, {st}) \cap S}
  BY IndexMove DEF Rewrites
<1>4. DeleteKeys(Index(d, st), Old) = Index(d, st) \ Old
  BY <1>1, DeleteExact DEF Rewrites
<1>5. {Key(r.records[id], id) : id \in InState(r, {st}) \cap S} = {}
  BY <1>2
<1> HIDE DEF Old
<1>6. Index(r, st) = Index(d, st) \ Old
  BY <1>3, <1>5
<1> QED BY <1>4, <1>6 DEF Old

LEMMA IndexUnchanged ==
  ASSUME NEW d, NEW r, NEW S, Rewrites(d, r, S), NEW st,
         \A id \in S : d.records[id].state # st /\ r.records[id].state # st
  PROVE  Index(r, st) = Index(d, st)
<1>1. InState(r, {st}) = InState(d, {st})
  BY DEF InState, Rewrites
<1>2. \A id \in InState(d, {st}) : r.records[id] = d.records[id]
  BY DEF InState, Rewrites
<1> QED BY <1>1, <1>2 DEF Index

LEMMA IndexEntered ==
  ASSUME NEW d, NEW r, NEW S, Rewrites(d, r, S),
         NEW st \in ActiveStates \cup {"completed"},
         \A id \in S : d.records[id].state # st /\ r.records[id].state = st,
         \A id \in S, o \in InState(d, {st}) : r.records[id].seq # d.records[o].seq
  PROVE  Index(r, st) = PutEntries(Index(d, st), {Key(r.records[id], id) : id \in S})
<1> DEFINE Old == {Key(d.records[id], id) : id \in S}
           New == {Key(r.records[id], id) : id \in S}
<1>1. InState(r, {st}) \cap S = S
  BY DEF InState, Rewrites
<1>2. ASSUME NEW k \in Index(d, st)
      PROVE  k.id \in InState(d, {st}) /\ k.seq = d.records[k.id].seq
  <2>1. PICK id \in InState(d, {st}) : k = Key(d.records[id], id)
    BY DEF Index
  <2>2. k.id = id /\ k.seq = d.records[id].seq
    BY <2>1 DEF Key
  <2> QED BY <2>2
<1>3. Index(d, st) \cap Old = {}
  <2>1. \A k \in Old : k.id \in S
    BY DEF Key
  <2> QED BY <1>2, <2>1 DEF InState
<1>4. ASSUME NEW k \in Index(d, st), NEW f \in New PROVE k.seq # f.seq
  <2>1. PICK id \in S : f = Key(r.records[id], id)
    OBVIOUS
  <2>2. f.seq = r.records[id].seq
    BY <2>1 DEF Key
  <2> QED BY <1>2, <2>2
<1>5. Index(r, st) = (Index(d, st) \ Old)
                       \cup {Key(r.records[id], id) : id \in InState(r, {st}) \cap S}
  BY IndexMove DEF Rewrites
<1>6. PutEntries(Index(d, st), New) = Index(d, st) \cup New
  BY <1>4, PutFresh
<1> QED BY <1>1, <1>3, <1>5, <1>6

(* Rewriting records without renumbering them keeps the numbers unique. *)
LEMMA SeqKept ==
  ASSUME NEW d, NEW r, NEW S, Rewrites(d, r, S), r.sequence = d.sequence,
         \A id \in S : r.records[id].state = "absent"
                         \/ (id \in Present(d) /\ r.records[id].seq = d.records[id].seq)
  PROVE  SeqOK(r)
<1>1. \A id \in Present(r) : id \in Present(d) /\ r.records[id].seq = d.records[id].seq
  BY DEF Present, InState, ActiveStates, Rewrites
<1> QED BY <1>1 DEF SeqOK, Rewrites

(* A set of records moves from state a to state b: what every step inside a *)
(* transaction does to the records, the buckets and the gauges.             *)
Moved(d, r, S, a, b) ==
  LET n == Cardinality(S) IN
  /\ a # b
  /\ \A id \in S : d.records[id].state = a /\ r.records[id].state = b
  /\ \A id \in S, o \in Present(d) \ S : r.records[id].seq # d.records[o].seq
  /\ \A id \in S : b \in ActiveStates => r.records[id].event \in Payloads
  /\ \A st \in Indexed : Bucket(r, st) =
       IF st = a THEN DeleteKeys(Bucket(d, st), {Key(d.records[id], id) : id \in S})
       ELSE IF st = b THEN PutEntries(Bucket(d, st), {Key(r.records[id], id) : id \in S})
       ELSE Bucket(d, st)
  /\ \A st \in Counted : Gauge(r, st) =
       IF st = a THEN Gauge(d, st) - n
       ELSE IF st = b THEN Gauge(d, st) + n ELSE Gauge(d, st)

(* Such a move keeps indexes, gauges and contents in step with the records. *)
LEMMA MovedInv ==
  ASSUME NEW d, DBInv(d), NEW r, NEW S, Rewrites(d, r, S), SeqOK(r),
         NEW a, NEW b, Moved(d, r, S, a, b)
  PROVE  DBInv(r)
<1>a. /\ a # b
      /\ \A id \in S : d.records[id].state = a /\ r.records[id].state = b
      /\ \A id \in S, o \in Present(d) \ S : r.records[id].seq # d.records[o].seq
  BY DEF Moved
<1>1. IndexOK(r)
  <2> SUFFICES ASSUME NEW st \in Indexed PROVE Bucket(r, st) = Index(r, st)
    BY DEF IndexOK
  <2>a. Bucket(r, st) =
          IF st = a THEN DeleteKeys(Bucket(d, st), {Key(d.records[id], id) : id \in S})
          ELSE IF st = b THEN PutEntries(Bucket(d, st), {Key(r.records[id], id) : id \in S})
          ELSE Bucket(d, st)
    BY DEF Moved
  <2>1. Bucket(d, st) = Index(d, st) /\ st \in ActiveStates \cup {"completed"}
    BY DEF DBInv, IndexOK, Indexed, ActiveStates
  <2>2. CASE st = a
    <3>1. \A id \in S : d.records[id].state = st /\ r.records[id].state # st
      BY <1>a, <2>2
    <3>2. Index(r, st) = DeleteKeys(Index(d, st), {Key(d.records[id], id) : id \in S})
      BY <2>1, <3>1, IndexLeft
    <3> QED BY <2>a, <2>1, <2>2, <3>2
  <2>3. CASE st # a /\ st = b
    <3>1. \A o \in InState(d, {st}) : o \in Present(d) \ S
      BY <1>a, <2>1, <2>3 DEF Present, InState
    <3>2. \A id \in S : d.records[id].state # st /\ r.records[id].state = st
      BY <1>a, <2>3
    <3>3. \A id \in S, o \in InState(d, {st}) : r.records[id].seq # d.records[o].seq
      BY <1>a, <3>1
    <3>4. Index(r, st) = PutEntries(Index(d, st), {Key(r.records[id], id) : id \in S})
      BY <2>1, <3>2, <3>3, IndexEntered
    <3> QED BY <2>a, <2>1, <2>3, <3>4
  <2>4. CASE st # a /\ st # b
    <3>1. \A id \in S : d.records[id].state # st /\ r.records[id].state # st
      BY <1>a, <2>4
    <3>2. Index(r, st) = Index(d, st)
      BY <3>1, IndexUnchanged
    <3> QED BY <2>a, <2>1, <2>4, <3>2
  <2> QED BY <2>2, <2>3, <2>4
<1>2. EventOK(r)
  BY DEF EventOK, DBInv, Active, InState, Moved, Rewrites
<1>3. CountOK(r)
  <2> SUFFICES ASSUME NEW st \in Counted PROVE Gauge(r, st) = Cardinality(InState(r, {st}))
    BY DEF CountOK
  <2> DEFINE m == Cardinality(InState(d, {st}))
             n == Cardinality(S)
  <2>1. Gauge(d, st) = m
    BY DEF DBInv, CountOK
  <2>a. Gauge(r, st) = IF st = a THEN Gauge(d, st) - n
                       ELSE IF st = b THEN Gauge(d, st) + n ELSE Gauge(d, st)
    BY DEF Moved
  <2>2. IsFiniteSet(S) /\ IsFiniteSet(InState(d, {st})) /\ m \in Nat /\ n \in Nat
    BY FS_Subset, FS_CardinalityType, InputsAssumption DEF Rewrites, InState
  <2>3. CASE st = a
    <3>1. InState(r, {st}) = InState(d, {st}) \ S /\ InState(d, {st}) \cap S = S
      BY <2>3 DEF InState, Rewrites, Moved
    <3>2. Cardinality(InState(r, {st})) = m - n
      BY <2>2, <3>1, FS_Difference
    <3> QED BY <2>a, <2>1, <2>3, <3>2
  <2>4. CASE st # a /\ st = b
    <3>1. InState(r, {st}) = InState(d, {st}) \cup S /\ InState(d, {st}) \cap S = {}
      BY <2>4 DEF InState, Rewrites, Moved
    <3>2. Cardinality(InState(d, {st}) \cup S)
            = m + n - Cardinality(InState(d, {st}) \cap S)
      BY <2>2, FS_Union
    <3>3. Cardinality(InState(r, {st})) = m + n
      <4>1. Cardinality(InState(d, {st}) \cap S) = 0
        BY <3>1, FS_EmptySet
      <4> HIDE DEF m, n
      <4> QED BY <2>2, <3>1, <3>2, <4>1
    <3> QED BY <2>a, <2>1, <2>4, <3>3
  <2>5. CASE st # a /\ st # b
    <3>1. InState(r, {st}) = InState(d, {st})
      BY <2>5 DEF InState, Rewrites, Moved
    <3> QED BY <2>a, <2>1, <2>5, <3>1
  <2> QED BY <2>3, <2>4, <2>5
<1> QED BY <1>1, <1>2, <1>3 DEF DBInv, Rewrites

(* What one sweep takes from a bucket are keys of records in its state, one *)
(* for each event.                                                          *)
LEMMA BatchOfState ==
  ASSUME NEW d, DBInv(d), NEW t \in Nat, NEW st \in Indexed
  PROVE  LET batch == DueBatch(Bucket(d, st), t)
             back  == {e.id : e \in batch}
         IN /\ back \subseteq InState(d, {st})
            /\ batch = {Key(d.records[id], id) : id \in back}
            /\ Cardinality(batch) = Cardinality(back)
            /\ Cardinality(batch) \in Nat
<1> DEFINE batch == DueBatch(Bucket(d, st), t)
           back == {e.id : e \in batch}
<1>1. batch \subseteq Index(d, st)
  BY DEF DueBatch, DBInv, IndexOK
<1>2. ASSUME NEW e \in batch
      PROVE  e.id \in InState(d, {st}) /\ e = Key(d.records[e.id], e.id)
  <2>1. PICK id \in InState(d, {st}) : e = Key(d.records[id], id)
    BY <1>1 DEF Index
  <2>2. e.id = id
    BY <2>1 DEF Key
  <2> QED BY <2>1, <2>2
<1> HIDE DEF batch
<1>3. back \subseteq InState(d, {st}) /\ batch = {Key(d.records[id], id) : id \in back}
  BY <1>2
<1>4. IsFiniteSet(back)
  <2>1. back \subseteq EventIDs
    BY <1>3 DEF InState
  <2> QED BY <2>1, FS_Subset, InputsAssumption
<1>5. ExistsBijection(back, batch)
  <2> DEFINE f == [id \in back |-> Key(d.records[id], id)]
  <2>1. f \in [back -> batch]
    BY <1>3
  <2>2. \A x, y \in back : f[x] = f[y] => x = y
    BY DEF Key
  <2>3. \A e \in batch : \E id \in back : f[id] = e
    BY <1>3
  <2> QED BY <2>1, <2>2, <2>3, Fun_IsBij DEF ExistsBijection
<1>6. Cardinality(batch) = Cardinality(back)
  BY <1>4, <1>5, FS_Bijection
<1>7. Cardinality(batch) \in Nat
  BY <1>4, <1>6, FS_CardinalityType
<1> QED BY <1>3, <1>6, <1>7 DEF batch

-----------------------------------------------------------------------------
(* Statistics *)

(* The adjustments the operations make keep every counter a number. *)
LEMMA StatsTyped ==
  ASSUME NEW s \in Stats, NEW a \in Int, NEW b \in Int, NEW c \in Int, NEW e \in Int,
         NEW f \in Int, NEW g \in Nat, NEW h \in Nat, NEW i \in Nat, NEW j \in Nat
  PROVE  /\ [s EXCEPT !.leased = b, !.ready = a] \in Stats
         /\ [s EXCEPT !.leased = b, !.quarantined = c] \in Stats
         /\ [s EXCEPT !.completed = e, !.logicalBytes = f] \in Stats
         /\ [s EXCEPT !.ready = a, !.accepted = g, !.logicalBytes = f] \in Stats
         /\ [s EXCEPT !.ready = a, !.leased = b, !.deliveries = i, !.redeliveries = j] \in Stats
         /\ [s EXCEPT !.leased = b, !.completed = e, !.acked = h, !.logicalBytes = f] \in Stats
BY DEF Stats

-----------------------------------------------------------------------------
(* expireLeases *)

LEMMA ExpireLeasesFields ==
  ASSUME NEW d, DBInv(d), NEW t \in Nat
  PROVE  LET r     == expireLeases(d, t)
             batch == DueBatch(d.leases, t)
             back  == {e.id : e \in batch}
         IN /\ r \in Database
            /\ r.records = [id \in EventIDs |->
                 IF id \in back
                 THEN [d.records[id] EXCEPT !.state = "ready", !.token = NoToken, !.due = t]
                 ELSE d.records[id]]
            /\ r.leases = DeleteKeys(d.leases, batch)
            /\ r.ready = PutEntries(d.ready,
                 {[due |-> t, seq |-> d.records[id].seq, id |-> id] : id \in back})
            /\ r.completions = d.completions
            /\ r.sequence = d.sequence
            /\ r.stats = [d.stats EXCEPT !.leased = d.stats.leased - Cardinality(batch),
                                         !.ready = d.stats.ready + Cardinality(batch)]
<1> DEFINE batch == DueBatch(d.leases, t)
           back  == {e.id : e \in batch}
           A == [id \in EventIDs |->
                 IF id \in back
                 THEN [d.records[id] EXCEPT !.state = "ready", !.token = NoToken, !.due = t]
                 ELSE d.records[id]]
           B == DeleteKeys(d.leases, batch)
           C == PutEntries(d.ready,
                 {[due |-> t, seq |-> d.records[id].seq, id |-> id] : id \in back})
           D == [d.stats EXCEPT !.leased = d.stats.leased - Cardinality(batch),
                                !.ready = d.stats.ready + Cardinality(batch)]
<1>1. expireLeases(d, t) = [d EXCEPT !.records = A, !.leases = B, !.ready = C, !.stats = D]
  BY Zenon DEF expireLeases, Reclaimed
<1>2. d \in Database /\ back \subseteq EventIDs /\ Cardinality(batch) \in Nat
  <2>1. "leased" \in Indexed /\ Bucket(d, "leased") = d.leases
    BY DEF Indexed, Bucket
  <2>2. back \subseteq InState(d, {"leased"}) /\ Cardinality(batch) \in Nat
    BY <2>1, BatchOfState
  <2> QED BY <2>2 DEF DBInv, InState
<1>3. A \in [EventIDs -> Record]
  <2>1. ASSUME NEW id \in EventIDs
        PROVE  [d.records[id] EXCEPT !.state = "ready", !.token = NoToken, !.due = t] \in Record
    <3>1. d.records[id] \in Record
      BY <1>2 DEF Database
    <3> QED BY <3>1 DEF Record
  <2> QED BY <1>2, <2>1 DEF Database
<1>4. B \in SUBSET Entry
  BY <1>2 DEF Database, DeleteKeys
<1>5. C \in SUBSET Entry
  <2>1. \A id \in back : d.records[id].seq \in Nat
    BY <1>2 DEF Database, Record
  <2>2. {[due |-> t, seq |-> d.records[id].seq, id |-> id] : id \in back} \subseteq Entry
    BY <1>2, <2>1 DEF Entry
  <2> QED BY <1>2, <2>2 DEF Database, PutEntries, DeleteKeys
<1>6. D \in Stats
  <2>1. d.stats \in Stats
    BY <1>2 DEF Database
  <2>2. d.stats.leased \in Int /\ d.stats.ready \in Int
    BY <2>1 DEF Stats
  <2> DEFINE x == d.stats.leased - Cardinality(batch)
             y == d.stats.ready + Cardinality(batch)
  <2>3. x \in Int /\ y \in Int
    <3> HIDE DEF batch
    <3> QED BY <1>2, <2>2
  <2> HIDE DEF x, y
  <2>4. [d.stats EXCEPT !.leased = x, !.ready = y] \in Stats
    BY <2>1, <2>3, StatsTyped
  <2> QED BY <2>4 DEF x, y
<1> HIDE DEF A, B, C, D
<1>7. LET r == [d EXCEPT !.records = A, !.leases = B, !.ready = C, !.stats = D]
      IN /\ r.records = A /\ r.leases = B /\ r.ready = C /\ r.stats = D
         /\ r.completions = d.completions /\ r.sequence = d.sequence
         /\ r \in Database
  BY <1>2, <1>3, <1>4, <1>5, <1>6 DEF Database
<1> QED BY <1>1, <1>7, Zenon DEF A, B, C, D

(* Taking back a batch of expired leases keeps the invariant. *)
LEMMA ExpireLeasesInv ==
  ASSUME NEW d, DBInv(d), LimitsOK(d), NEW t \in Nat
  PROVE  DBInv(expireLeases(d, t)) /\ LimitsOK(expireLeases(d, t))
<1> DEFINE r == expireLeases(d, t)
           batch == DueBatch(d.leases, t)
           S == {e.id : e \in batch}
           n == Cardinality(S)
<1>1. "leased" \in Indexed /\ Bucket(d, "leased") = d.leases
  BY DEF Indexed, Bucket
<1>2. /\ S \subseteq InState(d, {"leased"})
      /\ batch = {Key(d.records[id], id) : id \in S}
      /\ Cardinality(batch) = n /\ n \in Nat
  BY <1>1, BatchOfState
<1>3. /\ r \in Database
      /\ r.records = [id \in EventIDs |->
           IF id \in S
           THEN [d.records[id] EXCEPT !.state = "ready", !.token = NoToken, !.due = t]
           ELSE d.records[id]]
      /\ r.leases = DeleteKeys(d.leases, batch)
      /\ r.ready = PutEntries(d.ready,
           {[due |-> t, seq |-> d.records[id].seq, id |-> id] : id \in S})
      /\ r.completions = d.completions
      /\ r.sequence = d.sequence
      /\ r.stats = [d.stats EXCEPT !.leased = d.stats.leased - Cardinality(batch),
                                   !.ready = d.stats.ready + Cardinality(batch)]
  BY ExpireLeasesFields
<1> HIDE DEF r, S, n, batch
<1>4. d \in Database /\ SeqOK(d) /\ EventOK(d) /\ S \subseteq EventIDs
  BY <1>2 DEF DBInv, InState
<1>5. \A id \in EventIDs : d.records[id] \in Record
  BY <1>4 DEF Database
<1>6. \A id \in S : /\ r.records[id].state = "ready" /\ r.records[id].seq = d.records[id].seq
                     /\ r.records[id].due = t /\ r.records[id].event = d.records[id].event
  <2> SUFFICES ASSUME NEW id \in S
               PROVE  /\ r.records[id].state = "ready" /\ r.records[id].seq = d.records[id].seq
                      /\ r.records[id].due = t /\ r.records[id].event = d.records[id].event
    OBVIOUS
  <2>1. d.records[id] \in Record
    BY <1>4, <1>5
  <2>2. r.records[id] = [d.records[id] EXCEPT !.state = "ready", !.token = NoToken, !.due = t]
    BY <1>3, <1>4
  <2> QED BY <2>1, <2>2 DEF Record
<1>7. \A id \in S : d.records[id].state = "leased" /\ id \in Present(d) /\ id \in Active(d)
  BY <1>2 DEF InState, Present, Active, ActiveStates
<1>8. Rewrites(d, r, S)
  BY <1>3, <1>4 DEF Rewrites
<1>9. SeqOK(r)
  <2>1. \A id \in S : id \in Present(d) /\ r.records[id].seq = d.records[id].seq
    BY <1>6, <1>7
  <2>2. r.sequence = d.sequence
    BY <1>3
  <2> QED BY <1>8, <2>1, <2>2, SeqKept
<1>d. d.stats \in Stats
  BY <1>4 DEF Database
<1>s. /\ r.stats.leased = d.stats.leased - n /\ r.stats.ready = d.stats.ready + n
      /\ r.stats.completed = d.stats.completed /\ r.stats.quarantined = d.stats.quarantined
      /\ r.stats.logicalBytes = d.stats.logicalBytes
  BY <1>2, <1>3, <1>d DEF Stats
<1>10. Moved(d, r, S, "leased", "ready")
  <2>1. \A id \in S, o \in Present(d) \ S : r.records[id].seq # d.records[o].seq
    BY <1>4, <1>6, <1>7 DEF SeqOK
  <2>2. \A id \in S : r.records[id].event \in Payloads
    BY <1>4, <1>6, <1>7 DEF EventOK
  <2>3. {[due |-> t, seq |-> d.records[id].seq, id |-> id] : id \in S}
          = {Key(r.records[id], id) : id \in S}
    BY <1>6 DEF Key
  <2>4. \A st \in Indexed : Bucket(r, st) =
          IF st = "leased" THEN DeleteKeys(Bucket(d, st), {Key(d.records[id], id) : id \in S})
          ELSE IF st = "ready" THEN PutEntries(Bucket(d, st), {Key(r.records[id], id) : id \in S})
          ELSE Bucket(d, st)
    BY <1>2, <1>3, <2>3 DEF Indexed, Bucket
  <2>7. \A st \in Counted : Gauge(r, st) =
          IF st = "leased" THEN Gauge(d, st) - n
          ELSE IF st = "ready" THEN Gauge(d, st) + n ELSE Gauge(d, st)
    BY <1>s DEF Counted, Indexed, Gauge
  <2> QED BY <1>6, <1>7, <2>1, <2>2, <2>4, <2>7 DEF Moved, n
<1>11. DBInv(r)
  BY <1>8, <1>9, <1>10, MovedInv
<1>12. LimitsOK(r)
  <2>1. /\ d.stats.leased \in Int /\ d.stats.ready \in Int /\ d.stats.quarantined \in Int
        /\ d.stats.completed \in Int
    BY <1>d DEF Stats
  <2>2. ActiveCount(r.stats) = ActiveCount(d.stats)
    BY <1>2, <1>s, <2>1 DEF ActiveCount
  <2> QED BY <1>s, <2>2 DEF LimitsOK
<1> QED BY <1>11, <1>12 DEF r

-----------------------------------------------------------------------------
(* removeCompleted and expireCompleted *)

(* Forgetting any set of completed identities keeps the invariant. *)
LEMMA RemoveCompletedInv ==
  ASSUME NEW d, DBInv(d), LimitsOK(d), NEW S, S \subseteq InState(d, {"completed"})
  PROVE  DBInv(removeCompleted(d, S)) /\ LimitsOK(removeCompleted(d, S))
<1> DEFINE n == Cardinality(S)
           A == [id \in EventIDs |-> IF id \in S THEN Absent ELSE d.records[id]]
           B == DeleteKeys(d.completions, {Key(d.records[id], id) : id \in S})
           x == d.stats.completed - n
           y == d.stats.logicalBytes - completedOverhead * n
           D == [d.stats EXCEPT !.completed = x, !.logicalBytes = y]
           r == [d EXCEPT !.records = A, !.completions = B, !.stats = D]
<1>1. removeCompleted(d, S) = r
  BY Zenon DEF removeCompleted
<1>2. d \in Database /\ SeqOK(d) /\ S \subseteq EventIDs
  BY DEF DBInv, InState
<1>3. n \in Nat
  BY <1>2, FS_Subset, FS_CardinalityType, InputsAssumption
<1>4. A \in [EventIDs -> Record]
  BY <1>2 DEF Database, Record, Absent
<1>5. B \in SUBSET Entry
  BY <1>2 DEF Database, DeleteKeys
<1>6. d.stats \in Stats
  BY <1>2 DEF Database
<1>7. /\ d.stats.completed \in Int /\ d.stats.logicalBytes \in Int /\ d.stats.ready \in Int
      /\ d.stats.leased \in Int /\ d.stats.quarantined \in Int
  BY <1>6 DEF Stats
<1>8. x \in Int /\ y \in Int /\ x <= d.stats.completed /\ y <= d.stats.logicalBytes
  <2> HIDE DEF n
  <2> QED BY <1>3, <1>7 DEF completedOverhead
<1>9. D \in Stats
  <2> HIDE DEF x, y
  <2> QED BY <1>6, <1>8, StatsTyped
<1>10. /\ D.completed = x /\ D.logicalBytes = y /\ D.ready = d.stats.ready
       /\ D.leased = d.stats.leased /\ D.quarantined = d.stats.quarantined
  <2> HIDE DEF x, y
  <2> QED BY <1>6 DEF Stats
<1>11. /\ r \in Database
       /\ r.records = A /\ r.completions = B /\ r.stats = D
       /\ r.ready = d.ready /\ r.leases = d.leases /\ r.sequence = d.sequence
  <2> HIDE DEF A, B, D
  <2> QED BY <1>2, <1>4, <1>5, <1>9 DEF Database
<1>12. \A id \in S : d.records[id].state = "completed" /\ r.records[id].state = "absent"
                      /\ r.records[id].seq = 0
  BY <1>2, <1>11 DEF InState, Absent
<1>13. \A id \in EventIDs \ S : r.records[id] = d.records[id]
  BY <1>11
<1> HIDE DEF A, B, D, r
<1>14. Rewrites(d, r, S)
  BY <1>2, <1>11, <1>13 DEF Rewrites
<1>15. SeqOK(r)
  BY <1>11, <1>12, <1>14, SeqKept
<1>16. Moved(d, r, S, "completed", "absent")
  <2>1. \A id \in S, o \in Present(d) \ S : r.records[id].seq # d.records[o].seq
    <3>1. \A o \in Present(d) : d.records[o].seq \in 1 .. d.sequence /\ d.sequence \in Nat
      BY <1>2 DEF SeqOK, Database
    <3> QED BY <1>12, <3>1
  <2>2. \A st \in Indexed : Bucket(r, st) =
          IF st = "completed" THEN DeleteKeys(Bucket(d, st), {Key(d.records[id], id) : id \in S})
          ELSE IF st = "absent" THEN PutEntries(Bucket(d, st), {Key(r.records[id], id) : id \in S})
          ELSE Bucket(d, st)
    BY <1>11 DEF Indexed, Bucket, B
  <2>3. \A st \in Counted : Gauge(r, st) =
          IF st = "completed" THEN Gauge(d, st) - n
          ELSE IF st = "absent" THEN Gauge(d, st) + n ELSE Gauge(d, st)
    BY <1>10, <1>11 DEF Counted, Indexed, Gauge
  <2>4. "absent" \notin ActiveStates
    BY DEF ActiveStates
  <2> QED BY <1>12, <2>1, <2>2, <2>3, <2>4 DEF Moved
<1>17. DBInv(r)
  BY <1>14, <1>15, <1>16, MovedInv
<1>18. LimitsOK(r)
  <2>1. ActiveCount(r.stats) = ActiveCount(d.stats) /\ ActiveCount(d.stats) \in Int
    BY <1>7, <1>10, <1>11 DEF ActiveCount
  <2>2. r.stats.completed <= d.stats.completed /\ r.stats.completed \in Int
    BY <1>8, <1>10, <1>11
  <2>3. ActiveCount(r.stats) + r.stats.completed <= DedupCapacity
    BY <1>7, <2>1, <2>2, OptionsAssumption DEF LimitsOK
  <2>4. r.stats.logicalBytes <= MaxLogicalBytes
    <3>1. r.stats.logicalBytes <= d.stats.logicalBytes /\ r.stats.logicalBytes \in Int
      BY <1>8, <1>10, <1>11
    <3> QED BY <1>7, <3>1, OptionsAssumption DEF LimitsOK
  <2> QED BY <1>10, <1>11, <2>1, <2>3, <2>4 DEF LimitsOK
<1> QED BY <1>1, <1>17, <1>18, Zenon DEF r

LEMMA ExpireCompletedInv ==
  ASSUME NEW d, DBInv(d), LimitsOK(d), NEW t \in Nat
  PROVE  DBInv(expireCompleted(d, t)) /\ LimitsOK(expireCompleted(d, t))
<1> DEFINE S == {e.id : e \in DueBatch(d.completions, t)}
<1>1. "completed" \in Indexed /\ Bucket(d, "completed") = d.completions
  BY DEF Indexed, Bucket
<1>2. S \subseteq InState(d, {"completed"})
  BY <1>1, BatchOfState
<1> QED BY <1>2, RemoveCompletedInv DEF expireCompleted

(* So does the view PublishContext decides on. *)
LEMMA PublishViewInv ==
  ASSUME NEW d, DBInv(d), LimitsOK(d), NEW t \in Nat, NEW id \in EventIDs
  PROVE  DBInv(PublishView(d, id, t)) /\ LimitsOK(PublishView(d, id, t))
<1> DEFINE e == expireCompleted(d, t)
<1>1. DBInv(e) /\ LimitsOK(e)
  BY ExpireCompletedInv
<1> HIDE DEF e
<1>2. CASE e.records[id].state = "completed" /\ e.records[id].due <= t
  <2>1. {id} \subseteq InState(e, {"completed"})
    BY <1>2 DEF InState
  <2>2. PublishView(d, id, t) = removeCompleted(e, {id})
    BY <1>2 DEF PublishView, e
  <2> QED BY <1>1, <2>1, <2>2, RemoveCompletedInv
<1>3. CASE ~(e.records[id].state = "completed" /\ e.records[id].due <= t)
  <2>1. PublishView(d, id, t) = e
    BY <1>3 DEF PublishView, e
  <2> QED BY <1>1, <2>1
<1> QED BY <1>2, <1>3

-----------------------------------------------------------------------------
(* Steps that rewrite one record *)

(* The record of one event is replaced, taking it from state a to state b.  *)
(* The number of the new record is the old one, or is not in use.           *)
OneMoved(d, r, id, u, a, b) ==
  /\ r \in Database /\ a # b
  /\ d.records[id].state = a /\ u.state = b
  /\ r.records = [d.records EXCEPT ![id] = u]
  /\ \/ a # "absent" /\ u.seq = d.records[id].seq /\ r.sequence = d.sequence
     \/ a = "absent" /\ u.seq = d.sequence + 1 /\ r.sequence = d.sequence + 1
  /\ b \in ActiveStates => u.event \in Payloads
  /\ \A st \in Indexed : Bucket(r, st) =
       IF st = a THEN DeleteKeys(Bucket(d, st), {Key(d.records[id], id)})
       ELSE IF st = b THEN PutEntries(Bucket(d, st), {Key(u, id)})
       ELSE Bucket(d, st)
  /\ \A st \in Counted : Gauge(r, st) =
       IF st = a THEN Gauge(d, st) - 1
       ELSE IF st = b THEN Gauge(d, st) + 1 ELSE Gauge(d, st)

LEMMA OneMovedInv ==
  ASSUME NEW d, DBInv(d), NEW r, NEW id \in EventIDs, NEW u,
         NEW a, NEW b, OneMoved(d, r, id, u, a, b)
  PROVE  DBInv(r)
<1>1. /\ r \in Database /\ a # b /\ d.records[id].state = a /\ u.state = b
      /\ r.records = [d.records EXCEPT ![id] = u]
      /\ b \in ActiveStates => u.event \in Payloads
  BY DEF OneMoved
<1>2. d \in Database /\ SeqOK(d)
  BY DEF DBInv
<1>3. d.records \in [EventIDs -> Record] /\ d.sequence \in Nat
  BY <1>2 DEF Database
<1>4. r.records[id] = u /\ \A o \in EventIDs \ {id} : r.records[o] = d.records[o]
  BY <1>1, <1>3
<1>5. Rewrites(d, r, {id})
  BY <1>1, <1>2, <1>4 DEF Rewrites
<1>6. \A o \in Present(d) : d.records[o].seq \in Nat /\ 1 <= d.records[o].seq
                             /\ d.records[o].seq <= d.sequence
  BY <1>2, <1>3 DEF SeqOK
<1>7. ASSUME NEW o \in Present(d) \ {id} PROVE u.seq # d.records[o].seq
  <2>1. CASE a # "absent" /\ u.seq = d.records[id].seq
    <3>1. id \in Present(d)
      <4>1. d.records[id] \in Record
        BY <1>3
      <4> QED BY <1>1, <2>1, <4>1 DEF Present, InState, Record, ActiveStates
    <3> QED BY <1>2, <2>1, <3>1 DEF SeqOK
  <2>2. CASE u.seq = d.sequence + 1
    BY <1>3, <1>6, <2>2
  <2> QED BY <2>1, <2>2 DEF OneMoved
<1>8. SeqOK(r)
  <2>1. CASE a # "absent" /\ u.seq = d.records[id].seq /\ r.sequence = d.sequence
    <3>1. d.records[id] \in Record
      BY <1>3
    <3>2. id \in Present(d)
      BY <1>1, <2>1, <3>1 DEF Present, InState, Record, ActiveStates
    <3> QED BY <1>4, <1>5, <2>1, <3>2, SeqKept
  <2>2. CASE u.seq = d.sequence + 1 /\ r.sequence = d.sequence + 1
    <3>1. \A o \in Present(r) : o = id \/ (o \in Present(d) /\ r.records[o] = d.records[o])
      BY <1>4 DEF Present, InState
    <3>2. \A o \in Present(r) : r.records[o].seq \in 1 .. r.sequence
      BY <1>3, <1>4, <1>6, <2>2, <3>1
    <3>3. \A o, q \in Present(r) : r.records[o].seq = r.records[q].seq => o = q
      BY <1>2, <1>4, <1>7, <3>1 DEF SeqOK
    <3> QED BY <3>2, <3>3 DEF SeqOK
  <2> QED BY <2>1, <2>2 DEF OneMoved
<1>9. Cardinality({id}) = 1
  BY FS_Singleton
<1>10. Moved(d, r, {id}, a, b)
  <2>1. {Key(d.records[o], o) : o \in {id}} = {Key(d.records[id], id)}
    OBVIOUS
  <2>2. {Key(r.records[o], o) : o \in {id}} = {Key(u, id)}
    BY <1>4
  <2>3. \A st \in Indexed : Bucket(r, st) =
          IF st = a THEN DeleteKeys(Bucket(d, st), {Key(d.records[o], o) : o \in {id}})
          ELSE IF st = b THEN PutEntries(Bucket(d, st), {Key(r.records[o], o) : o \in {id}})
          ELSE Bucket(d, st)
    BY <2>1, <2>2 DEF OneMoved
  <2>4. \A st \in Counted : Gauge(r, st) =
          IF st = a THEN Gauge(d, st) - Cardinality({id})
          ELSE IF st = b THEN Gauge(d, st) + Cardinality({id}) ELSE Gauge(d, st)
    BY <1>9 DEF OneMoved
  <2> QED BY <1>1, <1>4, <1>7, <2>3, <2>4 DEF Moved
<1> QED BY <1>5, <1>8, <1>10, MovedInv

(* Admission into a view that is neither full nor out of identities. *)
LEMMA AdmitInv ==
  ASSUME NEW d, DBInv(d), LimitsOK(d), NEW t \in Nat,
         NEW id \in EventIDs, NEW p \in Payloads,
         d.records[id].state = "absent", ~Full(d.stats, p), ~DedupFull(d.stats)
  PROVE  DBInv(Admit(d, id, p, t)) /\ LimitsOK(Admit(d, id, p, t))
<1> DEFINE q == d.sequence + 1
           u == [Absent EXCEPT !.state = "ready", !.event = p, !.hash = p, !.seq = q, !.due = t]
           A == [d.records EXCEPT ![id] = u]
           B == PutEntries(d.ready, {[due |-> t, seq |-> q, id |-> id]})
           x == d.stats.ready + 1
           y == d.stats.accepted + 1
           z == d.stats.logicalBytes + Bytes[p] + activeOverhead
           D == [d.stats EXCEPT !.ready = x, !.accepted = y, !.logicalBytes = z]
           r == [d EXCEPT !.sequence = q, !.records = A, !.ready = B, !.stats = D]
<1>1. Admit(d, id, p, t) = r
  BY Zenon DEF Admit, NextSequence
<1>2. d \in Database
  BY DEF DBInv
<1>3. d.records \in [EventIDs -> Record] /\ d.sequence \in Nat /\ d.stats \in Stats
      /\ d.ready \in SUBSET Entry
  BY <1>2 DEF Database
<1>4. q \in Nat
  BY <1>3
<1>5. u \in Record /\ u.state = "ready" /\ u.seq = q /\ u.event = p /\ u.due = t
  <2> HIDE DEF q
  <2> QED BY <1>4 DEF Absent, Record
<1>6. A \in [EventIDs -> Record]
  <2> HIDE DEF u
  <2> QED BY <1>3, <1>5
<1>7. B \in SUBSET Entry
  <2> HIDE DEF q
  <2> QED BY <1>3, <1>4 DEF Entry, PutEntries, DeleteKeys
<1>8. /\ d.stats.ready \in Int /\ d.stats.accepted \in Nat /\ d.stats.logicalBytes \in Int
      /\ d.stats.leased \in Int /\ d.stats.quarantined \in Int /\ d.stats.completed \in Int
  BY <1>3 DEF Stats
<1>9. x \in Int /\ y \in Nat /\ z \in Int
  BY <1>8, InputsAssumption DEF activeOverhead
<1>10. /\ D \in Stats
       /\ D.ready = x /\ D.logicalBytes = z /\ D.leased = d.stats.leased
       /\ D.quarantined = d.stats.quarantined /\ D.completed = d.stats.completed
  <2> HIDE DEF x, y, z
  <2>1. D \in Stats
    BY <1>3, <1>9, StatsTyped
  <2> QED BY <1>3, <2>1 DEF Stats
<1>11. /\ r \in Database
       /\ r.records = A /\ r.ready = B /\ r.stats = D /\ r.sequence = q
       /\ r.leases = d.leases /\ r.completions = d.completions
  <2> HIDE DEF q, A, B, D
  <2> QED BY <1>2, <1>4, <1>6, <1>7, <1>10 DEF Database
<1>12. OneMoved(d, r, id, u, "absent", "ready")
  <2>1. Key(u, id) = [due |-> t, seq |-> q, id |-> id]
    <3> HIDE DEF u, q
    <3> QED BY <1>5 DEF Key
  <2> HIDE DEF r, u, A, B, D
  <2>2. \A st \in Indexed : Bucket(r, st) =
          IF st = "absent" THEN DeleteKeys(Bucket(d, st), {Key(d.records[id], id)})
          ELSE IF st = "ready" THEN PutEntries(Bucket(d, st), {Key(u, id)})
          ELSE Bucket(d, st)
    BY <1>11, <2>1 DEF Indexed, Bucket, B
  <2>3. \A st \in Counted : Gauge(r, st) =
          IF st = "absent" THEN Gauge(d, st) - 1
          ELSE IF st = "ready" THEN Gauge(d, st) + 1 ELSE Gauge(d, st)
    BY <1>10, <1>11 DEF Counted, Indexed, Gauge
  <2>4. r.records = [d.records EXCEPT ![id] = u]
    BY <1>11 DEF A
  <2> QED BY <1>5, <1>11, <2>2, <2>3, <2>4 DEF OneMoved
<1>13. DBInv(r)
  <2> HIDE DEF r, u
  <2> QED BY <1>12, OneMovedInv
<1>14. LimitsOK(r)
  <2>1. /\ r.stats.ready = d.stats.ready + 1 /\ r.stats.leased = d.stats.leased
        /\ r.stats.quarantined = d.stats.quarantined /\ r.stats.completed = d.stats.completed
        /\ r.stats.logicalBytes = d.stats.logicalBytes + Bytes[p] + activeOverhead
    <3> HIDE DEF r, D
    <3> QED BY <1>10, <1>11
  <2> HIDE DEF r
  <2>2. Bytes[p] \in Nat
    BY InputsAssumption
  <2> QED BY <1>8, <2>1, <2>2, OptionsAssumption
          DEF LimitsOK, Full, DedupFull, ActiveCount, activeOverhead
<1> QED BY <1>1, <1>13, <1>14, Zenon

(* Handing out a ready event. *)
LEMMA CheckoutInv ==
  ASSUME NEW d, DBInv(d), LimitsOK(d), NEW t \in Nat,
         NEW id \in EventIDs, d.records[id].state = "ready"
  PROVE  DBInv(Checkout(d, id, t)) /\ LimitsOK(Checkout(d, id, t))
<1> DEFINE o == d.records[id]
           k == NewToken(d)
           m == o.attempt + 1
           e == t + LeaseDuration
           u == [o EXCEPT !.state = "leased", !.token = k, !.due = e, !.attempt = m,
                          !.lastNackToken = NoToken, !.lastNackHash = NoNack]
           A == [d.records EXCEPT ![id] = u]
           B == DeleteKeys(d.ready, {Key(o, id)})
           C == PutEntries(d.leases, {Key(u, id)})
           x == d.stats.ready - 1
           y == d.stats.leased + 1
           z == d.stats.deliveries + 1
           w == d.stats.redeliveries + Redelivery(u.attempt)
           D == [d.stats EXCEPT !.ready = x, !.leased = y, !.deliveries = z, !.redeliveries = w]
           r == [d EXCEPT !.records = A, !.ready = B, !.leases = C, !.stats = D]
<1>1. Checkout(d, id, t) = r
  BY Zenon DEF Checkout
<1>2. d \in Database /\ EventOK(d)
  BY DEF DBInv
<1>3. d.records \in [EventIDs -> Record] /\ d.stats \in Stats
      /\ d.ready \in SUBSET Entry /\ d.leases \in SUBSET Entry
  BY <1>2 DEF Database
<1>4. o \in Record
  BY <1>3
<1>5. /\ d.stats.ready \in Int /\ d.stats.logicalBytes \in Int /\ d.stats.leased \in Int
      /\ d.stats.quarantined \in Int /\ d.stats.completed \in Int
      /\ d.stats.deliveries \in Nat /\ d.stats.redeliveries \in Nat
  BY <1>3 DEF Stats
<1>6. o.attempt \in Nat /\ o.seq \in Nat
  BY <1>4 DEF Record
<1>7. k \in Nat /\ m \in Nat /\ e \in Nat
  <2> HIDE DEF o
  <2> QED BY <1>5, <1>6, OptionsAssumption DEF NewToken
<1>8. u \in Record /\ u.state = "leased" /\ u.seq = o.seq /\ u.event = o.event /\ u.due = e
  <2> HIDE DEF o, k, m, e
  <2> QED BY <1>4, <1>7 DEF Record
<1>9. A \in [EventIDs -> Record]
  <2> HIDE DEF u
  <2> QED BY <1>3, <1>8
<1>10. B \in SUBSET Entry
  BY <1>3 DEF DeleteKeys
<1>11. C \in SUBSET Entry
  <2> HIDE DEF u, e, o
  <2>1. Key(u, id) \in Entry
    BY <1>6, <1>7, <1>8 DEF Key, Entry
  <2> QED BY <1>3, <2>1 DEF PutEntries, DeleteKeys
<1>12. x \in Int /\ y \in Int /\ z \in Nat /\ w \in Nat
  <2> HIDE DEF u
  <2> QED BY <1>5 DEF Redelivery
<1>13. /\ D \in Stats
       /\ D.ready = x /\ D.leased = y /\ D.logicalBytes = d.stats.logicalBytes
       /\ D.quarantined = d.stats.quarantined /\ D.completed = d.stats.completed
  <2> HIDE DEF x, y, z, w
  <2>1. D \in Stats
    BY <1>3, <1>12, StatsTyped
  <2> QED BY <1>3, <2>1 DEF Stats
<1>14. /\ r \in Database
       /\ r.records = A /\ r.ready = B /\ r.leases = C /\ r.stats = D
       /\ r.sequence = d.sequence /\ r.completions = d.completions
  <2> HIDE DEF A, B, C, D
  <2> QED BY <1>2, <1>9, <1>10, <1>11, <1>13 DEF Database
<1> HIDE DEF r, u, D
<1>15. OneMoved(d, r, id, u, "ready", "leased")
  <2>1. \A st \in Indexed : Bucket(r, st) =
          IF st = "ready" THEN DeleteKeys(Bucket(d, st), {Key(d.records[id], id)})
          ELSE IF st = "leased" THEN PutEntries(Bucket(d, st), {Key(u, id)})
          ELSE Bucket(d, st)
    <3> HIDE DEF A
    <3> QED BY <1>14 DEF Indexed, Bucket
  <2>2. \A st \in Counted : Gauge(r, st) =
          IF st = "ready" THEN Gauge(d, st) - 1
          ELSE IF st = "leased" THEN Gauge(d, st) + 1 ELSE Gauge(d, st)
    <3> HIDE DEF A, B, C
    <3> QED BY <1>13, <1>14 DEF Counted, Indexed, Gauge
  <2>3. u.event \in Payloads
    BY <1>2, <1>8 DEF EventOK, Active, InState, ActiveStates
  <2>4. r.records = [d.records EXCEPT ![id] = u] /\ r \in Database /\ r.sequence = d.sequence
    BY <1>14
  <2> QED BY <1>8, <2>1, <2>2, <2>3, <2>4 DEF OneMoved
<1>16. DBInv(r)
  BY <1>15, OneMovedInv
<1>17. LimitsOK(r)
  <2>1. /\ r.stats.ready = d.stats.ready - 1 /\ r.stats.leased = d.stats.leased + 1
        /\ r.stats.quarantined = d.stats.quarantined /\ r.stats.completed = d.stats.completed
        /\ r.stats.logicalBytes = d.stats.logicalBytes
    <3> HIDE DEF A, B, C
    <3> QED BY <1>13, <1>14
  <2>2. ActiveCount(r.stats) = ActiveCount(d.stats)
    BY <1>5, <2>1 DEF ActiveCount
  <2> QED BY <2>1, <2>2 DEF LimitsOK
<1> QED BY <1>1, <1>16, <1>17, Zenon

(* Acknowledging a leased event: the charge shrinks to that of a completion. *)
LEMMA CompleteInv ==
  ASSUME NEW d, DBInv(d), LimitsOK(d), NEW t \in Nat,
         NEW id \in EventIDs, d.records[id].state = "leased"
  PROVE  DBInv(Complete(d, id, t)) /\ LimitsOK(Complete(d, id, t))
<1> DEFINE o == d.records[id]
           e == t + CompletionTTL
           u == [o EXCEPT !.state = "completed", !.event = NoPayload, !.due = e]
           A == [d.records EXCEPT ![id] = u]
           B == DeleteKeys(d.leases, {Key(o, id)})
           C == PutEntries(d.completions, {Key(u, id)})
           x == d.stats.leased - 1
           y == d.stats.completed + 1
           z == d.stats.acked + 1
           w == d.stats.logicalBytes - Refund(o.event)
           D == [d.stats EXCEPT !.leased = x, !.completed = y, !.acked = z, !.logicalBytes = w]
           r == [d EXCEPT !.records = A, !.leases = B, !.completions = C, !.stats = D]
<1>1. Complete(d, id, t) = r
  BY Zenon DEF Complete
<1>2. d \in Database /\ EventOK(d)
  BY DEF DBInv
<1>3. d.records \in [EventIDs -> Record] /\ d.stats \in Stats
      /\ d.leases \in SUBSET Entry /\ d.completions \in SUBSET Entry
  BY <1>2 DEF Database
<1>4. o \in Record
  BY <1>3
<1>5. /\ d.stats.ready \in Int /\ d.stats.logicalBytes \in Int /\ d.stats.leased \in Int
      /\ d.stats.quarantined \in Int /\ d.stats.completed \in Int /\ d.stats.acked \in Nat
  BY <1>3 DEF Stats
<1>6. o.event \in Payloads /\ o.seq \in Nat
  <2>1. id \in Active(d)
    BY DEF Active, InState, ActiveStates
  <2> QED BY <1>2, <1>4, <2>1 DEF EventOK, Record
<1>7. Bytes[o.event] \in Nat
  BY <1>6, InputsAssumption
<1>8. e \in Nat
  BY OptionsAssumption
<1>9. u \in Record /\ u.state = "completed" /\ u.seq = o.seq /\ u.due = e
  <2> HIDE DEF o, e
  <2> QED BY <1>4, <1>8 DEF Record
<1>10. A \in [EventIDs -> Record]
  <2> HIDE DEF u
  <2> QED BY <1>3, <1>9
<1>11. B \in SUBSET Entry
  BY <1>3 DEF DeleteKeys
<1>12. C \in SUBSET Entry
  <2> HIDE DEF u, e, o
  <2>1. Key(u, id) \in Entry
    BY <1>6, <1>8, <1>9 DEF Key, Entry
  <2> QED BY <1>3, <2>1 DEF PutEntries, DeleteKeys
<1>13. x \in Int /\ y \in Int /\ z \in Nat /\ w \in Int /\ w <= d.stats.logicalBytes
  <2> HIDE DEF o
  <2> QED BY <1>5, <1>7 DEF Refund, activeOverhead, completedOverhead
<1>14. /\ D \in Stats
       /\ D.leased = x /\ D.completed = y /\ D.logicalBytes = w
       /\ D.quarantined = d.stats.quarantined /\ D.ready = d.stats.ready
  <2> HIDE DEF x, y, z, w
  <2>1. D \in Stats
    BY <1>3, <1>13, StatsTyped
  <2> QED BY <1>3, <2>1 DEF Stats
<1>15. /\ r \in Database
       /\ r.records = A /\ r.leases = B /\ r.completions = C /\ r.stats = D
       /\ r.sequence = d.sequence /\ r.ready = d.ready
  <2> HIDE DEF A, B, C, D
  <2> QED BY <1>2, <1>10, <1>11, <1>12, <1>14 DEF Database
<1> HIDE DEF r, u, D
<1>16. OneMoved(d, r, id, u, "leased", "completed")
  <2>1. \A st \in Indexed : Bucket(r, st) =
          IF st = "leased" THEN DeleteKeys(Bucket(d, st), {Key(d.records[id], id)})
          ELSE IF st = "completed" THEN PutEntries(Bucket(d, st), {Key(u, id)})
          ELSE Bucket(d, st)
    <3> HIDE DEF A
    <3> QED BY <1>15 DEF Indexed, Bucket
  <2>2. \A st \in Counted : Gauge(r, st) =
          IF st = "leased" THEN Gauge(d, st) - 1
          ELSE IF st = "completed" THEN Gauge(d, st) + 1 ELSE Gauge(d, st)
    <3> HIDE DEF A, B, C, w
    <3> QED BY <1>14, <1>15 DEF Counted, Indexed, Gauge
  <2>3. "completed" \notin ActiveStates
    BY DEF ActiveStates
  <2>4. r.records = [d.records EXCEPT ![id] = u] /\ r \in Database /\ r.sequence = d.sequence
    BY <1>15
  <2> QED BY <1>9, <2>1, <2>2, <2>3, <2>4 DEF OneMoved
<1>17. DBInv(r)
  BY <1>16, OneMovedInv
<1>18. LimitsOK(r)
  <2>1. /\ r.stats.leased = d.stats.leased - 1 /\ r.stats.completed = d.stats.completed + 1
        /\ r.stats.quarantined = d.stats.quarantined /\ r.stats.ready = d.stats.ready
        /\ r.stats.logicalBytes = w
    <3> HIDE DEF A, B, C, w
    <3> QED BY <1>14, <1>15
  <2> HIDE DEF w
  <2> QED BY <1>5, <1>13, <2>1, OptionsAssumption DEF LimitsOK, ActiveCount
<1> QED BY <1>1, <1>17, <1>18, Zenon

(* Returning a leased event for redelivery. *)
LEMMA ReturnInv ==
  ASSUME NEW d, DBInv(d), LimitsOK(d), NEW t \in Nat,
         NEW id \in EventIDs, d.records[id].state = "leased",
         NEW token \in Nat, NEW n \in NackRequests
  PROVE  DBInv(Return(d, id, token, n, t)) /\ LimitsOK(Return(d, id, token, n, t))
<1> DEFINE o == d.records[id]
           e == t + n.delay
           u == Rejected(o, token, n, "ready", e)
           A == [d.records EXCEPT ![id] = u]
           B == DeleteKeys(d.leases, {Key(o, id)})
           C == PutEntries(d.ready, {Key(u, id)})
           x == d.stats.leased - 1
           y == d.stats.ready + 1
           D == [d.stats EXCEPT !.leased = x, !.ready = y]
           r == [d EXCEPT !.records = A, !.leases = B, !.ready = C, !.stats = D]
<1>1. Return(d, id, token, n, t) = r
  BY Zenon DEF Return, RetryAt
<1>2. d \in Database /\ EventOK(d)
  BY DEF DBInv
<1>3. d.records \in [EventIDs -> Record] /\ d.stats \in Stats
      /\ d.leases \in SUBSET Entry /\ d.ready \in SUBSET Entry
  BY <1>2 DEF Database
<1>4. o \in Record
  BY <1>3
<1>5. /\ d.stats.ready \in Int /\ d.stats.logicalBytes \in Int /\ d.stats.leased \in Int
      /\ d.stats.quarantined \in Int /\ d.stats.completed \in Int
  BY <1>3 DEF Stats
<1>6. o.event \in Payloads /\ o.seq \in Nat
  <2>1. id \in Active(d)
    BY DEF Active, InState, ActiveStates
  <2> QED BY <1>2, <1>4, <2>1 DEF EventOK, Record
<1>7. e \in Nat
  <2>1. n.delay \in Nat
    BY InputsAssumption DEF NackRequests
  <2> QED BY <2>1
<1>8. /\ u \in Record /\ u.state = "ready" /\ u.seq = o.seq /\ u.due = e
      /\ u.event = o.event
  <2> HIDE DEF o, e
  <2> QED BY <1>4, <1>7 DEF Record, Rejected
<1>9. A \in [EventIDs -> Record]
  <2> HIDE DEF u
  <2> QED BY <1>3, <1>8
<1>10. B \in SUBSET Entry
  BY <1>3 DEF DeleteKeys
<1>11. C \in SUBSET Entry
  <2> HIDE DEF u, e, o
  <2>1. Key(u, id) \in Entry
    BY <1>6, <1>7, <1>8 DEF Key, Entry
  <2> QED BY <1>3, <2>1 DEF PutEntries, DeleteKeys
<1>12. x \in Int /\ y \in Int
  BY <1>5
<1>13. /\ D \in Stats
       /\ D.leased = x /\ D.ready = y /\ D.logicalBytes = d.stats.logicalBytes
       /\ D.quarantined = d.stats.quarantined /\ D.completed = d.stats.completed
  <2> HIDE DEF x, y
  <2>1. D \in Stats
    BY <1>3, <1>12, StatsTyped
  <2> QED BY <1>3, <2>1 DEF Stats
<1>14. /\ r \in Database
       /\ r.records = A /\ r.leases = B /\ r.ready = C /\ r.stats = D
       /\ r.sequence = d.sequence /\ r.completions = d.completions
  <2> HIDE DEF A, B, C, D
  <2> QED BY <1>2, <1>9, <1>10, <1>11, <1>13 DEF Database
<1> HIDE DEF r, u, D
<1>15. OneMoved(d, r, id, u, "leased", "ready")
  <2>1. \A st \in Indexed : Bucket(r, st) =
          IF st = "leased" THEN DeleteKeys(Bucket(d, st), {Key(d.records[id], id)})
          ELSE IF st = "ready" THEN PutEntries(Bucket(d, st), {Key(u, id)})
          ELSE Bucket(d, st)
    <3> HIDE DEF A
    <3> QED BY <1>14 DEF Indexed, Bucket
  <2>2. \A st \in Counted : Gauge(r, st) =
          IF st = "leased" THEN Gauge(d, st) - 1
          ELSE IF st = "ready" THEN Gauge(d, st) + 1 ELSE Gauge(d, st)
    <3> HIDE DEF A, B, C
    <3> QED BY <1>13, <1>14 DEF Counted, Indexed, Gauge
  <2>3. r.records = [d.records EXCEPT ![id] = u] /\ r \in Database /\ r.sequence = d.sequence
    BY <1>14
  <2> QED BY <1>6, <1>8, <2>1, <2>2, <2>3 DEF OneMoved
<1>16. DBInv(r)
  BY <1>15, OneMovedInv
<1>17. LimitsOK(r)
  <2>1. /\ r.stats.leased = d.stats.leased - 1 /\ r.stats.ready = d.stats.ready + 1
        /\ r.stats.quarantined = d.stats.quarantined /\ r.stats.completed = d.stats.completed
        /\ r.stats.logicalBytes = d.stats.logicalBytes
    <3> HIDE DEF A, B, C
    <3> QED BY <1>13, <1>14
  <2>2. ActiveCount(r.stats) = ActiveCount(d.stats)
    BY <1>5, <2>1 DEF ActiveCount
  <2> QED BY <2>1, <2>2 DEF LimitsOK
<1> QED BY <1>1, <1>16, <1>17, Zenon

(* Quarantining a leased event while there is room. *)
LEMMA QuarantineInv ==
  ASSUME NEW d, DBInv(d), LimitsOK(d),
         NEW id \in EventIDs, d.records[id].state = "leased",
         NEW token \in Nat, NEW n \in NackRequests,
         ~(d.stats.quarantined >= QuarantineCapacity)
  PROVE  DBInv(Quarantine(d, id, token, n)) /\ LimitsOK(Quarantine(d, id, token, n))
<1> DEFINE o == d.records[id]
           u == Rejected(o, token, n, "quarantined", 0)
           A == [d.records EXCEPT ![id] = u]
           B == DeleteKeys(d.leases, {Key(o, id)})
           x == d.stats.leased - 1
           y == d.stats.quarantined + 1
           D == [d.stats EXCEPT !.leased = x, !.quarantined = y]
           r == [d EXCEPT !.records = A, !.leases = B, !.stats = D]
<1>1. Quarantine(d, id, token, n) = r
  BY Zenon DEF Quarantine
<1>2. d \in Database /\ EventOK(d)
  BY DEF DBInv
<1>3. d.records \in [EventIDs -> Record] /\ d.stats \in Stats /\ d.leases \in SUBSET Entry
  BY <1>2 DEF Database
<1>4. o \in Record
  BY <1>3
<1>5. /\ d.stats.ready \in Int /\ d.stats.logicalBytes \in Int /\ d.stats.leased \in Int
      /\ d.stats.quarantined \in Int /\ d.stats.completed \in Int
  BY <1>3 DEF Stats
<1>6. o.event \in Payloads
  <2>1. id \in Active(d)
    BY DEF Active, InState, ActiveStates
  <2> QED BY <1>2, <2>1 DEF EventOK
<1>7. u \in Record /\ u.state = "quarantined" /\ u.seq = o.seq /\ u.event = o.event
  <2> HIDE DEF o
  <2> QED BY <1>4 DEF Record, Rejected
<1>8. A \in [EventIDs -> Record]
  <2> HIDE DEF u
  <2> QED BY <1>3, <1>7
<1>9. B \in SUBSET Entry
  BY <1>3 DEF DeleteKeys
<1>10. x \in Int /\ y \in Int
  BY <1>5
<1>11. /\ D \in Stats
       /\ D.leased = x /\ D.quarantined = y /\ D.logicalBytes = d.stats.logicalBytes
       /\ D.ready = d.stats.ready /\ D.completed = d.stats.completed
  <2> HIDE DEF x, y
  <2>1. D \in Stats
    BY <1>3, <1>10, StatsTyped
  <2> QED BY <1>3, <2>1 DEF Stats
<1>12. /\ r \in Database
       /\ r.records = A /\ r.leases = B /\ r.stats = D /\ r.ready = d.ready
       /\ r.sequence = d.sequence /\ r.completions = d.completions
  <2> HIDE DEF A, B, D
  <2> QED BY <1>2, <1>8, <1>9, <1>11 DEF Database
<1> HIDE DEF r, u, D
<1>13. OneMoved(d, r, id, u, "leased", "quarantined")
  <2>1. \A st \in Indexed : Bucket(r, st) =
          IF st = "leased" THEN DeleteKeys(Bucket(d, st), {Key(d.records[id], id)})
          ELSE IF st = "quarantined" THEN PutEntries(Bucket(d, st), {Key(u, id)})
          ELSE Bucket(d, st)
    <3> HIDE DEF A
    <3> QED BY <1>12 DEF Indexed, Bucket
  <2>2. \A st \in Counted : Gauge(r, st) =
          IF st = "leased" THEN Gauge(d, st) - 1
          ELSE IF st = "quarantined" THEN Gauge(d, st) + 1 ELSE Gauge(d, st)
    <3> HIDE DEF A, B
    <3> QED BY <1>11, <1>12 DEF Counted, Indexed, Gauge
  <2>3. r.records = [d.records EXCEPT ![id] = u] /\ r \in Database /\ r.sequence = d.sequence
    BY <1>12
  <2> QED BY <1>6, <1>7, <2>1, <2>2, <2>3 DEF OneMoved
<1>14. DBInv(r)
  BY <1>13, OneMovedInv
<1>15. LimitsOK(r)
  <2>1. /\ r.stats.leased = d.stats.leased - 1
        /\ r.stats.quarantined = d.stats.quarantined + 1
        /\ r.stats.ready = d.stats.ready /\ r.stats.completed = d.stats.completed
        /\ r.stats.logicalBytes = d.stats.logicalBytes
    <3> HIDE DEF A, B
    <3> QED BY <1>11, <1>12
  <2>2. ActiveCount(r.stats) = ActiveCount(d.stats)
    BY <1>5, <2>1 DEF ActiveCount
  <2> QED BY <1>5, <2>1, <2>2, OptionsAssumption DEF LimitsOK
<1> QED BY <1>1, <1>14, <1>15, Zenon

-----------------------------------------------------------------------------
(* The broker *)

(* Settling a delivery keeps the history well typed. *)
LEMMA GrantReplaced ==
  ASSUME NEW g \in Seq(Grant), NEW token \in DOMAIN g, NEW v \in Grant
  PROVE  [g EXCEPT ![token] = v] \in Seq(Grant)
OBVIOUS

LEMMA AckedTyped ==
  ASSUME NEW g \in Seq(Grant), NEW token \in DOMAIN g, NEW u \in Nat
  PROVE  [g EXCEPT ![token].outcome = "acked", ![token].until = u] \in Seq(Grant)
<1> DEFINE v == [g[token] EXCEPT !.outcome = "acked", !.until = u]
<1>1. g[token] \in Grant
  OBVIOUS
<1>2. v \in Grant
  BY <1>1 DEF Grant
<1>3. [g EXCEPT ![token] = v] \in Seq(Grant)
  BY <1>2, GrantReplaced
<1>4. [g EXCEPT ![token].outcome = "acked", ![token].until = u] = [g EXCEPT ![token] = v]
  OBVIOUS
<1> QED BY <1>3, <1>4

LEMMA NackedTyped ==
  ASSUME NEW g \in Seq(Grant), NEW token \in DOMAIN g, NEW n \in NackRequests
  PROVE  [g EXCEPT ![token].outcome = "nacked", ![token].request = n] \in Seq(Grant)
<1> DEFINE v == [g[token] EXCEPT !.outcome = "nacked", !.request = n]
<1>1. g[token] \in Grant
  OBVIOUS
<1>2. v \in Grant
  BY <1>1 DEF Grant
<1>3. [g EXCEPT ![token] = v] \in Seq(Grant)
  BY <1>2, GrantReplaced
<1>4. [g EXCEPT ![token].outcome = "nacked", ![token].request = n] = [g EXCEPT ![token] = v]
  OBVIOUS
<1> QED BY <1>3, <1>4

(* The event a lease call hands out is ready after the expiry it performs. *)
LEMMA LeasedIsReady ==
  ASSUME NEW d, NEW t \in Nat, DBInv(expireLeases(d, t)), LeaseAnswer(d, t) = "delivery"
  PROVE  LeasedID(d, t) \in EventIDs /\ expireLeases(d, t).records[LeasedID(d, t)].state = "ready"
<1> DEFINE v == expireLeases(d, t)
           e == CHOOSE f \in DueFirst(v.ready, t) : TRUE
<1>1. DueFirst(v.ready, t) # {}
  BY DEF LeaseAnswer
<1>2. e \in DueFirst(v.ready, t)
  BY <1>1
<1>3. LeasedID(d, t) = e.id
  BY DEF LeasedID
<1> HIDE DEF v, e
<1>4. e \in Index(v, "ready")
  <2>1. v.ready = Index(v, "ready")
    BY DEF DBInv, IndexOK, Indexed, Bucket, v
  <2> QED BY <1>2, <2>1 DEF DueFirst
<1>5. PICK id \in InState(v, {"ready"}) : e = Key(v.records[id], id)
  BY <1>4 DEF Index
<1>6. e.id = id
  BY <1>5 DEF Key
<1> QED BY <1>3, <1>5, <1>6 DEF InState, v

IInv == TypeOK /\ DBInv(db) /\ LimitsOK(db)

LEMMA InitIInv == Init => IInv
<1> SUFFICES ASSUME Init PROVE IInv
  OBVIOUS
<1>1. db = EmptyDatabase /\ now = 0 /\ granted = <<>>
  BY DEF Init
<1>2. Absent \in Record /\ Absent.state = "absent"
  BY DEF Absent, Record
<1>3. db.records = [id \in EventIDs |-> Absent] /\ db.sequence = 0
  BY <1>1 DEF EmptyDatabase
<1>4. EmptyDatabase.stats \in Stats
  BY DEF EmptyDatabase, Stats
<1>5. db \in Database
  BY <1>1, <1>2, <1>4 DEF EmptyDatabase, Database
<1>6. \A st \in Counted : InState(db, {st}) = {}
  BY <1>2, <1>3 DEF InState, Counted, Indexed
<1>7. IndexOK(db)
  <2>1. \A st \in Indexed : Bucket(db, st) = {}
    BY <1>1 DEF EmptyDatabase, Bucket
  <2>2. \A st \in Indexed : Index(db, st) = {}
    BY <1>6 DEF Index, Counted
  <2> QED BY <2>1, <2>2 DEF IndexOK
<1>8. Present(db) = {} /\ Active(db) = {}
  BY <1>2, <1>3 DEF Present, Active, InState, ActiveStates
<1>9. CountOK(db)
  <2>1. \A st \in Counted : Gauge(db, st) = 0
    BY <1>1 DEF EmptyDatabase, Gauge
  <2> QED BY <1>6, <2>1, FS_EmptySet DEF CountOK
<1>10. LimitsOK(db)
  BY <1>1, OptionsAssumption DEF EmptyDatabase, LimitsOK, ActiveCount, activeOverhead
<1> QED BY <1>1, <1>5, <1>7, <1>8, <1>9, <1>10
        DEF IInv, TypeOK, DBInv, SeqOK, EventOK

LEMMA NextIInv == IInv /\ [Next]_vars => IInv'
<1> SUFFICES ASSUME IInv, [Next]_vars PROVE IInv'
  OBVIOUS
<1>0. DBInv(db) /\ LimitsOK(db) /\ now \in Nat /\ granted \in Seq(Grant) /\ db \in Database
  BY DEF IInv, TypeOK
<1> SUFFICES DBInv(db') /\ LimitsOK(db') /\ now' \in Nat /\ granted' \in Seq(Grant)
  BY DEF IInv, TypeOK, DBInv, LimitsOK, IndexOK, SeqOK, EventOK, CountOK, Index, InState,
         Present, Active, Bucket, Gauge
<1>1. ASSUME NEW id \in EventIDs, NEW p \in Payloads, Publish(id, p)
      PROVE  DBInv(db') /\ LimitsOK(db') /\ now' \in Nat /\ granted' \in Seq(Grant)
  <2> DEFINE v == PublishView(db, id, now)
             a == PublishAnswer(db, id, p, now)
  <2>1. DBInv(v) /\ LimitsOK(v)
    BY <1>0, PublishViewInv
  <2>2. now' \in Nat /\ granted' \in Seq(Grant)
    BY <1>0, <1>1 DEF Publish
  <2>3. CASE a = "accepted" /\ db' = Admit(v, id, p, now)
    <3>1. v.records[id].state = "absent" /\ ~Full(v.stats, p) /\ ~DedupFull(v.stats)
      BY <2>3 DEF PublishAnswer
    <3> HIDE DEF v
    <3>2. DBInv(Admit(v, id, p, now)) /\ LimitsOK(Admit(v, id, p, now))
      BY <1>0, <2>1, <3>1, AdmitInv
    <3> QED BY <2>2, <2>3, <3>2
  <2>4. CASE db' = v
    BY <2>1, <2>2, <2>4
  <2>5. CASE db' = db
    BY <1>0, <2>2, <2>5
  <2> QED BY <1>1, <2>3, <2>4, <2>5 DEF Publish
<1>2. ASSUME Lease
      PROVE  DBInv(db') /\ LimitsOK(db') /\ now' \in Nat /\ granted' \in Seq(Grant)
  <2> DEFINE v == expireLeases(db, now)
             id == LeasedID(db, now)
             g == [id |-> id, expires |-> now + LeaseDuration, outcome |-> "open",
                   request |-> NoNack, until |-> 0]
  <2>1. CASE UNCHANGED vars
    BY <1>0, <2>1 DEF vars
  <2>2. CASE /\ LeaseAnswer(db, now) = "delivery"
             /\ db' = Checkout(v, id, now) /\ granted' = Append(granted, g)
             /\ UNCHANGED now
    <3>1. DBInv(v) /\ LimitsOK(v)
      BY <1>0, ExpireLeasesInv
    <3>2. id \in EventIDs /\ v.records[id].state = "ready"
      BY <1>0, <2>2, <3>1, LeasedIsReady
    <3>3. g \in Grant
      <4> HIDE DEF id
      <4> QED BY <1>0, <3>2, OptionsAssumption DEF Grant
    <3> HIDE DEF v, id, g
    <3>4. DBInv(Checkout(v, id, now)) /\ LimitsOK(Checkout(v, id, now))
      BY <1>0, <3>1, <3>2, CheckoutInv
    <3>5. granted' \in Seq(Grant)
      BY <1>0, <2>2, <3>3
    <3> QED BY <1>0, <2>2, <3>4, <3>5
  <2> QED BY <1>2, <2>1, <2>2 DEF Lease
<1>3. ASSUME NEW id \in EventIDs, NEW token \in DOMAIN granted, Ack(id, token)
      PROVE  DBInv(db') /\ LimitsOK(db') /\ now' \in Nat /\ granted' \in Seq(Grant)
  <2>1. CASE UNCHANGED vars
    BY <1>0, <2>1 DEF vars
  <2>2. CASE /\ AckAnswer(db, id, token, now) = "completed"
             /\ db' = Complete(db, id, now)
             /\ granted' = [granted EXCEPT ![token].outcome = "acked",
                                           ![token].until = now + CompletionTTL]
             /\ UNCHANGED now
    <3>1. db.records[id].state = "leased"
      BY <2>2 DEF AckAnswer, HoldsLease
    <3>2. DBInv(Complete(db, id, now)) /\ LimitsOK(Complete(db, id, now))
      BY <1>0, <3>1, CompleteInv
    <3>3. now + CompletionTTL \in Nat
      BY <1>0, OptionsAssumption
    <3>4. [granted EXCEPT ![token].outcome = "acked", ![token].until = now + CompletionTTL]
             \in Seq(Grant)
      BY <1>0, <3>3, AckedTyped
    <3> QED BY <1>0, <2>2, <3>2, <3>4
  <2> QED BY <1>3, <2>1, <2>2 DEF Ack
<1>4. ASSUME NEW id \in EventIDs, NEW token \in DOMAIN granted, NEW n \in NackRequests,
             Nack(id, token, n)
      PROVE  DBInv(db') /\ LimitsOK(db') /\ now' \in Nat /\ granted' \in Seq(Grant)
  <2> DEFINE a == NackAnswer(db, id, token, n, now)
  <2>1. CASE UNCHANGED vars
    BY <1>0, <2>1 DEF vars
  <2>2. CASE /\ \/ a = "returned" /\ db' = Return(db, id, token, n, now)
                \/ a = "quarantined" /\ db' = Quarantine(db, id, token, n)
             /\ granted' = [granted EXCEPT ![token].outcome = "nacked", ![token].request = n]
             /\ UNCHANGED now
    <3>1. db.records[id].state = "leased"
      BY <2>2 DEF NackAnswer, HoldsLease
    <3>2. token \in Nat
      BY <1>0
    <3>3. granted' \in Seq(Grant)
      BY <1>0, <2>2, NackedTyped
    <3>4. CASE a = "returned" /\ db' = Return(db, id, token, n, now)
      <4>1. DBInv(Return(db, id, token, n, now)) /\ LimitsOK(Return(db, id, token, n, now))
        BY <1>0, <3>1, <3>2, ReturnInv
      <4> QED BY <1>0, <2>2, <3>3, <3>4, <4>1
    <3>5. CASE a = "quarantined" /\ db' = Quarantine(db, id, token, n)
      <4>1. ~(db.stats.quarantined >= QuarantineCapacity)
        BY <3>5 DEF NackAnswer
      <4>2. DBInv(Quarantine(db, id, token, n)) /\ LimitsOK(Quarantine(db, id, token, n))
        BY <1>0, <3>1, <3>2, <4>1, QuarantineInv
      <4> QED BY <1>0, <2>2, <3>3, <3>5, <4>2
    <3> QED BY <2>2, <3>4, <3>5
  <2> QED BY <1>4, <2>1, <2>2 DEF Nack
<1>5. ASSUME Cleanup
      PROVE  DBInv(db') /\ LimitsOK(db') /\ now' \in Nat /\ granted' \in Seq(Grant)
  <2>1. DBInv(expireLeases(db, now)) /\ LimitsOK(expireLeases(db, now))
    BY <1>0, ExpireLeasesInv
  <2>2. /\ DBInv(expireCompleted(expireLeases(db, now), now))
        /\ LimitsOK(expireCompleted(expireLeases(db, now), now))
    BY <1>0, <2>1, ExpireCompletedInv
  <2> QED BY <1>0, <1>5, <2>2 DEF Cleanup
<1>6. ASSUME Tick
      PROVE  DBInv(db') /\ LimitsOK(db') /\ now' \in Nat /\ granted' \in Seq(Grant)
  <2>1. now' \in Nat
    BY <1>0, <1>6, InputsAssumption DEF Tick
  <2> QED BY <1>0, <1>6, <2>1 DEF Tick
<1>7. CASE UNCHANGED vars
  BY <1>0, <1>7 DEF vars
<1> QED BY <1>1, <1>2, <1>3, <1>4, <1>5, <1>6, <1>7 DEF Next

(* The invariant holds in every reachable state. *)
THEOREM BrokerInvariant == Spec => []IInv
BY InitIInv, NextIInv, PTL DEF Spec

(* Type correctness of the broker of durable.go. *)
THEOREM TypeCorrect == Spec => []TypeOK
<1>1. IInv => TypeOK
  BY DEF IInv
<1> QED BY <1>1, BrokerInvariant, PTL

(* The ready, lease and completion buckets of durable.go list exactly the   *)
(* records in their state, whatever requests, retries, partial sweeps and   *)
(* clock jumps came before.                                                 *)
THEOREM IndexesCorrect == Spec => []IndexesMatch
<1>1. IInv => IndexesMatch
  BY DEF IInv, DBInv, IndexOK, Indexed, Bucket, IndexesMatch
<1> QED BY <1>1, BrokerInvariant, PTL

(* No two stored records share the sequence number in their index keys, so  *)
(* no bucket.Put of durable.go overwrites the entry of another event.       *)
THEOREM SequencesCorrect == Spec => []SequencesUnique
<1>1. IInv => SequencesUnique
  BY DEF IInv, DBInv, SeqOK, SequencesUnique
<1> QED BY <1>1, BrokerInvariant, PTL

(* The persisted gauges, which every operation adjusts by a difference,     *)
(* never drift from the number of records they describe.                    *)
THEOREM CountersCorrect == Spec => []CountersMatch
<1>1. IInv => CountersMatch
  BY DEF IInv, DBInv, CountOK, Counted, Indexed, Gauge, CountersMatch
<1> QED BY <1>1, BrokerInvariant, PTL

(* Capacity, deduplication, quarantine and byte limits hold at all times,   *)
(* although only PublishContext and the permanent NACK check them.          *)
THEOREM LimitsRespected == Spec => []WithinLimits
<1>1. IInv => WithinLimits
  BY DEF IInv, LimitsOK, WithinLimits
<1> QED BY <1>1, BrokerInvariant, PTL

=============================================================================
