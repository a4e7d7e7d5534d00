------------------------ MODULE TelemetryStoreProofs ------------------------
(***************************************************************************)
(* Proofs about TelemetryStore for any events and any number of database   *)
(* sessions: what a Persist call that returned nil means, what duplicates  *)
(* may change, and that the metadata of a GPU is that of its rows.         *)
(***************************************************************************)
EXTENDS TelemetryStore, TLAPS

-----------------------------------------------------------------------------
(* The inductive invariant *)

(* f is the newest of the events S by (at, id). *)
IsNewest(f, S) ==
  f \in S /\ \A h \in S : h.at < f.at \/ (h.at = f.at /\ h.id <= f.id)

(* row is the metadata the events S add up to. *)
Describes(row, S) ==
  IF S = {} THEN row = None
  ELSE /\ row \in GpuRow
       /\ \A f \in S : row.first <= f.at /\ f.at <= row.last
       /\ \E f \in S : f.at = row.first
       /\ \E f \in S : /\ IsNewest(f, S)
                       /\ row.last = f.at /\ row.lastEvent = f.id /\ row.meta = f.meta

RowsOf(T, g) == {T[id] : id \in {i \in IDs : T[i] # None /\ T[i].gpu = g}}

Keyed(T) == \A id \in IDs : T[id] # None => T[id].id = id

Described(T, G) == \A g \in GPUs : Describes(G[g], RowsOf(T, g))

(* What a session, by its place in Persist, knows of the committed tables. *)
PlaceOK(x, T, G) ==
  x # Free =>
    /\ x.pc = "begun" => x.new = FALSE
    /\ x.pc = "inserted" => x.new = TRUE
    /\ x.new = TRUE => T[x.event.id] = None
    /\ x.pc = "done" /\ x.new = TRUE => x.row = Merge(G[x.event.gpu], x.event)
    /\ x.pc = "done" /\ x.new = FALSE => T[x.event.id] # None

(* The locks of one session exclude another. *)
Apart(x, y) ==
  /\ x # Free /\ y # Free /\ x.new = TRUE /\ y.new = TRUE => x.event.id # y.event.id
  /\ x # Free /\ y # Free /\ x.pc = "done" /\ y.pc = "done" /\ x.new = TRUE /\ y.new = TRUE
       => x.event.gpu # y.event.gpu

StoreInv ==
  /\ StoreTypeOK
  /\ Keyed(telemetry)
  /\ Described(telemetry, gpus)
  /\ \A s \in Sessions : PlaceOK(session[s], telemetry, gpus)
  /\ \A s, o \in Sessions : s # o => Apart(session[s], session[o])
  /\ \A e \in returned : telemetry[e.id] # None

-----------------------------------------------------------------------------
(* The metadata statement *)

LEMMA EventTimes ==
  ASSUME NEW e \in Events
  PROVE  e.id \in Nat /\ e.at \in Nat /\ e.id \in IDs /\ e.gpu \in GPUs /\ e # None
BY EventsAssumption DEF IDs, GPUs

(* INSERT ... ON CONFLICT DO UPDATE adds one event to what a row describes. *)
LEMMA MergeExact ==
  ASSUME NEW S \in SUBSET Events, NEW row, Describes(row, S), NEW e \in Events
  PROVE  Describes(Merge(row, e), S \cup {e})
<1> DEFINE m == Merge(row, e)
           R == S \cup {e}
<1>0. \A f \in R : f.at \in Nat /\ f.id \in Nat /\ f.meta \in {x.meta : x \in Events}
  BY EventTimes
<1>1. CASE S = {}
  <2>1. row = None /\ R = {e}
    BY <1>1 DEF Describes
  <2>2. m = [first |-> e.at, last |-> e.at, lastEvent |-> e.id, meta |-> e.meta]
    BY <2>1 DEF Merge
  <2>3. /\ m \in GpuRow /\ m.first = e.at /\ m.last = e.at /\ m.lastEvent = e.id
        /\ m.meta = e.meta
    BY <1>0, <2>2 DEF GpuRow
  <2>4. IsNewest(e, R)
    BY <1>0, <2>1 DEF IsNewest
  <2> HIDE DEF m, R
  <2> QED BY <1>0, <2>1, <2>3, <2>4 DEF Describes, m, R
<1>2. CASE S # {}
  <2>1. /\ row \in GpuRow
        /\ \A f \in S : row.first <= f.at /\ f.at <= row.last
        /\ \E f \in S : f.at = row.first
        /\ \E f \in S : /\ IsNewest(f, S)
                        /\ row.last = f.at /\ row.lastEvent = f.id /\ row.meta = f.meta
    BY <1>2 DEF Describes
  <2>2. PICK a \in S : a.at = row.first
    BY <2>1
  <2>3. PICK b \in S : IsNewest(b, S) /\ row.last = b.at /\ row.lastEvent = b.id
                       /\ row.meta = b.meta
    BY <2>1
  <2>4. row # None
    BY <2>1, EventsAssumption
  <2>5. /\ m = [first     |-> IF e.at < row.first THEN e.at ELSE row.first,
                last      |-> IF e.at > row.last THEN e.at ELSE row.last,
                lastEvent |-> IF Later(e, row) THEN e.id ELSE row.lastEvent,
                meta      |-> IF Later(e, row) THEN e.meta ELSE row.meta]
    BY <2>4 DEF Merge
  <2>6. /\ m.first = IF e.at < row.first THEN e.at ELSE row.first
        /\ m.last = IF e.at > row.last THEN e.at ELSE row.last
        /\ m.lastEvent = IF Later(e, row) THEN e.id ELSE row.lastEvent
        /\ m.meta = IF Later(e, row) THEN e.meta ELSE row.meta
    BY <2>5
  <2>n. /\ row.first \in Nat /\ row.last \in Nat /\ row.lastEvent \in Nat
        /\ row.meta \in {x.meta : x \in Events}
    BY <2>1 DEF GpuRow
  <2>7. m \in GpuRow
    BY <1>0, <2>5, <2>n DEF GpuRow
  <2> HIDE DEF m
  <2>8. \A f \in R : m.first <= f.at /\ f.at <= m.last
    BY <1>0, <2>1, <2>6, <2>n
  <2>9. \E f \in R : f.at = m.first
    BY <2>2, <2>6
  <2>10. \E f \in R : IsNewest(f, R) /\ m.last = f.at /\ m.lastEvent = f.id /\ m.meta = f.meta
    <3>1. CASE Later(e, row)
      <4>1. /\ e.at > b.at \/ (e.at = b.at /\ e.id > b.id)
        BY <2>3, <3>1 DEF Later
      <4>2. IsNewest(e, R)
        BY <1>0, <2>3, <4>1 DEF IsNewest
      <4>3. m.last = e.at /\ m.lastEvent = e.id /\ m.meta = e.meta
        BY <1>0, <2>3, <2>6, <3>1, <4>1
      <4> QED BY <4>2, <4>3
    <3>2. CASE ~Later(e, row)
      <4>1. e.at < b.at \/ (e.at = b.at /\ e.id <= b.id)
        BY <1>0, <2>3, <2>n, <3>2 DEF Later
      <4>2. IsNewest(b, R)
        BY <2>3, <4>1 DEF IsNewest
      <4>3. m.last = b.at /\ m.lastEvent = b.id /\ m.meta = b.meta
        BY <1>0, <2>3, <2>6, <2>n, <3>2, <4>1
      <4> QED BY <4>2, <4>3
    <3> QED BY <3>1, <3>2
  <2>11. R # {}
    OBVIOUS
  <2> HIDE DEF R
  <2> QED BY <2>7, <2>8, <2>9, <2>10, <2>11 DEF Describes, m, R
<1> QED BY <1>1, <1>2

(* A row under a free key joins the rows of its GPU and of no other. *)
LEMMA RowJoins ==
  ASSUME NEW T \in [IDs -> Events \cup {None}], NEW e \in Events, T[e.id] = None, NEW g
  PROVE  RowsOf([T EXCEPT ![e.id] = e], g) = IF g = e.gpu THEN RowsOf(T, g) \cup {e} ELSE RowsOf(T, g)
<1> DEFINE U == [T EXCEPT ![e.id] = e]
<1>1. e.id \in IDs /\ e # None
  BY EventTimes
<1>2. U[e.id] = e /\ \A id \in IDs \ {e.id} : U[id] = T[id]
  BY <1>1
<1> HIDE DEF U
<1>3. \A x : x \in RowsOf(U, g) <=> \E id \in IDs : U[id] # None /\ U[id].gpu = g /\ x = U[id]
  BY DEF RowsOf
<1>4. \A x : x \in RowsOf(T, g) <=> \E id \in IDs : T[id] # None /\ T[id].gpu = g /\ x = T[id]
  BY DEF RowsOf
<1>5. CASE g = e.gpu
  <2>1. \A x : x \in RowsOf(U, g) <=> x \in RowsOf(T, g) \/ x = e
    BY <1>1, <1>2, <1>3, <1>4, <1>5
  <2> QED BY <1>5, <2>1 DEF U
<1>6. CASE g # e.gpu
  <2>1. \A x : x \in RowsOf(U, g) <=> x \in RowsOf(T, g)
    BY <1>1, <1>2, <1>3, <1>4, <1>6
  <2> QED BY <1>6, <2>1 DEF U
<1> QED BY <1>5, <1>6

(* What an inserting transaction commits describes the tables it leaves. *)
LEMMA CommitDescribed ==
  ASSUME NEW T \in [IDs -> Events \cup {None}], NEW G \in [GPUs -> GpuRow \cup {None}],
         Described(T, G), NEW e \in Events, T[e.id] = None
  PROVE  Described([T EXCEPT ![e.id] = e], [G EXCEPT ![e.gpu] = Merge(G[e.gpu], e)])
<1> DEFINE U == [T EXCEPT ![e.id] = e]
           H == [G EXCEPT ![e.gpu] = Merge(G[e.gpu], e)]
<1> SUFFICES ASSUME NEW g \in GPUs PROVE Describes(H[g], RowsOf(U, g))
  BY DEF Described
<1>1. RowsOf(T, g) \in SUBSET Events
  BY DEF RowsOf
<1>2. Describes(G[g], RowsOf(T, g))
  BY DEF Described
<1>3. CASE g = e.gpu
  <2>1. H[g] = Merge(G[g], e) /\ RowsOf(U, g) = RowsOf(T, g) \cup {e}
    BY <1>3, RowJoins
  <2> HIDE DEF H, U
  <2> QED BY <1>1, <1>2, <2>1, MergeExact
<1>4. CASE g # e.gpu
  <2>1. H[g] = G[g] /\ RowsOf(U, g) = RowsOf(T, g)
    BY <1>4, RowJoins
  <2> HIDE DEF H, U
  <2> QED BY <1>2, <2>1
<1> QED BY <1>3, <1>4

-----------------------------------------------------------------------------
(* Sessions *)

LEMMA BusySession ==
  ASSUME StoreInv, NEW s \in Sessions, session[s] # Free
  PROVE  /\ session[s] \in Busy /\ session[s].event \in Events
         /\ session[s].new \in BOOLEAN /\ session[s].waiting \in BOOLEAN
         /\ session[s].pc \in {"begun", "inserted", "done"}
         /\ PlaceOK(session[s], telemetry, gpus)
<1>1. session[s] \in Busy
  BY DEF StoreInv, StoreTypeOK
<1> QED BY <1>1 DEF Busy, StoreInv

LEMMA NotFree ==
  ASSUME NEW s, session[s].pc \in {"begun", "inserted", "done"}
  PROVE  session[s] # Free
BY DEF Free

LEMMA ApartBack ==
  ASSUME NEW x, NEW y, Apart(x, y)
  PROVE  Apart(y, x)
BY DEF Apart

(* A statement changes its own session and no committed row. *)
LEMMA SessionMoves ==
  ASSUME StoreInv, NEW s \in Sessions, NEW y \in Busy \cup {Free},
         session' = [session EXCEPT ![s] = y],
         telemetry' = telemetry, gpus' = gpus, returned' = returned,
         PlaceOK(y, telemetry, gpus), \A o \in Sessions \ {s} : Apart(y, session[o])
  PROVE  StoreInv'
<1>0. session \in [Sessions -> Busy \cup {Free}]
  BY DEF StoreInv, StoreTypeOK
<1>1. session' \in [Sessions -> Busy \cup {Free}]
  BY <1>0
<1>2. session'[s] = y /\ \A o \in Sessions \ {s} : session'[o] = session[o]
  BY <1>0
<1>3. StoreTypeOK'
  BY <1>1 DEF StoreInv, StoreTypeOK
<1>4. \A o \in Sessions : PlaceOK(session'[o], telemetry, gpus)
  BY <1>2 DEF StoreInv
<1>5. \A a, b \in Sessions : a # b => Apart(session'[a], session'[b])
  <2> SUFFICES ASSUME NEW a \in Sessions, NEW b \in Sessions, a # b
               PROVE  Apart(session'[a], session'[b])
    OBVIOUS
  <2>1. CASE a = s
    BY <1>2, <2>1
  <2>2. CASE b = s
    <3>1. Apart(session'[b], session'[a])
      BY <1>2, <2>2
    <3> QED BY <3>1, ApartBack
  <2>3. CASE a # s /\ b # s
    BY <1>2, <2>3 DEF StoreInv
  <2> QED BY <2>1, <2>2, <2>3
<1>6. /\ Keyed(telemetry') /\ Described(telemetry', gpus')
      /\ \A o \in Sessions : PlaceOK(session'[o], telemetry', gpus')
      /\ \A e \in returned' : telemetry'[e.id] # None
  BY <1>4 DEF StoreInv
<1> QED BY <1>3, <1>5, <1>6
        DEF StoreInv, Keyed, Described, Describes, IsNewest, RowsOf, PlaceOK, Apart, Merge, Later

LEMMA BeginInv ==
  ASSUME StoreInv, NEW s \in Sessions, NEW e \in Events, Begin(s, e)
  PROVE  StoreInv'
<1> DEFINE y == [pc |-> "begun", event |-> e, new |-> FALSE, row |-> None, waiting |-> TRUE]
<1>1. y \in Busy /\ y.pc = "begun" /\ y.new = FALSE
  BY DEF Busy
<1>2. /\ session' = [session EXCEPT ![s] = y]
      /\ telemetry' = telemetry /\ gpus' = gpus /\ returned' = returned
  BY DEF Begin
<1> HIDE DEF y
<1>3. PlaceOK(y, telemetry, gpus)
  BY <1>1 DEF PlaceOK
<1>4. \A o \in Sessions \ {s} : Apart(y, session[o])
  BY <1>1 DEF Apart
<1> QED BY <1>1, <1>2, <1>3, <1>4, SessionMoves

LEMMA InsertTelemetryInv ==
  ASSUME StoreInv, NEW s \in Sessions, InsertTelemetry(s)
  PROVE  StoreInv'
<1> DEFINE x == session[s]
           y == [x EXCEPT !.pc = "inserted", !.new = TRUE]
           z == [x EXCEPT !.pc = "done"]
<1>0. x # Free /\ x.pc = "begun"
  BY NotFree DEF InsertTelemetry
<1>1. x \in Busy /\ x.new = FALSE
  BY <1>0, BusySession DEF PlaceOK
<1>2. /\ telemetry' = telemetry /\ gpus' = gpus /\ returned' = returned
      /\ \A o \in Sessions : ~HoldsID(o, x.event.id)
      /\ session' = IF telemetry[x.event.id] = None THEN [session EXCEPT ![s] = y]
                                                    ELSE [session EXCEPT ![s] = z]
  BY DEF InsertTelemetry
<1>h. \A o \in Sessions : session[o] # Free /\ session[o].new = TRUE => session[o].event.id # x.event.id
  <2> SUFFICES ASSUME NEW o \in Sessions, session[o] # Free, session[o].new = TRUE
               PROVE  session[o].event.id # x.event.id
    OBVIOUS
  <2>1. session[o].pc \in {"inserted", "done"}
    BY BusySession DEF PlaceOK
  <2> QED BY <1>2, <2>1 DEF HoldsID
<1> HIDE DEF x
<1>3. CASE telemetry[x.event.id] = None
  <2>1. y \in Busy /\ y.pc = "inserted" /\ y.new = TRUE /\ y.event = x.event
    BY <1>1 DEF Busy
  <2>2. session' = [session EXCEPT ![s] = y]
    BY <1>2, <1>3
  <2> HIDE DEF y
  <2>3. PlaceOK(y, telemetry, gpus)
    BY <1>3, <2>1 DEF PlaceOK
  <2>4. \A o \in Sessions \ {s} : Apart(y, session[o])
    BY <1>h, <2>1 DEF Apart
  <2> QED BY <1>2, <2>1, <2>2, <2>3, <2>4, SessionMoves
<1>4. CASE telemetry[x.event.id] # None
  <2>1. z \in Busy /\ z.pc = "done" /\ z.new = FALSE /\ z.event = x.event
    BY <1>1 DEF Busy
  <2>2. session' = [session EXCEPT ![s] = z]
    BY <1>2, <1>4
  <2> HIDE DEF z
  <2>3. PlaceOK(z, telemetry, gpus)
    BY <1>4, <2>1 DEF PlaceOK
  <2>4. \A o \in Sessions \ {s} : Apart(z, session[o])
    BY <2>1 DEF Apart
  <2> QED BY <1>2, <2>1, <2>2, <2>3, <2>4, SessionMoves
<1> QED BY <1>3, <1>4

LEMMA MergeTyped ==
  ASSUME NEW row \in GpuRow \cup {None}, NEW e \in Events
  PROVE  Merge(row, e) \in GpuRow
<1>1. e.id \in Nat /\ e.at \in Nat /\ e.meta \in {x.meta : x \in Events}
  BY EventTimes
<1>2. CASE row = None
  BY <1>1, <1>2 DEF Merge, GpuRow
<1>3. CASE row # None
  <2>1. /\ row.first \in Nat /\ row.last \in Nat /\ row.lastEvent \in Nat
        /\ row.meta \in {x.meta : x \in Events}
    BY <1>3 DEF GpuRow
  <2> QED BY <1>1, <1>3, <2>1 DEF Merge, GpuRow
<1> QED BY <1>2, <1>3

LEMMA UpsertGPUInv ==
  ASSUME StoreInv, NEW s \in Sessions, UpsertGPU(s)
  PROVE  StoreInv'
<1> DEFINE x == session[s]
           m == Merge(gpus[x.event.gpu], x.event)
           y == [x EXCEPT !.pc = "done", !.row = m]
<1>0. x # Free /\ x.pc = "inserted"
  BY NotFree DEF UpsertGPU
<1>1. x \in Busy /\ x.new = TRUE /\ x.event \in Events /\ telemetry[x.event.id] = None
  BY <1>0, BusySession DEF PlaceOK
<1>2. /\ telemetry' = telemetry /\ gpus' = gpus /\ returned' = returned
      /\ \A o \in Sessions : ~HoldsGPU(o, x.event.gpu)
      /\ session' = [session EXCEPT ![s] = y]
  BY DEF UpsertGPU
<1>3. m \in GpuRow
  <2>1. gpus[x.event.gpu] \in GpuRow \cup {None}
    BY <1>1, EventTimes DEF StoreInv, StoreTypeOK
  <2> QED BY <1>1, <2>1, MergeTyped
<1>h. \A o \in Sessions : session[o] # Free /\ session[o].new = TRUE /\ session[o].pc = "done"
        => session[o].event.gpu # x.event.gpu
  BY <1>2 DEF HoldsGPU
<1>i. \A o \in Sessions \ {s} : session[o] # Free /\ session[o].new = TRUE
        => x.event.id # session[o].event.id
  BY <1>0, <1>1 DEF StoreInv, Apart
<1>4. m = Merge(gpus[x.event.gpu], x.event)
  OBVIOUS
<1> HIDE DEF x, m
<1>5. y \in Busy /\ y.pc = "done" /\ y.new = TRUE /\ y.event = x.event /\ y.row = m
  BY <1>1, <1>3 DEF Busy
<1> HIDE DEF y
<1>6. PlaceOK(y, telemetry, gpus)
  BY <1>1, <1>4, <1>5 DEF PlaceOK
<1>7. \A o \in Sessions \ {s} : Apart(y, session[o])
  BY <1>h, <1>i, <1>5 DEF Apart
<1> QED BY <1>2, <1>5, <1>6, <1>7, SessionMoves

LEMMA GiveUpInv ==
  ASSUME StoreInv, NEW s \in Sessions, GiveUp(s)
  PROVE  StoreInv'
<1> DEFINE x == session[s]
           y == [x EXCEPT !.waiting = FALSE]
<1>0. x # Free
  BY DEF GiveUp
<1>1. x \in Busy /\ PlaceOK(x, telemetry, gpus) /\ \A o \in Sessions \ {s} : Apart(x, session[o])
  BY <1>0, BusySession DEF StoreInv
<1>2. /\ telemetry' = telemetry /\ gpus' = gpus /\ returned' = returned
      /\ session' = [session EXCEPT ![s] = y]
  BY DEF GiveUp
<1> HIDE DEF x
<1>3. y \in Busy /\ y.pc = x.pc /\ y.new = x.new /\ y.event = x.event /\ y.row = x.row
  BY <1>1 DEF Busy
<1> HIDE DEF y
<1>4. PlaceOK(y, telemetry, gpus)
  BY <1>0, <1>1, <1>3 DEF PlaceOK
<1>5. \A o \in Sessions \ {s} : Apart(y, session[o])
  BY <1>0, <1>1, <1>3 DEF Apart
<1> QED BY <1>2, <1>3, <1>4, <1>5, SessionMoves

LEMMA RollbackInv ==
  ASSUME StoreInv, NEW s \in Sessions, Rollback(s)
  PROVE  StoreInv'
<1>1. PlaceOK(Free, telemetry, gpus) /\ \A o \in Sessions \ {s} : Apart(Free, session[o])
  BY DEF PlaceOK, Apart
<1> QED BY <1>1, SessionMoves DEF Rollback


(* COMMIT of an inserted row: its event's ID was free and its metadata row  *)
(* is still the merge of what is committed, because of the locks it holds.  *)
LEMMA CommitInv ==
  ASSUME StoreInv, NEW s \in Sessions, Commit(s)
  PROVE  StoreInv'
<1> DEFINE x == session[s]
           e == x.event
<1>0. x # Free /\ x.pc = "done"
  BY NotFree DEF Commit
<1>1. x \in Busy /\ e \in Events /\ x.new \in BOOLEAN /\ x.waiting \in BOOLEAN
  BY <1>0, BusySession
<1>2. /\ x.new = TRUE => telemetry[e.id] = None /\ x.row = Merge(gpus[e.gpu], e)
      /\ x.new = FALSE => telemetry[e.id] # None
  BY <1>0, BusySession DEF PlaceOK
<1>3. /\ telemetry' = IF x.new THEN [telemetry EXCEPT ![e.id] = e] ELSE telemetry
      /\ gpus' = IF x.new THEN [gpus EXCEPT ![e.gpu] = x.row] ELSE gpus
      /\ returned' = IF x.waiting THEN returned \cup {e} ELSE returned
      /\ session' = [session EXCEPT ![s] = Free]
  BY DEF Commit
<1>4. /\ telemetry \in [IDs -> Events \cup {None}] /\ gpus \in [GPUs -> GpuRow \cup {None}]
      /\ session \in [Sessions -> Busy \cup {Free}] /\ returned \subseteq Events
      /\ Keyed(telemetry) /\ Described(telemetry, gpus)
      /\ \A f \in returned : telemetry[f.id] # None
  BY DEF StoreInv, StoreTypeOK
<1>5. e.id \in IDs /\ e.gpu \in GPUs /\ e # None
  BY <1>1, EventTimes
<1>6. /\ \A o \in Sessions : PlaceOK(session[o], telemetry, gpus)
      /\ \A a, b \in Sessions : a # b => Apart(session[a], session[b])
  BY DEF StoreInv
<1>7. /\ session' \in [Sessions -> Busy \cup {Free}]
      /\ session'[s] = Free /\ \A o \in Sessions \ {s} : session'[o] = session[o]
  BY <1>3, <1>4
<1>8. \A o \in Sessions \ {s} : session[o] # Free => session[o].event \in Events
  BY BusySession
<1>9. \A o \in Sessions \ {s} : session[o] # Free => session[o].new \in BOOLEAN
  BY BusySession
<1>a. \A a, b \in Sessions : a # b => Apart(session'[a], session'[b])
  <2> SUFFICES ASSUME NEW a \in Sessions, NEW b \in Sessions, a # b
               PROVE  Apart(session'[a], session'[b])
    OBVIOUS
  <2>1. CASE a = s \/ b = s
    BY <1>7, <2>1 DEF Apart
  <2>2. CASE a # s /\ b # s
    BY <1>6, <1>7, <2>2
  <2> QED BY <2>1, <2>2
<1>10. CASE x.new = TRUE
  <2> DEFINE T == [telemetry EXCEPT ![e.id] = e]
             G == [gpus EXCEPT ![e.gpu] = Merge(gpus[e.gpu], e)]
  <2>1. telemetry' = T /\ gpus' = G
    BY <1>2, <1>3, <1>10
  <2>2. Merge(gpus[e.gpu], e) \in GpuRow
    BY <1>1, <1>4, <1>5, MergeTyped
  <2>3. Described(T, G)
    BY <1>1, <1>2, <1>4, <1>10, CommitDescribed
  <2>m. /\ \A id \in IDs : T[id] = IF id = e.id THEN e ELSE telemetry[id]
        /\ \A g \in GPUs : g # e.gpu => G[g] = gpus[g]
        /\ T \in [IDs -> Events \cup {None}] /\ G \in [GPUs -> GpuRow \cup {None}]
    <3> HIDE DEF x, e
    <3> QED BY <1>1, <1>4, <1>5, <2>2
  <2> HIDE DEF T, G
  <2>4. Keyed(T)
    <3> HIDE DEF e
    <3> QED BY <1>4, <2>m DEF Keyed
  <2>5. returned' \subseteq Events /\ \A f \in returned' : T[f.id] # None
    <3>1. \A f \in returned' : f \in Events /\ (f \in returned \/ f = e)
      <4> HIDE DEF x, e
      <4> QED BY <1>1, <1>3, <1>4
    <3> HIDE DEF x, e
    <3>2. \A f \in Events : f.id \in IDs
      BY EventTimes
    <3> QED BY <1>1, <1>4, <1>5, <2>m, <3>1, <3>2
  <2>6. \A o \in Sessions : PlaceOK(session'[o], T, G)
    <3> SUFFICES ASSUME NEW o \in Sessions PROVE PlaceOK(session'[o], T, G)
      OBVIOUS
    <3>1. CASE o = s \/ session[o] = Free
      BY <1>7, <3>1 DEF PlaceOK
    <3>2. CASE o # s /\ session[o] # Free
      <4> DEFINE y == session[o]
      <4>1. session'[o] = y /\ PlaceOK(y, telemetry, gpus) /\ y.event \in Events
            /\ y.event.id \in IDs /\ y.event.gpu \in GPUs
        BY <1>6, <1>7, <1>8, <3>2, EventTimes
      <4>2. /\ y.new = TRUE => y.event.id # e.id
            /\ y.new = TRUE /\ y.pc = "done" => y.event.gpu # e.gpu
        BY <1>0, <1>6, <1>10, <3>2 DEF Apart
      <4> HIDE DEF y, x, e
      <4>3. /\ y.new = TRUE => T[y.event.id] = telemetry[y.event.id]
            /\ y.new = TRUE /\ y.pc = "done" => G[y.event.gpu] = gpus[y.event.gpu]
            /\ telemetry[y.event.id] # None => T[y.event.id] # None
        BY <1>5, <2>m, <4>1, <4>2
      <4>4. y # Free
        BY <3>2 DEF y
      <4> QED BY <4>1, <4>3, <4>4 DEF PlaceOK
    <3> QED BY <3>1, <3>2
  <2>7. /\ StoreTypeOK' /\ Keyed(telemetry') /\ Described(telemetry', gpus')
        /\ \A o \in Sessions : PlaceOK(session'[o], telemetry', gpus')
        /\ \A f \in returned' : telemetry'[f.id] # None
    BY <1>7, <2>1, <2>3, <2>m, <2>4, <2>5, <2>6 DEF StoreTypeOK
  <2> QED BY <1>a, <2>7
          DEF StoreInv, Keyed, Described, Describes, IsNewest, RowsOf, PlaceOK, Apart, Merge, Later
<1>11. CASE x.new = FALSE
  <2>1. telemetry' = telemetry /\ gpus' = gpus
    BY <1>3, <1>11
  <2>2. returned' \subseteq Events /\ \A f \in returned' : telemetry[f.id] # None
    <3> HIDE DEF x, e
    <3> QED BY <1>1, <1>2, <1>3, <1>4, <1>11
  <2>3. \A o \in Sessions : PlaceOK(session'[o], telemetry, gpus)
    <3>1. PlaceOK(Free, telemetry, gpus)
      BY DEF PlaceOK
    <3> QED BY <1>6, <1>7, <3>1
  <2>4. /\ StoreTypeOK' /\ Keyed(telemetry') /\ Described(telemetry', gpus')
        /\ \A o \in Sessions : PlaceOK(session'[o], telemetry', gpus')
        /\ \A f \in returned' : telemetry'[f.id] # None
    BY <1>4, <1>7, <2>1, <2>2, <2>3 DEF StoreTypeOK
  <2> QED BY <1>a, <2>4
          DEF StoreInv, Keyed, Described, Describes, IsNewest, RowsOf, PlaceOK, Apart, Merge, Later
<1> QED BY <1>1, <1>10, <1>11

-----------------------------------------------------------------------------
(* The theorems *)

LEMMA InitStoreInv ==
  ASSUME StoreInit
  PROVE  StoreInv
<1>1. StoreTypeOK
  BY DEF StoreInit, StoreTypeOK
<1>2. Keyed(telemetry)
  BY DEF StoreInit, Keyed
<1>3. Described(telemetry, gpus)
  <2> SUFFICES ASSUME NEW g \in GPUs PROVE Describes(gpus[g], RowsOf(telemetry, g))
    BY DEF Described
  <2>1. RowsOf(telemetry, g) = {} /\ gpus[g] = None
    BY DEF StoreInit, RowsOf
  <2> QED BY <2>1 DEF Describes
<1>4. /\ \A s \in Sessions : PlaceOK(session[s], telemetry, gpus)
      /\ \A s, o \in Sessions : s # o => Apart(session[s], session[o])
  BY DEF StoreInit, PlaceOK, Apart
<1>5. \A e \in returned : telemetry[e.id] # None
  BY DEF StoreInit
<1> QED BY <1>1, <1>2, <1>3, <1>4, <1>5 DEF StoreInv

LEMMA NextStoreInv ==
  ASSUME StoreInv, [StoreNext]_storeVars
  PROVE  StoreInv'
<1>1. CASE UNCHANGED storeVars
  <2>1. /\ telemetry' = telemetry /\ gpus' = gpus
        /\ session' = session /\ returned' = returned
    BY <1>1 DEF storeVars
  <2>2. /\ StoreTypeOK' /\ Keyed(telemetry') /\ Described(telemetry', gpus')
        /\ \A s \in Sessions : PlaceOK(session'[s], telemetry', gpus')
        /\ \A s, o \in Sessions : s # o => Apart(session'[s], session'[o])
        /\ \A e \in returned' : telemetry'[e.id] # None
    BY <2>1 DEF StoreInv, StoreTypeOK
  <2> QED BY <2>2
          DEF StoreInv, Keyed, Described, Describes, IsNewest, RowsOf, PlaceOK, Apart, Merge, Later
<1>2. CASE StoreNext
  <2>1. PICK s \in Sessions : StoreStep(s)
    BY <1>2 DEF StoreNext
  <2>2. CASE \E e \in Events : Begin(s, e)
    BY <2>2, BeginInv, Zenon
  <2>3. CASE InsertTelemetry(s)
    BY <2>3, InsertTelemetryInv, Zenon
  <2>4. CASE UpsertGPU(s)
    BY <2>4, UpsertGPUInv, Zenon
  <2>5. CASE Commit(s)
    BY <2>5, CommitInv, Zenon
  <2>6. CASE GiveUp(s)
    BY <2>6, GiveUpInv, Zenon
  <2>7. CASE Rollback(s)
    BY <2>7, RollbackInv, Zenon
  <2> QED BY <2>1, <2>2, <2>3, <2>4, <2>5, <2>6, <2>7, Zenon DEF StoreStep
<1> QED BY <1>1, <1>2

(* However Persist calls interleave, fail, repeat and are given up, the     *)
(* tables agree with each other and each open transaction still holds what  *)
(* its statements read.                                                     *)
THEOREM StoreInvariant == StoreSpec => []StoreInv
<1>1. StoreInit => StoreInv
  BY InitStoreInv
<1>2. StoreInv /\ [StoreNext]_storeVars => StoreInv'
  BY NextStoreInv
<1> QED BY <1>1, <1>2, PTL DEF StoreSpec

(* A Persist call that returned nil left a row under its event's ID, for    *)
(* any events and any number of connections (ReturnedIsStored).             *)
THEOREM ReturnsAreStored == StoreSpec => []ReturnedIsStored
<1>1. StoreInv => ReturnedIsStored
  BY DEF StoreInv, ReturnedIsStored
<1> QED BY <1>1, StoreInvariant, PTL

(* The newest row of a GPU is unique: rows differ in their ID. *)
LEMMA NewestIs ==
  ASSUME NEW T \in [IDs -> Events \cup {None}], Keyed(T), NEW g,
         NEW f, IsNewest(f, RowsOf(T, g))
  PROVE  Newest(RowsOf(T, g)) = f
<1> DEFINE S == RowsOf(T, g)
           P(e) == \A h \in S : h.at < e.at \/ (h.at = e.at /\ h.id <= e.id)
<1>1. \A h \in S : h \in Events /\ T[h.id] = h
  BY DEF RowsOf, Keyed
<1>2. \A h \in S : h.at \in Nat /\ h.id \in Nat
  BY <1>1, EventTimes
<1>3. f \in S /\ P(f)
  BY DEF IsNewest
<1> HIDE DEF S
<1>4. \A e \in S : P(e) => e = f
  BY <1>1, <1>2, <1>3
<1>5. Newest(S) = CHOOSE e \in S : P(e)
  BY DEF Newest
<1> HIDE DEF P
<1> QED BY <1>3, <1>4, <1>5 DEF S

(* The metadata row of every GPU is exactly what its committed telemetry    *)
(* rows say, whatever the order and the concurrency (MetadataExact).        *)
THEOREM MetadataIsExact == StoreSpec => []MetadataExact
<1>1. ASSUME StoreInv PROVE MetadataExact
  <2> SUFFICES ASSUME NEW g \in GPUs
               PROVE  IF Stored(g) = {} THEN gpus[g] = None
                      ELSE /\ gpus[g] # None
                           /\ \A e \in Stored(g) : gpus[g].first <= e.at /\ e.at <= gpus[g].last
                           /\ \E e \in Stored(g) : e.at = gpus[g].first
                           /\ gpus[g].last = Newest(Stored(g)).at
                           /\ gpus[g].lastEvent = Newest(Stored(g)).id
                           /\ gpus[g].meta = Newest(Stored(g)).meta
    BY DEF MetadataExact
  <2> DEFINE S == RowsOf(telemetry, g)
             r == gpus[g]
  <2>1. Stored(g) = S
    BY DEF Stored, RowsOf
  <2>2. Describes(r, S) /\ Keyed(telemetry) /\ telemetry \in [IDs -> Events \cup {None}]
    BY <1>1 DEF StoreInv, StoreTypeOK, Described
  <2>3. \A f : IsNewest(f, S) => Newest(S) = f
    BY <2>2, NewestIs
  <2> HIDE DEF S, r
  <2>4. CASE S = {}
    BY <2>1, <2>2, <2>4 DEF Describes, r
  <2>5. CASE S # {}
    <3>1. /\ r \in GpuRow
          /\ \A f \in S : r.first <= f.at /\ f.at <= r.last
          /\ \E f \in S : f.at = r.first
          /\ \E f \in S : /\ IsNewest(f, S)
                          /\ r.last = f.at /\ r.lastEvent = f.id /\ r.meta = f.meta
      BY <2>2, <2>5 DEF Describes
    <3>2. r # None
      BY <3>1, EventsAssumption
    <3>3. r.last = Newest(S).at /\ r.lastEvent = Newest(S).id /\ r.meta = Newest(S).meta
      BY <2>3, <3>1
    <3> QED BY <2>1, <2>5, <3>1, <3>2, <3>3 DEF r
  <2> QED BY <2>4, <2>5
<1> QED BY <1>1, StoreInvariant, PTL

(* No step changes a committed telemetry row, and metadata changes only     *)
(* together with a new row: a duplicate changes nothing                     *)
(* (DuplicateChangesNothing).                                               *)
THEOREM DuplicatesChangeNothing == StoreSpec => DuplicateChangesNothing
<1> DEFINE A == /\ \A id \in IDs : telemetry[id] # None => telemetry'[id] = telemetry[id]
                /\ gpus' # gpus => telemetry' # telemetry
<1>1. ASSUME StoreInv, [StoreNext]_storeVars PROVE [A]_storeVars
  <2>1. CASE UNCHANGED storeVars
    BY <2>1
  <2>2. CASE StoreNext
    <3>1. PICK s \in Sessions : StoreStep(s)
      BY <2>2 DEF StoreNext
    <3>2. CASE Commit(s)
      <4> DEFINE x == session[s]
                 e == x.event
      <4>0. x # Free /\ x.pc = "done"
        BY <3>2, NotFree DEF Commit
      <4>1. e \in Events /\ x.new \in BOOLEAN
            /\ (x.new = TRUE => telemetry[e.id] = None)
        BY <1>1, <4>0, BusySession DEF PlaceOK
      <4>2. e.id \in IDs /\ e # None /\ telemetry \in [IDs -> Events \cup {None}]
        BY <1>1, <4>1, EventTimes DEF StoreInv, StoreTypeOK
      <4>3. /\ telemetry' = IF x.new THEN [telemetry EXCEPT ![e.id] = e] ELSE telemetry
            /\ gpus' = IF x.new THEN [gpus EXCEPT ![e.gpu] = x.row] ELSE gpus
        BY <3>2 DEF Commit
      <4> HIDE DEF x, e
      <4>4. CASE x.new = TRUE
        <5>1. telemetry'[e.id] = e /\ \A id \in IDs \ {e.id} : telemetry'[id] = telemetry[id]
          BY <4>2, <4>3, <4>4
        <5> QED BY <4>1, <4>2, <4>4, <5>1
      <4>5. CASE x.new = FALSE
        BY <4>3, <4>5
      <4> QED BY <4>1, <4>4, <4>5
    <3>3. CASE telemetry' = telemetry /\ gpus' = gpus
      BY <3>3
    <3> QED BY <3>1, <3>2, <3>3
            DEF StoreStep, Begin, InsertTelemetry, UpsertGPU, GiveUp, Rollback
  <2> QED BY <1>1, <2>1, <2>2
<1> QED BY <1>1, StoreInvariant, PTL DEF StoreSpec, DuplicateChangesNothing
=============================================================================
