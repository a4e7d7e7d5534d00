--------------------------- MODULE TelemetryStore ---------------------------
(***************************************************************************)
(* internal/storage/postgres.Store.Persist, one step per SQL statement, as *)
(* concurrent sessions execute it on the shared PostgreSQL.                *)
(*                                                                         *)
(* The database runs at READ COMMITTED.  An INSERT that meets an           *)
(* uncommitted row with the same key waits for that transaction; then ON   *)
(* CONFLICT sees the committed row, or none after a rollback.  ON CONFLICT *)
(* DO UPDATE works on the latest committed version and keeps its row       *)
(* locked until the transaction ends.                                      *)
(***************************************************************************)
EXTENDS Integers, FiniteSets

CONSTANTS
  Events,      \* [id, gpu, at, meta, value]: what collectors may be asked to persist
  Sessions,    \* database connections
  None

VARIABLES
  telemetry,   \* committed rows by event ID
  gpus,        \* committed metadata rows by GPU
  session,     \* what each connection is doing
  returned     \* events for which some Persist call returned nil

storeVars == <<telemetry, gpus, session, returned>>

IDs == {e.id : e \in Events}
GPUs == {e.gpu : e \in Events}

GpuRow == [first : Nat, last : Nat, lastEvent : Nat, meta : {e.meta : e \in Events}]

ASSUME EventsAssumption ==
  /\ \A e \in Events : /\ DOMAIN e = {"id", "gpu", "at", "meta", "value"}
                       /\ e.id \in Nat /\ e.at \in Nat
  /\ None \notin Events /\ None \notin GpuRow

Free == [pc |-> "free"]

(* inserted: the telemetry INSERT affected one row; waiting: the caller has *)
(* not given up on its context.                                             *)
Busy == [pc : {"begun", "inserted", "done"}, event : Events, new : BOOLEAN,
         row : GpuRow \cup {None}, waiting : BOOLEAN]

StoreTypeOK ==
  /\ telemetry \in [IDs -> Events \cup {None}]
  /\ gpus \in [GPUs -> GpuRow \cup {None}]
  /\ session \in [Sessions -> Busy \cup {Free}]
  /\ returned \subseteq Events

(* Locks follow from the statements a transaction has executed. *)
HoldsID(s, id) == session[s].pc \in {"inserted", "done"} /\ session[s].new /\ session[s].event.id = id
HoldsGPU(s, g) == session[s].pc = "done" /\ session[s].new /\ session[s].event.gpu = g

-----------------------------------------------------------------------------
(* Pool.Begin *)
Begin(s, e) ==
  /\ session[s] = Free
  /\ session' = [session EXCEPT ![s] =
       [pc |-> "begun", event |-> e, new |-> FALSE, row |-> None, waiting |-> TRUE]]
  /\ UNCHANGED <<telemetry, gpus, returned>>

(* Mutants: a stored identity is waited for; a row that is not committed    *)
(* yet counts as a duplicate.                                               *)
InsertTelemetry_Waits(s) ==
  /\ session[s].pc = "begun"
  /\ session[s].waiting
  /\ \A o \in Sessions : ~HoldsID(o, session[s].event.id)
  /\ telemetry[session[s].event.id] = None
  /\ session' = [session EXCEPT ![s].pc = "inserted", ![s].new = TRUE]
  /\ UNCHANGED <<telemetry, gpus, returned>>

InsertTelemetry_NoWait(s) ==
  /\ session[s].pc = "begun"
  /\ session[s].waiting
  /\ session' = IF /\ telemetry[session[s].event.id] = None
                   /\ \A o \in Sessions : ~HoldsID(o, session[s].event.id)
                THEN [session EXCEPT ![s].pc = "inserted", ![s].new = TRUE]
                ELSE [session EXCEPT ![s].pc = "done"]
  /\ UNCHANGED <<telemetry, gpus, returned>>

(* INSERT INTO telemetry ... ON CONFLICT(event_id) DO NOTHING.  A conflict  *)
(* affects no row and the metadata statement is skipped.                    *)
InsertTelemetry(s) ==
  /\ session[s].pc = "begun"
  /\ session[s].waiting
  /\ \A o \in Sessions : ~HoldsID(o, session[s].event.id)
  /\ session' = IF telemetry[session[s].event.id] = None
                THEN [session EXCEPT ![s].pc = "inserted", ![s].new = TRUE]
                ELSE [session EXCEPT ![s].pc = "done"]
  /\ UNCHANGED <<telemetry, gpus, returned>>

(* Mutant: equal times are not told apart by event ID. *)
Later_ByTime(e, row) == e.at > row.last

(* (at, id) of the new event beats the row's, compared as SQL row values. *)
Later(e, row) == e.at > row.last \/ (e.at = row.last /\ e.id > row.lastEvent)

Merge(row, e) ==
  IF row = None
  THEN [first |-> e.at, last |-> e.at, lastEvent |-> e.id, meta |-> e.meta]
  ELSE [first     |-> IF e.at < row.first THEN e.at ELSE row.first,
        last      |-> IF e.at > row.last THEN e.at ELSE row.last,
        lastEvent |-> IF Later(e, row) THEN e.id ELSE row.lastEvent,
        meta      |-> IF Later(e, row) THEN e.meta ELSE row.meta]

(* INSERT INTO gpus ... ON CONFLICT(uuid) DO UPDATE *)
UpsertGPU(s) ==
  /\ session[s].pc = "inserted"
  /\ session[s].waiting
  /\ \A o \in Sessions : ~HoldsGPU(o, session[s].event.gpu)
  /\ session' = [session EXCEPT ![s].pc = "done",
                   ![s].row = Merge(gpus[session[s].event.gpu], session[s].event)]
  /\ UNCHANGED <<telemetry, gpus, returned>>

(* Mutant: a duplicate replaces the value. *)
Commit_Overwrites(s) ==
  LET e == session[s].event IN
  /\ session[s].pc = "done"
  /\ telemetry' = [telemetry EXCEPT ![e.id] = IF @ = None THEN e ELSE [@ EXCEPT !.value = e.value]]
  /\ gpus' = IF session[s].new THEN [gpus EXCEPT ![e.gpu] = session[s].row] ELSE gpus
  /\ returned' = IF session[s].waiting THEN returned \cup {e} ELSE returned
  /\ session' = [session EXCEPT ![s] = Free]

(* COMMIT.  A caller whose context ended gets an error although the rows    *)
(* are in; only a caller still waiting learns of the success.               *)
Commit(s) ==
  LET e == session[s].event IN
  /\ session[s].pc = "done"
  /\ telemetry' = IF session[s].new THEN [telemetry EXCEPT ![e.id] = e] ELSE telemetry
  /\ gpus' = IF session[s].new THEN [gpus EXCEPT ![e.gpu] = session[s].row] ELSE gpus
  /\ returned' = IF session[s].waiting THEN returned \cup {e} ELSE returned
  /\ session' = [session EXCEPT ![s] = Free]

(* The caller's deadline passes or its connection breaks. *)
GiveUp(s) ==
  /\ session[s] # Free
  /\ session[s].waiting
  /\ session' = [session EXCEPT ![s].waiting = FALSE]
  /\ UNCHANGED <<telemetry, gpus, returned>>

(* Any statement may fail, the deferred Rollback runs, or the server drops  *)
(* the transaction of a vanished client.                                    *)
Rollback(s) ==
  /\ session[s] # Free
  /\ session' = [session EXCEPT ![s] = Free]
  /\ UNCHANGED <<telemetry, gpus, returned>>

StoreInit ==
  /\ telemetry = [id \in IDs |-> None]
  /\ gpus = [g \in GPUs |-> None]
  /\ session = [s \in Sessions |-> Free]
  /\ returned = {}

StoreStep(s) ==
  \/ \E e \in Events : Begin(s, e)
  \/ InsertTelemetry(s)
  \/ UpsertGPU(s)
  \/ Commit(s)
  \/ GiveUp(s)
  \/ Rollback(s)

StoreNext == \E s \in Sessions : StoreStep(s)

StoreSpec == StoreInit /\ [][StoreNext]_storeVars

(* PostgreSQL grants a freed lock to the longest waiter, executes what was  *)
(* sent, and ends the transactions of vanished clients.                     *)
StoreFairness ==
  \A s \in Sessions :
    /\ SF_storeVars(InsertTelemetry(s))
    /\ SF_storeVars(UpsertGPU(s))
    /\ WF_storeVars(Commit(s))
    /\ WF_storeVars(session[s] # Free /\ ~session[s].waiting /\ Rollback(s))

LiveStoreSpec == StoreSpec /\ StoreFairness

-----------------------------------------------------------------------------
Stored(g) == {telemetry[id] : id \in {i \in IDs : telemetry[i] # None /\ telemetry[i].gpu = g}}

Newest(rows) ==
  CHOOSE e \in rows : \A f \in rows : f.at < e.at \/ (f.at = e.at /\ f.id <= e.id)

(* The metadata row of a GPU is exactly what its committed telemetry rows   *)
(* say, in whatever order, how often and how concurrently they arrived:     *)
(* observation bounds over all rows, names from the newest (at, id).        *)
MetadataExact ==
  \A g \in GPUs :
    IF Stored(g) = {} THEN gpus[g] = None
    ELSE /\ gpus[g] # None
         /\ \A e \in Stored(g) : gpus[g].first <= e.at /\ e.at <= gpus[g].last
         /\ \E e \in Stored(g) : e.at = gpus[g].first
         /\ gpus[g].last = Newest(Stored(g)).at
         /\ gpus[g].lastEvent = Newest(Stored(g)).id
         /\ gpus[g].meta = Newest(Stored(g)).meta

(* A Persist call that returned nil left a committed row under its event's  *)
(* ID, so the ACK that follows is safe.                                     *)
ReturnedIsStored == \A e \in returned : telemetry[e.id] # None

(* Event identity is authoritative: a committed row and, through a          *)
(* duplicate, the metadata never change (docs/DAY3_COLLECTOR.md).           *)
DuplicateChangesNothing ==
  [][/\ \A id \in IDs : telemetry[id] # None => telemetry'[id] = telemetry[id]
     /\ gpus' # gpus => telemetry' # telemetry]_storeVars

(* Every Persist call ends, with a commit or an error, while others keep    *)
(* hitting the same events and GPUs: sessions never wait for one another in *)
(* a circle, because the event ID is locked before the GPU row and nothing  *)
(* after it, and a caller that gives up frees its locks.                    *)
PersistEnds == \A s \in Sessions : session[s] # Free ~> session[s] = Free

=============================================================================
