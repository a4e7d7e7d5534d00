------------------------------ MODULE QueryAPI ------------------------------
(***************************************************************************)
(* The read-only API process on a database whose schema the migration jobs *)
(* create and whose rows the collectors insert meanwhile: the two reading  *)
(* operations of internal/api with sendArray step by step, the queries of  *)
(* storage/postgres/read.go with one step per statement, and the shutdown  *)
(* sequence of cmd/api.                                                    *)
(*                                                                         *)
(* Time is counted in ticks, Micro of them to the microsecond PostgreSQL   *)
(* stores; request bounds are ticks, rows lie on whole microseconds.       *)
(***************************************************************************)
EXTENDS Migrations, Integers, FiniteSets, SequencesExt

CONSTANTS
  Handlers,           \* requests served at the same time
  Rows,               \* [id, gpu, at]: what collectors may insert
  Queries,            \* [gpu, start, end]; gpu = AllGPUs asks for the list
  AllGPUs, NoBound,
  Micro,
  MaxConcurrent,
  MaxResponseBytes,
  RowBytes            \* one encoded element

ASSUME QueryAssumption ==
  /\ IsFiniteSet(Handlers)
  /\ Rows \subseteq [id : Int, gpu : Int, at : Int]
  /\ \A r, s \in Rows : r.id = s.id => r = s      \* event_id is the primary key
  /\ NoBound \notin Int
  /\ Queries \subseteq [gpu : Int, start : Int \cup {NoBound}, end : Int \cup {NoBound}]
  /\ Micro \in Nat \ {0}
  /\ MaxConcurrent \in Nat \ {0}
  /\ MaxResponseBytes \in Nat /\ MaxResponseBytes >= 2
  /\ RowBytes \in Nat \ {0}

VARIABLES
  table,     \* committed telemetry rows; a GPU has its metadata row with the first
  handler,   \* each handler's place in sendArray and what it has prepared
  slots,     \* values in the slots channel
  files,     \* handlers whose temporary file exists
  server     \* the goroutine of cmd/api run()

apiVars == <<table, handler, slots, files, server>>
allVars == <<migrationVars, apiVars>>

Idle == [pc |-> "idle", query |-> NoBound, view |-> {}, items |-> <<>>, n |-> 0]

(* Outcomes a client can see; an aborted transfer is short of its          *)
(* Content-Length.                                                         *)
Outcomes == {"200", "400", "404", "503", "aborted"}

Working(h) == handler[h].pc \notin Outcomes \cup {"idle", "killed"}
Goto(h, p) == handler' = [handler EXCEPT ![h].pc = p]

(* What the client has; only a complete body is worth remembering. *)
Answer(h, outcome) == [(IF outcome = "200" THEN handler[h] ELSE Idle) EXCEPT !.pc = outcome]

(* Mutant: the slot is only given back after a success. *)
Leave_KeepsSlot(h, outcome) ==
  /\ handler' = [handler EXCEPT ![h] = Answer(h, outcome)]
  /\ slots' = IF outcome \in {"200", "404"} THEN slots - 1 ELSE slots
  /\ files' = files \ {h}

(* sendArray returns or panics: the deferred calls remove the file and     *)
(* free the slot.                                                          *)
Leave(h, outcome) ==
  /\ handler' = [handler EXCEPT ![h] = Answer(h, outcome)]
  /\ slots' = slots - 1
  /\ files' = files \ {h}

-----------------------------------------------------------------------------
(* Collectors: Store.Persist of one event *)
InsertRow(r) ==
  /\ schema # NoChecksum
  /\ r \notin table
  /\ table' = table \cup {r}
  /\ UNCHANGED <<migrationVars, handler, slots, files, server>>

(* parseRange: an explicit range may not be reversed. *)
ValidRange(q) == NoBound \notin {q.start, q.end} => q.start <= q.end

(* lifetime.Err() == nil: no signal came. *)
Lifetime == server \in {"serving", "failed"}

(* A request is routed, its query parsed, the process's lifetime looked at *)
(* and a slot asked for.  Connections outlive the listener for a while.    *)
Arrive(h, q) ==
  /\ server \in {"serving", "signalled", "draining", "failed"}
  /\ ~Working(h)
  /\ \/ /\ ValidRange(q) /\ Lifetime /\ slots < MaxConcurrent
        /\ handler' = [handler EXCEPT ![h] = [Idle EXCEPT !.pc = "admitted", !.query = q]]
        /\ slots' = slots + 1
     \/ /\ ~ValidRange(q)
        /\ handler' = [handler EXCEPT ![h] = Answer(h, "400")]
        /\ UNCHANGED slots
     \/ /\ ValidRange(q) /\ (~Lifetime \/ slots = MaxConcurrent)
        /\ handler' = [handler EXCEPT ![h] = Answer(h, "503")]
        /\ UNCHANGED slots
  /\ UNCHANGED <<migrationVars, table, files, server>>

(* os.CreateTemp, and the opening bracket, which always fits. *)
CreateTemp(h) ==
  /\ handler[h].pc = "admitted"
  /\ files' = files \cup {h}
  /\ Goto(h, IF handler[h].query.gpu = AllGPUs THEN "select" ELSE "exists")
  /\ UNCHANGED <<migrationVars, table, slots, server>>

-----------------------------------------------------------------------------
(* VisitTelemetry and VisitGPUs.  A statement on missing tables fails.     *)

Known(rows) == {r.gpu : r \in rows}

(* SELECT EXISTS(... FROM gpus ...) *)
LookUpGPU(h) ==
  /\ handler[h].pc = "exists"
  /\ schema # NoChecksum
  /\ IF handler[h].query.gpu \in Known(table)
     THEN Goto(h, "select") /\ UNCHANGED <<slots, files>>
     ELSE Leave(h, "404")
  /\ UNCHANGED <<migrationVars, table, server>>

(* Truncate(time.Microsecond) *)
Truncate(t) == t \div Micro

(* Mutant: the lower bound is truncated like the upper one. *)
LowerBound_Truncated(t) == Truncate(t)

LowerBound(t) == IF Truncate(t) * Micro < t THEN Truncate(t) + 1 ELSE Truncate(t)

Selected(rows, q) ==
  {r \in rows : /\ r.gpu = q.gpu
                /\ q.start = NoBound \/ r.at >= LowerBound(q.start)
                /\ q.end = NoBound \/ r.at <= Truncate(q.end)}

(* ORDER BY processed_at, event_id; the list by uuid. *)
Earlier(r, s) == r.at < s.at \/ (r.at = s.at /\ r.id < s.id)

Result(rows, q) ==
  IF q.gpu = AllGPUs
  THEN CHOOSE s \in SetToSeqs(Known(rows)) : \A i, j \in DOMAIN s : i < j => s[i] < s[j]
  ELSE CHOOSE s \in SetToSeqs(Selected(rows, q)) :
         \A i, j \in DOMAIN s : i < j => Earlier(s[i], s[j])

(* The SELECT statement, on the rows committed by now. *)
Select(h) ==
  /\ handler[h].pc = "select"
  /\ schema # NoChecksum
  /\ handler' = [handler EXCEPT ![h].pc = "rows", ![h].view = table,
                                ![h].items = Result(table, handler[h].query)]
  /\ UNCHANGED <<migrationVars, table, slots, files, server>>

(* What limitedWriter has let through with n elements encoded. *)
Written(n) == 1 + n * RowBytes + (IF n = 0 THEN 0 ELSE n - 1)

(* One row is scanned, separated, encoded and fits the budget. *)
EmitRow(h) ==
  /\ handler[h].pc = "rows"
  /\ handler[h].n < Len(handler[h].items)
  /\ Written(handler[h].n + 1) <= MaxResponseBytes
  /\ handler' = [handler EXCEPT ![h].n = @ + 1]
  /\ UNCHANGED <<migrationVars, table, slots, files, server>>

(* No row is left, the budget has room for the closing bracket, the file   *)
(* is flushed and rewound, and the 200 goes out with its length.           *)
Complete(h) ==
  /\ handler[h].pc = "rows"
  /\ handler[h].n = Len(handler[h].items)
  /\ Written(handler[h].n) + 1 <= MaxResponseBytes
  /\ handler' = [handler EXCEPT ![h].pc = "transfer", ![h].n = 0]
  /\ UNCHANGED <<migrationVars, table, slots, files, server>>

(* The temporary file, a statement, a row or the flush fails, the query    *)
(* timeout passes, the client hangs up, or the next write is over budget.  *)
Unprepared(h) ==
  /\ handler[h].pc \in {"admitted", "exists", "select", "rows"}
  /\ Leave(h, "503")
  /\ UNCHANGED <<migrationVars, table, server>>

(* io.CopyBuffer: some of the body at a time. *)
Transfer(h) ==
  /\ handler[h].pc = "transfer"
  /\ IF handler[h].n < Len(handler[h].items)
     THEN /\ handler' = [handler EXCEPT ![h].n = @ + 1]
          /\ UNCHANGED <<slots, files>>
     ELSE Leave(h, "200")
  /\ UNCHANGED <<migrationVars, table, server>>

(* The client, the socket deadline or the file ends the transfer early:    *)
(* panic(http.ErrAbortHandler).                                            *)
Abort(h) ==
  /\ handler[h].pc = "transfer"
  /\ Leave(h, "aborted")
  /\ UNCHANGED <<migrationVars, table, server>>

-----------------------------------------------------------------------------
(* cmd/api run() *)

ServerTo(from, to) ==
  /\ server \in from
  /\ server' = to
  /\ UNCHANGED <<migrationVars, table, handler, slots, files>>

(* SIGTERM ends the lifetime context; Shutdown closes the listener.        *)
Signal == ServerTo({"serving"}, "signalled")
Shutdown == ServerTo({"signalled"}, "draining")

(* Shutdown returns when every handler has, or at ShutdownTimeout, and     *)
(* then the request contexts are cancelled and connections closed.  Serve  *)
(* may also fail by itself.                                                *)
Drained == (\A h \in Handlers : ~Working(h)) /\ ServerTo({"draining"}, "drained")
DrainTimeout == ServerTo({"draining"}, "cancelled")
ServeFails == ServerTo({"serving"}, "failed")

(* A pool connection is held from a statement to its last row; between     *)
(* QueryRow and Query none is.                                             *)
HoldsConnection(h) == handler[h].pc = "rows"

(* db.Close waits for the pool's connections; then the process ends and    *)
(* takes handlers that are still busy with it.                             *)
Exit ==
  /\ server \in {"drained", "cancelled", "failed"}
  /\ \A h \in Handlers : ~HoldsConnection(h)
  /\ server' = "exited"
  /\ handler' = [h \in Handlers |-> IF Working(h) THEN Answer(h, "killed") ELSE handler[h]]
  /\ slots' = 0
  /\ UNCHANGED <<migrationVars, table, files>>

Stopped == server = "exited" /\ UNCHANGED allVars

QueryInit ==
  /\ MigrationInit
  /\ table = {}
  /\ handler = [h \in Handlers |-> Idle]
  /\ slots = 0 /\ files = {}
  /\ server = "serving"

HandlerStep(h) ==
  \/ \E q \in Queries : Arrive(h, q)
  \/ CreateTemp(h) \/ LookUpGPU(h) \/ Select(h) \/ EmitRow(h) \/ Complete(h)
  \/ Unprepared(h) \/ Transfer(h) \/ Abort(h)

ServerStep == Signal \/ Shutdown \/ Drained \/ DrainTimeout \/ ServeFails \/ Exit \/ Stopped

QueryNext ==
  \/ \E r \in Runners : MigrationStep(r) /\ UNCHANGED apiVars
  \/ \E r \in Rows : InsertRow(r)
  \/ \E h \in Handlers : HandlerStep(h)
  \/ ServerStep

QuerySpec == QueryInit /\ [][QueryNext]_allVars

-----------------------------------------------------------------------------
(* The request's range in exact time, without rounding. *)
InRange(r, q) ==
  /\ r.gpu = q.gpu
  /\ q.start # NoBound => q.start <= r.at * Micro
  /\ q.end # NoBound => r.at * Micro <= q.end

(* A complete 200 is the whole truth: exactly the rows of the GPU whose    *)
(* time lies in the requested range, to the tick, each once and in order,  *)
(* as committed at one moment, within the disk budget, whatever collectors *)
(* inserted and whatever failed meanwhile; the list names exactly the GPUs *)
(* that had rows, in order.                                                *)
AnswerExact ==
  \A h \in Handlers : handler[h].pc = "200" =>
    LET a == handler[h] IN
    /\ a.view \subseteq table
    /\ IF a.query.gpu = AllGPUs
       THEN /\ ToSet(a.items) = {r.gpu : r \in a.view}
            /\ \A i, j \in 1 .. Len(a.items) : i < j => a.items[i] < a.items[j]
       ELSE /\ ToSet(a.items) = {r \in a.view : InRange(r, a.query)}
            /\ \A i, j \in 1 .. Len(a.items) : i < j => Earlier(a.items[i], a.items[j])
    /\ a.n = Len(a.items) /\ Len(a.items) = Cardinality(ToSet(a.items))
    /\ Written(Len(a.items)) + 1 <= MaxResponseBytes

(* No path leaks: the slots channel holds one value per request being      *)
(* served and temporary files belong to those requests, so only handlers   *)
(* killed by the end of the process can leave one behind, and none do      *)
(* after a graceful drain.                                                 *)
NothingLeaked ==
  /\ slots = Cardinality({h \in Handlers : Working(h)})
  /\ files \subseteq {h \in Handlers : Working(h) \/ handler[h].pc = "killed"}
  /\ server = "drained" => files = {}

=============================================================================
