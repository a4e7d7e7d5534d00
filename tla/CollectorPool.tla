--------------------------- MODULE CollectorPool ----------------------------
(***************************************************************************)
(* One collector process: the worker loops of collector.Run with their two *)
(* contexts, the drain watcher, the failure channel, and the signal or     *)
(* server failure that ends cmd/collector.  What a worker does with a      *)
(* delivery is in Pipeline; here a Process call is one long step that may  *)
(* hang in the broker or the database until its context ends.              *)
(***************************************************************************)
CONSTANT Workers

(* ParseCollector refuses fewer than one worker. *)
ASSUME PoolAssumption == Workers # {}

VARIABLES
  loop,       \* each worker's place in Run's loop
  fetch,      \* the fetch context is alive
  stops,      \* what stopped the process from outside Run
  draining,   \* the processing context is alive
  failures,   \* workers whose fatal error is in the failures channel
  returned,   \* what Run returned, or "no"
  exit        \* the process's exit status, or "no"

poolVars == <<loop, fetch, stops, draining, failures, returned, exit>>

Places == {"top", "leasing", "failing", "got", "working", "pause", "exited", "failed"}

(* The worker moves on and touches nothing that is shared. *)
Moves(w, from, to) ==
  /\ loop[w] = from
  /\ loop' = [loop EXCEPT ![w] = to]
  /\ UNCHANGED <<fetch, stops, draining, failures, returned, exit>>

(* The for condition. *)
Top(w) == Moves(w, "top", IF fetch THEN "leasing" ELSE "exited")

(* LeaseForProcessing returns with a delivery; it may do so while the fetch *)
(* context ends.                                                            *)
LeaseDelivers(w) == Moves(w, "leasing", "got")

(* It returns empty-handed, or with an error that is worth a retry. *)
LeaseEmpty(w) == fetch /\ Moves(w, "leasing", "pause")

(* An error with the fetch context done ends the worker. *)
LeaseCancelled(w) == ~fetch /\ Moves(w, "leasing", "exited")

(* An error no retry can cure, met while fetching is on. *)
LeaseFails(w) == fetch /\ Moves(w, "leasing", "failing")

(* Mutant: an error is dropped when something else stopped the pool. *)
Fail_FirstOnly(w) ==
  /\ loop[w] = "failing"
  /\ failures' = IF fetch THEN failures \cup {w} ELSE failures
  /\ fetch' = FALSE
  /\ loop' = [loop EXCEPT ![w] = "failed"]
  /\ UNCHANGED <<stops, draining, returned, exit>>

(* Mutant: the failing worker does not stop the others. *)
Fail_Alone(w) ==
  /\ loop[w] = "failing"
  /\ failures' = failures \cup {w}
  /\ loop' = [loop EXCEPT ![w] = "failed"]
  /\ UNCHANGED <<fetch, stops, draining, returned, exit>>

(* It is left in the channel, which has room for every worker's, and stops *)
(* the whole pool.  A signal or another worker may have done so by now.    *)
Fail(w) ==
  /\ loop[w] = "failing"
  /\ failures' = failures \cup {w}
  /\ fetch' = FALSE
  /\ loop' = [loop EXCEPT ![w] = "failed"]
  /\ UNCHANGED <<stops, draining, returned, exit>>

(* A lease that came in during a stop is left for expiry. *)
Checked(w) == Moves(w, "got", IF fetch THEN "working" ELSE "exited")

(* Process returns: its calls answered, or its own deadline passed. *)
ProcessReturns(w) == \E to \in {"top", "pause"} : Moves(w, "working", to)

(* The drain budget is spent: every call Process makes ends. *)
ProcessCut(w) == ~draining /\ Moves(w, "working", "pause")

(* pause(fetch, ...): the timer, or the end of fetching. *)
PauseEnds(w) == Moves(w, "pause", IF fetch THEN "top" ELSE "exited")

(* SIGTERM, or the health server failed and called stop. *)
Stop(cause) ==
  /\ cause \notin stops /\ exit = "no"
  /\ stops' = stops \cup {cause} /\ fetch' = FALSE
  /\ UNCHANGED <<loop, draining, failures, returned, exit>>

(* The watcher's timer, started when fetching ends, fires. *)
DrainTimeout ==
  /\ ~fetch /\ draining /\ returned = "no"
  /\ draining' = FALSE
  /\ UNCHANGED <<loop, fetch, stops, failures, returned, exit>>

(* wg.Wait, then the errors of all workers joined; the deferred cancels. *)
RunReturn ==
  /\ returned = "no"
  /\ \A w \in Workers : loop[w] \in {"exited", "failed"}
  /\ returned' = IF failures = {} THEN "nil" ELSE "error"
  /\ draining' = FALSE /\ fetch' = FALSE
  /\ UNCHANGED <<loop, stops, failures, exit>>

(* The health server is shut down within a second; its own failure and the *)
(* shutdown's are joined to Run's error.                                   *)
Exit ==
  /\ returned # "no" /\ exit = "no"
  /\ \E closed \in BOOLEAN :
       exit' = IF returned = "nil" /\ "server" \notin stops /\ closed THEN "ok" ELSE "failed"
  /\ UNCHANGED <<loop, fetch, stops, draining, failures, returned>>

PoolInit ==
  /\ loop = [w \in Workers |-> "top"]
  /\ fetch = TRUE /\ stops = {} /\ draining = TRUE
  /\ failures = {} /\ returned = "no" /\ exit = "no"

PoolWorker(w) ==
  \/ Top(w)
  \/ LeaseDelivers(w) \/ LeaseEmpty(w) \/ LeaseCancelled(w) \/ LeaseFails(w)
  \/ Fail(w)
  \/ Checked(w)
  \/ ProcessReturns(w) \/ ProcessCut(w)
  \/ PauseEnds(w)

PoolNext ==
  \/ \E w \in Workers : PoolWorker(w)
  \/ \E cause \in {"signal", "server"} : Stop(cause)
  \/ DrainTimeout
  \/ RunReturn
  \/ Exit

PoolSpec == PoolInit /\ [][PoolNext]_poolVars

(* Goroutines and timers run, and a call whose context ended returns.      *)
(* Nothing is assumed of a call whose context is alive: it may hang.       *)
LivePoolSpec ==
  /\ PoolSpec
  /\ \A w \in Workers :
       /\ WF_poolVars(Top(w)) /\ WF_poolVars(LeaseCancelled(w)) /\ WF_poolVars(Fail(w))
       /\ WF_poolVars(Checked(w)) /\ WF_poolVars(ProcessCut(w)) /\ WF_poolVars(PauseEnds(w))
  /\ WF_poolVars(DrainTimeout) /\ WF_poolVars(RunReturn) /\ WF_poolVars(Exit)

-----------------------------------------------------------------------------
PoolTypeOK ==
  /\ loop \in [Workers -> Places]
  /\ fetch \in BOOLEAN /\ draining \in BOOLEAN
  /\ stops \subseteq {"signal", "server"} /\ failures \subseteq Workers
  /\ returned \in {"no", "nil", "error"} /\ exit \in {"no", "ok", "failed"}

(* After a signal, a health server failure or one worker's fatal error the *)
(* collector exits: idle, sleeping and polling workers leave, and workers  *)
(* whose broker or database does not answer are cut off by the drain       *)
(* timeout.                                                                *)
CollectorExits ==
  (stops # {} \/ \E w \in Workers : loop[w] = "failing") ~> exit # "no"

(* The collector exits cleanly only when a signal asked it to and nothing  *)
(* failed: no worker's fatal error is lost, also when several fail at once *)
(* or race the signal.                                                     *)
FailureReported ==
  exit = "ok" => stops = {"signal"} /\ \A w \in Workers : loop[w] # "failed"

=============================================================================
