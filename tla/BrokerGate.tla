----------------------------- MODULE BrokerGate -----------------------------
(***************************************************************************)
(* The goroutines of the durable broker process: HTTP handlers admitted by *)
(* the two semaphores of DurableHandler, the long poll of Durable.Lease,   *)
(* the cleanup worker, and the shutdown sequence of cmd/queue/main.go, all *)
(* meeting at Durable.enter.  What a transaction does to the buckets is    *)
(* DurableQueue; here it only makes events due or takes one.               *)
(***************************************************************************)
EXTENDS Naturals, FiniteSets

CONSTANTS
  Handlers,       \* requests in flight at the same time, admitted or not
  Slots, Polls,   \* capacities of the slots and polls channels (64 and 32)
  cleaner,        \* the ticker goroutine of OpenDurable
  main,           \* the goroutine of cmd/queue run()
  Nobody,
  MaxDue          \* bound on due events

ASSUME GateAssumption ==
  /\ IsFiniteSet(Handlers)
  /\ Slots \in Nat /\ Polls \in Nat /\ MaxDue \in Nat \ {0}
  /\ cleaner \notin Handlers /\ main \notin Handlers /\ Nobody \notin Handlers
  /\ cleaner # main /\ cleaner # Nobody /\ main # Nobody

VARIABLES
  pc,         \* control point of each goroutine
  section,    \* which transaction of its call a goroutine is at
  cancelled,  \* handlers whose request context is done
  gate,       \* the goroutine whose value is in the gate channel
  stopped,    \* the stopped channel is closed
  closed,     \* db.Close was called
  accepting,  \* the server still takes requests
  notify,     \* the notify channel holds a value
  slots, polls,
  due         \* events a lease could be given for

gateVars == <<pc, section, cancelled, gate, stopped, closed, accepting,
              notify, slots, polls, due>>

Users == Handlers \cup {cleaner}

GateTypeOK ==
  /\ pc \in [Users \cup {main} -> {"idle", "decode", "enter", "check", "inside", "sleep", "exited",
                                   "serving", "stopping", "draining", "joining", "closing"}]
  /\ section \in [Users -> {"write", "probe", "take", "none"}]
  /\ cancelled \subseteq Handlers
  /\ gate \in Users \cup {main, Nobody}
  /\ {stopped, closed, accepting, notify} \subseteq BOOLEAN
  /\ slots \in Nat /\ polls \in Nat
  /\ due \in 0 .. MaxDue

(* Goroutine u goes to control point p of transaction s. *)
Goto(u, p, s) ==
  /\ pc' = [pc EXCEPT ![u] = p]
  /\ section' = [section EXCEPT ![u] = s]

IsPoll(u) == section[u] \in {"probe", "take"}

PollSlots(u) == IF u # cleaner /\ IsPoll(u) THEN 1 ELSE 0

(* The call returns.  A handler gives its slot back, a poll also its poll   *)
(* slot; the cleanup worker waits for its next tick.                        *)
Leave(u) ==
  /\ Goto(u, "idle", "none")
  /\ slots' = IF u = cleaner THEN slots ELSE slots - 1
  /\ polls' = polls - PollSlots(u)
  /\ cancelled' = cancelled \ {u}

Stay == UNCHANGED <<slots, polls, cancelled>>

-----------------------------------------------------------------------------
(* Admission: a request that finds a channel full is answered 503. *)
Arrive(h, s) ==
  /\ accepting
  /\ pc[h] = "idle"
  /\ slots < Slots
  /\ s = "probe" => polls < Polls
  /\ Goto(h, "decode", s)
  /\ slots' = slots + 1
  /\ polls' = IF s = "probe" THEN polls + 1 ELSE polls
  /\ UNCHANGED <<cancelled, gate, stopped, closed, accepting, notify, due>>

(* The body is decoded and the request checked; a bad one is answered 400,  *)
(* with its slots in hand.                                                  *)
Decode(h) ==
  /\ pc[h] = "decode"
  /\ \/ Goto(h, "enter", section[h]) /\ Stay
     \/ Leave(h)
  /\ UNCHANGED <<gate, stopped, closed, accepting, notify, due>>

(* The client hangs up while its request is served. *)
Disconnect(h) ==
  /\ pc[h] # "idle"
  /\ cancelled' = cancelled \cup {h}
  /\ UNCHANGED <<pc, section, gate, stopped, closed, accepting, notify, slots, polls, due>>

Refused(u) == stopped \/ u \in cancelled

-----------------------------------------------------------------------------
(* Durable.enter: select over the context, stopped and the gate, then the  *)
(* same question again with the gate held.                                 *)

TakeGate(u) ==
  /\ pc[u] = "enter" /\ gate = Nobody
  /\ gate' = u
  /\ Goto(u, "check", section[u])
  /\ Stay
  /\ UNCHANGED <<stopped, closed, accepting, notify, due>>

EnterRefused(u) ==
  /\ pc[u] = "enter" /\ Refused(u)
  /\ Leave(u)
  /\ UNCHANGED <<gate, stopped, closed, accepting, notify, due>>

(* Mutants: no second look at stopped; a refused caller keeps the gate. *)
CheckAgain_No(u) ==
  /\ pc[u] = "check"
  /\ Goto(u, "inside", section[u]) /\ Stay
  /\ UNCHANGED <<gate, stopped, closed, accepting, notify, due>>

CheckAgain_Leaks(u) ==
  /\ pc[u] = "check"
  /\ IF Refused(u)
     THEN Leave(u)
     ELSE Goto(u, "inside", section[u]) /\ Stay
  /\ UNCHANGED <<gate, stopped, closed, accepting, notify, due>>

CheckAgain(u) ==
  /\ pc[u] = "check"
  /\ IF Refused(u)
     THEN Leave(u) /\ gate' = Nobody
     ELSE Goto(u, "inside", section[u]) /\ Stay /\ UNCHANGED gate
  /\ UNCHANGED <<stopped, closed, accepting, notify, due>>

-----------------------------------------------------------------------------
(* Inside a transaction.  Update signals when it committed; the gate is    *)
(* released in every case.                                                 *)

(* Publish, Ack, Nack or the worker's expiry: may make an event due, may   *)
(* change nothing, or fails without a signal.  Snapshot's read-only        *)
(* transaction looks like the last.                                        *)
Write(u) ==
  /\ pc[u] = "inside" /\ section[u] = "write"
  /\ \/ due' \in {due, due + 1} \cap (0 .. MaxDue) /\ notify' = TRUE
     \/ UNCHANGED <<due, notify>>
  /\ gate' = Nobody
  /\ Leave(u)
  /\ UNCHANGED <<stopped, closed, accepting>>

(* Lease's read-only look at the indexes; without a due event a request    *)
(* with wait_ms = 0 returns, any other goes to sleep.  A storage error     *)
(* ends the call.                                                          *)
Probe(h) ==
  /\ pc[h] = "inside" /\ section[h] = "probe"
  /\ gate' = Nobody
  /\ \/ due > 0 /\ Goto(h, "enter", "take") /\ Stay
     \/ due = 0 /\ Goto(h, "sleep", "probe") /\ Stay
     \/ Leave(h)
  /\ UNCHANGED <<stopped, closed, accepting, notify, due>>

(* tryLease: another poll may have taken the event since the probe. *)
Take(h) ==
  /\ pc[h] = "inside" /\ section[h] = "take"
  /\ gate' = Nobody
  /\ \/ due > 0 /\ due' = due - 1 /\ notify' = TRUE /\ Leave(h)
     \/ due = 0 /\ Goto(h, "sleep", "probe") /\ Stay /\ UNCHANGED <<due, notify>>
     \/ Leave(h) /\ UNCHANGED <<due, notify>>
  /\ UNCHANGED <<stopped, closed, accepting>>

(* The select of a sleeping long poll. *)
Wake(h) ==
  /\ pc[h] = "sleep"
  /\ notify' \in {notify, FALSE}     \* by its 100ms timer, or by a notification
  /\ IF h \in cancelled THEN Leave(h) ELSE Goto(h, "enter", "probe") /\ Stay
  /\ UNCHANGED <<gate, stopped, closed, accepting, due>>

(* Mutant: a sleeping poll does not look at its deadline. *)
PollEnds_NoDeadline(h) ==
  /\ pc[h] = "sleep" /\ Refused(h)
  /\ Leave(h)
  /\ UNCHANGED <<gate, stopped, closed, accepting, notify, due>>

PollEnds(h) ==     \* deadline, stop or hang-up
  /\ pc[h] = "sleep"
  /\ Leave(h)
  /\ UNCHANGED <<gate, stopped, closed, accepting, notify, due>>

-----------------------------------------------------------------------------
(* The cleanup worker: tick, probe, and an update in a second gate section *)
(* when something has expired.                                             *)

TickCleanup ==
  /\ pc[cleaner] = "idle"
  /\ Goto(cleaner, "enter", "probe")
  /\ Stay
  /\ UNCHANGED <<gate, stopped, closed, accepting, notify, due>>

ProbeCleanup ==
  /\ pc[cleaner] = "inside" /\ section[cleaner] = "probe"
  /\ gate' = Nobody
  /\ Goto(cleaner, "enter", "write") \/ Goto(cleaner, "idle", "none")
  /\ Stay
  /\ UNCHANGED <<stopped, closed, accepting, notify, due>>

(* Mutant: the worker ends when the file is closed. *)
ExitCleanup_AfterClose ==
  /\ pc[cleaner] = "idle" /\ closed
  /\ Goto(cleaner, "exited", "none")
  /\ Stay
  /\ UNCHANGED <<gate, stopped, closed, accepting, notify, due>>

ExitCleanup ==
  /\ pc[cleaner] = "idle" /\ stopped
  /\ Goto(cleaner, "exited", "none")
  /\ Stay
  /\ UNCHANGED <<gate, stopped, closed, accepting, notify, due>>

-----------------------------------------------------------------------------
(* run(): a signal stops the broker before the server drains; a failed     *)
(* listener goes straight to the deferred Close while handlers still run.  *)

MainTo(p) == pc' = [pc EXCEPT ![main] = p] /\ UNCHANGED section

Signal ==
  /\ pc[main] = "serving"
  /\ MainTo("stopping")
  /\ stopped' = TRUE
  /\ UNCHANGED <<cancelled, gate, closed, accepting, notify, slots, polls, due>>

(* server.Shutdown closes the listener. *)
Shutdown ==
  /\ pc[main] = "stopping"
  /\ MainTo("draining")
  /\ accepting' = FALSE
  /\ UNCHANGED <<cancelled, gate, stopped, closed, notify, slots, polls, due>>

ServeFails ==
  /\ pc[main] = "serving"
  /\ MainTo("joining")
  /\ stopped' = TRUE
  /\ UNCHANGED <<cancelled, gate, closed, accepting, notify, slots, polls, due>>

(* It returns when all handlers are done, or times out and server.Close    *)
(* cancels them.                                                           *)
Drained ==
  /\ pc[main] = "draining"
  /\ MainTo("joining")
  /\ cancelled' = cancelled \cup {h \in Handlers : pc[h] # "idle"}
  /\ UNCHANGED <<gate, stopped, closed, accepting, notify, slots, polls, due>>

(* Close: join the worker, take the gate, close the file, release. *)
Joined ==
  /\ pc[main] = "joining" /\ pc[cleaner] = "exited"
  /\ MainTo("closing")
  /\ UNCHANGED <<cancelled, gate, stopped, closed, accepting, notify, slots, polls, due>>

CloseGate ==
  /\ pc[main] = "closing" /\ gate = Nobody
  /\ gate' = main
  /\ closed' = TRUE
  /\ UNCHANGED <<pc, section, cancelled, stopped, accepting, notify, slots, polls, due>>

CloseDone ==
  /\ gate = main
  /\ gate' = Nobody
  /\ MainTo("exited")
  /\ UNCHANGED <<cancelled, stopped, closed, accepting, notify, slots, polls, due>>

(* The process is gone. *)
Terminated == pc[main] = "exited" /\ UNCHANGED gateVars

-----------------------------------------------------------------------------
GateInit ==
  /\ pc = [u \in Users \cup {main} |-> IF u = main THEN "serving" ELSE "idle"]
  /\ section = [u \in Users |-> "none"]
  /\ cancelled = {}
  /\ gate = Nobody
  /\ stopped = FALSE /\ closed = FALSE /\ accepting = TRUE /\ notify = FALSE
  /\ slots = 0 /\ polls = 0
  /\ due = 0

Use(u) == TakeGate(u) \/ EnterRefused(u) \/ CheckAgain(u) \/ Write(u)

HandlerStep(h) ==
  \/ \E s \in {"write", "probe"} : Arrive(h, s)
  \/ Decode(h)
  \/ Disconnect(h)
  \/ Use(h) \/ Probe(h) \/ Take(h) \/ Wake(h) \/ PollEnds(h)

CleanerStep == Use(cleaner) \/ TickCleanup \/ ProbeCleanup \/ ExitCleanup

MainStep == Signal \/ Shutdown \/ ServeFails \/ Drained \/ Joined \/ CloseGate \/ CloseDone

GateNext ==
  \/ \E h \in Handlers : HandlerStep(h)
  \/ CleanerStep
  \/ MainStep
  \/ Terminated

GateSpec == GateInit /\ [][GateNext]_gateVars

(* A goroutine that can go on does.  Senders on a Go channel are served in *)
(* arrival order, a select picks at random among the cases that are ready, *)
(* transactions and timers end.                                            *)
Runs(u) == EnterRefused(u) \/ CheckAgain(u) \/ Write(u)

GateFairness ==
  /\ \A u \in Users : SF_gateVars(TakeGate(u))
  /\ \A h \in Handlers :
       /\ WF_gateVars(Runs(h) \/ Decode(h) \/ Probe(h) \/ Take(h))
       /\ SF_gateVars(PollEnds(h))
  /\ WF_gateVars(Runs(cleaner) \/ ProbeCleanup) /\ SF_gateVars(ExitCleanup)
  /\ WF_gateVars(Shutdown \/ Drained \/ Joined \/ CloseDone) /\ SF_gateVars(CloseGate)

LiveGateSpec == GateSpec /\ GateFairness

-----------------------------------------------------------------------------
(* No goroutine touches the bbolt file after Close closed it, whichever    *)
(* request was between the two selects of enter when Stop and Close ran,   *)
(* and the cleanup worker has returned by then.                            *)
NoUseAfterClose ==
  closed => pc[cleaner] = "exited" /\ \A h \in Handlers : pc[h] # "inside"

(* The gate is held by exactly the goroutine that is past the first select *)
(* or closing the file: transactions exclude each other, and no return     *)
(* path of enter, view or update leaves the gate taken.                    *)
GateExact ==
  /\ \A u \in Users : pc[u] \in {"check", "inside"} <=> gate = u
  /\ gate = main => pc[main] = "closing"

(* The admission channels hold one value per admitted request, so no       *)
(* return path leaks a slot, and idle long polls leave Slots - Polls of    *)
(* the handlers to publishers and receipts.                                *)
SlotsExact ==
  /\ slots = Cardinality({h \in Handlers : pc[h] # "idle"}) /\ slots <= Slots
  /\ polls = Cardinality({h \in Handlers : pc[h] # "idle" /\ IsPoll(h)}) /\ polls <= Polls

(* No return path, early or late, leaves the gate or a slot taken. *)
NothingHeld == GateExact /\ SlotsExact

(* Every admitted request returns, long polls and requests caught by the   *)
(* shutdown included.                                                      *)
CallsReturn == \A h \in Handlers : pc[h] # "idle" ~> pc[h] = "idle"

(* Once stopped, the process closes its file and exits, even with          *)
(* handlers that never stop arriving at the gate.                          *)
ShutdownCompletes == stopped ~> pc[main] = "exited"

=============================================================================
