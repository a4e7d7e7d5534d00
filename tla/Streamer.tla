------------------------------ MODULE Streamer ------------------------------
(***************************************************************************)
(* A producer: streamer.Runner.Run over a looping CSV file (csv.go), with  *)
(* its shutdown watcher and a broker that may accept an event and lose the *)
(* reply.  An event is known by <<replay, row>>, the part of its ID that   *)
(* varies within one producer; a retry repeats the same event.             *)
(***************************************************************************)
EXTENDS Naturals, Sequences, FiniteSets

CONSTANTS
  Files,      \* CSV contents to replay, each a sequence of "valid" and "invalid" records
  Count,      \* --count; 0 is without end
  MaxReplay   \* bound on passes over the file

ASSUME StreamerAssumption ==
  /\ \A f \in Files : f \in Seq({"valid", "invalid"})
  /\ Count \in Nat /\ MaxReplay \in Nat

VARIABLES
  file,        \* the file being replayed
  pos,         \* records read of this pass
  replay, row, valid,   \* CSV counters: pass, record number, valid records of this pass
  pc,          \* where Run is in its loop
  event,       \* the event being published
  accepted, invalidRows, unconfirmed,   \* Stats
  stop,        \* the stop context is done
  cancelled,   \* the shutdown watcher cancelled publishCtx
  result,      \* what Run returned
  stored,      \* events the broker has accepted
  confirmed    \* events whose acceptance Run has seen

csvVars == <<file, pos, replay, row, valid>>
statVars == <<accepted, invalidRows, unconfirmed>>
envVars == <<stop, cancelled>>
streamVars == <<csvVars, pc, event, statVars, envVars, result, stored, confirmed>>

EventID == (0 .. MaxReplay) \X Nat

StreamTypeOK ==
  /\ file \in Files /\ pos \in 0 .. Len(file)
  /\ replay \in 0 .. MaxReplay /\ row \in Nat /\ valid \in Nat
  /\ pc \in {"top", "read", "got", "publish", "backoff", "exited"}
  /\ event \in EventID
  /\ accepted \in Nat /\ invalidRows \in Nat /\ unconfirmed \in {0, 1}
  /\ {stop, cancelled} \subseteq BOOLEAN
  /\ result \in {"none", "nil", "error"}
  /\ stored \subseteq EventID /\ confirmed \subseteq EventID

(* Run returns r; source.Close may fail on the way out and is joined to it. *)
RunReturns(r) == pc' = "exited" /\ result' \in {r, "error"}

-----------------------------------------------------------------------------
(* Mutant: one event more than asked for. *)
CountReached_OffByOne == Count # 0 /\ accepted > Count

CountReached == Count # 0 /\ accepted >= Count

(* Top of the loop: the count, the stop context, then the pacing wait. *)
LoopTop ==
  /\ pc = "top"
  /\ IF CountReached \/ stop
     THEN RunReturns("nil")
     ELSE pc' = "read" /\ UNCHANGED result
  /\ UNCHANGED <<csvVars, event, statVars, envVars, stored, confirmed>>

(* source.Next and Run both look at the stop context around each record. *)
StopReading ==
  /\ pc = "read" /\ stop
  /\ RunReturns("nil")
  /\ UNCHANGED <<csvVars, event, statVars, envVars, stored, confirmed>>

(* End of file: a pass without a valid record ends the run, any other one  *)
(* starts over at the first record.                                        *)
EndOfFile ==
  /\ pc = "read" /\ ~stop /\ pos = Len(file)
  /\ IF valid = 0
     THEN RunReturns("error") /\ UNCHANGED csvVars
     ELSE /\ replay < MaxReplay
          /\ replay' = replay + 1
          /\ row' = 0 /\ valid' = 0 /\ pos' = 0
          /\ UNCHANGED <<file, pc, result>>
  /\ UNCHANGED <<event, statVars, envVars, stored, confirmed>>

ReadInvalid ==
  /\ pc = "read" /\ ~stop /\ pos < Len(file) /\ file[pos + 1] = "invalid"
  /\ pos' = pos + 1 /\ row' = row + 1
  /\ invalidRows' = invalidRows + 1
  /\ pc' = "top"
  /\ UNCHANGED <<file, replay, valid, event, accepted, unconfirmed, envVars,
                 result, stored, confirmed>>

ReadValid ==
  /\ pc = "read" /\ ~stop /\ pos < Len(file) /\ file[pos + 1] = "valid"
  /\ pos' = pos + 1 /\ row' = row + 1 /\ valid' = valid + 1
  /\ pc' = "got"
  /\ UNCHANGED <<file, replay, event, statVars, envVars, result, stored, confirmed>>

NewEvent == <<replay, row>>

(* A record read while the run was being stopped is not published; one    *)
(* that telemetry.Event.Validate refuses ends the run.                    *)
MakeEvent ==
  /\ pc = "got"
  /\ \/ stop /\ RunReturns("nil") /\ UNCHANGED event
     \/ ~stop /\ event' = NewEvent /\ pc' = "publish" /\ UNCHANGED result
     \/ ~stop /\ RunReturns("error") /\ UNCHANGED event
  /\ UNCHANGED <<csvVars, statVars, envVars, stored, confirmed>>

(* Reading a record, or rewinding to the header for the next pass, fails    *)
(* for good.                                                                *)
SourceFails ==
  /\ pc = "read" /\ ~stop
  /\ \/ pos < Len(file) /\ row' = row + 1 /\ UNCHANGED <<replay, valid>>
     \/ /\ pos = Len(file) /\ valid # 0 /\ replay < MaxReplay
        /\ replay' = replay + 1 /\ row' = 0 /\ valid' = 0
  /\ RunReturns("error")
  /\ UNCHANGED <<file, pos, event, statVars, envVars, stored, confirmed>>

-----------------------------------------------------------------------------
(* One pub.Publish call.  Whether the broker took the event and what the   *)
(* caller learns are two things; a repeated event is a duplicate to it.    *)

PublishConfirmed ==
  /\ pc = "publish"
  /\ stored' = stored \cup {event}
  /\ confirmed' = confirmed \cup {event}
  /\ accepted' = accepted + 1
  /\ pc' = "top"
  /\ UNCHANGED <<csvVars, event, invalidRows, unconfirmed, envVars, result>>

(* Mutant: a temporary error is retried after publishCtx was cancelled. *)
PublishTemporary_Forever ==
  /\ pc = "publish"
  /\ stored' \in {stored, stored \cup {event}}
  /\ pc' = "backoff"
  /\ UNCHANGED <<csvVars, event, statVars, envVars, result, confirmed>>

PublishTemporary ==
  /\ pc = "publish" /\ ~cancelled
  /\ stored' \in {stored, stored \cup {event}}
  /\ pc' = "backoff"
  /\ UNCHANGED <<csvVars, event, statVars, envVars, result, confirmed>>

(* A refusal, an oversized response, or any error once publishCtx is        *)
(* cancelled.                                                               *)
PublishFails ==
  /\ pc = "publish"
  /\ stored' \in {stored, stored \cup {event}}
  /\ unconfirmed' = 1
  /\ RunReturns("error")
  /\ UNCHANGED <<csvVars, event, accepted, invalidRows, envVars, confirmed>>

(* Mutant: after the wait the run goes on with the next record. *)
Backoff_NextRecord ==
  /\ pc = "backoff"
  /\ \/ pc' = "top" /\ UNCHANGED <<unconfirmed, result>>
     \/ cancelled /\ unconfirmed' = 1 /\ RunReturns("error")
  /\ UNCHANGED <<csvVars, event, accepted, invalidRows, envVars, stored, confirmed>>

(* The jittered wait before a retry ends, or publishCtx is cancelled. *)
Backoff ==
  /\ pc = "backoff"
  /\ \/ pc' = "publish" /\ UNCHANGED <<unconfirmed, result>>
     \/ cancelled /\ unconfirmed' = 1 /\ RunReturns("error")
  /\ UNCHANGED <<csvVars, event, accepted, invalidRows, envVars, stored, confirmed>>

-----------------------------------------------------------------------------
(* SIGTERM, and the watcher that cancels publishCtx ShutdownTimeout later. *)
Interrupt ==
  /\ ~stop /\ pc # "exited"
  /\ stop' = TRUE
  /\ UNCHANGED <<csvVars, pc, event, statVars, cancelled, result, stored, confirmed>>

ShutdownTimeout ==
  /\ stop /\ ~cancelled /\ pc # "exited"
  /\ cancelled' = TRUE
  /\ UNCHANGED <<csvVars, pc, event, statVars, stop, result, stored, confirmed>>

Exited == pc = "exited" /\ UNCHANGED streamVars

(* OpenCSV: positioned behind the header *)
CSVInit == file \in Files /\ pos = 0 /\ replay = 0 /\ row = 0 /\ valid = 0

StreamInit ==
  /\ CSVInit
  /\ pc = "top" /\ event = <<0, 0>>
  /\ accepted = 0 /\ invalidRows = 0 /\ unconfirmed = 0
  /\ stop = FALSE /\ cancelled = FALSE
  /\ result = "none"
  /\ stored = {} /\ confirmed = {}

RunStep ==
  \/ LoopTop \/ StopReading \/ EndOfFile \/ ReadInvalid \/ ReadValid \/ MakeEvent
  \/ SourceFails \/ PublishConfirmed \/ PublishTemporary \/ PublishFails \/ Backoff

StreamNext == RunStep \/ Interrupt \/ ShutdownTimeout \/ Exited

StreamSpec == StreamInit /\ [][StreamNext]_streamVars

(* Run's goroutine and the watcher's timer make progress; nothing is       *)
(* assumed of the broker, which may fail every attempt.                    *)
LiveStreamSpec ==
  /\ StreamSpec
  /\ WF_streamVars(RunStep)
  /\ WF_streamVars(ShutdownTimeout)

-----------------------------------------------------------------------------
(* The valid records the reader has returned, over all passes. *)
Passed ==
  {i \in (0 .. replay) \X (1 .. Len(file)) :
     file[i[2]] = "valid" /\ (i[1] < replay \/ i[2] <= row)}

Pending == IF pc \in {"publish", "backoff"} \/ unconfirmed = 1 THEN {event} ELSE {}

(* Nothing is skipped: the broker confirmed every valid record of every    *)
(* pass before the run reads the next one; only the record read last can   *)
(* be missing.  At most one event is in doubt: whatever the broker holds   *)
(* beyond what was confirmed is the pending event, and a run that returns  *)
(* with it reports it as unconfirmed.                                      *)
NoGap ==
  /\ confirmed \subseteq Passed
  /\ Passed \ confirmed \subseteq {<<replay, row>>}
  /\ pc \in {"top", "read"} => confirmed = Passed
  /\ stored \ confirmed \subseteq Pending

(* The statistics count distinct events: an ID is confirmed once, in spite *)
(* of retries and of replays that start over at record one.                *)
AcceptedExact ==
  /\ accepted = Cardinality(confirmed)
  /\ Count # 0 => accepted <= Count
  /\ result = "nil" /\ ~stop => accepted = Count

(* The run returns after SIGTERM, although the broker may stay unreachable *)
(* and the file is read over and over, and by itself when the file has no  *)
(* valid record.                                                           *)
RunEnds ==
  (stop \/ \A i \in 1 .. Len(file) : file[i] = "invalid") ~> pc = "exited"

=============================================================================
