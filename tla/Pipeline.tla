------------------------------ MODULE Pipeline ------------------------------
(***************************************************************************)
(* Streamers, the durable broker, collector workers and the telemetry      *)
(* table together: how a measurement gets from a producer into PostgreSQL  *)
(* when requests, replies and commits can be lost or late and processes    *)
(* can die.  The broker is DurableQueue; a collector worker is one of the  *)
(* goroutines of internal/collector.Run, in any replica; a Persist call is *)
(* one atomic transaction here, and TelemetryStore opens it up.            *)
(***************************************************************************)
EXTENDS DurableQueue

CONSTANTS
  Workers,       \* collector goroutines of all replicas
  Feeds,         \* what producers may send: the one content of each event ID, or none
  Unstorable,    \* contents postgres.Validate refuses (NUL text, invalid UTF-8)
  WorkTimeout,
  ExpiryMargin   \* the 250ms a worker stops before its lease expires

ASSUME PipelineAssumption ==
  /\ Feeds \subseteq [EventIDs -> Payloads \cup {NoPayload}]
  /\ Unstorable \subseteq Payloads
  /\ WorkTimeout \in Nat \ {0}
  /\ ExpiryMargin \in Nat

VARIABLES
  content,     \* the feed of this behaviour
  confirmed,   \* events whose producer saw a 202
  rows,        \* the committed telemetry table: event ID to content
  uncertain,   \* events whose COMMIT was sent and whose outcome nobody knows
  late,        \* receipts whose sender stopped waiting, still on their way
  worker       \* each worker's place in Run and Process

pipeVars == <<db, now, granted, content, confirmed, rows, uncertain, late, worker>>

Idle == [pc |-> "idle"]

(* An ACK or a NACK on the wire; NoNack marks the ACK. *)
Receipt == [id : EventIDs, token : Nat, nack : NackRequests \cup {NoNack}]

WorkerState == {Idle} \cup
  [pc : {"leased", "persisting", "acking", "nacking"}, id : EventIDs, token : Nat, deadline : Int]

PipeTypeOK ==
  /\ TypeOK
  /\ content \in Feeds
  /\ confirmed \subseteq EventIDs
  /\ rows \in [EventIDs -> Payloads \cup {NoPayload}]
  /\ uncertain \subseteq EventIDs
  /\ late \subseteq Receipt
  /\ worker \in [Workers -> WorkerState]

Lesser(a, b) == IF a <= b THEN a ELSE b

-----------------------------------------------------------------------------
(* What a caller of queueclient sees of the broker's answers *)

(* durableError and the success replies.  A 503 says nothing about the      *)
(* operation and is a lost reply here.                                      *)
Status(answer) ==
  IF answer = "invalid" THEN 400
  ELSE IF answer \in {"conflict", "stale"} THEN 409
  ELSE IF answer \in {"full", "dedup_full"} THEN 429
  ELSE 200

Retryable(status) == status = 429

-----------------------------------------------------------------------------
(* Producer: streamer.Runner.Run publishes one event until it is confirmed. *)

(* Mutant: a request that got lost counts as confirmed. *)
PublishAttempt_Blind(id) ==
  /\ content[id] # NoPayload /\ id \notin confirmed
  /\ Publish(id, content[id]) \/ UNCHANGED vars
  /\ confirmed' = confirmed \cup {id}
  /\ UNCHANGED <<content, rows, uncertain, late, worker>>

(* One attempt.  The reply, or the whole request, may be lost: the producer *)
(* repeats the same event until it sees 202 or stops.                       *)
PublishAttempt(id) ==
  /\ content[id] # NoPayload /\ id \notin confirmed
  /\ Publish(id, content[id])
  /\ \/ confirmed' = confirmed
     \/ /\ Status(PublishAnswer(db, id, content[id], now)) = 200
        /\ confirmed' = confirmed \cup {id}
  /\ UNCHANGED <<content, rows, uncertain, late, worker>>

-----------------------------------------------------------------------------
(* Collector worker *)

(* postgres.Validate *)
Storable(p) == p \notin Unstorable

(* Client.LeaseForProcessing has a delivery to return. *)
Delivered == LeaseAnswer(db, now) = "delivery"

(* The delivery, with its ExpiresAt. *)
Leased == [pc |-> "leased", id |-> LeasedID(db, now), token |-> NewToken(db),
           deadline |-> now + LeaseDuration]

(* An empty poll is repeated.  A lease whose response is lost or malformed, *)
(* or that races the worker's shutdown, is left for expiry.                 *)
Acquire(w) ==
  /\ worker[w] = Idle
  /\ Lease
  /\ \/ /\ Delivered
        /\ worker' = [worker EXCEPT ![w] = Leased]
     \/ UNCHANGED worker
  /\ UNCHANGED <<content, confirmed, rows, uncertain, late>>

(* Mutant: the work deadline ignores the lease. *)
Deadline_NoLeaseBound(expires) == now + WorkTimeout

Deadline(expires) == Lesser(now + WorkTimeout, expires - ExpiryMargin)

Route(id) == IF Storable(content[id]) THEN "persisting" ELSE "nacking"

(* Process fixes its deadline and, after postgres.Validate, its path.  A    *)
(* deadline that has passed already ends it before its first call.          *)
Process(w) ==
  LET d == worker[w] IN
  /\ d.pc = "leased"
  /\ worker' = [worker EXCEPT ![w] =
       IF Deadline(d.deadline) > now
       THEN [d EXCEPT !.pc = Route(d.id), !.deadline = Deadline(d.deadline)]
       ELSE Idle]
  /\ UNCHANGED <<db, now, granted, content, confirmed, rows, uncertain, late>>

(* INSERT ... ON CONFLICT(event_id) DO NOTHING *)
Insert(id) ==
  rows' = [rows EXCEPT ![id] = IF @ = NoPayload THEN content[id] ELSE @]

(* Persist returns nil.  The call began before the deadline and may return *)
(* after it.                                                               *)
PersistCommitted(w) ==
  /\ worker[w].pc = "persisting"
  /\ Insert(worker[w].id)
  /\ worker' = [worker EXCEPT ![w].pc = "acking"]
  /\ UNCHANGED <<db, now, granted, content, confirmed, uncertain, late>>

(* Mutant: the error of an uncertain COMMIT is taken for success. *)
PersistUncertain_Acks(w) ==
  /\ worker[w].pc = "persisting"
  /\ worker[w].deadline > now
  /\ uncertain' = uncertain \cup {worker[w].id}
  /\ worker' = [worker EXCEPT ![w].pc = "acking"]
  /\ UNCHANGED <<db, now, granted, content, confirmed, rows, late>>

(* Persist returns an error after COMMIT was sent; the retry starts over.  *)
PersistUncertain(w) ==
  /\ worker[w].pc = "persisting"
  /\ worker[w].deadline > now
  /\ uncertain' = uncertain \cup {worker[w].id}
  /\ UNCHANGED <<db, now, granted, content, confirmed, rows, late, worker>>

(* The database carries a COMMIT of unknown outcome out after all. *)
LateCommit(id) ==
  /\ id \in uncertain
  /\ Insert(id)
  /\ uncertain' = uncertain \ {id}
  /\ UNCHANGED <<db, now, granted, content, confirmed, late, worker>>

Sent(w, n) == [id |-> worker[w].id, token |-> worker[w].token, nack |-> n]

(* One ACK call: answered, answered but the reply lost, or still under way *)
(* when the client stops waiting.  Only a transport failure is retried.    *)
AckCall(w) ==
  /\ worker[w].pc = "acking"
  /\ worker[w].deadline > now
  /\ \/ /\ Ack(worker[w].id, worker[w].token)
        /\ \/ worker' = [worker EXCEPT ![w] = Idle]
           \/ UNCHANGED worker
        /\ UNCHANGED late
     \/ /\ late' = late \cup {Sent(w, NoNack)}
        /\ UNCHANGED <<db, now, granted, worker>>
  /\ UNCHANGED <<content, confirmed, rows, uncertain>>

InvalidEvent(n) == n.permanent /\ n.delay = 0

(* One permanent NACK call, as above.  429 (quarantine full) is retried    *)
(* too, any other answer ends the attempt.                                 *)
NackCall(w, n) ==
  /\ worker[w].pc = "nacking"
  /\ worker[w].deadline > now
  /\ InvalidEvent(n)
  /\ \/ /\ Nack(worker[w].id, worker[w].token, n)
        /\ \/ /\ ~Retryable(Status(NackAnswer(db, worker[w].id, worker[w].token, n, now)))
              /\ worker' = [worker EXCEPT ![w] = Idle]
           \/ UNCHANGED worker
        /\ UNCHANGED late
     \/ /\ late' = late \cup {Sent(w, n)}
        /\ UNCHANGED <<db, now, granted, worker>>
  /\ UNCHANGED <<content, confirmed, rows, uncertain>>

(* A receipt nobody waits for any more reaches the broker. *)
LateReceipt(m) ==
  /\ m \in late
  /\ IF m.nack = NoNack THEN Ack(m.id, m.token) ELSE Nack(m.id, m.token, m.nack)
  /\ late' = late \ {m}
  /\ UNCHANGED <<content, confirmed, rows, uncertain, worker>>

(* The deadline passes, the drain budget runs out or the process dies: the *)
(* delivery is abandoned at whatever point it reached.                     *)
Abandon(w) ==
  /\ worker[w] # Idle
  /\ worker' = [worker EXCEPT ![w] = Idle]
  /\ UNCHANGED <<db, now, granted, content, confirmed, rows, uncertain, late>>

-----------------------------------------------------------------------------
PipeInit ==
  /\ Init
  /\ content \in Feeds
  /\ confirmed = {}
  /\ rows = [id \in EventIDs |-> NoPayload]
  /\ uncertain = {}
  /\ late = {}
  /\ worker = [w \in Workers |-> Idle]

BrokerStep ==
  /\ Cleanup \/ Tick
  /\ UNCHANGED <<content, confirmed, rows, uncertain, late, worker>>

WorkerStep(w) ==
  \/ Acquire(w)
  \/ Process(w)
  \/ PersistCommitted(w)
  \/ PersistUncertain(w)
  \/ AckCall(w)
  \/ \E n \in NackRequests : NackCall(w, n)
  \/ Abandon(w)

PipeNext ==
  \/ \E id \in EventIDs : PublishAttempt(id)
  \/ \E w \in Workers : WorkerStep(w)
  \/ \E id \in EventIDs : LateCommit(id)
  \/ \E m \in late : LateReceipt(m)
  \/ BrokerStep

PipeSpec == PipeInit /\ [][PipeNext]_pipeVars

-----------------------------------------------------------------------------
(* Commit before ACK: an event the broker counts as completed, or ever     *)
(* confirmed as acknowledged, is a committed row, whatever was lost, late  *)
(* or restarted on the way (collector.Process).                            *)
CommitBeforeAck ==
  \A token \in DOMAIN granted :
    granted[token].outcome = "acked" => rows[granted[token].id] = content[granted[token].id]

(* No confirmed measurement is lost: it is active in the broker or stored. *)
NoConfirmedLoss ==
  \A id \in confirmed : id \in Active(db) \/ rows[id] = content[id]

(* A poison event never reaches the table and, once confirmed, never       *)
(* leaves the broker: it circulates until quarantine has room for it.      *)
PoisonKept ==
  \A id \in EventIDs : ~Storable(content[id]) =>
    /\ rows[id] = NoPayload
    /\ id \in confirmed => id \in Active(db)

(* What a producer was promised is kept, for events of every kind. *)
EventsKept == NoConfirmedLoss /\ PoisonKept

(* A worker that finished Persist in time settles its own delivery: while  *)
(* its deadline lasts the broker answers its ACK with success, never with  *)
(* a stale receipt.  The deadline and the expiry margin together do this.  *)
ReceiptInTime ==
  \A w \in Workers : worker[w] # Idle /\ worker[w].pc = "acking" /\ worker[w].deadline > now
    => AckAnswer(db, worker[w].id, worker[w].token, now) # "stale"

=============================================================================
