# Verification of gputelemetry

TLA+ models, TLC runs and TLAPS proofs for the GPU telemetry pipeline of this
repository. `PROJECT.json` is the machine-readable index: components, runs,
the source lines behind every definition, hazards, theorems and mutants.

    tlc -workers 2 -config MCDurableQueue_clock.cfg MCDurableQueue
    tlapm DurableQueueProofs.tla

## 1. Inventory

Measurements travel from a CSV file to PostgreSQL:

    streamer --publish--> broker (queue) --lease/ACK/NACK--> collector --SQL--> PostgreSQL <-- API

| component | state | operations | hard behaviour | what makes it correct |
|---|---|---|---|---|
| durable broker store, `internal/queue/durable.go` | bbolt buckets `records`, `ready`, `leases`, `completions`; sequence counter; persisted statistics | PublishContext, tryLease, Ack, Nack, Cleanup, Snapshot | lost replies, expired tokens, batch-limited sweeps, a wall clock that steps, restarts, limits | no accepted event lost, tokens fence, indexes and gauges exact, limits kept |
| broker concurrency, same file and `durable_http.go`, `cmd/queue/main.go` | gate, stopped and notify channels, slot and poll semaphores, worker | enter, Lease (long poll), the ticker, Stop, Close, serve and shutdown | Stop and Close against callers inside `enter`; sleeping polls; leaked slots | no use after close, mutual exclusion, every call returns, shutdown completes |
| in-memory broker, `internal/queue/memory.go` | ring, head, size, dedup map, tombstones | Publish, Receive | wrap-around, tombstones of republished identities | FIFO, bounded memory, dedup window kept |
| queue client, `internal/queueclient` | none | Publish, Lease, Ack, Nack | which failures may be retried | a caller never takes an unknown outcome for success |
| streamer, `internal/streamer` | CSV position and counters, pending event, statistics | Run, CSV.Next | retry of an event that was accepted, stop during publish, replay | no record skipped or counted twice, at most one event in doubt, stops in time |
| collector, `internal/collector`, `cmd/collector` | per worker: delivery, deadline; fetch and processing contexts, failure channel | Run, Process, retry, the drain watcher, signal and exit | crash between commit and ACK, deadline against lease expiry, poison events; several failures and a signal at once, calls that hang during shutdown | commit before ACK; always exits, and cleanly only when nothing failed |
| telemetry store, `internal/storage/postgres` | tables `telemetry`, `gpus` | Persist; reads for the API | concurrent duplicates, out-of-order metadata, uncertain commits, lock waits | metadata determined by the stored rows; duplicates change nothing |
| API, `internal/api`, `storage/postgres/read.go`, `cmd/api` | slots, temporary files | list GPUs, telemetry range, shutdown | partial results, response budget, rounding of bounds, transfers that break, rows inserted meanwhile | a complete answer is exact; nothing leaks |
| migrations, `migrations/migrations.go` | tables, schema marker | Apply | two jobs of different builds, lost commit reply, restarts | applied once, marker and tables agree |
| console, `console/main.go` | running operation, port-forward, image tag in memory and on disk | build, deploy, connect, cancel, quit, ... | waiters of old forwards, failed builds, hanging commands, quit at any moment | no forward lost, only complete builds deployed, every operation ends |
| console cleanup, `console/cleanup.go`, `reclaim.go` | none of its own; the cluster | clean, recoverReleasedVolumes, withProvisionerIdentity | commands that fail half way, retries, late volumes, provisioner restarts, paths shared by two volumes | nothing foreign deleted, success never reported too early, a retry gets through |
| test consumer, configuration, logging, packaging | - | - | - | - |

Components interact by HTTP requests whose reply may be lost, by SQL
transactions whose COMMIT may have an unknown outcome, and inside the broker by
channels. The hazards this creates are listed with their lines in `PROJECT.json`.

## 2. Modules

| module | models | composed from |
|---|---|---|
| `DurableQueue` | the broker's transactions | refines `ReliableQueue` |
| `ReliableQueue` | abstract: what the durable broker promises | |
| `Pipeline` | producers, collector workers, the telemetry table | extends `DurableQueue` |
| `CollectorPool` | the collector process: workers, contexts, drain, exit | |
| `TelemetryStore` | `Persist` statement by statement | |
| `Migrations` | `migrations.Apply` for concurrent jobs | |
| `QueryAPI` | the read side, `sendArray`, `cmd/api` | extends `Migrations` |
| `BrokerGate` | goroutines, admission, long poll, shutdown | |
| `Streamer` | `Runner.Run` and the CSV reader | |
| `MemoryQueue` | the in-memory broker | refines `DedupFifo` |
| `DedupFifo` | abstract: bounded deduplicating FIFO | |
| `Console` | the operator console's operations and processes | |
| `Cleanup` | the console's cleanup against a cluster | |
| `MC*` | constants for TLC | |
| `DurableQueueProofs` | proofs: structure and limits of the broker | extends `DurableQueue` |
| `DurableQueueSafety` | proofs: fencing, receipts, ledger, bytes, refinement | extends `DurableQueueProofs` |
| `PipelineProofs` | proofs: end-to-end delivery | extends `Pipeline`, `DurableQueueSafety` |
| `BrokerProofs` | proofs: in-memory broker, gate and shutdown | extends `MemoryQueue`, `BrokerGate` |
| `TelemetryStoreProofs` | proofs: concurrent `Persist` | extends `TelemetryStore` |
| `QueryAPIProofs` | proofs: migrations and API | extends `QueryAPI` |
| `ClientProofs` | proofs: streamer and collector process | extends `Streamer`, `CollectorPool` |
| `ConsoleProofs` | proofs: console and its cleanup | extends `Console`, `Cleanup` |

### DurableQueue

`db` is the database file: `records` maps identities to `diskRecord`, the three
index buckets are sets of entries with the key `(due, seq)`, `sequence` is
bbolt's `NextSequence` counter and `stats` the persisted `DurableStats`
(without the file size and the configured limits, which are not state). `now`
is the broker's wall clock and `granted` remembers every delivery a consumer
received; it is not state of the program but of its clients, and only
properties and the clients' choice of tokens look at it.

Each operation is one read-write bbolt transaction under the gate, so each is
one action: `Publish`, `Lease` (tryLease), `Ack`, `Nack`, `Cleanup`. Operators
like `Admit` or `Complete` take the database before a step of the transaction
and return the one after it. Where the code returns an error bbolt rolls
everything back; this includes `errNoReady` after leases were expired and
`ErrConflict`, `ErrFull` after completions were swept, and in those disjuncts
`db` is unchanged. A publish answered as a duplicate does commit its sweep.

Abstractions: an event's content is a model value with a length; SHA-256 is
injective; a delivery token is the number of the delivery (telemetry.NewID
draws 128 random bits, taken as never repeating); a record missing from the
bucket is a record in state `absent`; `Reason` is a field of the NACK request
kept in `lastNackHash`. Times are natural numbers.

Crashes need no action: the file is the state, a crash before the commit is a
transaction that did not happen and a crash after it a lost reply. Consumers
may send any receipt with any token ever granted, at any time, for any event:
that is every retry, reordering and duplication at once.

### Pipeline

`Status` and `Retryable` are what durableError and the queue client make of the
broker's answer; a 503 tells the caller nothing and is a lost reply. A producer
publishes its event until it sees a 202; its request may be carried out and the
reply lost. A worker is one goroutine of `collector.Run`, in any
replica: `Acquire` leases, `Process` picks the deadline (time may have passed
since) and validates; `PersistCommitted` and `PersistUncertain` are the two ways a Persist
call can end after COMMIT was sent (an earlier failure changes nothing);
`AckCall` and `NackCall` are one attempt inside `retry`; `Abandon` is the
deadline, the drain budget or the death of the process, at any point.
`LateCommit` and `LateReceipt` are effects of calls nobody waits for any more.
Broker and collectors share one clock: `Process` compares the broker's
`expires_at` with its own time, and docs/DAY3_COLLECTOR.md requires synchronised
clocks. What producers send, `content`, is chosen once per behaviour from
`Feeds`. Persist is atomic here because `TelemetryStore` shows that a call that
returned nil left its row committed.

### CollectorPool

`loop` is each worker's place in `Run`, `fetch` and `draining` are the two
contexts, `failures` the buffered channel. A call to the broker or the database
is one step that may hang for as long as its context lives; when the context
ends it returns. `Stop` is the signal or the health server's failure, `Fail` the
three statements of the fatal path, `DrainTimeout` the watcher. What happens to
the delivery in `Process` is the subject of `Pipeline`.

### TelemetryStore

One step per SQL statement on concurrent sessions. PostgreSQL is external and
modelled as `store.go` relies on it: READ COMMITTED, an INSERT that meets an
uncommitted equal key waits, ON CONFLICT DO UPDATE locks the row it changes.
`GiveUp` is the end of the caller's context, after which a COMMIT already sent
may still happen. The deferred foreign key is satisfied by construction: the
`gpus` row is written in the same transaction.

### BrokerGate

Control points of each goroutine: the two selects of `enter` are two steps
(`TakeGate`/`EnterRefused`, then `CheckAgain`), a transaction is a third, the
select in `Lease` a fourth (`Wake`/`PollEnds`). `run()` is a goroutine with its
two ways out: a signal (`Signal`, `Shutdown`, `Drained`) and a failed listener
(`ServeFails`), which closes the store while handlers still run. `Arrive` is
the admission in one step: a long poll that takes a slot, finds no poll slot and
gives the slot back with a 503 leaves no trace. Transactions
only add or take a due event. Snapshot is a `Write` that changes nothing.

### Streamer

`pc` follows `Run`: top of loop, read, got a record, publish, back off. A file
is a sequence of valid and invalid records. The broker either took the event
or not, independently of what `Publish` returns. A step reads one record, so a
stop may come between two invalid ones, but not inside a read. Pacing is left
out.

### MemoryQueue

`ring`, `head`, `size`, `seen` and the tombstone list as in `memory.go`; one
action per method, which runs under one mutex. Its clock is monotonic.

### Migrations and QueryAPI

A job runs `Apply` one statement at a time; its transaction's effects appear at
the commit, whose reply may be lost, and a job that failed is started again
(`backoffLimit`). Jobs carry the checksum of the SQL in their build. CREATE
TABLE waits for an uncommitted table of the same name and fails on a committed
one: that is how PostgreSQL behaves, and what the advisory lock prevents.

`QueryAPI` puts the API on that database. A handler follows `sendArray`: slot,
temporary file, existence check, SELECT, one step per row, the closing bracket,
the transfer. `Unprepared` is any failure before the status line and `Abort` any
after it; both run the deferred functions. Timestamps are counted in ticks,
several to the microsecond the database keeps, so that rounding matters. The
syntax of timestamps is left out. `server` is the goroutine of `cmd/api`; its
`Exit` waits for connections, which a handler holds while it reads rows and not
between two statements.

### Console

`op` is the goroutine of the running operation: its action, its place in
`execute`, `connect` or `stopForward`, the forward it holds in a local variable,
and whether its context is alive. `Script` lists the commands of each action;
`CommandFails` covers commands that fail, hang until killed, or succeed without
the console learning it. `stopForward` is two steps because the process is
killed after the mutex is released. Port-forward processes die on their own
(`Dies`), and the goroutine waiting for each clears `forward` if it is still its
own (`Waiter`). `saved` is the tag file of each repository.

### Cleanup

`run` is the cleaner: its place in `clean`, `recoverReleasedVolumes` and
`withProvisionerIdentity`, the inventory it works from, and the result. The
cluster is the environment: claims get volumes, volumes are released when their
claim goes, the provisioner deletes released volumes that carry its identity and
gets a new identity when it restarts. A volume is `good` (recoverable once it is
released), `odd` (of the project's namespace, but not recoverable), `kept`
(reclaim policy other than Delete) or `foreign`. Every command may fail, or be
cut by a cancel, with or without its effect (`Fault`, `HalfDone`); the refusals
of `recoverReleasedVolumes` because of the node, the provisioner or the
StorageClass end in the same way and are part of `Fault`. The user may redeploy
between cleanups.

Assumption: what is foreign is there from the start, and nobody adds to the
environment while a cleanup runs. The code makes its inventories
(cleanup.go:101-189) before it deletes (191-194, 236, 254), and an object or
volume that appears in between is deleted with the namespace or the profile;
console/README.md:21 says that the environment must not be shared with other
applications. For the same reason no volume is provisioned on a recovered path
between the inventory and the patch: no claim is left once the namespace is
gone, and a deployment needs an idle console.

## 3. Runs

| run | shows | bounds |
|---|---|---|
| `dq_clock` | structure, ledger, fencing, NACK retries, nothing lost, refinement of `ReliableQueue`, clock steps back | 2 identities, clock 0..2, 3 admissions, 3 deliveries, batch of 1 |
| `dq_limits` | gauges, bytes, limits | 4 identities, 2 sizes, capacity 2, dedup 3, bytes for two small events beside two completions, not for two large ones beside one |
| `dq_receipts` | valid leases do not overlap, ACK retries; the ticker alone returns leases and frees completions | 2 identities, clock 0..5, lease and TTL of 2, a malformed content, batch of 1 |
| `pipe` | commit before ACK, events kept, timely receipts | one storable event, or two poison ones and 1 quarantine slot; 2 workers, 3 deliveries, lease 2, clock 0..6 |
| `collector` | exit status, exit | 3 workers |
| `store` | metadata, duplicates, returned rows, every Persist ends | 2 sessions; 5 events of two GPUs: out of order, equal times, reused identities |
| `gate` | gate, slots, close; calls return, shutdown completes | 2 requests, 2 slots, 1 poll slot, 1 due event |
| `streamer` | no gap, counts, stops in time, hopeless file | all files of up to 3 records, count 4, 5 passes |
| `memory` | FIFO refinement, tombstones, window | 4 identities, ring of 2, 3 remembered, TTL 2, 5 deliveries |
| `query` | exact answers, no leaks, schema applied once | 2 jobs of different builds started twice, 2 requests on 1 slot, 3 rows with a tie, budget for 2, 2 ticks per microsecond |
| `console` | forwards, deployed tags, operations end | 2 repositories, 2 forward processes, 2 builds |
| `cleanup` | success, ownership, adoption, recovery | 2 volumes of one path, 2 faults, 1 restart of the provisioner, 1 redeployment |

Why these bounds reach the cases that matter: two identities are needed for an
index key of one to be confused with that of the other and for a batch of one
to miss an entry; three deliveries let one identity be delivered, expire, be
delivered again and once more after a NACK; three admissions let an identity be
completed, forgotten and admitted anew beside another; capacities below
the number of identities make the limits on counts bind, and beside one
completion the byte limit refuses a second large event which they would admit.
`WithinLimits` has a mutant for either limit. In `pipe` a lease of 2 with a
margin of 1 lets a worker overrun its lease while another one holds the next.
`gate` and `store` need two of each actor: one inside the gate, or holding the
row, and one that waits for it; shutdown and the cleanup worker come on top.
In `query` the budget lies between two and three rows, and one range begins,
another ends, in the middle of a microsecond with a row just outside. Its rows
are of one GPU, so that the order of the GPU list is left to the proof. In `cleanup` two volumes share a path, as the
volumes of two deployments do, and two faults let a retry fail again.
Named bounds are `MaxNow`, `MaxAccepted`, `MaxDeliveries`, `MaxDue`,
`MaxReplay`, `MaxClock`, `MaxReceived`, `MaxAttempts`, `MaxBuilds`,
`MaxFaults`, `MaxRestarts` and `MaxDeploys`; each stops an action, none changes
its effect. The proofs do not use them. Deadlock checking is off in `pipe`,
where the bounds on clock and deliveries end every behaviour, and in
`collector`, where the process exits.

Symmetry is used for identities, contents, workers and handlers in the runs
without liveness properties; the models compare none of them by order.

Every property has a mutant: an operator `X_Suffix` placed before the definition
`X`, changed the way a plausible mistake would change the code. With the mutant
in place TLC reports the property violated under the same configuration.

### Fairness

* `LiveSpec` (dq_receipts): weak fairness of `Cleanup` only, the ticker of
  `OpenDurable`. Clients need not do anything.
* `LiveGateSpec`: weak fairness of steps that only depend on the Go scheduler
  and on transactions and timers ending; strong fairness of `TakeGate` and
  `CloseGate`, because senders blocked on a Go channel are queued in order, and
  of `PollEnds` and `ExitCleanup`, because a `select` picks at random among its
  ready cases and the deadline, once fired, stays ready. None for arrivals.
* `LiveStreamSpec`: weak fairness of the run as a whole and of the watcher's
  timer; a broker that fails for ever is allowed.
* `LivePoolSpec`: weak fairness of each worker's own steps, of calls whose
  context has ended, and of the watcher's timer. A call whose context is alive
  may hang for ever, and no signal need come.
* `LiveConsoleSpec`: weak fairness of the operation's goroutine, of its
  45-minute timer, and of the end of a command once its context ended. That a
  killed command ends assumes that none of its descendants leaves the process
  group and keeps the output pipe open: `command` waits for that without bound.
* `LiveCleanupSpec`: weak fairness of the cleaner and of the cluster's
  controllers; strong fairness of `Clean(FALSE)`, the user who tries again.
* `LiveStoreSpec`: strong fairness of lock acquisition (PostgreSQL queues
  waiters), weak fairness of Commit and of the rollback of a vanished client.

## 4. Proofs

Every safety invariant, action property and refinement that a run checks is
also a theorem, for every value of the constants that the named assumptions
admit: any finite set of identities or handlers, any limits, any number of
workers, sessions, jobs, volumes or forwards, and without the runs' bounds.
The eight liveness properties are not (see the end of this section).

| module | theorem | property |
|---|---|---|
| `DurableQueueProofs` | `TypeCorrect`, `SequencesCorrect` | `TypeOK`, `SequencesUnique` |
| | `IndexesCorrect`, `CountersCorrect`, `LimitsRespected` | `IndexesMatch`, `CountersMatch`, `WithinLimits` |
| `DurableQueueSafety` | `TokensAreFenced`, `NackRetries` | `TokensFenced`, `NackRetrySafe` |
| | `LedgerCorrect`, `BytesCorrect` | `LedgerBalances`, `BytesMatch` |
| | `RecordsAreKept` (action) | `RecordsKept` |
| | `ReceiptsAreHonoured`, if the clock never steps back | `ReceiptsHonoured` |
| | `BrokerIsReliable` (refinement) | `Reliable` |
| `PipelineProofs` | `PipelineRunsBroker` | `PipeSpec => Spec /\ Reliable` |
| | `CommitPrecedesAck`, `ConfirmedEventsKept` | `CommitBeforeAck`, `EventsKept` |
| | `ReceiptsInTime`, under two hypotheses | `ReceiptInTime` |
| `QueryAPIProofs` | `MigrationsCorrect`, `ResourcesReturned`, `AnswersExact` | `MigrationOutcome`, `NothingLeaked`, `AnswerExact` |
| `BrokerProofs` | `TombstonesAgree`, `WindowIsKept` (action) | `TombstonesExact`, `WindowKept` |
| | `RingIsFifo` (refinement) | `ImplementsFifo` |
| | `FileUseEnds`, `HoldingsExact` | `NoUseAfterClose`, `NothingHeld` |
| `TelemetryStoreProofs` | `ReturnsAreStored`, `MetadataIsExact`, `DuplicatesChangeNothing` (action) | `ReturnedIsStored`, `MetadataExact`, `DuplicateChangesNothing` |
| `ClientProofs` | `NothingSkipped`, `StatisticsExact`, `ExitStatusHonest` | `NoGap`, `AcceptedExact`, `FailureReported` |
| `ConsoleProofs` | `CleanupHonest`, `ForeignIsKept`, `AdoptionIsSafe` (actions) | `SuccessMeansGone`, `ForeignKept`, `AdoptionSafe` |
| | `NoForwardLost`, `OnlyBuiltDeployed` | `ForwardsOwned`, `DeployedWasBuilt` |

Each module has one or two theorems `...Invariant` with the inductive invariant
the others follow from. TLC checked the strengthenings on the instances of the
runs before they were proved.

### The broker

`IInv` (`BrokerInvariant`): types, exact indexes, exact gauges, distinct
sequence numbers, limits. None of the parts is inductive alone. An index only
stays exact under a delete or a put when keys identify records, so it needs
distinct sequence numbers; these need that every stored number is at most the
counter. A gauge stays exact because the batch taken off an index has as many
entries as records change state, which needs the index to be exact. The limits
need the gauges of the four states to be counts, hence not negative, and that
an active record carries its event (`EventOK`), whose bytes ACK gives back.
One lemma per building block: `IndexMove` and `DeleteExact`/`PutFresh` about the
index sets, `MovedInv` for a set of records that changes state together (the
sweeps) and `OneMovedInv` for a single one, then a lemma per database operator,
and `NextIInv`, which has one step per action.

On top of `IInv` every transaction is shown to be one of five moves (a sweep
that returns expired leases and forgets expired completions; an admission or a
checkout after one; an ACK; a NACK), which speak of records, deliveries and
counters and no longer of buckets (`StepIsMove`). `SInv` is inductive over the
moves: absent records are blank, a leased record was attempted, there are as
many deliveries as the persisted counter says, a lease belongs to the latest
delivery of its event with the expiry that consumer was told, a record
remembers the last NACK of its latest delivery, and the ledger balances.
Fencing alone is not inductive: a checkout takes its token from that counter,
which must be beyond every token handed out. The ledger needs blank records,
or an identity admitted again would count as tried, and that a leased record
was attempted, or an ACK would settle an event that was never delivered. The
refinement of `ReliableQueue` and `RecordsKept` follow move by move.

`ReceiptsHonoured` is false with a clock that steps back: an expiry in the
future can then be in the past of another request. The theorem has
`ClockSteps \subseteq Nat` as a hypothesis, like the run `dq_receipts`.

`BytesMatch` says that `logicalBytes` is a sum over the stored records. A sum
over a set needs induction, which the prover does not do; the property
therefore counts `StoredBytes`, a set with one element for each byte of each
content held, and a step adds or removes the bytes of one content at a time.

### The pipeline

`PInv` adds to `SInv`: what a worker has reached says what is in the table (a
worker that acknowledges has its row), the same for every receipt still on its
way, no storable event was ever rejected, and a completed event has a row.
`PipelineRunsBroker` shows that each pipeline step is a broker step or leaves
the broker alone, so all results about the broker hold of the composition.

`ReceiptsInTime` has two hypotheses: a clock that never steps back, and
`LeaseDuration <= CompletionTTL + ExpiryMargin`. The second is needed when an
ACK took effect, its reply was lost and the worker repeats it: the completion
must still be remembered at the worker's deadline. `DefaultDurableOptions`
(durable.go:50-51) keeps a completion for an hour against leases of 30 seconds;
`DurableOptions.Validate` does not require it, so it is a hypothesis of this
theorem and no assumption of the module.

### The in-memory broker and the gate

`MemInv`: the slots from `head` on hold distinct remembered identities, the
tombstones are the delivered ones in order of expiry and none lies further
ahead than the TTL, and the two together count the map. The prefix of expired
tombstones is a set of positions closed downwards, which is `1 .. n` for its
cardinality `n` (`PrefixIs`): that replaces an induction along the list.
`RingIsFifo` maps slot `(head + i - 1) % Capacity` to position `i` of the
abstract queue.

`GateInv`: who may be at which control point given `gate`, `stopped` and
`closed`, and that the semaphores count. The second select of `enter` carries
`NoUseAfterClose`: a goroutine past it holds the gate and Close needs the gate.

### The telemetry store, migrations, API

`StoreInv` describes each `gpus` row by the committed rows of its GPU
(`Describes`), says of a session what it read and still may rely on because it
holds the row's lock, and that two sessions never hold the same identity or the
same GPU. `MergeExact` shows that the upsert adds one event to what a row
describes, in any order.

`MigrationInv`: the advisory lock has one holder, the job inside its
transaction, and what it read under the lock is still true. `ApiInv` follows
the snapshot, its sorted rows and the bytes written through the handler.
`Result` chooses the sorted ordering of the result set. That there is one is
`SortExists`, again without induction: the place of a row is the number of rows
before it, and this ranking is one to one.

### Streamer, collector, console

`StreamInv`: `confirmed` is the set of valid records read so far except the one
in hand; `PassedWrap` shows that the end of one pass and the start of the next
describe the same set. `PoolInv`: a failed worker's error is in the channel
until `Run` reads it, and `Run` returns last.

`CleanInv` says what each stage of a cleanup may rely on having checked:
behind the deletion of the namespace nothing can be claimed again, before the
first deletion nothing foreign is around, and during recovery every volume
present was seen and did not come into use again. `ConsoleInv`: an operation
stands where its script says, a forward that is running is attached or in the
hand of the operation, and tags in memory and on disk were built, except in
the middle of a build.

### Assumptions and limits

Theorems use the named `ASSUME`s of the modules: `OptionsAssumption` and
`InputsAssumption` (what `DurableOptions.Validate` admits, finitely many
identities), `PipelineAssumption`, `GateAssumption`, `MemoryAssumption`,
`EventsAssumption`, `MigrationAssumption`, `QueryAssumption`,
`StreamerAssumption`, `PoolAssumption`, `ConsoleAssumption`,
`CleanupAssumption`. TLC evaluates each in a run. They state types, that
special values differ from ordinary ones, that keys are keys, and the
lower limits the code enforces.

Only model-checked, because the prover has no liveness under fairness and no
`ENABLED`: `ExpiredSwept`, `CollectorExits`, `PersistEnds`, `CallsReturn`,
`ShutdownCompletes`, `RunEnds`, `OperationEnds` and `CleanRecovers`. That none
of the systems deadlocks is shown by the runs only, too.

## 5. What the models show beside the properties

None of these breaks a property above; each is a reachable state a maintainer
may want to know.

* Console: a forward that exits between its first healthy answer and
  `s.port = port` (console/main.go:165) leaves the status "connected" with no
  process behind it until the next connect or disconnect.
* Console: a quit between `cmd.Start` (console/main.go:137) and `s.forward = cmd`
  orphans the kubectl process; console/README.md:13 says that Ctrl-C stops the
  owned port-forward. `ForwardsOwned` is stated while the console serves.
* Console: removing the environment forgets the tag of the selected repository
  only, and not even that one when Colima's deletion fails after Minikube's; a
  later deploy may use a tag whose images are gone. `DeployedWasBuilt` therefore
  says that the images were built and loaded at some time.
* Cleanup: when `kubectl create namespace` takes effect and fails
  (reclaim.go:126) the deferred deletion is not installed yet. The probe
  namespace stays, cleanups still work, and a removal of the environment refuses
  because of an unrelated namespace until somebody deletes it. The same follows
  when the deferred deletion itself fails.

## 6. Plan

What is left to prove, in this order:

* that `Persist` of `TelemetryStore` implements the atomic insert that
  `Pipeline` uses (a commit inserts at most one row, under an identity that had
  none), as an abstract specification with a refinement mapping;
* the parts of liveness that are safety: lock orders without a circle in
  `TelemetryStore` and `BrokerGate` (whoever waits, waits for somebody who can
  move), and a measure that each of a streamer's, collector's or console's own
  steps decreases once it is told to stop;
* shorter proofs of the sweep lemmas in `DurableQueueSafety`.

## 7. Not modelled

* Configuration parsing, logging, the syntax of timestamps, HTTP and JSON
  encoding, the OpenAPI document, the console's web page, log buffer and
  telemetry proxy, the packaging: no state that correctness depends on.
* The test consumer: a diagnostic tool. Whatever it sends is a request
  `DurableQueue` allows from any consumer.
* The HTTP handler of the in-memory broker: a semaphore like the outer one in
  `BrokerGate` around the two calls of `MemoryQueue`.
* `Pipeline` uses an atomic Persist and `QueryAPI` atomic inserts; the product
  with `TelemetryStore`'s sessions is out of TLC's reach.
* Disk corruption and PostgreSQL failures that break a commit already reported
  are outside the models, as they are outside the code.
