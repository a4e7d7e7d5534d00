----------------------------- MODULE Migrations -----------------------------
(***************************************************************************)
(* migrations.Apply as run by migration jobs: one PostgreSQL transaction   *)
(* per attempt, one step per statement, any number of jobs at a time and   *)
(* from builds that may embed different SQL.  PostgreSQL itself is         *)
(* external: a transaction's changes become visible when it commits, and   *)
(* CREATE TABLE waits for an uncommitted table of the same name and then   *)
(* fails on a committed one.                                               *)
(***************************************************************************)
EXTENDS Naturals

CONSTANTS
  Runners,       \* migration jobs
  Checksum,      \* the checksum of the SQL embedded in each job's build
  NoChecksum,
  MaxAttempts    \* how often a job is started (backoffLimit)

ASSUME MigrationAssumption ==
  /\ \A r \in Runners : Checksum[r] # NoChecksum
  /\ MaxAttempts \in Nat

VARIABLES
  schema,     \* the SQL the committed tables gpus and telemetry come from
  marker,     \* committed checksum of Version in gpu_schema_migrations
  advisory,   \* holders of the transaction-level advisory lock
  runner      \* each job's place in Apply, how it ended, its attempts

migrationVars == <<schema, marker, advisory, runner>>

At(r, p) == runner[r].pc = p
Step(r, p) == runner' = [runner EXCEPT ![r].pc = p]

(* Apply returns; the transaction and its lock end. *)
Return(r, outcome) ==
  /\ runner' = [runner EXCEPT ![r].pc = outcome]
  /\ advisory' = advisory \ {r}

(* A job starts, or is started again after a failure; then Pool.Begin. *)
BeginMigration(r) ==
  /\ runner[r].pc \in {"new", "mismatch", "conflict", "fault"}
  /\ runner[r].attempts < MaxAttempts
  /\ runner' = [runner EXCEPT ![r].pc = "begun", ![r].attempts = @ + 1]
  /\ UNCHANGED <<schema, marker, advisory>>

(* Mutant: the lock is not taken. *)
AdvisoryLock_Skipped(r) ==
  /\ At(r, "begun")
  /\ advisory' = advisory \cup {r}
  /\ Step(r, "locked")
  /\ UNCHANGED <<schema, marker>>

(* SELECT pg_advisory_xact_lock: granted to one transaction at a time. *)
AdvisoryLock(r) ==
  /\ At(r, "begun")
  /\ advisory = {}
  /\ advisory' = {r}
  /\ Step(r, "locked")
  /\ UNCHANGED <<schema, marker>>

(* CREATE TABLE IF NOT EXISTS gpu_schema_migrations and the SELECT of the  *)
(* recorded checksum.                                                      *)
LookUp(r) ==
  /\ At(r, "locked")
  /\ \/ /\ marker \notin {NoChecksum, Checksum[r]}
        /\ Return(r, "mismatch")
     \/ /\ marker \in {NoChecksum, Checksum[r]}
        /\ Step(r, IF marker = NoChecksum THEN "missing" ELSE "current")
        /\ UNCHANGED advisory
  /\ UNCHANGED <<schema, marker>>

Uncommitted(r) == runner[r].pc \in {"created", "recorded"}

(* The embedded SQL. *)
ExecSQL(r) ==
  /\ At(r, "missing")
  /\ \A o \in Runners : ~Uncommitted(o)
  /\ IF schema = NoChecksum THEN Step(r, "created") /\ UNCHANGED advisory
                            ELSE Return(r, "conflict")
  /\ UNCHANGED <<schema, marker>>

(* INSERT INTO gpu_schema_migrations *)
Record(r) ==
  /\ At(r, "created")
  /\ Step(r, "recorded")
  /\ UNCHANGED <<schema, marker, advisory>>

(* COMMIT, by the deferred return of either branch.  Its reply may be lost, *)
(* and then Apply returns an error although the transaction is in.          *)
CommitMigration(r) ==
  /\ runner[r].pc \in {"recorded", "current"}
  /\ schema' = IF At(r, "recorded") THEN Checksum[r] ELSE schema
  /\ marker' = IF At(r, "recorded") THEN Checksum[r] ELSE marker
  /\ \/ Return(r, "applied")
     \/ Return(r, "fault")

(* A statement fails or times out, or the job is killed: rolled back. *)
MigrationFault(r) ==
  /\ runner[r].pc \in {"begun", "locked", "missing", "created", "recorded", "current"}
  /\ Return(r, "fault")
  /\ UNCHANGED <<schema, marker>>

MigrationInit ==
  /\ schema = NoChecksum /\ marker = NoChecksum
  /\ advisory = {}
  /\ runner = [r \in Runners |-> [pc |-> "new", attempts |-> 0]]

MigrationStep(r) ==
  \/ BeginMigration(r) \/ AdvisoryLock(r) \/ LookUp(r) \/ ExecSQL(r) \/ Record(r)
  \/ CommitMigration(r) \/ MigrationFault(r)

-----------------------------------------------------------------------------
(* However the jobs overlap, fail and start again: the tables exist exactly *)
(* when the marker Store.Ready looks for does, and come from the SQL it  *)
(* names; a job that reports success found or made its own schema; a job    *)
(* never fails because another one was faster, only because of a fault or   *)
(* because the recorded checksum really is another.                         *)
MigrationOutcome ==
  /\ schema = marker
  /\ \A r \in Runners :
       /\ At(r, "applied") => schema = Checksum[r]
       /\ At(r, "mismatch") => schema \notin {NoChecksum, Checksum[r]}
       /\ ~At(r, "conflict")

=============================================================================
