--------------------------- MODULE QueryAPIProofs ---------------------------
(***************************************************************************)
(* What the migration jobs and the read API guarantee for any number of    *)
(* jobs, builds, handlers and rows.                                        *)
(***************************************************************************)
EXTENDS QueryAPI, FiniteSetTheorems, TLAPS

-----------------------------------------------------------------------------
(* The migration jobs *)

MigrationPlaces ==
  {"new", "begun", "locked", "missing", "current", "created", "recorded",
   "applied", "mismatch", "conflict", "fault"}

(* Places between the grant of the advisory lock and the transaction's end *)
InTransaction == {"locked", "missing", "current", "created", "recorded"}

RunnerTypeOK == runner \in [Runners -> [pc : MigrationPlaces, attempts : Nat]]

(* The advisory lock has one holder, the job inside its transaction. *)
LockExact ==
  /\ \A r \in Runners : r \in advisory <=> runner[r].pc \in InTransaction
  /\ \A r, s \in advisory : r = s
  /\ advisory \subseteq Runners

(* What a job read under the lock is still true while it holds it. *)
ReadsStable ==
  \A r \in Runners :
    /\ runner[r].pc \in {"missing", "created", "recorded"} => marker = NoChecksum
    /\ runner[r].pc = "current" => marker = Checksum[r]

MigrationInv == RunnerTypeOK /\ LockExact /\ ReadsStable /\ MigrationOutcome

USE DEF MigrationPlaces, InTransaction, RunnerTypeOK, LockExact, ReadsStable, MigrationOutcome, At

(* However the jobs of several builds overlap, one statement of one of     *)
(* them keeps the invariant.                                               *)
LEMMA MigrationStepInv ==
  ASSUME MigrationInv, NEW r \in Runners, MigrationStep(r)
  PROVE  MigrationInv'
<1> USE MigrationAssumption DEF MigrationInv, Return, Step
<1>1. CASE BeginMigration(r)
  BY <1>1 DEF BeginMigration
<1>2. CASE AdvisoryLock(r)
  BY <1>2 DEF AdvisoryLock
<1>3. CASE LookUp(r)
  BY <1>3 DEF LookUp
<1>4. CASE ExecSQL(r)
  BY <1>4 DEF ExecSQL
<1>5. CASE Record(r)
  BY <1>5 DEF Record
<1>6. CASE CommitMigration(r)
  BY <1>6 DEF CommitMigration
<1>7. CASE MigrationFault(r)
  BY <1>7 DEF MigrationFault
<1> QED BY <1>1, <1>2, <1>3, <1>4, <1>5, <1>6, <1>7 DEF MigrationStep

-----------------------------------------------------------------------------
(* Sorting *)

(* A finite set on which R is a strict total order can be listed without   *)
(* repetition in that order: an element's place is the number of elements  *)
(* before it.                                                              *)
LEMMA SortExists ==
  ASSUME NEW S, IsFiniteSet(S), NEW R,
         \A x \in S : <<x, x>> \notin R,
         \A x, y, z \in S : <<x, y>> \in R /\ <<y, z>> \in R => <<x, z>> \in R,
         \A x, y \in S : x # y => <<x, y>> \in R \/ <<y, x>> \in R
  PROVE  \E s \in SetToSeqs(S) : \A i, j \in DOMAIN s : i < j => <<s[i], s[j]>> \in R
<1> DEFINE n == Cardinality(S)
           Below(x) == {y \in S : <<y, x>> \in R}
           rank == [x \in S |-> Cardinality(Below(x)) + 1]
<1>1. n \in Nat
  BY FS_CardinalityType
<1>2. \A x \in S : /\ IsFiniteSet(Below(x)) /\ Cardinality(Below(x)) \in Nat
                   /\ Cardinality(Below(x)) < n
  <2> TAKE x \in S
  <2>1. Below(x) \in SUBSET S /\ Below(x) # S
    OBVIOUS
  <2>2. IsFiniteSet(Below(x)) /\ Cardinality(Below(x)) <= n /\ (n = Cardinality(Below(x)) => S = Below(x))
    BY <2>1, FS_Subset
  <2>3. Cardinality(Below(x)) \in Nat
    BY <2>2, FS_CardinalityType
  <2> HIDE DEF n, Below
  <2> QED BY <1>1, <2>1, <2>2, <2>3
<1>3. \A x, y \in S : <<x, y>> \in R => rank[x] < rank[y]
  <2> TAKE x, y \in S
  <2> HAVE <<x, y>> \in R
  <2>1. Below(x) \in SUBSET Below(y) /\ Below(x) # Below(y)
    OBVIOUS
  <2>2. Cardinality(Below(x)) <= Cardinality(Below(y)) /\ Cardinality(Below(x)) # Cardinality(Below(y))
    BY <1>2, <2>1, FS_Subset
  <2>3. rank[x] = Cardinality(Below(x)) + 1 /\ rank[y] = Cardinality(Below(y)) + 1
    OBVIOUS
  <2> HIDE DEF Below, rank
  <2> QED BY <1>2, <2>2, <2>3
<1>4. rank \in [S -> 1 .. n]
  <2>1. ASSUME NEW x \in S PROVE Cardinality(Below(x)) + 1 \in 1 .. n
    <3> HIDE DEF Below, n
    <3> QED BY <1>1, <1>2
  <2> QED BY <2>1
<1> HIDE DEF n, rank, Below
<1>5. ASSUME NEW x \in S, NEW y \in S, rank[x] = rank[y] PROVE x = y
  <2>1. rank[x] \in Nat /\ rank[y] \in Nat
    BY <1>1, <1>4
  <2>2. ~(<<x, y>> \in R) /\ ~(<<y, x>> \in R)
    BY <1>3, <1>5, <2>1
  <2> QED BY <2>2
<1>6. rank \in Injection(S, 1 .. n)
  BY <1>4, <1>5 DEF Injection, IsInjective
<1>7. IsFiniteSet(1 .. n) /\ Cardinality(1 .. n) = n
  BY <1>1, FS_Interval
<1>8. rank \in Surjection(S, 1 .. n)
  BY <1>6, <1>7, FS_Injection DEF n
<1>9. \A i \in 1 .. n : \E x \in S : rank[x] = i
  BY <1>8 DEF Surjection
<1> DEFINE s == [i \in 1 .. n |-> CHOOSE x \in S : rank[x] = i]
<1>10. \A i \in 1 .. n : s[i] \in S /\ rank[s[i]] = i
  BY <1>9
<1>11. s \in [1 .. n -> S] /\ DOMAIN s = 1 .. n
  BY <1>10
<1> HIDE DEF s
<1>12. s \in SetToSeqs(S)
  BY <1>10, <1>11 DEF SetToSeqs, n
<1>13. ASSUME NEW i \in 1 .. n, NEW j \in 1 .. n, i < j PROVE <<s[i], s[j]>> \in R
  <2>1. s[i] \in S /\ s[j] \in S /\ rank[s[i]] = i /\ rank[s[j]] = j
    BY <1>10
  <2>2. s[i] # s[j] /\ <<s[j], s[i]>> \notin R
    BY <1>3, <1>13, <2>1
  <2> QED BY <2>1, <2>2
<1> QED BY <1>11, <1>12, <1>13

(* What a listing without repetition is: a sequence of as many elements as *)
(* the set has, and of exactly its elements.                               *)
LEMMA ListingExact ==
  ASSUME NEW S, IsFiniteSet(S), NEW s \in SetToSeqs(S)
  PROVE  /\ s \in Seq(S) /\ Len(s) = Cardinality(S) /\ DOMAIN s = 1 .. Len(s)
         /\ ToSet(s) = S
<1> DEFINE n == Cardinality(S)
<1>1. n \in Nat
  BY FS_CardinalityType
<1>2. s \in [1 .. n -> S] /\ \A i, j \in 1 .. n : i # j => s[i] # s[j]
  BY DEF SetToSeqs
<1>3. IsFiniteSet(1 .. n) /\ Cardinality(1 .. n) = n
  BY <1>1, FS_Interval
<1> HIDE DEF n
<1>4. s \in Seq(S) /\ Len(s) = n /\ DOMAIN s = 1 .. n
  BY <1>1, <1>2
<1>5. s \in Injection(1 .. n, S)
  BY <1>2 DEF Injection, IsInjective
<1>6. s \in Surjection(1 .. n, S)
  BY <1>3, <1>5, FS_Injection DEF n
<1>7. \A x \in S : \E i \in 1 .. n : s[i] = x
  BY <1>6 DEF Surjection
<1>8. ToSet(s) = S
  BY <1>2, <1>4, <1>7 DEF ToSet
<1> QED BY <1>4, <1>8 DEF n

-----------------------------------------------------------------------------
(* The queries *)

(* Rounding: counted in whole microseconds, a row is not before the        *)
(* rounded lower bound exactly when it is not before the bound itself, and *)
(* not after the truncated upper bound exactly when not after the bound.   *)
LEMMA BoundsExact ==
  ASSUME NEW t \in Int, NEW at \in Int
  PROVE  /\ at >= LowerBound(t) <=> t <= at * Micro
         /\ at <= Truncate(t) <=> at * Micro <= t
<1>1. Micro \in Nat \ {0}
  BY QueryAssumption
<1> DEFINE k == t \div Micro
           m == t % Micro
<1>2. k \in Int /\ m \in 0 .. Micro - 1 /\ t = Micro * k + m
  BY <1>1
<1>3. Truncate(t) = k /\ LowerBound(t) = IF k * Micro < t THEN k + 1 ELSE k
  BY DEF Truncate, LowerBound
<1> HIDE DEF k, m
<1>4. ASSUME NEW a \in Int, NEW b \in Int, a <= b PROVE a * Micro <= b * Micro
  <2>1. (b - a) * Micro >= 0
    BY <1>1, <1>4
  <2>2. (b - a) * Micro = b * Micro - a * Micro
    BY <1>1
  <2> QED BY <1>1, <2>1, <2>2
<1>5. Micro * k = k * Micro /\ (k + 1) * Micro = k * Micro + Micro
  BY <1>1, <1>2
<1>6. k * Micro <= t /\ t < (k + 1) * Micro
  BY <1>1, <1>2, <1>5
<1>7. at <= k => at * Micro <= t
  BY <1>1, <1>2, <1>4, <1>6
<1>8. ~(at <= k) => (k + 1) * Micro <= at * Micro
  BY <1>1, <1>2, <1>4
<1>9. at * Micro \in Int
  BY <1>1
<1>10. at <= Truncate(t) <=> at * Micro <= t
  BY <1>1, <1>2, <1>3, <1>6, <1>7, <1>8, <1>9
<1>11. CASE k * Micro < t
  <2>1. ~(at <= k) => t <= at * Micro
    BY <1>1, <1>2, <1>6, <1>8, <1>9
  <2>2. at <= k => at * Micro < t
    BY <1>1, <1>2, <1>4, <1>9, <1>11
  <2> QED BY <1>1, <1>2, <1>3, <1>9, <1>10, <1>11, <2>1, <2>2
<1>12. CASE ~(k * Micro < t)
  <2>1. t = k * Micro
    BY <1>1, <1>2, <1>6, <1>12
  <2>2. at >= k => t <= at * Micro
    BY <1>2, <1>4, <2>1
  <2>3. ~(at >= k) => at * Micro < t
    <3> SUFFICES ASSUME ~(at >= k) PROVE at * Micro < t
      OBVIOUS
    <3>1. (at + 1) * Micro <= k * Micro
      BY <1>2, <1>4
    <3>2. (at + 1) * Micro = at * Micro + Micro
      BY <1>1
    <3> QED BY <1>1, <1>2, <1>9, <2>1, <3>1, <3>2
  <2> QED BY <1>2, <1>3, <1>9, <1>10, <1>12, <2>2, <2>3
<1> QED BY <1>11, <1>12

(* The WHERE clause of readTelemetry selects what the request asked for. *)
LEMMA SelectedExact ==
  ASSUME NEW rows \in SUBSET Rows, NEW q \in Queries
  PROVE  Selected(rows, q) = {r \in rows : InRange(r, q)}
<1>1. q.start \in Int \cup {NoBound} /\ q.end \in Int \cup {NoBound} /\ NoBound \notin Int
  BY QueryAssumption
<1>2. ASSUME NEW r \in rows
      PROVE  /\ (q.start = NoBound \/ r.at >= LowerBound(q.start))
                <=> (q.start # NoBound => q.start <= r.at * Micro)
             /\ (q.end = NoBound \/ r.at <= Truncate(q.end))
                <=> (q.end # NoBound => r.at * Micro <= q.end)
  <2>1. r.at \in Int
    BY QueryAssumption
  <2>2. q.start # NoBound => (r.at >= LowerBound(q.start) <=> q.start <= r.at * Micro)
    BY <1>1, <2>1, BoundsExact
  <2>3. q.end # NoBound => (r.at <= Truncate(q.end) <=> r.at * Micro <= q.end)
    BY <1>1, <2>1, BoundsExact
  <2> QED BY <2>2, <2>3
<1> QED BY <1>2 DEF Selected, InRange

(* The elements of an answer *)
Items == Int \cup Rows

(* A result set lists exactly the requested rows, or the GPUs that have    *)
(* rows, each once and in the order of its ORDER BY.                       *)
LEMMA ResultExact ==
  ASSUME NEW rows \in SUBSET Rows, IsFiniteSet(rows), NEW q \in Queries
  PROVE  LET s == Result(rows, q) IN
         /\ s \in Seq(Items) /\ Len(s) = Cardinality(ToSet(s))
         /\ q.gpu = AllGPUs => /\ ToSet(s) = Known(rows)
                               /\ \A i, j \in 1 .. Len(s) : i < j => s[i] < s[j]
         /\ q.gpu # AllGPUs => /\ ToSet(s) = {r \in rows : InRange(r, q)}
                               /\ \A i, j \in 1 .. Len(s) : i < j => Earlier(s[i], s[j])
<1>1. CASE q.gpu = AllGPUs
  <2> DEFINE S == Known(rows)
             R == {p \in S \X S : p[1] < p[2]}
             s == Result(rows, q)
  <2>1. IsFiniteSet(S)
    <3>1. [r \in rows |-> r.gpu] \in Surjection(rows, S)
      BY DEF Known, Surjection
    <3> QED BY <3>1, FS_Surjection
  <2>2. \A x \in S : x \in Int
    BY QueryAssumption DEF Known
  <2> HIDE DEF S
  <2>3. \A x, y \in S : <<x, y>> \in R <=> x < y
    OBVIOUS
  <2> HIDE DEF R
  <2>4. \E t \in SetToSeqs(S) : \A i, j \in DOMAIN t : i < j => <<t[i], t[j]>> \in R
    <3>1. \A x \in S : <<x, x>> \notin R
      BY <2>2, <2>3
    <3>2. \A x, y, z \in S : <<x, y>> \in R /\ <<y, z>> \in R => <<x, z>> \in R
      BY <2>2, <2>3
    <3>3. \A x, y \in S : x # y => <<x, y>> \in R \/ <<y, x>> \in R
      BY <2>2, <2>3
    <3> QED BY <2>1, <3>1, <3>2, <3>3, SortExists
  <2>5. \E t \in SetToSeqs(S) : \A i, j \in DOMAIN t : i < j => t[i] < t[j]
    <3>1. PICK t \in SetToSeqs(S) : \A i, j \in DOMAIN t : i < j => <<t[i], t[j]>> \in R
      BY <2>4
    <3>2. \A i \in DOMAIN t : t[i] \in S
      BY DEF SetToSeqs
    <3> QED BY <2>3, <3>1, <3>2
  <2>6. s \in SetToSeqs(S) /\ \A i, j \in DOMAIN s : i < j => s[i] < s[j]
    BY <1>1, <2>5 DEF Result, S
  <2> HIDE DEF s
  <2>7. s \in Seq(S) /\ Len(s) = Cardinality(S) /\ ToSet(s) = S /\ DOMAIN s = 1 .. Len(s)
    BY <2>1, <2>6, ListingExact
  <2>8. s \in Seq(Items)
    <3>1. S \subseteq Items
      BY <2>2 DEF Items
    <3> QED BY <2>7, <3>1
  <2> QED BY <1>1, <2>6, <2>7, <2>8 DEF s, S
<1>2. CASE q.gpu # AllGPUs
  <2> DEFINE S == Selected(rows, q)
             R == {p \in S \X S : Earlier(p[1], p[2])}
             s == Result(rows, q)
  <2>1. S \in SUBSET rows /\ IsFiniteSet(S)
    BY FS_Subset DEF Selected
  <2>2. \A x \in S : x.at \in Int /\ x.id \in Int
    BY <2>1, QueryAssumption
  <2>3. \A x, y \in S : x.id = y.id => x = y
    BY <2>1, QueryAssumption
  <2> HIDE DEF S
  <2>4. \A x, y \in S : <<x, y>> \in R <=> Earlier(x, y)
    OBVIOUS
  <2> HIDE DEF R
  <2>5. \E t \in SetToSeqs(S) : \A i, j \in DOMAIN t : i < j => <<t[i], t[j]>> \in R
    <3>1. \A x \in S : <<x, x>> \notin R
      BY <2>2, <2>4 DEF Earlier
    <3>2. \A x, y, z \in S : <<x, y>> \in R /\ <<y, z>> \in R => <<x, z>> \in R
      BY <2>2, <2>4 DEF Earlier
    <3>3. \A x, y \in S : x # y => <<x, y>> \in R \/ <<y, x>> \in R
      BY <2>2, <2>3, <2>4 DEF Earlier
    <3> QED BY <2>1, <3>1, <3>2, <3>3, SortExists
  <2>6. \E t \in SetToSeqs(S) : \A i, j \in DOMAIN t : i < j => Earlier(t[i], t[j])
    <3>1. PICK t \in SetToSeqs(S) : \A i, j \in DOMAIN t : i < j => <<t[i], t[j]>> \in R
      BY <2>5
    <3>2. \A i \in DOMAIN t : t[i] \in S
      BY DEF SetToSeqs
    <3> QED BY <2>4, <3>1, <3>2
  <2>7. s \in SetToSeqs(S) /\ \A i, j \in DOMAIN s : i < j => Earlier(s[i], s[j])
    BY <1>2, <2>6 DEF Result, S
  <2> HIDE DEF s
  <2>8. s \in Seq(S) /\ Len(s) = Cardinality(S) /\ ToSet(s) = S /\ DOMAIN s = 1 .. Len(s)
    BY <2>1, <2>7, ListingExact
  <2>9. s \in Seq(Items)
    <3>1. S \subseteq Items
      BY <2>1 DEF Items
    <3> QED BY <2>8, <3>1
  <2>10. S = {r \in rows : InRange(r, q)}
    BY SelectedExact DEF S
  <2> QED BY <1>2, <2>7, <2>8, <2>9, <2>10 DEF s
<1> QED BY <1>1, <1>2

-----------------------------------------------------------------------------
(* The handlers *)

(* Places of a request that holds a slot *)
Serving == {"admitted", "exists", "select", "rows", "transfer"}

HandlerPlaces == Serving \cup Outcomes \cup {"idle", "killed"}

HandlerRecord ==
  [pc : HandlerPlaces, query : Queries \cup {NoBound}, view : SUBSET Rows,
   items : Seq(Items), n : Nat]

ServerPlaces == {"serving", "signalled", "draining", "drained", "cancelled", "failed", "exited"}

ApiTypeOK ==
  /\ table \in SUBSET Rows /\ IsFiniteSet(table)
  /\ handler \in [Handlers -> HandlerRecord]
  /\ slots \in Nat
  /\ files \in SUBSET Handlers
  /\ server \in ServerPlaces

Busy == {h \in Handlers : handler[h].pc \in Serving}

(* Slots and files belong to requests being served; nothing is served      *)
(* after a graceful drain, and handlers are killed only by the exit.       *)
ResourcesExact ==
  /\ slots = Cardinality(Busy)
  /\ \A h \in files : handler[h].pc \in Serving \cup {"killed"}
  /\ server \in {"drained", "exited"} => Busy = {}
  /\ \A h \in Handlers : handler[h].pc = "killed" => server = "exited"

(* What a handler has prepared is the result of its query on the rows of   *)
(* one moment, and what it sends fits the budget.                          *)
Prepared(a) ==
  /\ a.pc \in Serving \cup {"200"} => a.query \in Queries
  /\ a.pc \in {"rows", "transfer", "200"} => a.view \subseteq table /\ a.items = Result(a.view, a.query)
  /\ a.pc \in {"transfer", "200"} => /\ a.n <= Len(a.items)
                                     /\ Written(Len(a.items)) + 1 <= MaxResponseBytes
  /\ a.pc = "200" => a.n = Len(a.items)

ApiInv == ApiTypeOK /\ ResourcesExact /\ \A h \in Handlers : Prepared(handler[h])

(* A handler that holds a slot is one that is working. *)
LEMMA WorkingIsServing ==
  ASSUME ApiTypeOK, NEW h \in Handlers
  PROVE  Working(h) <=> handler[h].pc \in Serving
BY DEF Working, ApiTypeOK, HandlerRecord, HandlerPlaces, Serving, Outcomes

(* A handler's step that leaves it holding its slot, or not holding one,   *)
(* and touches no other handler keeps the invariant when the file set and  *)
(* the prepared data fit.                                                  *)
LEMMA OneHandlerInv ==
  ASSUME ApiInv, NEW h \in Handlers, NEW a \in HandlerRecord,
         handler' = [handler EXCEPT ![h] = a],
         UNCHANGED <<table, server>>, server \notin {"exited", "drained"} \/ a.pc \notin Serving,
         a.pc # "killed",
         slots' = slots + (IF a.pc \in Serving THEN 1 ELSE 0)
                        - (IF handler[h].pc \in Serving THEN 1 ELSE 0),
         files' \in SUBSET (files \cup {h}), a.pc \notin Serving => h \notin files',
         Prepared(a)
  PROVE  ApiInv'
<1>1. handler' \in [Handlers -> HandlerRecord] /\ handler'[h] = a
      /\ \A o \in Handlers \ {h} : handler'[o] = handler[o]
  BY DEF ApiInv, ApiTypeOK
<1>2. IsFiniteSet(Busy) /\ Cardinality(Busy) \in Nat
  BY FS_Subset, FS_CardinalityType, QueryAssumption DEF Busy
<1>3. Busy' = IF a.pc \in Serving THEN Busy \cup {h} ELSE Busy \ {h}
  BY <1>1 DEF Busy
<1>4. h \in Busy <=> handler[h].pc \in Serving
  BY DEF Busy
<1>5. slots = Cardinality(Busy)
  BY DEF ApiInv, ResourcesExact
<1>6. Cardinality(Busy \cup {h}) = (IF h \in Busy THEN Cardinality(Busy) ELSE Cardinality(Busy) + 1)
      /\ Cardinality(Busy \ {h}) = (IF h \in Busy THEN Cardinality(Busy) - 1 ELSE Cardinality(Busy))
  BY <1>2, FS_AddElement, FS_RemoveElement
<1>7. slots' = Cardinality(Busy')
  BY <1>2, <1>3, <1>4, <1>5, <1>6
<1>8. slots' \in Nat
  <2>1. IsFiniteSet(Busy')
    BY <1>2, <1>3, FS_AddElement, FS_RemoveElement
  <2> QED BY <1>7, <2>1, FS_CardinalityType
<1>9. ApiTypeOK'
  BY <1>1, <1>8 DEF ApiInv, ApiTypeOK
<1>10. ResourcesExact'
  <2>1. \A o \in files' : handler'[o].pc \in Serving \cup {"killed"}
    BY <1>1 DEF ApiInv, ApiTypeOK, ResourcesExact
  <2>2. server' \in {"drained", "exited"} => Busy' = {}
    BY <1>3 DEF ApiInv, ResourcesExact
  <2>3. \A o \in Handlers : handler'[o].pc = "killed" => server' = "exited"
    BY <1>1 DEF ApiInv, ResourcesExact
  <2> QED BY <1>7, <2>1, <2>2, <2>3 DEF ResourcesExact
<1>11. ASSUME NEW o \in Handlers PROVE Prepared(handler[o])'
  <2>1. Prepared(a)' /\ Prepared(handler[o])
    BY DEF Prepared, ApiInv
  <2> QED BY <1>1, <2>1 DEF Prepared
<1> QED BY <1>9, <1>10, <1>11 DEF ApiInv

(* sendArray's return keeps the invariant, a 200 only when the whole body  *)
(* is out.                                                                 *)
LEMMA LeaveInv ==
  ASSUME ApiInv, NEW h \in Handlers, NEW outcome \in Outcomes,
         handler[h].pc \in Serving, Leave(h, outcome), UNCHANGED <<table, server>>,
         outcome = "200" => handler[h].pc = "transfer" /\ handler[h].n = Len(handler[h].items)
  PROVE  ApiInv'
<1> DEFINE a == Answer(h, outcome)
<1>1. handler[h] \in HandlerRecord /\ Prepared(handler[h])
  BY DEF ApiInv, ApiTypeOK
<1>2. Idle \in HandlerRecord
  BY DEF Idle, HandlerRecord, HandlerPlaces, Items
<1>3. a \in HandlerRecord /\ a.pc = outcome
  BY <1>1, <1>2 DEF Answer, HandlerRecord, HandlerPlaces
<1>4. Prepared(a)
  <2>1. CASE outcome = "200"
    BY <1>1, <2>1 DEF Prepared, Answer, HandlerRecord, Serving
  <2>2. CASE outcome # "200"
    BY <1>3, <2>2 DEF Prepared, Serving, Outcomes
  <2> QED BY <2>1, <2>2
<1>5. handler' = [handler EXCEPT ![h] = a] /\ slots' = slots - 1 /\ files' = files \ {h}
  BY DEF Leave
<1>6. slots \in Nat
  BY DEF ApiInv, ApiTypeOK
<1>7. a.pc \notin Serving /\ a.pc # "killed"
  BY <1>3 DEF Serving, Outcomes
<1>8. slots' = slots + 0 - 1
  BY <1>5, <1>6
<1> HIDE DEF a
<1> QED BY <1>3, <1>4, <1>5, <1>7, <1>8, OneHandlerInv

(* A step inside sendArray: the slot and the file stay. *)
LEMMA StayInv ==
  ASSUME ApiInv, NEW h \in Handlers, handler[h].pc \in Serving,
         NEW a \in HandlerRecord, a.pc \in Serving, handler' = [handler EXCEPT ![h] = a],
         UNCHANGED <<table, slots, server>>, files' \in SUBSET (files \cup {h}), Prepared(a)
  PROVE  ApiInv'
<1>1. server \notin {"drained", "exited"}
  BY DEF ApiInv, ResourcesExact, Busy
<1>2. slots \in Nat
  BY DEF ApiInv, ApiTypeOK
<1>3. slots' = slots + 1 - 1
  BY <1>2
<1>4. a.pc # "killed"
  BY DEF Serving
<1> QED BY <1>1, <1>3, <1>4, OneHandlerInv

(* Every step of a request keeps the invariant. *)
LEMMA HandlerInv == ASSUME ApiInv, NEW h \in Handlers, HandlerStep(h) PROVE ApiInv'
<1> DEFINE a == handler[h]
<1>1. a \in HandlerRecord /\ Prepared(a) /\ handler \in [Handlers -> HandlerRecord]
  BY DEF ApiInv, ApiTypeOK
<1>2. slots \in Nat /\ files \in SUBSET Handlers /\ table \in SUBSET Rows /\ IsFiniteSet(table)
  BY DEF ApiInv, ApiTypeOK
<1>3. Idle \in HandlerRecord
  BY DEF Idle, HandlerRecord, HandlerPlaces, Items
<1>4. ASSUME NEW q \in Queries, Arrive(h, q) PROVE ApiInv'
  <2>1. server \notin {"exited", "drained"} /\ UNCHANGED <<table, files, server>>
    BY <1>4 DEF Arrive
  <2>2. a.pc \notin Serving /\ a.pc # "killed"
    BY <1>4, <2>1, WorkingIsServing DEF Arrive, ApiInv, ResourcesExact
  <2>3. h \notin files
    BY <2>2 DEF ApiInv, ResourcesExact
  <2>4. CASE /\ handler' = [handler EXCEPT ![h] = [Idle EXCEPT !.pc = "admitted", !.query = q]]
             /\ slots' = slots + 1
    <3> DEFINE b == [Idle EXCEPT !.pc = "admitted", !.query = q]
    <3>1. b \in HandlerRecord /\ b.pc = "admitted" /\ Prepared(b)
      BY <1>3 DEF HandlerRecord, HandlerPlaces, Serving, Prepared, Idle, Items
    <3>2. slots' = slots + 1 - 0
      BY <1>2, <2>4
    <3>3. "admitted" \in Serving
      BY DEF Serving
    <3> HIDE DEF b
    <3> QED BY <2>1, <2>2, <2>4, <3>1, <3>2, <3>3, OneHandlerInv DEF b
  <2>5. ASSUME NEW outcome \in {"400", "503"}, handler' = [handler EXCEPT ![h] = Answer(h, outcome)],
               UNCHANGED slots
        PROVE  ApiInv'
    <3> DEFINE b == Answer(h, outcome)
    <3>1. b \in HandlerRecord /\ b.pc = outcome
      BY <1>3 DEF Answer, HandlerRecord, HandlerPlaces, Outcomes
    <3>2. b.pc \notin Serving /\ Prepared(b) /\ b.pc # "killed"
      BY <3>1 DEF Prepared, Serving
    <3>3. slots' = slots + 0 - 0
      BY <1>2, <2>5
    <3> HIDE DEF b
    <3> QED BY <2>1, <2>2, <2>3, <2>5, <3>1, <3>2, <3>3, OneHandlerInv DEF b
  <2> QED BY <1>4, <2>4, <2>5 DEF Arrive
<1>5. CASE CreateTemp(h)
  <2>1. PICK p \in {"select", "exists"} : handler' = [handler EXCEPT ![h].pc = p]
    BY <1>5 DEF CreateTemp, Goto
  <2> DEFINE b == [a EXCEPT !.pc = p]
  <2>2. b \in HandlerRecord /\ b.pc \in Serving /\ Prepared(b)
    BY <1>1, <1>5 DEF CreateTemp, HandlerRecord, HandlerPlaces, Serving, Prepared
  <2>3. handler' = [handler EXCEPT ![h] = b]
    BY <2>1
  <2>4. a.pc \in Serving
    BY <1>5 DEF CreateTemp, Serving
  <2> HIDE DEF b
  <2> QED BY <1>5, <2>2, <2>3, <2>4, StayInv DEF CreateTemp
<1>6. CASE LookUpGPU(h)
  <2>1. CASE Goto(h, "select") /\ UNCHANGED <<slots, files>>
    <3> DEFINE b == [a EXCEPT !.pc = "select"]
    <3>1. b \in HandlerRecord /\ b.pc \in Serving /\ Prepared(b)
      BY <1>1, <1>6 DEF LookUpGPU, HandlerRecord, HandlerPlaces, Serving, Prepared
    <3>2. handler' = [handler EXCEPT ![h] = b]
      BY <2>1 DEF Goto
    <3>3. a.pc \in Serving
      BY <1>6 DEF LookUpGPU, Serving
    <3> HIDE DEF b
    <3> QED BY <1>6, <2>1, <3>1, <3>2, <3>3, StayInv DEF LookUpGPU
  <2>2. CASE Leave(h, "404")
    BY <1>6, <2>2, LeaveInv DEF LookUpGPU, Serving, Outcomes
  <2> QED BY <1>6, <2>1, <2>2 DEF LookUpGPU
<1>7. CASE Select(h)
  <2> DEFINE b == [a EXCEPT !.pc = "rows", !.view = table, !.items = Result(table, a.query)]
  <2>1. a.query \in Queries
    BY <1>1, <1>7 DEF Select, Prepared, Serving
  <2>2. Result(table, a.query) \in Seq(Items)
    BY <1>2, <2>1, ResultExact
  <2>3. b \in HandlerRecord /\ b.pc \in Serving /\ Prepared(b)
    BY <1>1, <1>2, <2>1, <2>2 DEF HandlerRecord, HandlerPlaces, Serving, Prepared
  <2>4. handler' = [handler EXCEPT ![h] = b]
    BY <1>7 DEF Select
  <2>5. a.pc \in Serving
    BY <1>7 DEF Select, Serving
  <2> HIDE DEF b
  <2> QED BY <1>7, <2>3, <2>4, <2>5, StayInv DEF Select
<1>8. CASE EmitRow(h)
  <2> DEFINE b == [a EXCEPT !.n = a.n + 1]
  <2>0. a.n + 1 \in Nat /\ a.pc = "rows"
    BY <1>1, <1>8 DEF EmitRow, HandlerRecord
  <2>1. b \in HandlerRecord /\ b.pc \in Serving /\ Prepared(b)
    BY <1>1, <2>0, Zenon DEF HandlerRecord, Serving, Prepared
  <2>2. handler' = [handler EXCEPT ![h] = b]
    BY <1>8 DEF EmitRow
  <2>3. a.pc \in Serving
    BY <1>8 DEF EmitRow, Serving
  <2> HIDE DEF b
  <2> QED BY <1>8, <2>1, <2>2, <2>3, StayInv DEF EmitRow
<1>9. CASE Complete(h)
  <2> DEFINE b == [a EXCEPT !.pc = "transfer", !.n = 0]
  <2>1. b \in HandlerRecord /\ b.pc \in Serving
    BY <1>1 DEF HandlerRecord, HandlerPlaces, Serving
  <2>2. Prepared(b)
    <3>1. a.n = Len(a.items) /\ a.n \in Nat /\ Written(a.n) + 1 <= MaxResponseBytes
      BY <1>1, <1>9 DEF Complete, HandlerRecord
    <3>2. a.pc = "rows"
      BY <1>9 DEF Complete
    <3> QED BY <1>1, <3>1, <3>2 DEF Prepared, HandlerRecord, Serving
  <2>3. handler' = [handler EXCEPT ![h] = b]
    BY <1>9 DEF Complete
  <2>4. a.pc \in Serving
    BY <1>9 DEF Complete, Serving
  <2> HIDE DEF b
  <2> QED BY <1>9, <2>1, <2>2, <2>3, <2>4, StayInv DEF Complete
<1>10. CASE Unprepared(h)
  BY <1>10, LeaveInv DEF Unprepared, Serving, Outcomes
<1>11. CASE Transfer(h)
  <2>1. a.pc = "transfer" /\ a.pc \in Serving /\ UNCHANGED <<table, server>>
    BY <1>11 DEF Transfer, Serving
  <2>2. a.n \in Nat /\ Len(a.items) \in Nat /\ a.n <= Len(a.items)
    BY <1>1, <2>1 DEF HandlerRecord, Prepared
  <2>3. CASE a.n < Len(a.items)
    <3> DEFINE b == [a EXCEPT !.n = a.n + 1]
    <3>0. a.n + 1 \in Nat
      BY <2>2
    <3>1. b \in HandlerRecord /\ b.pc \in Serving
      BY <1>1, <2>1, <3>0 DEF HandlerRecord
    <3>2. Prepared(b)
      BY <1>1, <2>1, <2>2, <2>3 DEF HandlerRecord, Prepared
    <3>3. handler' = [handler EXCEPT ![h] = b] /\ UNCHANGED <<slots, files>>
      BY <1>11, <2>3 DEF Transfer
    <3> HIDE DEF b
    <3> QED BY <2>1, <3>1, <3>2, <3>3, StayInv
  <2>4. CASE ~(a.n < Len(a.items))
    <3>1. a.n = Len(a.items) /\ Leave(h, "200")
      BY <1>11, <2>2, <2>4 DEF Transfer
    <3>2. "200" \in Outcomes
      BY DEF Outcomes
    <3> QED BY <2>1, <3>1, <3>2, LeaveInv
  <2> QED BY <2>3, <2>4
<1>12. CASE Abort(h)
  BY <1>12, LeaveInv DEF Abort, Serving, Outcomes
<1> QED BY <1>4, <1>5, <1>6, <1>7, <1>8, <1>9, <1>10, <1>11, <1>12 DEF HandlerStep

(* The jobs' database objects and the API's state are disjoint. *)
QueryInv == MigrationInv /\ ApiInv

(* Every step of jobs, collectors, requests and the server keeps QueryInv. *)
LEMMA QueryNextInv == QueryInv /\ [QueryNext]_allVars => QueryInv'
<1> SUFFICES ASSUME QueryInv, [QueryNext]_allVars PROVE QueryInv'
  OBVIOUS
<1> USE DEF QueryInv
<1>1. ASSUME UNCHANGED migrationVars PROVE MigrationInv'
  BY <1>1 DEF migrationVars, MigrationInv
<1>2. ASSUME UNCHANGED apiVars PROVE ApiInv'
  BY <1>2 DEF apiVars, ApiInv, ApiTypeOK, ResourcesExact, Busy, Prepared
<1>3. ASSUME NEW r \in Runners, MigrationStep(r), UNCHANGED apiVars PROVE QueryInv'
  BY <1>2, <1>3, MigrationStepInv
<1>4. ASSUME NEW r \in Rows, InsertRow(r) PROVE QueryInv'
  <2>1. IsFiniteSet(table) /\ table \in SUBSET Rows
    BY DEF ApiInv, ApiTypeOK
  <2>2. table' = table \cup {r} /\ UNCHANGED <<handler, slots, files, server>> /\ UNCHANGED migrationVars
    BY <1>4 DEF InsertRow
  <2>3. IsFiniteSet(table') /\ table' \in SUBSET Rows
    BY <2>1, <2>2, FS_AddElement
  <2>4. ApiTypeOK' /\ ResourcesExact'
    BY <2>2, <2>3 DEF ApiInv, ApiTypeOK, ResourcesExact, Busy
  <2>5. \A h \in Handlers : Prepared(handler[h])'
    BY <2>2 DEF ApiInv, Prepared
  <2> QED BY <1>1, <2>2, <2>4, <2>5 DEF ApiInv
<1>5. ASSUME NEW h \in Handlers, HandlerStep(h) PROVE QueryInv'
  <2>1. UNCHANGED migrationVars
    BY <1>5 DEF HandlerStep, Arrive, CreateTemp, LookUpGPU, Select, EmitRow, Complete, Unprepared,
                Transfer, Abort
  <2> QED BY <1>1, <1>5, <2>1, HandlerInv
<1>6. CASE ServerStep
  <2>1. ASSUME NEW to \in ServerPlaces \ {"exited"}, server' = to, server # "exited",
               to = "drained" => Busy = {}, UNCHANGED <<migrationVars, table, handler, slots, files>>
        PROVE  QueryInv'
    <3>1. ApiTypeOK' /\ ResourcesExact'
      BY <2>1 DEF ApiInv, ApiTypeOK, ResourcesExact, Busy
    <3>2. \A h \in Handlers : Prepared(handler[h])'
      BY <2>1 DEF ApiInv, Prepared
    <3> QED BY <1>1, <2>1, <3>1, <3>2 DEF ApiInv
  <2>2. CASE Signal
    BY <2>1, <2>2 DEF Signal, ServerTo, ServerPlaces
  <2>3. CASE Shutdown
    BY <2>1, <2>3 DEF Shutdown, ServerTo, ServerPlaces
  <2>4. CASE Drained
    <3>1. Busy = {}
      BY <2>4, WorkingIsServing DEF Drained, ApiInv, Busy
    <3> QED BY <2>1, <2>4, <3>1 DEF Drained, ServerTo, ServerPlaces
  <2>5. CASE DrainTimeout
    BY <2>1, <2>5 DEF DrainTimeout, ServerTo, ServerPlaces
  <2>6. CASE ServeFails
    BY <2>1, <2>6 DEF ServeFails, ServerTo, ServerPlaces
  <2>7. CASE Exit
    <3>1. /\ server' = "exited" /\ slots' = 0 /\ UNCHANGED <<migrationVars, table, files>>
          /\ handler' = [h \in Handlers |-> IF Working(h) THEN Answer(h, "killed") ELSE handler[h]]
      BY <2>7 DEF Exit
    <3>2. ASSUME NEW h \in Handlers
          PROVE  IF handler[h].pc \in Serving
                 THEN handler'[h] \in HandlerRecord /\ handler'[h].pc = "killed"
                 ELSE handler'[h] = handler[h]
      <4>1. handler'[h] = IF handler[h].pc \in Serving THEN Answer(h, "killed") ELSE handler[h]
        BY <3>1, WorkingIsServing DEF ApiInv
      <4>2. Answer(h, "killed") = [Idle EXCEPT !.pc = "killed"]
        BY DEF Answer
      <4>3. Idle \in HandlerRecord
        BY DEF Idle, HandlerRecord, HandlerPlaces, Items
      <4>4. Answer(h, "killed") \in HandlerRecord /\ Answer(h, "killed").pc = "killed"
        BY <4>2, <4>3 DEF HandlerRecord, HandlerPlaces
      <4> QED BY <4>1, <4>4
    <3>3. handler' \in [Handlers -> HandlerRecord]
      BY <3>1, <3>2 DEF ApiInv, ApiTypeOK
    <3>4. Busy' = {}
      BY <3>2 DEF Busy, Serving
    <3>5. ApiTypeOK'
      BY <3>1, <3>3 DEF ApiInv, ApiTypeOK, ServerPlaces
    <3>6. ResourcesExact'
      <4>1. \A h \in files' : handler'[h].pc \in Serving \cup {"killed"}
        BY <3>1, <3>2 DEF ApiInv, ApiTypeOK, ResourcesExact
      <4> QED BY <3>1, <3>4, <4>1, FS_EmptySet DEF ResourcesExact
    <3>7. ASSUME NEW h \in Handlers PROVE Prepared(handler[h])'
      BY <3>1, <3>2 DEF ApiInv, Prepared, Serving
    <3> QED BY <1>1, <3>1, <3>5, <3>6, <3>7 DEF ApiInv
  <2>8. CASE Stopped
    BY <1>1, <1>2, <2>8 DEF Stopped, allVars
  <2> QED BY <1>6, <2>2, <2>3, <2>4, <2>5, <2>6, <2>7, <2>8 DEF ServerStep
<1>7. CASE UNCHANGED allVars
  BY <1>1, <1>2, <1>7 DEF allVars
<1> QED BY <1>3, <1>4, <1>5, <1>6, <1>7 DEF QueryNext

(* The inductive invariant behind the three results below. *)
THEOREM QueryInvariant == QuerySpec => []QueryInv
<1>1. QueryInit => MigrationInv
  BY DEF QueryInit, MigrationInit, MigrationInv
<1>2. QueryInit => ApiInv
  <2> SUFFICES ASSUME QueryInit PROVE ApiInv
    OBVIOUS
  <2>1. Idle \in HandlerRecord
    BY DEF Idle, HandlerRecord, HandlerPlaces, Items
  <2>2. \A h \in Handlers : handler[h] = Idle
    BY DEF QueryInit
  <2>3. ApiTypeOK
    BY <2>1, FS_EmptySet DEF QueryInit, ApiTypeOK, ServerPlaces
  <2>4. Busy = {}
    BY <2>2 DEF Busy, Idle, Serving
  <2>5. ResourcesExact
    BY <2>2, <2>4, FS_EmptySet DEF ResourcesExact, QueryInit, Idle
  <2>6. \A h \in Handlers : Prepared(handler[h])
    BY <2>2 DEF Prepared, Idle, Serving
  <2> QED BY <2>3, <2>5, <2>6 DEF ApiInv
<1> QED BY <1>1, <1>2, QueryNextInv, PTL DEF QuerySpec, QueryInv

(* Any number of migration jobs of any builds, overlapping, killed and     *)
(* started again: tables and recorded checksum appear together and agree,  *)
(* success means the job's own schema is in place, and a job fails only    *)
(* because of a fault or because another checksum really is recorded.      *)
THEOREM MigrationsCorrect == QuerySpec => []MigrationOutcome
BY QueryInvariant, PTL DEF QueryInv, MigrationInv

(* No return, panic, failed statement, hang-up or drain of sendArray leaks *)
(* a slot or a temporary file.                                             *)
THEOREM ResourcesReturned == QuerySpec => []NothingLeaked
<1>1. QueryInv => NothingLeaked
  <2> SUFFICES ASSUME ApiInv PROVE NothingLeaked
    BY DEF QueryInv
  <2>1. {h \in Handlers : Working(h)} = Busy
    BY WorkingIsServing DEF Busy, ApiInv
  <2>2. files \subseteq {h \in Handlers : Working(h) \/ handler[h].pc = "killed"}
    BY WorkingIsServing DEF ApiInv, ApiTypeOK, ResourcesExact
  <2>3. server = "drained" => files = {}
    BY DEF ApiInv, ApiTypeOK, ResourcesExact, Busy
  <2> QED BY <2>1, <2>2, <2>3 DEF NothingLeaked, ApiInv, ResourcesExact
<1> QED BY <1>1, QueryInvariant, PTL

(* A complete 200 is exactly what was asked for, for every range, every    *)
(* rounding of its bounds to microseconds, every set of rows and every     *)
(* interleaving with collectors.                                           *)
THEOREM AnswersExact == QuerySpec => []AnswerExact
<1>1. QueryInv => AnswerExact
  <2> SUFFICES ASSUME ApiInv, NEW h \in Handlers, handler[h].pc = "200"
               PROVE  LET a == handler[h] IN
                      /\ a.view \subseteq table
                      /\ IF a.query.gpu = AllGPUs
                         THEN /\ ToSet(a.items) = {r.gpu : r \in a.view}
                              /\ \A i, j \in 1 .. Len(a.items) : i < j => a.items[i] < a.items[j]
                         ELSE /\ ToSet(a.items) = {r \in a.view : InRange(r, a.query)}
                              /\ \A i, j \in 1 .. Len(a.items) : i < j => Earlier(a.items[i], a.items[j])
                      /\ a.n = Len(a.items) /\ Len(a.items) = Cardinality(ToSet(a.items))
                      /\ Written(Len(a.items)) + 1 <= MaxResponseBytes
    BY DEF AnswerExact, QueryInv
  <2> DEFINE a == handler[h]
  <2>1. a \in HandlerRecord /\ Prepared(a) /\ table \in SUBSET Rows /\ IsFiniteSet(table)
    BY DEF ApiInv, ApiTypeOK
  <2>2. a.view \subseteq table /\ a.items = Result(a.view, a.query) /\ a.query \in Queries
        /\ a.n = Len(a.items) /\ Written(Len(a.items)) + 1 <= MaxResponseBytes
    BY <2>1 DEF Prepared
  <2>3. a.view \in SUBSET Rows /\ IsFiniteSet(a.view)
    BY <2>1, <2>2, FS_Subset
  <2> HIDE DEF a
  <2>4. /\ Len(a.items) = Cardinality(ToSet(a.items))
        /\ a.query.gpu = AllGPUs =>
             /\ ToSet(a.items) = Known(a.view)
             /\ \A i, j \in 1 .. Len(a.items) : i < j => a.items[i] < a.items[j]
        /\ a.query.gpu # AllGPUs =>
             /\ ToSet(a.items) = {r \in a.view : InRange(r, a.query)}
             /\ \A i, j \in 1 .. Len(a.items) : i < j => Earlier(a.items[i], a.items[j])
    BY <2>2, <2>3, ResultExact
  <2> QED BY <2>2, <2>4 DEF Known, a
<1> QED BY <1>1, QueryInvariant, PTL

=============================================================================
