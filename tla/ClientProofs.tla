---------------------------- MODULE ClientProofs ----------------------------
(***************************************************************************)
(* The two clients of the broker.  The streamer, for any file, any count   *)
(* and any number of replays: no record is skipped and the statistics      *)
(* count distinct events.  The collector, for any number of workers: its   *)
(* exit status is honest.  The two share no state; each part is about one  *)
(* specification.                                                          *)
(***************************************************************************)
EXTENDS Streamer, CollectorPool, FiniteSetTheorems, TLAPS

-----------------------------------------------------------------------------
(* THE STREAMER: what has been read *)

(* The valid records of earlier passes and of the first k of this one *)
PassedOf(f, r, k) ==
  {i \in (0 .. r) \X (1 .. Len(f)) : f[i[2]] = "valid" /\ (i[1] < r \/ i[2] <= k)}

LEMMA PassedIs == Passed = PassedOf(file, replay, row)
BY DEF Passed, PassedOf

LEMMA InPassed ==
  ASSUME NEW f, NEW r, NEW k
  PROVE  /\ \A i \in PassedOf(f, r, k) : i = <<i[1], i[2]>>
         /\ \A a, b : <<a, b>> \in PassedOf(f, r, k) <=>
              a \in 0 .. r /\ b \in 1 .. Len(f) /\ f[b] = "valid" /\ (a < r \/ b <= k)
BY DEF PassedOf

LEMMA PassedStart == ASSUME NEW f PROVE PassedOf(f, 0, 0) = {}
BY DEF PassedOf

LEMMA PassedValid ==
  ASSUME NEW f, Len(f) \in Nat, NEW r \in Nat, NEW k \in Nat, k < Len(f), f[k + 1] = "valid"
  PROVE  /\ PassedOf(f, r, k + 1) = PassedOf(f, r, k) \cup {<<r, k + 1>>}
         /\ <<r, k + 1>> \notin PassedOf(f, r, k)
<1>1. \A a, b : <<a, b>> \in PassedOf(f, r, k + 1) <=>
                <<a, b>> \in PassedOf(f, r, k) \/ (a = r /\ b = k + 1)
  <2> TAKE a, b
  <2>1. <<a, b>> \in PassedOf(f, r, k + 1) <=>
          a \in 0 .. r /\ b \in 1 .. Len(f) /\ f[b] = "valid" /\ (a < r \/ b <= k + 1)
    BY InPassed
  <2>2. <<a, b>> \in PassedOf(f, r, k) <=>
          a \in 0 .. r /\ b \in 1 .. Len(f) /\ f[b] = "valid" /\ (a < r \/ b <= k)
    BY InPassed
  <2> QED BY <2>1, <2>2
<1>2. <<r, k + 1>> \notin PassedOf(f, r, k)
  BY InPassed
<1>3. \A i : i \in PassedOf(f, r, k + 1) <=> i \in PassedOf(f, r, k) \/ i = <<r, k + 1>>
  <2> TAKE i
  <2>1. i \in PassedOf(f, r, k + 1) => i = <<i[1], i[2]>>
    BY InPassed
  <2>2. i \in PassedOf(f, r, k) => i = <<i[1], i[2]>>
    BY InPassed
  <2> QED BY <1>1, <2>1, <2>2
<1> QED BY <1>2, <1>3

LEMMA PassedInvalid ==
  ASSUME NEW f, Len(f) \in Nat, NEW r \in Nat, NEW k \in Nat, k < Len(f), f[k + 1] # "valid"
  PROVE  PassedOf(f, r, k + 1) = PassedOf(f, r, k)
<1>1. \A a, b : <<a, b>> \in PassedOf(f, r, k + 1) <=> <<a, b>> \in PassedOf(f, r, k)
  <2> TAKE a, b
  <2>1. <<a, b>> \in PassedOf(f, r, k + 1) <=>
          a \in 0 .. r /\ b \in 1 .. Len(f) /\ f[b] = "valid" /\ (a < r \/ b <= k + 1)
    BY InPassed
  <2>2. <<a, b>> \in PassedOf(f, r, k) <=>
          a \in 0 .. r /\ b \in 1 .. Len(f) /\ f[b] = "valid" /\ (a < r \/ b <= k)
    BY InPassed
  <2> QED BY <2>1, <2>2
<1>2. \A i : i \in PassedOf(f, r, k + 1) <=> i \in PassedOf(f, r, k)
  <2> TAKE i
  <2>1. i \in PassedOf(f, r, k + 1) => i = <<i[1], i[2]>>
    BY InPassed
  <2>2. i \in PassedOf(f, r, k) => i = <<i[1], i[2]>>
    BY InPassed
  <2> QED BY <1>1, <2>1, <2>2
<1> QED BY <1>2

LEMMA PassedWrap ==
  ASSUME NEW f, Len(f) \in Nat, NEW r \in Nat
  PROVE  PassedOf(f, r + 1, 0) = PassedOf(f, r, Len(f))
<1>1. \A a, b : <<a, b>> \in PassedOf(f, r + 1, 0) <=> <<a, b>> \in PassedOf(f, r, Len(f))
  <2> TAKE a, b
  <2>1. <<a, b>> \in PassedOf(f, r + 1, 0) <=>
          a \in 0 .. r + 1 /\ b \in 1 .. Len(f) /\ f[b] = "valid" /\ (a < r + 1 \/ b <= 0)
    BY InPassed
  <2>2. <<a, b>> \in PassedOf(f, r, Len(f)) <=>
          a \in 0 .. r /\ b \in 1 .. Len(f) /\ f[b] = "valid" /\ (a < r \/ b <= Len(f))
    BY InPassed
  <2> QED BY <2>1, <2>2
<1>2. \A i : i \in PassedOf(f, r + 1, 0) <=> i \in PassedOf(f, r, Len(f))
  <2> TAKE i
  <2>1. i \in PassedOf(f, r + 1, 0) => i = <<i[1], i[2]>>
    BY InPassed
  <2>2. i \in PassedOf(f, r, Len(f)) => i = <<i[1], i[2]>>
    BY InPassed
  <2> QED BY <1>1, <2>1, <2>2
<1> QED BY <1>2

-----------------------------------------------------------------------------
(* The inductive invariant *)

(* Until Run returns, every record read is counted and nothing is reported. *)
Running == pc # "exited" => row = pos /\ unconfirmed = 0 /\ result = "none"

(* confirmed holds the valid records read so far, but for the one in hand. *)
InHand ==
  /\ pc \in {"top", "read"} => confirmed = PassedOf(file, replay, row)
  /\ pc \in {"got", "publish", "backoff"} =>
       /\ <<replay, row>> \in PassedOf(file, replay, row)
       /\ confirmed = PassedOf(file, replay, row) \ {<<replay, row>>}
  /\ pc \in {"publish", "backoff"} => event = <<replay, row>>
  /\ pc = "exited" =>
       /\ confirmed \subseteq PassedOf(file, replay, row)
       /\ PassedOf(file, replay, row) \ confirmed \subseteq {<<replay, row>>}

InDoubt == stored \subseteq confirmed \cup Pending

Counted ==
  /\ IsFiniteSet(confirmed) /\ accepted = Cardinality(confirmed)
  /\ Count # 0 => accepted <= Count
  /\ Count # 0 /\ pc \in {"read", "got", "publish", "backoff"} => accepted < Count
  /\ result = "nil" /\ ~stop => accepted = Count

StreamInv == StreamTypeOK /\ Running /\ InHand /\ InDoubt /\ Counted

(* Facts about the file and the counters that the steps use. *)
LEMMA FileFacts ==
  ASSUME StreamTypeOK
  PROVE  /\ Len(file) \in Nat /\ pos \in Nat /\ pos <= Len(file)
         /\ replay \in Nat /\ row \in Nat /\ accepted \in Nat /\ Count \in Nat
         /\ \A i \in 1 .. Len(file) : file[i] \in {"valid", "invalid"}
BY StreamerAssumption DEF StreamTypeOK

(* Steps that read nothing and confirm nothing. *)
StandsStill == UNCHANGED <<file, pos, replay, row, valid, accepted, confirmed, stored>>

LEMMA ReturnInv ==
  ASSUME StreamInv, pc \in {"top", "read", "got"}, StandsStill,
         pc' = "exited", result' \in {"nil", "error"}, event' = event,
         unconfirmed' = unconfirmed, invalidRows' = invalidRows,
         stop' = stop, cancelled' = cancelled,
         result' = "nil" /\ ~stop => accepted = Count
  PROVE  StreamInv'
<1>1. StreamTypeOK'
  BY DEF StreamInv, StreamTypeOK, StandsStill
<1>2. Running' /\ InHand'
  BY DEF StreamInv, Running, InHand, StandsStill, PassedOf
<1>3. InDoubt'
  BY DEF StreamInv, Running, InDoubt, Pending, StandsStill
<1>4. Counted'
  BY DEF StreamInv, Running, Counted, StandsStill
<1> QED BY <1>1, <1>2, <1>3, <1>4 DEF StreamInv

LEMMA LoopTopInv == ASSUME StreamInv, LoopTop PROVE StreamInv'
<1>0. pc = "top" /\ StandsStill /\ UNCHANGED <<event, unconfirmed, invalidRows, stop, cancelled>>
  BY DEF LoopTop, StandsStill, csvVars, statVars, envVars
<1>1. CASE CountReached \/ stop
  <2>1. pc' = "exited" /\ result' \in {"nil", "error"}
    BY <1>1 DEF LoopTop, RunReturns
  <2>2. ~stop => accepted = Count
    BY <1>1, FileFacts DEF CountReached, StreamInv, Counted
  <2> QED BY <1>0, <2>1, <2>2, ReturnInv
<1>2. CASE ~(CountReached \/ stop)
  <2>1. pc' = "read" /\ result' = result
    BY <1>2 DEF LoopTop
  <2>2. Count # 0 => accepted < Count
    BY <1>2, FileFacts DEF CountReached, StreamInv
  <2>3. StreamTypeOK'
    BY <1>0, <2>1 DEF StreamInv, StreamTypeOK, StandsStill
  <2>4. Running' /\ InHand'
    BY <1>0, <2>1 DEF StreamInv, Running, InHand, StandsStill, PassedOf
  <2>5. InDoubt'
    BY <1>0, <2>1 DEF StreamInv, Running, InDoubt, Pending, StandsStill
  <2>6. Counted'
    BY <1>0, <2>1, <2>2 DEF StreamInv, Running, Counted, StandsStill
  <2> QED BY <2>3, <2>4, <2>5, <2>6 DEF StreamInv
<1> QED BY <1>1, <1>2

LEMMA StopReadingInv == ASSUME StreamInv, StopReading PROVE StreamInv'
<1>0. pc = "read" /\ stop /\ StandsStill /\ UNCHANGED <<event, unconfirmed, invalidRows, stop, cancelled>>
      /\ pc' = "exited" /\ result' \in {"nil", "error"}
  BY DEF StopReading, StandsStill, csvVars, statVars, envVars, RunReturns
<1> QED BY <1>0, ReturnInv

LEMMA MakeEventInv == ASSUME StreamInv, MakeEvent PROVE StreamInv'
<1>0. pc = "got" /\ StandsStill /\ UNCHANGED <<unconfirmed, invalidRows, stop, cancelled>>
  BY DEF MakeEvent, StandsStill, csvVars, statVars, envVars
<1>1. CASE stop /\ RunReturns("nil") /\ UNCHANGED event
  BY <1>0, <1>1, ReturnInv DEF RunReturns
<1>2. CASE ~stop /\ RunReturns("error") /\ UNCHANGED event
  BY <1>0, <1>2, ReturnInv DEF RunReturns
<1>3. CASE ~stop /\ event' = NewEvent /\ pc' = "publish" /\ UNCHANGED result
  <2>1. event' = <<replay, row>> /\ pc' = "publish" /\ result' = result
    BY <1>3 DEF NewEvent
  <2>2. StreamTypeOK'
    <3>1. event' \in EventID
      BY <2>1 DEF StreamInv, StreamTypeOK, EventID
    <3>2. file' = file /\ pos' = pos /\ replay' = replay /\ row' = row /\ valid' = valid
          /\ accepted' = accepted /\ stored' = stored /\ confirmed' = confirmed
      BY <1>0 DEF StandsStill
    <3> QED BY <1>0, <2>1, <3>1, <3>2 DEF StreamInv, StreamTypeOK, EventID
  <2>4. Running' /\ InHand'
    BY <1>0, <2>1 DEF StreamInv, Running, InHand, StandsStill, PassedOf
  <2>5. InDoubt'
    BY <1>0, <2>1 DEF StreamInv, Running, InDoubt, Pending, StandsStill
  <2>6. Counted'
    BY <1>0, <2>1 DEF StreamInv, Running, Counted, StandsStill
  <2> QED BY <2>2, <2>4, <2>5, <2>6 DEF StreamInv
<1> QED BY <1>1, <1>2, <1>3 DEF MakeEvent

LEMMA EndOfFileInv == ASSUME StreamInv, EndOfFile PROVE StreamInv'
<1>0. pc = "read" /\ pos = Len(file) /\ row = pos
      /\ UNCHANGED <<event, accepted, invalidRows, unconfirmed, stop, cancelled, stored, confirmed>>
  BY DEF EndOfFile, statVars, envVars, StreamInv, Running
<1>1. CASE valid = 0
  <2>1. pc' = "exited" /\ result' = "error" /\ StandsStill
    BY <1>0, <1>1 DEF EndOfFile, RunReturns, csvVars, StandsStill
  <2> QED BY <1>0, <2>1, ReturnInv
<1>2. CASE valid # 0
  <2>1. /\ replay < MaxReplay /\ replay' = replay + 1 /\ row' = 0 /\ valid' = 0 /\ pos' = 0
        /\ file' = file /\ pc' = pc /\ result' = result
    BY <1>2 DEF EndOfFile
  <2>2. PassedOf(file', replay', row') = PassedOf(file, replay, row)
    BY <1>0, <2>1, FileFacts, PassedWrap DEF StreamInv
  <2>3. StreamTypeOK'
    BY <1>0, <2>1, FileFacts, StreamerAssumption DEF StreamInv, StreamTypeOK, EventID
  <2>4. Running'
    BY <1>0, <2>1 DEF StreamInv, Running
  <2>5. confirmed' = PassedOf(file', replay', row')
    BY <1>0, <2>2 DEF StreamInv, InHand
  <2>6. InHand'
    BY <1>0, <2>1, <2>5 DEF InHand, PassedOf
  <2>7. InDoubt'
    BY <1>0, <2>1 DEF StreamInv, InDoubt, Pending
  <2>8. Counted'
    BY <1>0, <2>1 DEF StreamInv, Counted
  <2> QED BY <2>3, <2>4, <2>6, <2>7, <2>8 DEF StreamInv
<1> QED BY <1>1, <1>2

LEMMA ReadInvalidInv == ASSUME StreamInv, ReadInvalid PROVE StreamInv'
<1>0. /\ pc = "read" /\ row = pos /\ pos < Len(file) /\ file[pos + 1] = "invalid"
      /\ pos' = pos + 1 /\ row' = row + 1 /\ invalidRows' = invalidRows + 1 /\ pc' = "top"
      /\ file' = file /\ replay' = replay /\ valid' = valid /\ event' = event
      /\ accepted' = accepted /\ unconfirmed' = unconfirmed /\ stop' = stop
      /\ cancelled' = cancelled /\ result' = result /\ stored' = stored /\ confirmed' = confirmed
  BY DEF ReadInvalid, envVars, StreamInv, Running
<1>1. PassedOf(file', replay', row') = PassedOf(file, replay, row)
  BY <1>0, FileFacts, PassedInvalid DEF StreamInv
<1>2. StreamTypeOK'
  BY <1>0, FileFacts DEF StreamInv, StreamTypeOK, EventID
<1>3. Running'
  BY <1>0 DEF StreamInv, Running
<1>4. confirmed' = PassedOf(file', replay', row')
  BY <1>0, <1>1 DEF StreamInv, InHand
<1>5. InHand'
  BY <1>0, <1>4 DEF InHand, PassedOf
<1>6. InDoubt'
  BY <1>0 DEF StreamInv, InDoubt, Pending
<1>7. Counted'
  BY <1>0 DEF StreamInv, Counted
<1> QED BY <1>2, <1>3, <1>5, <1>6, <1>7 DEF StreamInv

LEMMA ReadValidInv == ASSUME StreamInv, ReadValid PROVE StreamInv'
<1>0. /\ pc = "read" /\ row = pos /\ pos < Len(file) /\ file[pos + 1] = "valid"
      /\ pos' = pos + 1 /\ row' = row + 1 /\ valid' = valid + 1 /\ pc' = "got"
      /\ file' = file /\ replay' = replay /\ invalidRows' = invalidRows /\ event' = event
      /\ accepted' = accepted /\ unconfirmed' = unconfirmed /\ stop' = stop
      /\ cancelled' = cancelled /\ result' = result /\ stored' = stored /\ confirmed' = confirmed
  BY DEF ReadValid, statVars, envVars, StreamInv, Running
<1>1. /\ PassedOf(file', replay', row') = PassedOf(file, replay, row) \cup {<<replay', row'>>}
      /\ <<replay', row'>> \notin PassedOf(file, replay, row)
  <2>1. /\ PassedOf(file, replay, row + 1) = PassedOf(file, replay, row) \cup {<<replay, row + 1>>}
        /\ <<replay, row + 1>> \notin PassedOf(file, replay, row)
    <3>1. /\ Len(file) \in Nat /\ replay \in Nat /\ row \in Nat /\ row < Len(file)
          /\ file[row + 1] = "valid"
      BY <1>0, FileFacts DEF StreamInv
    <3> QED BY <3>1, PassedValid, Zenon
  <2> QED BY <1>0, <2>1, Zenon
<1>2. StreamTypeOK'
  BY <1>0, FileFacts DEF StreamInv, StreamTypeOK, EventID
<1>3. Running'
  BY <1>0 DEF StreamInv, Running
<1>4. confirmed = PassedOf(file, replay, row)
  BY <1>0 DEF StreamInv, InHand
<1>5. /\ <<replay', row'>> \in PassedOf(file', replay', row')
      /\ confirmed' = PassedOf(file', replay', row') \ {<<replay', row'>>}
  BY <1>0, <1>1, <1>4
<1>6. InHand'
  BY <1>0, <1>5 DEF InHand, PassedOf
<1>7. InDoubt'
  BY <1>0 DEF StreamInv, InDoubt, Pending
<1>8. Counted'
  BY <1>0 DEF StreamInv, Counted
<1> QED BY <1>2, <1>3, <1>6, <1>7, <1>8 DEF StreamInv

LEMMA SourceFailsInv == ASSUME StreamInv, SourceFails PROVE StreamInv'
<1>0. /\ pc = "read" /\ row = pos /\ pc' = "exited" /\ result' = "error"
      /\ file' = file /\ pos' = pos /\ event' = event /\ invalidRows' = invalidRows
      /\ accepted' = accepted /\ unconfirmed' = unconfirmed /\ stop' = stop
      /\ cancelled' = cancelled /\ stored' = stored /\ confirmed' = confirmed
      /\ confirmed = PassedOf(file, replay, row)
  BY DEF SourceFails, RunReturns, statVars, envVars, StreamInv, Running, InHand
<1>1. /\ confirmed \subseteq PassedOf(file', replay', row')
      /\ PassedOf(file', replay', row') \ confirmed \subseteq {<<replay', row'>>}
      /\ replay' \in 0 .. MaxReplay /\ row' \in Nat /\ valid' \in Nat
  <2>1. CASE pos < Len(file) /\ row' = row + 1 /\ replay' = replay /\ valid' = valid
    <3>1. CASE file[row + 1] = "valid"
      <4>1. /\ PassedOf(file, replay, row + 1) = PassedOf(file, replay, row) \cup {<<replay, row + 1>>}
            /\ <<replay, row + 1>> \notin PassedOf(file, replay, row)
        <5>1. /\ Len(file) \in Nat /\ replay \in Nat /\ row \in Nat /\ row < Len(file)
          BY <1>0, <2>1, FileFacts DEF StreamInv
        <5> QED BY <3>1, <5>1, PassedValid, Zenon
      <4>2. PassedOf(file', replay', row') = confirmed \cup {<<replay', row'>>}
        BY <1>0, <2>1, <4>1, Zenon
      <4>3. replay' \in 0 .. MaxReplay /\ row' \in Nat /\ valid' \in Nat
        BY <2>1, FileFacts DEF StreamInv, StreamTypeOK
      <4> QED BY <4>2, <4>3
    <3>2. CASE file[row + 1] # "valid"
      BY <1>0, <2>1, <3>2, FileFacts, PassedInvalid DEF StreamInv, StreamTypeOK
    <3> QED BY <3>1, <3>2
  <2>2. CASE pos = Len(file) /\ replay < MaxReplay /\ replay' = replay + 1 /\ row' = 0 /\ valid' = 0
    <3>1. PassedOf(file', replay', row') = confirmed
      BY <1>0, <2>2, FileFacts, PassedWrap DEF StreamInv
    <3>2. replay' \in 0 .. MaxReplay /\ row' \in Nat /\ valid' \in Nat
      BY <2>2, FileFacts, StreamerAssumption DEF StreamInv
    <3> QED BY <3>1, <3>2
  <2> QED BY <2>1, <2>2 DEF SourceFails
<1>2. StreamTypeOK'
  BY <1>0, <1>1 DEF StreamInv, StreamTypeOK, EventID
<1>3. Running'
  BY <1>0 DEF StreamInv, Running
<1>6. InHand'
  BY <1>0, <1>1 DEF InHand, PassedOf
<1>7. InDoubt'
  BY <1>0 DEF StreamInv, InDoubt, Pending
<1>8. Counted'
  BY <1>0 DEF StreamInv, Counted
<1> QED BY <1>2, <1>3, <1>6, <1>7, <1>8 DEF StreamInv

LEMMA PublishConfirmedInv == ASSUME StreamInv, PublishConfirmed PROVE StreamInv'
<1>0. /\ pc = "publish" /\ pc' = "top"
      /\ stored' = stored \cup {event} /\ confirmed' = confirmed \cup {event}
      /\ accepted' = accepted + 1
      /\ file' = file /\ pos' = pos /\ replay' = replay /\ row' = row /\ valid' = valid
      /\ event' = event /\ invalidRows' = invalidRows /\ unconfirmed' = unconfirmed
      /\ stop' = stop /\ cancelled' = cancelled /\ result' = result
  BY DEF PublishConfirmed, csvVars, envVars
<1>1. /\ event = <<replay, row>> /\ event \in PassedOf(file, replay, row)
      /\ confirmed = PassedOf(file, replay, row) \ {event} /\ event \notin confirmed
      /\ unconfirmed = 0 /\ result = "none"
  BY <1>0 DEF StreamInv, InHand, Running
<1>2. StreamTypeOK'
  BY <1>0, FileFacts DEF StreamInv, StreamTypeOK, EventID
<1>3. Running'
  BY <1>0 DEF StreamInv, Running
<1>4. confirmed' = PassedOf(file', replay', row')
  BY <1>0, <1>1
<1>5. InHand'
  BY <1>0, <1>4 DEF InHand, PassedOf
<1>6. InDoubt'
  BY <1>0 DEF StreamInv, InDoubt, Pending
<1>7. IsFiniteSet(confirmed') /\ Cardinality(confirmed') = Cardinality(confirmed) + 1
  BY <1>0, <1>1, FS_AddElement DEF StreamInv, Counted
<1>8. Count # 0 => accepted' <= Count
  BY <1>0, FileFacts DEF StreamInv, Counted
<1>9. Counted'
  BY <1>0, <1>1, <1>7, <1>8 DEF StreamInv, Counted
<1> QED BY <1>2, <1>3, <1>5, <1>6, <1>9 DEF StreamInv

(* A publish attempt that is not confirmed, and the wait after one: the    *)
(* broker may hold the event, which stays the one pending.                 *)
LEMMA PendingInv ==
  ASSUME StreamInv, pc \in {"publish", "backoff"},
         stored' \in {stored, stored \cup {event}},
         UNCHANGED <<file, pos, replay, row, valid, event, accepted, invalidRows, stop,
                     cancelled, confirmed>>,
         \/ pc' \in {"publish", "backoff"} /\ unconfirmed' = unconfirmed /\ result' = result
         \/ pc' = "exited" /\ unconfirmed' = 1 /\ result' = "error"
  PROVE  StreamInv'
<1>0. /\ file' = file /\ pos' = pos /\ replay' = replay /\ row' = row /\ valid' = valid
      /\ event' = event /\ accepted' = accepted /\ invalidRows' = invalidRows
      /\ stop' = stop /\ cancelled' = cancelled /\ confirmed' = confirmed
  OBVIOUS
<1>2. StreamTypeOK'
  BY <1>0 DEF StreamInv, StreamTypeOK, EventID
<1>3. Running'
  BY <1>0 DEF StreamInv, Running
<1>5. InHand'
  BY <1>0 DEF StreamInv, InHand, PassedOf
<1>6. InDoubt'
  <2>1. Pending = {event} /\ Pending' = {event}
    BY <1>0 DEF Pending
  <2> QED BY <1>0, <2>1 DEF StreamInv, InDoubt
<1>7. Counted'
  BY <1>0 DEF StreamInv, Counted, Running
<1> QED BY <1>2, <1>3, <1>5, <1>6, <1>7 DEF StreamInv

LEMMA PublishTemporaryInv == ASSUME StreamInv, PublishTemporary PROVE StreamInv'
BY PendingInv DEF PublishTemporary, csvVars, statVars, envVars

LEMMA PublishFailsInv == ASSUME StreamInv, PublishFails PROVE StreamInv'
BY PendingInv DEF PublishFails, RunReturns, csvVars, statVars, envVars

LEMMA BackoffInv == ASSUME StreamInv, Backoff PROVE StreamInv'
BY PendingInv DEF Backoff, RunReturns, csvVars, statVars, envVars

LEMMA EnvironmentInv ==
  ASSUME StreamInv, Interrupt \/ ShutdownTimeout \/ UNCHANGED streamVars
  PROVE  StreamInv'
<1>0. /\ file' = file /\ pos' = pos /\ replay' = replay /\ row' = row /\ valid' = valid
      /\ event' = event /\ accepted' = accepted /\ invalidRows' = invalidRows
      /\ unconfirmed' = unconfirmed /\ pc' = pc /\ result' = result /\ stored' = stored
      /\ confirmed' = confirmed /\ stop' \in {stop, TRUE} /\ cancelled' \in {cancelled, TRUE}
  BY DEF Interrupt, ShutdownTimeout, streamVars, csvVars, statVars, envVars
<1>2. StreamTypeOK'
  BY <1>0 DEF StreamInv, StreamTypeOK, EventID
<1>3. Running'
  BY <1>0 DEF StreamInv, Running
<1>5. InHand'
  BY <1>0 DEF StreamInv, InHand, PassedOf
<1>6. InDoubt'
  BY <1>0 DEF StreamInv, InDoubt, Pending
<1>7. ~stop' => ~stop
  BY <1>0, Zenon
<1>8. Counted'
  BY <1>0, <1>7 DEF StreamInv, Counted
<1> QED BY <1>2, <1>3, <1>5, <1>6, <1>8 DEF StreamInv

LEMMA InitStreamInv == ASSUME StreamInit PROVE StreamInv
<1>0. /\ file \in Files /\ pos = 0 /\ replay = 0 /\ row = 0 /\ valid = 0
      /\ pc = "top" /\ event = <<0, 0>> /\ accepted = 0 /\ invalidRows = 0 /\ unconfirmed = 0
      /\ stop = FALSE /\ cancelled = FALSE /\ result = "none" /\ stored = {} /\ confirmed = {}
  BY DEF StreamInit, CSVInit
<1>1. StreamTypeOK
  <2>1. Len(file) \in Nat /\ 0 \in 0 .. Len(file) /\ 0 \in 0 .. MaxReplay
    BY <1>0, StreamerAssumption
  <2>2. event \in EventID
    BY <1>0, <2>1 DEF EventID
  <2>3. {stop, cancelled} \subseteq BOOLEAN
    BY <1>0
  <2> QED BY <1>0, <2>1, <2>2, <2>3 DEF StreamTypeOK
<1>2. Running /\ InDoubt
  BY DEF StreamInit, CSVInit, Running, InDoubt
<1>3. InHand
  BY PassedStart DEF StreamInit, CSVInit, InHand
<1>4. Counted
  BY FS_EmptySet, StreamerAssumption DEF StreamInit, Counted
<1> QED BY <1>1, <1>2, <1>3, <1>4 DEF StreamInv

LEMMA NextStreamInv == ASSUME StreamInv, [StreamNext]_streamVars PROVE StreamInv'
BY LoopTopInv, StopReadingInv, EndOfFileInv, ReadInvalidInv, ReadValidInv, MakeEventInv,
   SourceFailsInv, PublishConfirmedInv, PublishTemporaryInv, PublishFailsInv, BackoffInv,
   EnvironmentInv, Zenon DEF StreamNext, RunStep, Exited

(* The streamer's bookkeeping for any file, count and schedule of failures: *)
(* the record in hand is the only one read and not confirmed, and the only  *)
(* one the broker may hold unknown to the run.                              *)
THEOREM StreamInvariant == StreamSpec => []StreamInv
<1>1. StreamInit => StreamInv
  BY InitStreamInv
<1>2. StreamInv /\ [StreamNext]_streamVars => StreamInv'
  BY NextStreamInv
<1> QED BY <1>1, <1>2, PTL DEF StreamSpec

(* Nothing is skipped and at most one event is in doubt, whatever the file, *)
(* however often publishing fails and whenever the run is stopped (NoGap).  *)
THEOREM NothingSkipped == StreamSpec => []NoGap
<1>1. StreamInv => NoGap
  <2> SUFFICES ASSUME StreamInv PROVE NoGap
    OBVIOUS
  <2>1. pc \in {"top", "read", "got", "publish", "backoff", "exited"}
    BY DEF StreamInv, StreamTypeOK
  <2>2. /\ confirmed \subseteq PassedOf(file, replay, row)
        /\ PassedOf(file, replay, row) \ confirmed \subseteq {<<replay, row>>}
        /\ pc \in {"top", "read"} => confirmed = PassedOf(file, replay, row)
    BY <2>1 DEF StreamInv, InHand
  <2>3. stored \ confirmed \subseteq Pending
    BY DEF StreamInv, InDoubt
  <2> QED BY <2>2, <2>3, PassedIs DEF NoGap
<1> QED BY <1>1, StreamInvariant, PTL

(* The statistics count distinct confirmed events and never exceed the      *)
(* count asked for, in spite of retries and replays (AcceptedExact).        *)
THEOREM StatisticsExact == StreamSpec => []AcceptedExact
<1>1. StreamInv => AcceptedExact
  BY DEF StreamInv, Counted, AcceptedExact
<1> QED BY <1>1, StreamInvariant, PTL

-----------------------------------------------------------------------------
(* THE COLLECTOR *)

(* Fetching ends only for a reason that is still on record, and a worker   *)
(* leaves its loop only once fetching has ended.                           *)
StoppedForAReason ==
  /\ ~fetch => stops # {} \/ failures # {}
  /\ \A w \in Workers : loop[w] = "exited" => ~fetch

(* A fatal error is in the channel from the step that ends its worker. *)
ErrorsQueued == \A w \in Workers : loop[w] = "failed" => w \in failures

(* Run returns after its last worker, with the errors that are queued, and *)
(* the process ends after Run.                                             *)
ReturnsLast ==
  /\ returned # "no" => \A w \in Workers : loop[w] \in {"exited", "failed"}
  /\ returned = "nil" => failures = {}
  /\ exit # "no" => returned # "no"
  /\ exit = "ok" => returned = "nil" /\ "server" \notin stops

PoolInv == PoolTypeOK /\ StoppedForAReason /\ ErrorsQueued /\ ReturnsLast

USE DEF PoolInv, PoolTypeOK, StoppedForAReason, ErrorsQueued, ReturnsLast, Places

(* A worker's private move keeps the invariant when it enters the loop's   *)
(* exit only after fetching ended, and never by itself the failed state.   *)
LEMMA MovesInv ==
  ASSUME PoolInv, NEW w \in Workers, NEW from, NEW to,
         from \in Places \ {"exited", "failed"}, to \in Places \ {"failed"},
         to = "exited" => ~fetch,
         Moves(w, from, to)
  PROVE  PoolInv'
<1>1. loop[w] \notin {"exited", "failed"} /\ loop' = [loop EXCEPT ![w] = to]
  BY DEF Moves
<1>2. returned = "no"
  BY <1>1
<1>3. UNCHANGED <<fetch, stops, draining, failures, returned, exit>>
  BY DEF Moves
<1> QED BY <1>1, <1>2, <1>3

(* What a fatal error leaves behind: Fail keeps the invariant. *)
LEMMA FailInv == ASSUME PoolInv, NEW w \in Workers, Fail(w) PROVE PoolInv'
<1>1. returned = "no"
  BY DEF Fail
<1> QED BY <1>1 DEF Fail

(* Every step of a worker keeps the invariant. *)
LEMMA WorkerInv == ASSUME PoolInv, NEW w \in Workers, PoolWorker(w) PROVE PoolInv'
<1>1. CASE Top(w)
  <2>1. PICK to \in {"leasing", "exited"} : (to = "exited" => ~fetch) /\ Moves(w, "top", to)
    BY <1>1 DEF Top
  <2> QED BY <2>1, MovesInv
<1>2. CASE LeaseDelivers(w)
  BY <1>2, MovesInv DEF LeaseDelivers
<1>3. CASE LeaseEmpty(w)
  BY <1>3, MovesInv DEF LeaseEmpty
<1>4. CASE LeaseCancelled(w)
  BY <1>4, MovesInv DEF LeaseCancelled
<1>5. CASE LeaseFails(w)
  BY <1>5, MovesInv DEF LeaseFails
<1>6. CASE Fail(w)
  BY <1>6, FailInv
<1>7. CASE Checked(w)
  <2>1. PICK to \in {"working", "exited"} : (to = "exited" => ~fetch) /\ Moves(w, "got", to)
    BY <1>7 DEF Checked
  <2> QED BY <2>1, MovesInv
<1>8. CASE ProcessReturns(w)
  BY <1>8, MovesInv DEF ProcessReturns
<1>9. CASE ProcessCut(w)
  BY <1>9, MovesInv DEF ProcessCut
<1>10. CASE PauseEnds(w)
  <2>1. PICK to \in {"top", "exited"} : (to = "exited" => ~fetch) /\ Moves(w, "pause", to)
    BY <1>10 DEF PauseEnds
  <2> QED BY <2>1, MovesInv
<1> QED BY <1>1, <1>2, <1>3, <1>4, <1>5, <1>6, <1>7, <1>8, <1>9, <1>10 DEF PoolWorker

(* Whoever stops the pool and however the workers leave it, PoolInv holds: *)
(* the bookkeeping of Run's contexts, failure channel and return value.    *)
THEOREM PoolInvariant == PoolSpec => []PoolInv
<1>1. PoolInit => PoolInv
  BY DEF PoolInit
<1>2. PoolInv /\ [PoolNext]_poolVars => PoolInv'
  <2> SUFFICES ASSUME PoolInv, [PoolNext]_poolVars PROVE PoolInv'
    OBVIOUS
  <2>1. ASSUME NEW w \in Workers, PoolWorker(w) PROVE PoolInv'
    BY <2>1, WorkerInv
  <2>2. ASSUME NEW cause \in {"signal", "server"}, Stop(cause) PROVE PoolInv'
    BY <2>2 DEF Stop
  <2>3. CASE DrainTimeout
    BY <2>3 DEF DrainTimeout
  <2>4. CASE RunReturn
    <3>1. stops # {} \/ failures # {}
      BY <2>4, PoolAssumption DEF RunReturn
    <3> QED BY <2>4, <3>1 DEF RunReturn
  <2>5. CASE Exit
    BY <2>5 DEF Exit
  <2>6. CASE UNCHANGED poolVars
    BY <2>6 DEF poolVars
  <2> QED BY <2>1, <2>2, <2>3, <2>4, <2>5, <2>6 DEF PoolNext
<1> QED BY <1>1, <1>2, PTL DEF PoolSpec

(* The collector's exit status is 0 only when a signal asked for the stop, *)
(* the health server did not fail and no worker met a fatal error: no      *)
(* error is lost between the failures channel, Run's result and main.      *)
THEOREM ExitStatusHonest == PoolSpec => []FailureReported
<1>1. PoolInv => FailureReported
  <2> SUFFICES ASSUME PoolInv, exit = "ok"
               PROVE  stops = {"signal"} /\ \A w \in Workers : loop[w] # "failed"
    BY DEF FailureReported
  <2>1. failures = {} /\ "server" \notin stops
    OBVIOUS
  <2>2. \A w \in Workers : loop[w] = "exited"
    BY <2>1
  <2>3. stops # {}
    BY <2>1, <2>2, PoolAssumption
  <2> QED BY <2>1, <2>2, <2>3
<1> QED BY <1>1, PoolInvariant, PTL

=============================================================================
