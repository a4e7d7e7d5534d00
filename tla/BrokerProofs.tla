---------------------------- MODULE BrokerProofs ----------------------------
(***************************************************************************)
(* The two other halves of the broker process.                             *)
(*                                                                         *)
(* First MemoryQueue, for every capacity, window and number of             *)
(* identities: the ring is a first-in first-out queue across every         *)
(* wrap-around, and the map and the tombstone list agree.                  *)
(*                                                                         *)
(* Then BrokerGate, for any number of requests and any capacities: mutual  *)
(* exclusion at the gate, the end of the file's use and the admission      *)
(* counters.                                                               *)
(***************************************************************************)
EXTENDS MemoryQueue, BrokerGate, FiniteSetTheorems, SequenceTheorems, TLAPS

-----------------------------------------------------------------------------
(* THE RING: slots, counted from the oldest waiting event *)

Slot(h, i) == (h + i - 1) % Capacity

LEMMA ModSmall == ASSUME NEW c \in Nat \ {0}, NEW a \in Nat, a < c PROVE a % c = a
OBVIOUS

LEMMA ModWrap ==
  ASSUME NEW c \in Nat \ {0}, NEW a \in Nat, c <= a, a < 2 * c
  PROVE  a % c = a - c
OBVIOUS

LEMMA SlotIs ==
  ASSUME NEW h \in 0 .. Capacity - 1, NEW i \in 1 .. Capacity
  PROVE  /\ Slot(h, i) = IF h + i <= Capacity THEN h + i - 1 ELSE h + i - 1 - Capacity
         /\ Slot(h, i) \in 0 .. Capacity - 1
<1>0. Capacity \in Nat \ {0} /\ h + i - 1 \in Nat /\ h \in Nat /\ i \in Nat
  BY MemoryAssumption
<1>1. CASE h + i <= Capacity
  <2>1. h + i - 1 < Capacity
    BY <1>0, <1>1
  <2>2. (h + i - 1) % Capacity = h + i - 1
    BY <1>0, <2>1, ModSmall
  <2> QED BY <1>0, <1>1, <2>2 DEF Slot
<1>2. CASE ~(h + i <= Capacity)
  <2>1. Capacity <= h + i - 1 /\ h + i - 1 < 2 * Capacity
    BY <1>0, <1>2
  <2>2. (h + i - 1) % Capacity = h + i - 1 - Capacity
    BY <1>0, <2>1, ModWrap
  <2> QED BY <1>0, <1>2, <2>2 DEF Slot
<1> QED BY <1>1, <1>2

(* No two of the waiting events share a slot. *)
LEMMA SlotsDiffer ==
  ASSUME NEW h \in 0 .. Capacity - 1, NEW i \in 1 .. Capacity, NEW j \in 1 .. Capacity, i # j
  PROVE  Slot(h, i) # Slot(h, j)
<1>1. Capacity \in Nat \ {0}
  BY MemoryAssumption
<1>2. Slot(h, i) = IF h + i <= Capacity THEN h + i - 1 ELSE h + i - 1 - Capacity
  BY SlotIs
<1>3. Slot(h, j) = IF h + j <= Capacity THEN h + j - 1 ELSE h + j - 1 - Capacity
  BY SlotIs
<1> QED BY <1>1, <1>2, <1>3

(* Delivery moves the oldest slot by one. *)
LEMMA SlotMoves ==
  ASSUME NEW h \in 0 .. Capacity - 1
  PROVE  /\ Slot(h, 1) = h
         /\ (h + 1) % Capacity \in 0 .. Capacity - 1
         /\ \A i \in 1 .. Capacity - 1 : Slot((h + 1) % Capacity, i) = Slot(h, i + 1)
<1>0. Capacity \in Nat \ {0}
  BY MemoryAssumption
<1>1. Slot(h, 1) = h
  BY <1>0, SlotIs
<1>2. (h + 1) % Capacity = IF h + 1 < Capacity THEN h + 1 ELSE 0
  <2>1. CASE h + 1 < Capacity
    BY <1>0, <2>1, ModSmall
  <2>2. CASE h + 1 = Capacity
    BY <1>0, <2>2, ModWrap
  <2> QED BY <1>0, <2>1, <2>2
<1>3. (h + 1) % Capacity \in 0 .. Capacity - 1
  BY <1>0, <1>2
<1>4. ASSUME NEW i \in 1 .. Capacity - 1 PROVE Slot((h + 1) % Capacity, i) = Slot(h, i + 1)
  <2> DEFINE k == (h + 1) % Capacity
  <2>1. i \in 1 .. Capacity /\ i + 1 \in 1 .. Capacity
    BY <1>0
  <2>2. k \in 0 .. Capacity - 1 /\ k = IF h + 1 < Capacity THEN h + 1 ELSE 0
    BY <1>2, <1>3
  <2> HIDE DEF k
  <2>3. Slot(k, i) = IF k + i <= Capacity THEN k + i - 1 ELSE k + i - 1 - Capacity
    BY <2>1, <2>2, SlotIs
  <2>4. Slot(h, i + 1) = IF h + (i + 1) <= Capacity THEN h + (i + 1) - 1 ELSE h + (i + 1) - 1 - Capacity
    BY <2>1, SlotIs
  <2>5. Slot(k, i) = Slot(h, i + 1)
    BY <1>0, <2>2, <2>3, <2>4
  <2> QED BY <2>5 DEF k
<1> QED BY <1>1, <1>3, <1>4

-----------------------------------------------------------------------------
(* The inductive invariant, of ring r, head h, size n, map s, tombstones x  *)
(* and time t                                                               *)

Event == [id : IDs, content : Contents]
Tomb == [id : IDs, expires : Nat]

Shape(r, h, n, s, x, t) ==
  /\ r \in [0 .. Capacity - 1 -> Event \cup {NoEvent}]
  /\ h \in 0 .. Capacity - 1 /\ n \in 0 .. Capacity
  /\ s \in [IDs -> [hash : Contents \cup {Unknown}, expires : Nat]]
  /\ x \in Seq(Tomb)
  /\ t \in Nat

(* Every waiting event is remembered with its content, and only once. *)
Waits(r, h, n, s) ==
  /\ \A i \in 1 .. n : /\ r[Slot(h, i)] \in Event
                       /\ s[r[Slot(h, i)].id].hash = r[Slot(h, i)].content
                       /\ s[r[Slot(h, i)].id].expires = 0
  /\ \A i, j \in 1 .. n : i # j => r[Slot(h, i)].id # r[Slot(h, j)].id

(* Each delivered identity that is remembered has one tombstone, oldest     *)
(* first, and none lies further ahead than the TTL.                         *)
Tombs(s, x, t) ==
  /\ \A i \in 1 .. Len(x) : /\ x[i].expires # 0 /\ s[x[i].id].expires = x[i].expires
                            /\ x[i].expires <= t + TTL
  /\ \A id \in IDs : s[id].expires # 0 => \E i \in 1 .. Len(x) : x[i].id = id
  /\ \A i, j \in 1 .. Len(x) : i < j => x[i].id # x[j].id /\ x[i].expires <= x[j].expires
  /\ \A id \in IDs : s[id].expires # 0 => s[id].hash # Unknown

Remembered(s) == {id \in IDs : s[id] # Unseen}

Sizes(n, s, x) ==
  /\ IsFiniteSet(Remembered(s))
  /\ Cardinality(Remembered(s)) = n + Len(x)
  /\ Cardinality(Remembered(s)) <= DedupCapacity

MemOK(r, h, n, s, x, t) ==
  Shape(r, h, n, s, x, t) /\ Waits(r, h, n, s) /\ Tombs(s, x, t) /\ Sizes(n, s, x)

MemInv == MemOK(ring, head, size, seen, expired, clock) /\ received \in Nat

LEMMA TombTyped ==
  ASSUME NEW x \in Seq(Tomb), NEW i \in 1 .. Len(x)
  PROVE  x[i].id \in IDs /\ x[i].expires \in Nat
<1>1. x[i] \in Tomb
  OBVIOUS
<1> QED BY <1>1 DEF Tomb

LEMMA UnseenIs ==
  ASSUME NEW s \in [IDs -> [hash : Contents \cup {Unknown}, expires : Nat]], NEW id \in IDs
  PROVE  s[id] = Unseen <=> s[id].hash = Unknown /\ s[id].expires = 0
BY DEF Unseen

-----------------------------------------------------------------------------
(* Dropping tombstones *)

(* A set of positions closed downwards is counted by its last member. *)
LEMMA PrefixIs ==
  ASSUME NEW n \in Nat, NEW D \in SUBSET (1 .. n), \A i \in D : 1 .. i \subseteq D
  PROVE  /\ IsFiniteSet(D) /\ Cardinality(D) \in 0 .. n
         /\ D = 1 .. Cardinality(D)
<1> DEFINE c == Cardinality(D)
<1>1. IsFiniteSet(1 .. n) /\ Cardinality(1 .. n) = n
  BY FS_Interval
<1>2. IsFiniteSet(D) /\ c \in Nat /\ c <= n
  BY <1>1, FS_Subset, FS_CardinalityType
<1>3. ASSUME NEW i \in D PROVE i <= c
  <2>1. i \in Nat /\ i >= 1
    OBVIOUS
  <2>2. Cardinality(1 .. i) = i /\ 1 .. i \in SUBSET D
    BY <2>1, FS_Interval
  <2> QED BY <1>2, <2>2, FS_Subset
<1>4. D \in SUBSET (1 .. c)
  BY <1>3
<1>5. IsFiniteSet(1 .. c) /\ Cardinality(1 .. c) = c
  BY <1>2, FS_Interval
<1>6. D = 1 .. c
  BY <1>4, <1>5, FS_Subset
<1> QED BY <1>2, <1>6

LEMMA DroppedIs ==
  ASSUME MemInv
  PROVE  /\ Cardinality(Dropped) \in 0 .. Len(expired)
         /\ Dropped = 1 .. Cardinality(Dropped)
<1>1. Len(expired) \in Nat
  BY DEF MemInv, MemOK, Shape
<1>2. Dropped \in SUBSET (1 .. Len(expired)) /\ \A i \in Dropped : 1 .. i \subseteq Dropped
  BY <1>1 DEF Dropped
<1> QED BY <1>1, <1>2, PrefixIs

(* The identities of the first c tombstones, and the rest of the list. *)
Gone(x, c) == {x[i].id : i \in 1 .. c}
Forgets(s, g) == [id \in IDs |-> IF id \in g THEN Unseen ELSE s[id]]

LEMMA GoneCount ==
  ASSUME NEW x \in Seq(Tomb), NEW c \in 0 .. Len(x),
         \A i, j \in 1 .. Len(x) : i < j => x[i].id # x[j].id
  PROVE  IsFiniteSet(Gone(x, c)) /\ Cardinality(Gone(x, c)) = c
<1> DEFINE f == [i \in 1 .. c |-> x[i].id]
           G == Gone(x, c)
<1>1. Len(x) \in Nat /\ c \in Nat
  OBVIOUS
<1>2. IsFiniteSet(1 .. c) /\ Cardinality(1 .. c) = c
  BY <1>1, FS_Interval
<1>3. f \in [1 .. c -> G] /\ \A g \in G : \E i \in 1 .. c : f[i] = g
  BY DEF Gone
<1>4. \A i, j \in 1 .. c : f[i] = f[j] => i = j
  BY <1>1
<1> HIDE DEF f, G
<1>5. f \in Surjection(1 .. c, G)
  BY <1>3 DEF Surjection
<1>6. f \in Injection(1 .. c, G)
  BY <1>3, <1>4 DEF Injection, IsInjective
<1>7. IsFiniteSet(G) /\ Cardinality(G) = Cardinality(1 .. c)
  BY <1>2, <1>5, <1>6, FS_Surjection
<1> QED BY <1>2, <1>7 DEF G

(* Forgetting the first c identities keeps the rest in order. *)
LEMMA ForgetOK ==
  ASSUME NEW r, NEW h, NEW n, NEW s, NEW x, NEW t, MemOK(r, h, n, s, x, t),
         NEW c \in 0 .. Len(x)
  PROVE  MemOK(r, h, n, Forgets(s, Gone(x, c)), SubSeq(x, c + 1, Len(x)), t)
<1> DEFINE g == Gone(x, c)
           u == Forgets(s, g)
           y == SubSeq(x, c + 1, Len(x))
<1>0. Shape(r, h, n, s, x, t) /\ Waits(r, h, n, s) /\ Tombs(s, x, t) /\ Sizes(n, s, x)
  BY DEF MemOK
<1>1. Len(x) \in Nat /\ c \in Nat /\ c <= Len(x) /\ x \in Seq(Tomb) /\ n \in Nat
      /\ s \in [IDs -> [hash : Contents \cup {Unknown}, expires : Nat]]
  BY <1>0 DEF Shape
<1>2. /\ y \in Seq(Tomb) /\ Len(y) = Len(x) - c
      /\ \A i \in 1 .. Len(y) : y[i] = x[c + i] /\ c + i \in 1 .. Len(x)
  <2>1. \A i \in c + 1 .. Len(x) : x[i] \in Tomb
    BY <1>1
  <2>2. /\ y \in Seq(Tomb) /\ Len(y) = IF c + 1 <= Len(x) THEN Len(x) - (c + 1) + 1 ELSE 0
        /\ \A i \in 1 .. Len(x) - (c + 1) + 1 : y[i] = x[c + 1 + i - 1]
    BY <1>1, <2>1, SubSeqProperties
  <2> HIDE DEF y
  <2> QED BY <1>1, <2>2
<1>3. \A i \in 1 .. Len(x) : x[i] \in Tomb /\ x[i].id \in IDs /\ x[i].expires \in Nat
  BY <1>1, TombTyped
<1>4. \A id : id \in g <=> \E i \in 1 .. c : x[i].id = id
  BY DEF Gone
<1>5. u \in [IDs -> [hash : Contents \cup {Unknown}, expires : Nat]]
      /\ \A id \in IDs : u[id] = IF id \in g THEN Unseen ELSE s[id]
  <2>1. Unseen \in [hash : Contents \cup {Unknown}, expires : Nat]
    BY DEF Unseen
  <2> HIDE DEF g
  <2> QED BY <1>1, <2>1 DEF Forgets
<1> HIDE DEF g, u, y
<1>6. Shape(r, h, n, u, y, t)
  BY <1>0, <1>2, <1>5 DEF Shape
<1>7. \A id \in g : id \in IDs /\ s[id].expires # 0
  BY <1>0, <1>1, <1>3, <1>4 DEF Tombs
<1>8. Waits(r, h, n, u)
  <2>1. \A i \in 1 .. n : r[Slot(h, i)].id \in IDs /\ s[r[Slot(h, i)].id].expires = 0
    BY <1>0 DEF Waits, Event
  <2>2. \A i \in 1 .. n : u[r[Slot(h, i)].id] = s[r[Slot(h, i)].id]
    BY <1>5, <1>7, <2>1
  <2> QED BY <1>0, <2>2 DEF Waits
<1>9. Tombs(u, y, t)
  <2>1. \A i \in 1 .. Len(y) : y[i].id \in IDs /\ y[i].id \notin g
    <3> SUFFICES ASSUME NEW i \in 1 .. Len(y), y[i].id \in g PROVE FALSE
      BY <1>2, <1>3
    <3>1. PICK j \in 1 .. c : x[j].id = y[i].id
      BY <1>4
    <3>2. j < c + i /\ j \in 1 .. Len(x) /\ c + i \in 1 .. Len(x) /\ y[i] = x[c + i]
      BY <1>1, <1>2
    <3> QED BY <1>0, <3>1, <3>2 DEF Tombs
  <2>2. \A i \in 1 .. Len(y) : /\ y[i].expires # 0 /\ u[y[i].id].expires = y[i].expires
                               /\ y[i].expires <= t + TTL
    <3> TAKE i \in 1 .. Len(y)
    <3>1. y[i] = x[c + i] /\ c + i \in 1 .. Len(x) /\ u[y[i].id] = s[y[i].id]
      BY <1>2, <1>5, <2>1
    <3> QED BY <1>0, <3>1 DEF Tombs
  <2>3. ASSUME NEW id \in IDs, u[id].expires # 0
        PROVE  (\E i \in 1 .. Len(y) : y[i].id = id) /\ u[id].hash # Unknown
    <3>1. id \notin g /\ s[id].expires # 0 /\ u[id] = s[id]
      BY <1>5, <2>3 DEF Unseen
    <3>2. PICK j \in 1 .. Len(x) : x[j].id = id
      BY <1>0, <3>1 DEF Tombs
    <3>3. j \notin 1 .. c
      BY <1>4, <3>1, <3>2
    <3>4. j - c \in 1 .. Len(y) /\ c + (j - c) = j
      BY <1>1, <1>2, <3>3
    <3>5. y[j - c].id = id
      BY <1>2, <3>2, <3>4
    <3> QED BY <1>0, <3>1, <3>4, <3>5 DEF Tombs
  <2>4. \A i, j \in 1 .. Len(y) : i < j => y[i].id # y[j].id /\ y[i].expires <= y[j].expires
    <3> SUFFICES ASSUME NEW i \in 1 .. Len(y), NEW j \in 1 .. Len(y), i < j
                 PROVE  y[i].id # y[j].id /\ y[i].expires <= y[j].expires
      OBVIOUS
    <3>1. c + i < c + j /\ c + i \in 1 .. Len(x) /\ c + j \in 1 .. Len(x)
          /\ y[i] = x[c + i] /\ y[j] = x[c + j]
      BY <1>1, <1>2
    <3> QED BY <1>0, <3>1 DEF Tombs
  <2> QED BY <2>2, <2>3, <2>4 DEF Tombs
<1>10. Sizes(n, u, y)
  <2> DEFINE R == Remembered(s)
  <2>1. Remembered(u) = R \ g
    BY <1>5 DEF Remembered
  <2>2. g \subseteq R
    BY <1>7 DEF Remembered, Unseen
  <2>3. IsFiniteSet(g) /\ Cardinality(g) = c
    <3>1. \A i, j \in 1 .. Len(x) : i < j => x[i].id # x[j].id
      BY <1>0 DEF Tombs
    <3> QED BY <1>1, <3>1, GoneCount DEF g
  <2>4. IsFiniteSet(R) /\ Cardinality(R) = n + Len(x) /\ Cardinality(R) <= DedupCapacity
    BY <1>0 DEF Sizes
  <2> HIDE DEF R
  <2>5. R \cap g = g
    BY <2>2
  <2>6. IsFiniteSet(R \ g) /\ Cardinality(R \ g) = Cardinality(R) - c
    <3>1. IsFiniteSet(R \ g) /\ Cardinality(R \ g) = Cardinality(R) - Cardinality(R \cap g)
      BY <2>4, FS_Difference, Zenon
    <3> QED BY <2>3, <2>5, <3>1
  <2>7. DedupCapacity \in Nat
    BY MemoryAssumption
  <2> QED BY <1>1, <1>2, <2>1, <2>4, <2>6, <2>7 DEF Sizes
<1> QED BY <1>6, <1>8, <1>9, <1>10 DEF MemOK, u, g, y

-----------------------------------------------------------------------------
(* Accepting, delivering, and the passing of time *)

LEMMA AcceptOK ==
  ASSUME NEW r, NEW h, NEW n, NEW s, NEW x, NEW t, MemOK(r, h, n, s, x, t),
         NEW id \in IDs, NEW p \in Contents,
         s[id] = Unseen, n < Capacity, Cardinality(Remembered(s)) # DedupCapacity
  PROVE  MemOK([r EXCEPT ![Slot(h, n + 1)] = [id |-> id, content |-> p]], h, n + 1,
               [s EXCEPT ![id] = [hash |-> p, expires |-> 0]], x, t)
<1> DEFINE e == [id |-> id, content |-> p]
           a == [hash |-> p, expires |-> 0]
           q == [r EXCEPT ![Slot(h, n + 1)] = e]
           u == [s EXCEPT ![id] = a]
<1>0. Shape(r, h, n, s, x, t) /\ Waits(r, h, n, s) /\ Tombs(s, x, t) /\ Sizes(n, s, x)
  BY DEF MemOK
<1>1. /\ Len(x) \in Nat /\ n \in Nat /\ n + 1 \in 0 .. Capacity /\ n + 1 \in 1 .. Capacity
      /\ Capacity \in Nat /\ h \in 0 .. Capacity - 1 /\ DedupCapacity \in Nat
      /\ r \in [0 .. Capacity - 1 -> Event \cup {NoEvent}]
      /\ s \in [IDs -> [hash : Contents \cup {Unknown}, expires : Nat]] /\ p # Unknown
  BY <1>0, MemoryAssumption DEF Shape
<1>2. e \in Event /\ e.id = id /\ e.content = p
  BY DEF Event
<1>3. a \in [hash : Contents \cup {Unknown}, expires : Nat] /\ a.hash = p /\ a.expires = 0 /\ a # Unseen
  BY <1>1 DEF Unseen
<1>4. s[id].expires = 0 /\ s[id].hash = Unknown
  BY DEF Unseen
<1> HIDE DEF e, a
<1>5. Slot(h, n + 1) \in 0 .. Capacity - 1
  BY <1>1, SlotIs
<1>6. /\ q \in [0 .. Capacity - 1 -> Event \cup {NoEvent}] /\ q[Slot(h, n + 1)] = e
      /\ \A k \in 0 .. Capacity - 1 : k # Slot(h, n + 1) => q[k] = r[k]
  BY <1>1, <1>2, <1>5
<1>7. /\ u \in [IDs -> [hash : Contents \cup {Unknown}, expires : Nat]] /\ u[id] = a
      /\ \A o \in IDs : o # id => u[o] = s[o]
  BY <1>1, <1>3
<1> HIDE DEF q, u
<1>8. Shape(q, h, n + 1, u, x, t)
  BY <1>0, <1>1, <1>6, <1>7 DEF Shape
<1>9. \A i \in 1 .. n : q[Slot(h, i)] = r[Slot(h, i)]
  <2> TAKE i \in 1 .. n
  <2>1. i \in 1 .. Capacity /\ i # n + 1
    BY <1>1
  <2>2. Slot(h, i) \in 0 .. Capacity - 1 /\ Slot(h, i) # Slot(h, n + 1)
    BY <1>1, <2>1, SlotIs, SlotsDiffer
  <2> QED BY <1>6, <2>2
<1>10. \A i \in 1 .. n : r[Slot(h, i)] \in Event /\ r[Slot(h, i)].id \in IDs /\ r[Slot(h, i)].id # id
  <2> TAKE i \in 1 .. n
  <2>1. /\ r[Slot(h, i)] \in Event /\ r[Slot(h, i)].id \in IDs /\ r[Slot(h, i)].content \in Contents
        /\ s[r[Slot(h, i)].id].hash = r[Slot(h, i)].content
    BY <1>0 DEF Waits, Event
  <2>2. s[r[Slot(h, i)].id].hash # Unknown
    BY <2>1, MemoryAssumption
  <2> QED BY <1>4, <2>1, <2>2
<1>11. Waits(q, h, n + 1, u)
  <2>1. ASSUME NEW i \in 1 .. n + 1
        PROVE  /\ q[Slot(h, i)] \in Event
               /\ u[q[Slot(h, i)].id].hash = q[Slot(h, i)].content
               /\ u[q[Slot(h, i)].id].expires = 0
    <3>1. CASE i = n + 1
      BY <1>2, <1>3, <1>6, <1>7, <3>1
    <3>2. CASE i \in 1 .. n
      <4>1. q[Slot(h, i)] = r[Slot(h, i)] /\ u[r[Slot(h, i)].id] = s[r[Slot(h, i)].id]
        BY <1>7, <1>9, <1>10, <3>2
      <4> QED BY <1>0, <3>2, <4>1 DEF Waits
    <3> QED BY <1>1, <3>1, <3>2
  <2>2. ASSUME NEW i \in 1 .. n + 1, NEW j \in 1 .. n + 1, i # j
        PROVE  q[Slot(h, i)].id # q[Slot(h, j)].id
    <3>1. CASE i \in 1 .. n /\ j \in 1 .. n
      BY <1>0, <1>9, <2>2, <3>1 DEF Waits
    <3>2. CASE i = n + 1 /\ j \in 1 .. n
      BY <1>2, <1>6, <1>9, <1>10, <3>2
    <3>3. CASE i \in 1 .. n /\ j = n + 1
      BY <1>2, <1>6, <1>9, <1>10, <3>3
    <3> QED BY <1>1, <2>2, <3>1, <3>2, <3>3
  <2> QED BY <2>1, <2>2 DEF Waits
<1>12. \A o \in IDs : u[o].expires = s[o].expires /\ (o # id => u[o] = s[o])
  BY <1>3, <1>4, <1>7
<1>13. Tombs(u, x, t)
  <2>1. \A i \in 1 .. Len(x) : x[i].id \in IDs
    BY <1>0, TombTyped DEF Shape
  <2>2. \A o \in IDs : s[o].expires # 0 => o # id
    BY <1>4
  <2> QED BY <1>0, <1>12, <2>1, <2>2 DEF Tombs
<1>14. Sizes(n + 1, u, x)
  <2>1. Remembered(u) = Remembered(s) \cup {id} /\ id \notin Remembered(s)
    BY <1>3, <1>7 DEF Remembered
  <2>2. /\ IsFiniteSet(Remembered(s)) /\ Cardinality(Remembered(s)) = n + Len(x)
        /\ Cardinality(Remembered(s)) <= DedupCapacity
    BY <1>0 DEF Sizes
  <2>3. IsFiniteSet(Remembered(u)) /\ Cardinality(Remembered(u)) = Cardinality(Remembered(s)) + 1
    BY <2>1, <2>2, FS_AddElement
  <2> QED BY <1>1, <2>2, <2>3 DEF Sizes
<1> QED BY <1>8, <1>11, <1>13, <1>14 DEF MemOK, q, u, e, a

LEMMA DeliverOK ==
  ASSUME NEW r, NEW h, NEW n, NEW s, NEW x, NEW t, MemOK(r, h, n, s, x, t), n > 0
  PROVE  MemOK([r EXCEPT ![h] = NoEvent], (h + 1) % Capacity, n - 1,
               [s EXCEPT ![r[h].id].expires = t + TTL],
               Append(x, [id |-> r[h].id, expires |-> t + TTL]), t)
<1> DEFINE id == r[h].id
           b == [id |-> id, expires |-> t + TTL]
           a == [s[id] EXCEPT !.expires = t + TTL]
           q == [r EXCEPT ![h] = NoEvent]
           u == [s EXCEPT ![id] = a]
           y == Append(x, b)
           k == (h + 1) % Capacity
<1>0. Shape(r, h, n, s, x, t) /\ Waits(r, h, n, s) /\ Tombs(s, x, t) /\ Sizes(n, s, x)
  BY DEF MemOK
<1>1. /\ Len(x) \in Nat /\ n \in Nat /\ n - 1 \in 0 .. Capacity /\ n <= Capacity /\ 1 \in 1 .. n
      /\ Capacity \in Nat /\ h \in 0 .. Capacity - 1 /\ t \in Nat /\ TTL \in Nat /\ t + TTL # 0
      /\ r \in [0 .. Capacity - 1 -> Event \cup {NoEvent}] /\ x \in Seq(Tomb)
      /\ s \in [IDs -> [hash : Contents \cup {Unknown}, expires : Nat]] /\ t + TTL \in Nat
  BY <1>0, MemoryAssumption DEF Shape
<1>2. /\ Slot(h, 1) = h /\ k \in 0 .. Capacity - 1
      /\ \A i \in 1 .. Capacity - 1 : Slot(k, i) = Slot(h, i + 1)
  BY <1>1, SlotMoves
<1>3. /\ r[h] \in Event /\ id \in IDs /\ r[h].content \in Contents
      /\ s[id].hash = r[h].content /\ s[id].expires = 0
  BY <1>0, <1>1, <1>2 DEF Waits, Event
<1> HIDE DEF id, k
<1>4. /\ a \in [hash : Contents \cup {Unknown}, expires : Nat]
      /\ a.hash = s[id].hash /\ a.expires = t + TTL
  BY <1>1, <1>3
<1>5. b \in Tomb /\ b.id = id /\ b.expires = t + TTL
  BY <1>1, <1>3 DEF Tomb
<1> HIDE DEF a, b
<1>6. /\ q \in [0 .. Capacity - 1 -> Event \cup {NoEvent}]
      /\ \A j \in 0 .. Capacity - 1 : j # h => q[j] = r[j]
  BY <1>1
<1>7. /\ u \in [IDs -> [hash : Contents \cup {Unknown}, expires : Nat]] /\ u[id] = a
      /\ \A o \in IDs : o # id => u[o] = s[o]
  BY <1>1, <1>3, <1>4
<1>8. /\ y \in Seq(Tomb) /\ Len(y) = Len(x) + 1 /\ y[Len(x) + 1] = b
      /\ \A i \in 1 .. Len(x) : y[i] = x[i]
  BY <1>1, <1>5
<1> HIDE DEF q, u, y
<1>9. Shape(q, k, n - 1, u, y, t)
  BY <1>0, <1>1, <1>2, <1>6, <1>7, <1>8 DEF Shape
<1>10. \A i \in 1 .. n - 1 : /\ q[Slot(k, i)] = r[Slot(h, i + 1)] /\ i + 1 \in 1 .. n
                             /\ r[Slot(h, i + 1)].id \in IDs /\ r[Slot(h, i + 1)].id # id
  <2> TAKE i \in 1 .. n - 1
  <2>1. i \in 1 .. Capacity - 1 /\ i + 1 \in 1 .. n /\ i + 1 \in 1 .. Capacity /\ 1 \in 1 .. Capacity
        /\ i + 1 # 1
    BY <1>1
  <2>2. Slot(k, i) = Slot(h, i + 1)
    BY <1>2, <2>1
  <2>3. Slot(h, i + 1) \in 0 .. Capacity - 1 /\ Slot(h, i + 1) # Slot(h, 1)
    BY <1>1, <2>1, SlotIs, SlotsDiffer
  <2>4. q[Slot(k, i)] = r[Slot(h, i + 1)]
    BY <1>2, <1>6, <2>2, <2>3
  <2>5. r[Slot(h, i + 1)].id \in IDs /\ r[Slot(h, i + 1)].id # r[Slot(h, 1)].id
    BY <1>0, <1>1, <2>1 DEF Waits, Event
  <2> QED BY <1>2, <2>1, <2>4, <2>5 DEF id
<1>11. Waits(q, k, n - 1, u)
  <2>1. ASSUME NEW i \in 1 .. n - 1
        PROVE  /\ q[Slot(k, i)] \in Event
               /\ u[q[Slot(k, i)].id].hash = q[Slot(k, i)].content
               /\ u[q[Slot(k, i)].id].expires = 0
    <3>1. /\ q[Slot(k, i)] = r[Slot(h, i + 1)] /\ i + 1 \in 1 .. n
          /\ u[r[Slot(h, i + 1)].id] = s[r[Slot(h, i + 1)].id]
      BY <1>7, <1>10
    <3> QED BY <1>0, <3>1 DEF Waits
  <2>2. ASSUME NEW i \in 1 .. n - 1, NEW j \in 1 .. n - 1, i # j
        PROVE  q[Slot(k, i)].id # q[Slot(k, j)].id
    <3>1. i + 1 # j + 1
      BY <2>2
    <3>2. /\ q[Slot(k, i)] = r[Slot(h, i + 1)] /\ i + 1 \in 1 .. n
          /\ q[Slot(k, j)] = r[Slot(h, j + 1)] /\ j + 1 \in 1 .. n
      BY <1>10
    <3> QED BY <1>0, <3>1, <3>2 DEF Waits
  <2> QED BY <2>1, <2>2 DEF Waits
<1>12. \A i \in 1 .. Len(x) : x[i].id \in IDs /\ x[i].id # id /\ x[i].expires <= t + TTL
  <2>1. \A i \in 1 .. Len(x) : x[i].id \in IDs
    BY <1>1, TombTyped
  <2> QED BY <1>0, <1>3, <2>1 DEF Tombs
<1>13. Tombs(u, y, t)
  <2>1. \A i \in 1 .. Len(y) : i \in 1 .. Len(x) \/ i = Len(x) + 1
    BY <1>1, <1>8
  <2>2. ASSUME NEW i \in 1 .. Len(y)
        PROVE  y[i].expires # 0 /\ u[y[i].id].expires = y[i].expires /\ y[i].expires <= t + TTL
    <3>1. CASE i = Len(x) + 1
      BY <1>1, <1>4, <1>5, <1>7, <1>8, <3>1
    <3>2. CASE i \in 1 .. Len(x)
      <4>1. y[i] = x[i] /\ u[x[i].id] = s[x[i].id]
        BY <1>7, <1>8, <1>12, <3>2
      <4> QED BY <1>0, <3>2, <4>1 DEF Tombs
    <3> QED BY <2>1, <3>1, <3>2
  <2>3. ASSUME NEW o \in IDs, u[o].expires # 0
        PROVE  (\E i \in 1 .. Len(y) : y[i].id = o) /\ u[o].hash # Unknown
    <3>1. CASE o = id
      <4>1. Len(x) + 1 \in 1 .. Len(y) /\ y[Len(x) + 1].id = o
        BY <1>1, <1>5, <1>8, <3>1
      <4> QED BY <1>3, <1>4, <1>7, <3>1, <4>1, MemoryAssumption
    <3>2. CASE o # id
      <4>1. u[o] = s[o]
        BY <1>7, <3>2
      <4>2. PICK j \in 1 .. Len(x) : x[j].id = o
        BY <1>0, <2>3, <4>1 DEF Tombs
      <4>3. j \in 1 .. Len(y) /\ y[j].id = o
        BY <1>1, <1>8, <4>2
      <4> QED BY <1>0, <2>3, <4>1, <4>3 DEF Tombs
    <3> QED BY <3>1, <3>2
  <2>4. ASSUME NEW i \in 1 .. Len(y), NEW j \in 1 .. Len(y), i < j
        PROVE  y[i].id # y[j].id /\ y[i].expires <= y[j].expires
    <3>1. i \in 1 .. Len(x) /\ y[i] = x[i]
      BY <1>1, <1>8, <2>4
    <3>2. CASE j = Len(x) + 1
      BY <1>5, <1>8, <1>12, <3>1, <3>2
    <3>3. CASE j \in 1 .. Len(x)
      BY <1>0, <1>8, <2>4, <3>1, <3>3 DEF Tombs
    <3> QED BY <2>1, <3>2, <3>3
  <2> QED BY <2>2, <2>3, <2>4 DEF Tombs
<1>14. Sizes(n - 1, u, y)
  <2>1. id \in Remembered(s)
    BY <1>3, MemoryAssumption DEF Remembered, Unseen
  <2>2. id \in Remembered(u)
    BY <1>1, <1>3, <1>4, <1>7 DEF Remembered, Unseen
  <2>3. Remembered(u) = Remembered(s)
    BY <1>7, <2>1, <2>2 DEF Remembered
  <2>4. n - 1 + Len(y) = n + Len(x)
    BY <1>1, <1>8
  <2> QED BY <1>0, <2>3, <2>4 DEF Sizes
<1>15. u = [s EXCEPT ![r[h].id].expires = t + TTL]
  BY DEF u, a, id
<1>16. MemOK(q, k, n - 1, u, y, t)
  BY <1>9, <1>11, <1>13, <1>14 DEF MemOK
<1> QED BY <1>15, <1>16 DEF q, y, k, b, id

LEMMA LaterOK ==
  ASSUME NEW r, NEW h, NEW n, NEW s, NEW x, NEW t, MemOK(r, h, n, s, x, t)
  PROVE  MemOK(r, h, n, s, x, t + 1)
<1>0. Shape(r, h, n, s, x, t) /\ Waits(r, h, n, s) /\ Tombs(s, x, t) /\ Sizes(n, s, x)
  BY DEF MemOK
<1>1. Shape(r, h, n, s, x, t + 1)
  BY <1>0 DEF Shape
<1>2. \A i \in 1 .. Len(x) : x[i].expires <= t + 1 + TTL
  <2>1. t \in Nat /\ TTL \in Nat
    BY <1>0, MemoryAssumption DEF Shape
  <2>2. \A i \in 1 .. Len(x) : x[i].expires \in Nat
    BY <1>0, TombTyped DEF Shape
  <2> QED BY <1>0, <2>1, <2>2 DEF Tombs
<1>3. Tombs(s, x, t + 1)
  BY <1>0, <1>2 DEF Tombs
<1> QED BY <1>0, <1>1, <1>3 DEF MemOK

-----------------------------------------------------------------------------
(* The steps of the broker *)

LEMMA SeenNowIs ==
  ASSUME MemInv
  PROVE  SeenNow = Forgets(seen, Gone(expired, Cardinality(Dropped)))
<1>1. Dropped = 1 .. Cardinality(Dropped)
  BY DroppedIs
<1> DEFINE c == Cardinality(Dropped)
<1>2. ASSUME NEW id PROVE (\E i \in Dropped : expired[i].id = id) <=> id \in Gone(expired, c)
  BY <1>1 DEF Gone
<1> QED BY <1>2 DEF SeenNow, Forgets

(* What Publish leaves behind once the tombstones that are over are gone. *)
LEMMA SweepInv ==
  ASSUME MemInv
  PROVE  MemOK(ring, head, size, SeenNow,
               SubSeq(expired, Cardinality(Dropped) + 1, Len(expired)), clock)
BY SeenNowIs, DroppedIs, ForgetOK DEF MemInv

LEMMA PublishInv == ASSUME MemInv, NEW id \in IDs, NEW p \in Contents, Publish(id, p) PROVE MemInv'
<1> DEFINE y == SubSeq(expired, Cardinality(Dropped) + 1, Len(expired))
<1>1. MemOK(ring, head, size, SeenNow, y, clock)
  BY SweepInv
<1>2. expired' = y /\ head' = head /\ clock' = clock /\ received' = received /\ received \in Nat
  BY DEF Publish, MemInv
<1> HIDE DEF y
<1>3. CASE SeenNow[id] = Unseen /\ Room(SeenNow)
  <2>1. /\ ring' = [ring EXCEPT ![Slot(head, size + 1)] = [id |-> id, content |-> p]]
        /\ size' = size + 1
        /\ seen' = [SeenNow EXCEPT ![id] = [hash |-> p, expires |-> 0]]
    <3>1. head + (size + 1) - 1 = head + size
      BY DEF MemInv, MemOK, Shape
    <3>2. FreeSlot = Slot(head, size + 1)
      BY <3>1 DEF FreeSlot, Slot
    <3> QED BY <1>3, <3>2 DEF Publish
  <2>2. size < Capacity /\ Cardinality(Remembered(SeenNow)) # DedupCapacity
    BY <1>3 DEF Room, SeenCount, Remembered
  <2>3. MemOK(ring', head, size + 1, seen', y, clock)
    BY <1>1, <1>3, <2>1, <2>2, AcceptOK
  <2> QED BY <1>2, <2>1, <2>3 DEF MemInv
<1>4. CASE ~(SeenNow[id] = Unseen /\ Room(SeenNow))
  <2>1. ring' = ring /\ size' = size /\ seen' = SeenNow
    BY <1>4 DEF Publish
  <2> QED BY <1>1, <1>2, <2>1 DEF MemInv
<1> QED BY <1>3, <1>4

LEMMA ReceiveInv == ASSUME MemInv, Receive PROVE MemInv'
<1>1. /\ ring' = [ring EXCEPT ![head] = NoEvent] /\ head' = (head + 1) % Capacity
      /\ size' = size - 1 /\ size > 0 /\ clock' = clock /\ received' = received + 1
      /\ seen' = [seen EXCEPT ![ring[head].id].expires = clock + TTL]
      /\ expired' = Append(expired, [id |-> ring[head].id, expires |-> clock + TTL])
  BY DEF Receive, NextHead, Tombstone
<1>2. MemOK(ring, head, size, seen, expired, clock) /\ received \in Nat
  BY DEF MemInv
<1>3. MemOK(ring', head', size', seen', expired', clock)
  BY <1>1, <1>2, DeliverOK
<1> QED BY <1>1, <1>2, <1>3 DEF MemInv

LEMMA AdvanceInv == ASSUME MemInv, Advance PROVE MemInv'
BY LaterOK DEF MemInv, Advance

LEMMA InitMemInv == ASSUME MemInit PROVE MemInv
<1>1. Capacity \in Nat \ {0} /\ DedupCapacity \in Nat /\ TTL \in Nat
  BY MemoryAssumption
<1>2. Shape(ring, head, size, seen, expired, clock)
  BY <1>1 DEF MemInit, Shape, Unseen
<1>3. Waits(ring, head, size, seen)
  BY DEF MemInit, Waits
<1>4. Len(expired) = 0
  BY DEF MemInit
<1>5. Tombs(seen, expired, clock)
  BY <1>4 DEF MemInit, Tombs, Unseen
<1>6. Remembered(seen) = {}
  BY DEF MemInit, Remembered
<1>7. Sizes(size, seen, expired)
  BY <1>1, <1>4, <1>6, FS_EmptySet DEF MemInit, Sizes
<1> QED BY <1>2, <1>3, <1>5, <1>7 DEF MemInv, MemOK, MemInit

LEMMA NextMemInv == ASSUME MemInv, [MemNext]_memVars PROVE MemInv'
<1>1. CASE UNCHANGED memVars
  BY <1>1 DEF memVars, MemInv
<1> QED BY <1>1, PublishInv, ReceiveInv, AdvanceInv, Zenon DEF MemNext

(* The ring, the map and the tombstones of memory.go stay in step: what    *)
(* waits is remembered once, what was delivered has one tombstone, and the *)
(* two fill the map.                                                       *)
THEOREM MemoryInvariant == MemSpec => []MemInv
BY InitMemInv, NextMemInv, PTL DEF MemSpec

LEMMA InvTombstones == ASSUME MemInv PROVE TombstonesExact
<1>1. Shape(ring, head, size, seen, expired, clock) /\ Tombs(seen, expired, clock) /\ Sizes(size, seen, expired)
  BY DEF MemInv, MemOK
<1>2. expired \in Seq(Tomb)
  BY <1>1 DEF Shape
<1>3. ASSUME NEW i \in 1 .. Len(expired)
      PROVE  /\ expired[i].id \in IDs /\ seen[expired[i].id].expires # 0
             /\ expired[i] = [id |-> expired[i].id, expires |-> seen[expired[i].id].expires]
  <2>1. expired[i] \in Tomb
    BY <1>2
  <2>2. seen[expired[i].id].expires = expired[i].expires /\ expired[i].expires # 0
    BY <1>1 DEF Tombs
  <2> QED BY <2>1, <2>2 DEF Tomb
<1>4. ASSUME NEW id \in IDs, seen[id].expires # 0
      PROVE  \E i \in 1 .. Len(expired) : expired[i] = [id |-> id, expires |-> seen[id].expires]
  <2>1. PICK i \in 1 .. Len(expired) : expired[i].id = id
    BY <1>1, <1>4 DEF Tombs
  <2> QED BY <1>3, <2>1
<1>5. {expired[i] : i \in 1 .. Len(expired)} =
        {[id |-> id, expires |-> seen[id].expires] : id \in {i \in IDs : seen[i].expires # 0}}
  <2> DEFINE f(id) == [id |-> id, expires |-> seen[id].expires]
             A == {expired[i] : i \in 1 .. Len(expired)}
             B == {f(id) : id \in {i \in IDs : seen[i].expires # 0}}
  <2>1. \A e \in A : e \in B
    BY <1>3
  <2>2. \A e \in B : e \in A
    BY <1>4
  <2>3. A = B
    BY <2>1, <2>2
  <2> QED BY <2>3
<1>6. SeenCount(seen) = size + Len(expired) /\ SeenCount(seen) <= DedupCapacity
  BY <1>1 DEF Sizes, SeenCount, Remembered
<1>7. \A i, j \in 1 .. Len(expired) : i < j =>
        expired[i].id # expired[j].id /\ expired[i].expires <= expired[j].expires
  BY <1>1 DEF Tombs
<1> QED BY <1>5, <1>6, <1>7 DEF TombstonesExact

(* The tombstone list and the map agree, for every capacity and TTL: no    *)
(* second tombstone can delete the newer entry of an identity published    *)
(* again, and the map never outgrows DedupCapacity.                        *)
THEOREM TombstonesAgree == MemSpec => []TombstonesExact
BY MemoryInvariant, InvTombstones, PTL

(* One step of the broker keeps an entry, or drops one whose window is over. *)
KeepsWindow ==
  \A id \in IDs : seen[id] # Unseen =>
    \/ seen'[id].hash = seen[id].hash /\ seen'[id].expires >= seen[id].expires
    \/ seen[id].expires # 0 /\ seen[id].expires <= clock

LEMMA SweepKeeps ==
  ASSUME MemInv, NEW id \in IDs, SeenNow[id] # seen[id]
  PROVE  seen[id].expires # 0 /\ seen[id].expires <= clock
<1>1. PICK i \in Dropped : expired[i].id = id
  BY DEF SeenNow
<1>2. i \in 1 .. Len(expired) /\ expired[i].expires <= clock
  BY DEF Dropped, MemInv, MemOK, Shape
<1> QED BY <1>1, <1>2 DEF MemInv, MemOK, Tombs

LEMMA PublishWindow ==
  ASSUME MemInv, NEW id \in IDs, NEW p \in Contents, Publish(id, p) PROVE KeepsWindow
<1> SUFFICES ASSUME NEW o \in IDs, seen[o] # Unseen,
                    ~(seen[o].expires # 0 /\ seen[o].expires <= clock)
             PROVE  seen'[o] = seen[o] /\ seen[o].expires \in Nat
  BY DEF KeepsWindow
<1>1. SeenNow[o] = seen[o]
  BY SweepKeeps
<1>2. seen[o].expires \in Nat /\ SeenNow \in [IDs -> [hash : Contents \cup {Unknown}, expires : Nat]]
  BY SweepInv DEF MemInv, MemOK, Shape
<1> QED BY <1>1, <1>2 DEF Publish

LEMMA ReceiveWindow == ASSUME MemInv, Receive PROVE KeepsWindow
<1> DEFINE k == ring[head].id
<1>1. /\ seen' = [seen EXCEPT ![k].expires = clock + TTL]
      /\ seen \in [IDs -> [hash : Contents \cup {Unknown}, expires : Nat]]
      /\ head \in 0 .. Capacity - 1 /\ size \in Nat /\ size > 0 /\ clock + TTL \in Nat
  BY MemoryAssumption DEF Receive, MemInv, MemOK, Shape
<1>2. 1 \in 1 .. size /\ Slot(head, 1) = head
  BY <1>1, SlotMoves
<1>3. k \in IDs /\ seen[k].expires = 0
  BY <1>2 DEF MemInv, MemOK, Waits, Event
<1> HIDE DEF k
<1>4. \A id \in IDs : seen'[id].hash = seen[id].hash /\ seen'[id].expires >= seen[id].expires
  BY <1>1, <1>3
<1> QED BY <1>4 DEF KeepsWindow

LEMMA NextWindow == ASSUME MemInv, [MemNext]_memVars PROVE KeepsWindow
<1>1. \A id \in IDs : seen[id].expires \in Nat
  BY DEF MemInv, MemOK, Shape
<1>2. CASE UNCHANGED memVars
  BY <1>1, <1>2 DEF memVars, KeepsWindow
<1>3. CASE Advance
  BY <1>1, <1>3 DEF Advance, KeepsWindow
<1> QED BY <1>2, <1>3, PublishWindow, ReceiveWindow, Zenon DEF MemNext

(* The claim of memory.go's comment, for any sizes: an identity is never   *)
(* evicted while its event waits or before its window is over.             *)
THEOREM WindowIsKept == MemSpec => WindowKept
<1>1. MemInv /\ [MemNext]_memVars => [KeepsWindow]_memVars
  BY NextWindow
<1>2. MemSpec => [][KeepsWindow]_memVars
  BY MemoryInvariant, <1>1, PTL DEF MemSpec
<1> QED BY <1>2 DEF KeepsWindow, WindowKept

-----------------------------------------------------------------------------
(* Refinement: the waiting events, oldest first, are the abstract queue *)

Line(r, h, n) == [i \in 1 .. n |-> r[Slot(h, i)]]
Known(s) == [id \in IDs |-> s[id].hash]

LEMMA LineIs ==
  ASSUME NEW r, NEW h, NEW n, NEW s, NEW x, NEW t, MemOK(r, h, n, s, x, t)
  PROVE  /\ Line(r, h, n) \in Seq(Event) /\ Len(Line(r, h, n)) = n
         /\ \A i \in 1 .. n : Line(r, h, n)[i] = r[Slot(h, i)]
<1>1. n \in Nat /\ \A i \in 1 .. n : r[Slot(h, i)] \in Event
  BY DEF MemOK, Shape, Waits
<1> QED BY <1>1 DEF Line

Puts(q, r, k, e) == q = [r EXCEPT ![k] = e]
IsAppended(m, l, e) == m = Append(l, e)

LEMMA LineAccept ==
  ASSUME NEW r, NEW h, NEW n, NEW s, NEW x, NEW t, MemOK(r, h, n, s, x, t),
         n < Capacity, NEW e \in Event, NEW q, Puts(q, r, Slot(h, n + 1), e)
  PROVE  IsAppended(Line(q, h, n + 1), Line(r, h, n), e)
<1> DEFINE L == Line(r, h, n)
           M == Line(q, h, n + 1)
<1>1. /\ n \in Nat /\ n + 1 \in 1 .. Capacity /\ Capacity \in Nat /\ h \in 0 .. Capacity - 1
      /\ r \in [0 .. Capacity - 1 -> Event \cup {NoEvent}]
  BY MemoryAssumption DEF MemOK, Shape
<1>2. L \in Seq(Event) /\ Len(L) = n /\ \A i \in 1 .. n : L[i] = r[Slot(h, i)]
  BY LineIs
<1>3. Slot(h, n + 1) \in 0 .. Capacity - 1
  BY <1>1, SlotIs
<1>4. q[Slot(h, n + 1)] = e /\ \A k \in 0 .. Capacity - 1 : k # Slot(h, n + 1) => q[k] = r[k]
  BY <1>1, <1>3 DEF Puts
<1> HIDE DEF L
<1>5. \A i \in 1 .. n : q[Slot(h, i)] = L[i] /\ L[i] \in Event
  <2> TAKE i \in 1 .. n
  <2>1. i \in 1 .. Capacity /\ i # n + 1
    BY <1>1
  <2>2. Slot(h, i) \in 0 .. Capacity - 1 /\ Slot(h, i) # Slot(h, n + 1)
    BY <1>1, <2>1, SlotIs, SlotsDiffer
  <2> QED BY <1>2, <1>4, <2>2
<1>6. \A i \in 1 .. n + 1 : i \in 1 .. n \/ i = n + 1
  BY <1>1
<1>7. M \in Seq(Event) /\ Len(M) = n + 1 /\ \A i \in 1 .. n + 1 : M[i] = q[Slot(h, i)]
  <2>1. \A i \in 1 .. n + 1 : q[Slot(h, i)] \in Event
    BY <1>4, <1>5, <1>6
  <2> QED BY <1>1, <2>1 DEF Line
<1> HIDE DEF M
<1>8. /\ Append(L, e) \in Seq(Event) /\ Len(Append(L, e)) = n + 1
      /\ \A i \in 1 .. n : Append(L, e)[i] = L[i]
      /\ Append(L, e)[n + 1] = e
  BY <1>2, AppendProperties
<1>9. \A i \in 1 .. Len(M) : M[i] = Append(L, e)[i]
  BY <1>4, <1>5, <1>6, <1>7, <1>8
<1>10. M = Append(L, e)
  BY <1>7, <1>8, <1>9, SeqEqual
<1> QED BY <1>10 DEF M, L, IsAppended

LEMMA LineDeliver ==
  ASSUME NEW r, NEW h, NEW n, NEW s, NEW x, NEW t, MemOK(r, h, n, s, x, t), n > 0
  PROVE  /\ Line(r, h, n) # <<>>
         /\ Line([r EXCEPT ![h] = NoEvent], (h + 1) % Capacity, n - 1) = Tail(Line(r, h, n))
<1> DEFINE q == [r EXCEPT ![h] = NoEvent]
           k == (h + 1) % Capacity
           L == Line(r, h, n)
           M == Line(q, k, n - 1)
<1>1. /\ n \in Nat /\ n <= Capacity /\ Capacity \in Nat /\ h \in 0 .. Capacity - 1
      /\ r \in [0 .. Capacity - 1 -> Event \cup {NoEvent}]
  BY MemoryAssumption DEF MemOK, Shape
<1>2. L \in Seq(Event) /\ Len(L) = n /\ \A i \in 1 .. n : L[i] = r[Slot(h, i)]
  BY LineIs
<1>3. Slot(h, 1) = h /\ \A i \in 1 .. Capacity - 1 : Slot(k, i) = Slot(h, i + 1)
  BY <1>1, SlotMoves
<1>4. \A j \in 0 .. Capacity - 1 : j # h => q[j] = r[j]
  BY <1>1
<1> HIDE DEF q, k, L
<1>5. L # <<>>
  BY <1>1, <1>2
<1>6. \A i \in 1 .. n - 1 : q[Slot(k, i)] = L[i + 1] /\ L[i + 1] \in Event
  <2> TAKE i \in 1 .. n - 1
  <2>1. i \in 1 .. Capacity - 1 /\ i + 1 \in 1 .. n /\ i + 1 \in 1 .. Capacity /\ 1 \in 1 .. Capacity
        /\ i + 1 # 1
    BY <1>1
  <2>2. Slot(h, i + 1) \in 0 .. Capacity - 1 /\ Slot(h, i + 1) # Slot(h, 1)
    BY <1>1, <2>1, SlotIs, SlotsDiffer
  <2>3. q[Slot(k, i)] = r[Slot(h, i + 1)]
    BY <1>3, <1>4, <2>1, <2>2
  <2> QED BY <1>2, <2>1, <2>3
<1>7. M \in Seq(Event) /\ Len(M) = n - 1 /\ \A i \in 1 .. n - 1 : M[i] = q[Slot(k, i)]
  <2>1. \A i \in 1 .. n - 1 : q[Slot(k, i)] \in Event
    BY <1>6
  <2>2. n - 1 \in Nat
    BY <1>1
  <2> QED BY <2>1, <2>2 DEF Line
<1> HIDE DEF M
<1>8. /\ Tail(L) \in Seq(Event) /\ Len(Tail(L)) = n - 1
      /\ \A i \in 1 .. n - 1 : Tail(L)[i] = L[i + 1]
  BY <1>2, <1>5, HeadTailProperties
<1>9. \A i \in 1 .. Len(M) : M[i] = Tail(L)[i]
  BY <1>6, <1>7, <1>8
<1>10. M = Tail(L)
  BY <1>7, <1>8, <1>9, SeqEqual
<1> QED BY <1>5, <1>10 DEF M, L, q, k

(* The refinement mapping's queue is the line of waiting events. *)
LEMMA MappedQueue ==
  ASSUME MemInv
  PROVE  Fifo!Queued = {ring[Slot(head, i)].id : i \in 1 .. size}
<1> DEFINE W == Line(ring, head, size)
<1>1. Len(W) = size /\ \A i \in 1 .. size : W[i] = ring[Slot(head, i)]
  BY LineIs DEF MemInv
<1>2. [i \in 1 .. size |-> ring[(head + i - 1) % Capacity]] = W
  BY DEF Line, Slot
<1>3. Fifo!Queued = {W[i].id : i \in 1 .. Len(W)}
  BY <1>2, Zenon DEF Fifo!Queued
<1> HIDE DEF W
<1> QED BY <1>1, <1>3

(* The identities whose tombstones are dropped have no event waiting, and  *)
(* forgetting them is the abstract forgetting.                             *)
LEMMA SweepForgets ==
  ASSUME MemInv
  PROVE  \E gone \in SUBSET (IDs \ Fifo!Queued) : Fifo!Forgetting(gone) = Known(SeenNow)
<1> DEFINE gone == Gone(expired, Cardinality(Dropped))
<1>1. /\ Shape(ring, head, size, seen, expired, clock)
      /\ Waits(ring, head, size, seen) /\ Tombs(seen, expired, clock)
  BY DEF MemInv, MemOK
<1>2. Cardinality(Dropped) \in 0 .. Len(expired)
  BY DroppedIs
<1>3. \A id \in gone : id \in IDs /\ seen[id].expires # 0
  <2>1. \A i \in 1 .. Len(expired) : expired[i].id \in IDs /\ seen[expired[i].id].expires # 0
    BY <1>1, TombTyped DEF Shape, Tombs
  <2>2. \A i \in 1 .. Cardinality(Dropped) : i \in 1 .. Len(expired)
    BY <1>1, <1>2 DEF Shape
  <2> QED BY <2>1, <2>2 DEF Gone
<1>4. \A id \in Fifo!Queued : seen[id].expires = 0
  BY <1>1, MappedQueue DEF Waits
<1>5. gone \in SUBSET (IDs \ Fifo!Queued)
  BY <1>3, <1>4
<1>6. SeenNow = Forgets(seen, gone)
  BY SeenNowIs
<1> HIDE DEF gone
<1>7. Fifo!Forgetting(gone) = Known(SeenNow)
  BY <1>6 DEF Fifo!Forgetting, Known, Forgets, Unseen
<1> QED BY <1>5, <1>7

LEMMA KnownAccept ==
  ASSUME NEW s \in [IDs -> [hash : Contents \cup {Unknown}, expires : Nat]],
         NEW id \in IDs, NEW p \in Contents, s[id] = Unseen
  PROVE  /\ Known([s EXCEPT ![id] = [hash |-> p, expires |-> 0]]) = [Known(s) EXCEPT ![id] = p]
         /\ Known(s)[id] = Unknown
<1> DEFINE a == [hash |-> p, expires |-> 0]
           u == [s EXCEPT ![id] = a]
           v == [Known(s) EXCEPT ![id] = p]
<1>1. a.hash = p
  OBVIOUS
<1> HIDE DEF a
<1>2. \A o \in IDs : u[o] = IF o = id THEN a ELSE s[o]
  OBVIOUS
<1> HIDE DEF u
<1>3. Known(u) = [o \in IDs |-> u[o].hash] /\ Known(s) = [o \in IDs |-> s[o].hash]
  BY DEF Known
<1>4. v = [o \in IDs |-> IF o = id THEN p ELSE s[o].hash]
  BY <1>3
<1>5. \A o \in IDs : u[o].hash = IF o = id THEN p ELSE s[o].hash
  BY <1>1, <1>2
<1>6. Known(u) = v
  BY <1>3, <1>4, <1>5
<1>7. Known(s)[id] = Unknown
  BY <1>3 DEF Unseen
<1> QED BY <1>6, <1>7 DEF u, a

LEMMA PublishFifo ==
  ASSUME MemInv, NEW id \in IDs, NEW p \in Contents, Publish(id, p)
  PROVE  Fifo!FifoNext
<1> DEFINE e == [id |-> id, content |-> p]
           W == Line(ring, head, size)
<1>0. /\ [i \in 1 .. size |-> ring[(head + i - 1) % Capacity]] = W
      /\ [i \in 1 .. size' |-> ring'[(head' + i - 1) % Capacity]] = Line(ring', head', size')
      /\ [o \in IDs |-> seen'[o].hash] = Known(seen')
  BY DEF Line, Slot, Known
<1>1. PICK gone \in SUBSET (IDs \ Fifo!Queued) : Fifo!Forgetting(gone) = Known(SeenNow)
  BY SweepForgets
<1>2. head' = head
  BY DEF Publish
<1>3. CASE SeenNow[id] = Unseen /\ Room(SeenNow)
  <2>1. /\ ring' = [ring EXCEPT ![Slot(head, size + 1)] = e]
        /\ size' = size + 1
        /\ seen' = [SeenNow EXCEPT ![id] = [hash |-> p, expires |-> 0]]
    <3>1. head + (size + 1) - 1 = head + size
      BY DEF MemInv, MemOK, Shape
    <3>2. FreeSlot = Slot(head, size + 1)
      BY <3>1 DEF FreeSlot, Slot
    <3> QED BY <1>3, <3>2 DEF Publish
  <2>2. e \in Event /\ size < Capacity
    BY <1>3 DEF Event, Room
  <2>3. Line(ring', head', size') = Append(W, e)
    <3>1. MemOK(ring, head, size, seen, expired, clock)
      BY DEF MemInv
    <3>2. Puts(ring', ring, Slot(head, size + 1), e)
      BY <2>1 DEF Puts
    <3> HIDE DEF e
    <3>3. IsAppended(Line(ring', head, size + 1), W, e)
      BY <2>2, <3>1, <3>2, LineAccept
    <3> QED BY <1>2, <2>1, <3>3 DEF IsAppended
  <2>4. SeenNow \in [IDs -> [hash : Contents \cup {Unknown}, expires : Nat]]
    BY SweepInv DEF MemOK, Shape
  <2>5. Known(seen') = [Known(SeenNow) EXCEPT ![id] = p] /\ Known(SeenNow)[id] = Unknown
    BY <1>3, <2>1, <2>4, KnownAccept
  <2> HIDE DEF W
  <2>6. Fifo!FifoAccept(gone, id, p)
    BY <1>0, <1>1, <2>3, <2>5, Zenon DEF Fifo!FifoAccept
  <2> QED BY <2>6, Zenon DEF Fifo!FifoNext
<1>4. CASE ~(SeenNow[id] = Unseen /\ Room(SeenNow))
  <2>1. ring' = ring /\ size' = size /\ seen' = SeenNow
    BY <1>4 DEF Publish
  <2>2. Line(ring', head', size') = W
    BY <1>2, <2>1
  <2> HIDE DEF W
  <2>3. Fifo!FifoForget(gone)
    BY <1>0, <1>1, <2>1, <2>2, Zenon DEF Fifo!FifoForget
  <2> QED BY <2>3, Zenon DEF Fifo!FifoNext
<1> QED BY <1>3, <1>4

LEMMA ReceiveFifo == ASSUME MemInv, Receive PROVE Fifo!FifoNext
<1> DEFINE W == Line(ring, head, size)
           k == ring[head].id
<1>0. /\ [i \in 1 .. size |-> ring[(head + i - 1) % Capacity]] = W
      /\ [i \in 1 .. size' |-> ring'[(head' + i - 1) % Capacity]] = Line(ring', head', size')
  BY DEF Line, Slot
<1>1. /\ ring' = [ring EXCEPT ![head] = NoEvent] /\ head' = (head + 1) % Capacity
      /\ size' = size - 1 /\ size > 0
      /\ seen' = [seen EXCEPT ![k].expires = clock + TTL]
  BY DEF Receive, NextHead
<1>2. MemOK(ring, head, size, seen, expired, clock)
      /\ seen \in [IDs -> [hash : Contents \cup {Unknown}, expires : Nat]]
  BY DEF MemInv, MemOK, Shape
<1>3. W # <<>> /\ Line(ring', head', size') = Tail(W)
  BY <1>1, <1>2, LineDeliver
<1> HIDE DEF W, k
<1>4. [o \in IDs |-> seen'[o].hash] = [o \in IDs |-> seen[o].hash]
  BY <1>1, <1>2
<1>5. Fifo!FifoDeliver
  BY <1>0, <1>3, <1>4, Zenon DEF Fifo!FifoDeliver
<1> QED BY <1>5, Zenon DEF Fifo!FifoNext

(* The ring of memory.go is a first-in first-out queue with a duplicate    *)
(* window, for every capacity: each step of the broker is one step of      *)
(* DedupFifo or leaves the queue and what it remembers alone.              *)
THEOREM RingIsFifo == MemSpec => ImplementsFifo
<1>1. MemInit => Fifo!FifoInit
  <2> SUFFICES ASSUME MemInit PROVE Fifo!FifoInit
    OBVIOUS
  <2>1. size = 0 /\ seen = [id \in IDs |-> Unseen]
    BY DEF MemInit
  <2>2. [i \in 1 .. size |-> ring[(head + i - 1) % Capacity]] = <<>>
    BY <2>1
  <2>3. [id \in IDs |-> seen[id].hash] = [id \in IDs |-> Unknown]
    BY <2>1 DEF Unseen
  <2> QED BY <2>2, <2>3, Zenon DEF Fifo!FifoInit
<1>2. MemInv /\ [MemNext]_memVars => [Fifo!FifoNext]_Fifo!fifoVars
  <2> SUFFICES ASSUME MemInv, [MemNext]_memVars PROVE [Fifo!FifoNext]_Fifo!fifoVars
    OBVIOUS
  <2>1. CASE UNCHANGED memVars
    BY <2>1 DEF memVars, Fifo!fifoVars
  <2>2. CASE Advance
    BY <2>2 DEF Advance, Fifo!fifoVars
  <2> QED BY <2>1, <2>2, PublishFifo, ReceiveFifo, Zenon DEF MemNext
<1> QED BY <1>1, <1>2, MemoryInvariant, PTL DEF MemSpec, ImplementsFifo, Fifo!FifoSpec

-----------------------------------------------------------------------------
(* THE GATE: where each goroutine is, and what it holds *)

UserPoints == {"idle", "decode", "enter", "check", "inside", "sleep", "exited"}
MainPoints == {"serving", "stopping", "draining", "joining", "closing", "exited"}

ControlType ==
  /\ pc \in [Users \cup {main} -> UserPoints \cup MainPoints]
  /\ \A u \in Users : pc[u] \in UserPoints
  /\ pc[main] \in MainPoints
  /\ section \in [Users -> {"write", "probe", "take", "none"}]
  /\ gate \in Users \cup {main, Nobody}
  /\ stopped \in BOOLEAN /\ closed \in BOOLEAN

(* The stages of the shutdown: stopped before the file is closed, and the  *)
(* cleanup worker joined before that.                                      *)
Stages ==
  /\ pc[main] # "serving" => stopped
  /\ pc[main] \in {"closing", "exited"} => pc[cleaner] = "exited"
  /\ closed => pc[main] \in {"closing", "exited"}

(* A long poll sleeps between two probes. *)
SleepersPoll == \A h \in Handlers : pc[h] = "sleep" => section[h] = "probe"

(* Everything about the goroutines' control but the counters *)
Control == ControlType /\ Stages /\ SleepersPoll /\ GateExact /\ NoUseAfterClose

USE DEF UserPoints, MainPoints, ControlType, Stages, SleepersPoll, GateExact, NoUseAfterClose

(* A handler's or the cleanup worker's step keeps the control invariant. *)
LEMMA UseControl == ASSUME Control, NEW u \in Users, Use(u) PROVE Control'
<1> USE GateAssumption DEF Control, Users, Leave, Goto, Stay, Refused
<1>1. CASE TakeGate(u)
  BY <1>1 DEF TakeGate
<1>2. CASE EnterRefused(u)
  BY <1>2 DEF EnterRefused
<1>3. CASE CheckAgain(u)
  BY <1>3 DEF CheckAgain
<1>4. CASE Write(u)
  BY <1>4 DEF Write
<1> QED BY <1>1, <1>2, <1>3, <1>4 DEF Use

(* A request's step keeps the control invariant. *)
LEMMA HandlerControl == ASSUME Control, NEW h \in Handlers, HandlerStep(h) PROVE Control'
<1>0. h \in Users
  BY DEF Users
<1> USE <1>0, GateAssumption DEF Control, Users, Leave, Goto, Stay
<1>1. ASSUME NEW s \in {"write", "probe"}, Arrive(h, s) PROVE Control'
  BY <1>1 DEF Arrive
<1>2. CASE Decode(h)
  BY <1>2 DEF Decode
<1>3. CASE Disconnect(h)
  BY <1>3 DEF Disconnect
<1>4. CASE Use(h)
  BY <1>4, UseControl
<1>5. CASE Probe(h)
  BY <1>5 DEF Probe
<1>6. CASE Take(h)
  BY <1>6 DEF Take
<1>7. CASE Wake(h)
  BY <1>7 DEF Wake
<1>8. CASE PollEnds(h)
  BY <1>8 DEF PollEnds
<1> QED BY <1>1, <1>2, <1>3, <1>4, <1>5, <1>6, <1>7, <1>8 DEF HandlerStep

(* So does one of the cleanup worker, *)
LEMMA CleanerControl == ASSUME Control, CleanerStep PROVE Control'
<1>0. cleaner \in Users
  BY DEF Users
<1> USE <1>0, GateAssumption DEF Control, Users, Goto, Stay
<1>1. CASE Use(cleaner)
  BY <1>1, UseControl
<1>2. CASE TickCleanup
  BY <1>2 DEF TickCleanup
<1>3. CASE ProbeCleanup
  BY <1>3 DEF ProbeCleanup
<1>4. CASE ExitCleanup
  BY <1>4 DEF ExitCleanup
<1> QED BY <1>1, <1>2, <1>3, <1>4 DEF CleanerStep

(* and one of run(): the file is closed with the gate in hand, when nobody *)
(* is past the first select of enter.                                      *)
LEMMA MainControl == ASSUME Control, MainStep PROVE Control'
<1> USE GateAssumption DEF Control, Users, MainTo
<1>1. CASE Signal
  BY <1>1 DEF Signal
<1>2. CASE Shutdown
  BY <1>2 DEF Shutdown
<1>3. CASE ServeFails
  BY <1>3 DEF ServeFails
<1>4. CASE Drained
  BY <1>4 DEF Drained
<1>5. CASE Joined
  BY <1>5 DEF Joined
<1>6. CASE CloseGate
  BY <1>6 DEF CloseGate
<1>7. CASE CloseDone
  BY <1>7 DEF CloseDone
<1> QED BY <1>1, <1>2, <1>3, <1>4, <1>5, <1>6, <1>7 DEF MainStep

-----------------------------------------------------------------------------
(* The admission counters *)

Admitted == {h \in Handlers : pc[h] # "idle"}
Polling == {h \in Handlers : pc[h] # "idle" /\ IsPoll(h)}

(* A handler is a goroutine of its own. *)
LEMMA HandlersAreUsers == /\ \A h \in Handlers : h \in Users /\ h # cleaner /\ h # main
                          /\ cleaner \in Users /\ cleaner \notin Handlers
BY GateAssumption DEF Users

(* The admitted requests and the polls among them are finite sets. *)
LEMMA CountsFinite ==
  /\ IsFiniteSet(Admitted) /\ Cardinality(Admitted) \in Nat
  /\ IsFiniteSet(Polling) /\ Cardinality(Polling) \in Nat
<1>1. Admitted \in SUBSET Handlers /\ Polling \in SUBSET Handlers
  BY DEF Admitted, Polling
<1>2. IsFiniteSet(Handlers)
  BY GateAssumption
<1> QED BY <1>1, <1>2, FS_Subset, FS_CardinalityType

(* A step after which the same requests are admitted and polling, with the *)
(* counters unchanged, keeps them exact.                                   *)
LEMMA SameCounts ==
  ASSUME SlotsExact, Admitted' = Admitted, Polling' = Polling, UNCHANGED <<slots, polls>>
  PROVE  SlotsExact'
BY DEF SlotsExact, Admitted, Polling

(* A goroutine that moves on inside its call stays what it was. *)
LEMMA StayCounts ==
  ASSUME Control, SlotsExact, NEW u \in Users, NEW p, NEW s, Goto(u, p, s), Stay,
         u \in Handlers => /\ pc[u] # "idle" /\ p # "idle"
                           /\ IsPoll(u) <=> s \in {"probe", "take"}
  PROVE  SlotsExact'
<1>1. /\ pc' = [pc EXCEPT ![u] = p] /\ section' = [section EXCEPT ![u] = s]
      /\ UNCHANGED <<slots, polls>>
  BY DEF Goto, Stay
<1>2. \A h \in Handlers : h \in Users /\ h # main
  BY HandlersAreUsers
<1>3. \A h \in Handlers \ {u} : pc'[h] = pc[h] /\ section'[h] = section[h]
  BY <1>1, <1>2 DEF Control
<1>4. pc'[u] = p /\ section'[u] = s
  BY <1>1 DEF Control
<1>5. Admitted' = Admitted
  BY <1>3, <1>4 DEF Admitted
<1>6. Polling' = Polling
  BY <1>3, <1>4 DEF Polling, IsPoll
<1> QED BY <1>1, <1>5, <1>6, SameCounts

(* A call that returns gives back what its admission took. *)
LEMMA LeaveCounts ==
  ASSUME Control, SlotsExact, NEW u \in Users, Leave(u), u \in Handlers => pc[u] # "idle"
  PROVE  SlotsExact'
<1>1. /\ pc' = [pc EXCEPT ![u] = "idle"] /\ section' = [section EXCEPT ![u] = "none"]
      /\ slots' = (IF u = cleaner THEN slots ELSE slots - 1)
      /\ polls' = polls - PollSlots(u)
  BY DEF Leave, Goto
<1>2. \A h \in Handlers : h \in Users /\ h # main
  BY HandlersAreUsers
<1>3. \A h \in Handlers \ {u} : pc'[h] = pc[h] /\ section'[h] = section[h]
  BY <1>1, <1>2 DEF Control
<1>4. pc'[u] = "idle"
  BY <1>1 DEF Control
<1>5. Admitted' = Admitted \ {u}
  BY <1>3, <1>4 DEF Admitted
<1>6. Polling' = Polling \ {u}
  BY <1>3, <1>4 DEF Polling, IsPoll
<1>7. /\ slots = Cardinality(Admitted) /\ slots <= Slots /\ polls = Cardinality(Polling)
      /\ polls <= Polls /\ Slots \in Nat /\ Polls \in Nat
  BY GateAssumption DEF SlotsExact, Admitted, Polling
<1>8. /\ Cardinality(Admitted \ {u}) = (IF u \in Admitted THEN Cardinality(Admitted) - 1 ELSE Cardinality(Admitted))
      /\ Cardinality(Polling \ {u}) = (IF u \in Polling THEN Cardinality(Polling) - 1 ELSE Cardinality(Polling))
  BY CountsFinite, FS_RemoveElement
<1>9. u = cleaner <=> u \notin Admitted
  BY HandlersAreUsers DEF Admitted, Users
<1>10. PollSlots(u) = IF u \in Polling THEN 1 ELSE 0
  BY HandlersAreUsers DEF PollSlots, Polling, Users
<1>11. slots' = Cardinality(Admitted') /\ slots' <= Slots
  BY <1>1, <1>5, <1>7, <1>8, <1>9, CountsFinite
<1>12. polls' = Cardinality(Polling') /\ polls' <= Polls
  BY <1>1, <1>6, <1>7, <1>8, <1>10, CountsFinite
<1> QED BY <1>11, <1>12 DEF SlotsExact, Admitted, Polling

(* An admission is counted, and finds room. *)
LEMMA ArriveCounts ==
  ASSUME Control, SlotsExact, NEW h \in Handlers, NEW s \in {"write", "probe"}, Arrive(h, s)
  PROVE  SlotsExact'
<1>1. /\ pc' = [pc EXCEPT ![h] = "decode"] /\ section' = [section EXCEPT ![h] = s]
      /\ slots' = slots + 1 /\ polls' = (IF s = "probe" THEN polls + 1 ELSE polls)
      /\ pc[h] = "idle" /\ slots < Slots /\ (s = "probe" => polls < Polls)
  BY DEF Arrive, Goto
<1>2. \A o \in Handlers : o \in Users /\ o # main
  BY HandlersAreUsers
<1>3. \A o \in Handlers \ {h} : pc'[o] = pc[o] /\ section'[o] = section[o]
  BY <1>1, <1>2 DEF Control
<1>4. pc'[h] = "decode" /\ section'[h] = s
  BY <1>1, <1>2 DEF Control
<1>5. Admitted' = Admitted \cup {h} /\ h \notin Admitted
  BY <1>1, <1>3, <1>4 DEF Admitted
<1>6. Polling' = (IF s = "probe" THEN Polling \cup {h} ELSE Polling) /\ h \notin Polling
  BY <1>1, <1>3, <1>4 DEF Polling, IsPoll
<1>7. /\ slots = Cardinality(Admitted) /\ polls = Cardinality(Polling)
      /\ polls <= Polls /\ Slots \in Nat /\ Polls \in Nat
  BY GateAssumption DEF SlotsExact, Admitted, Polling
<1>8. /\ Cardinality(Admitted \cup {h}) = Cardinality(Admitted) + 1
      /\ Cardinality(Polling \cup {h}) = Cardinality(Polling) + 1
  BY <1>5, <1>6, CountsFinite, FS_AddElement
<1>9. slots' = Cardinality(Admitted') /\ slots' <= Slots
  BY <1>1, <1>5, <1>7, <1>8, CountsFinite
<1>10. polls' = Cardinality(Polling') /\ polls' <= Polls
  BY <1>1, <1>6, <1>7, <1>8, CountsFinite
<1> QED BY <1>9, <1>10 DEF SlotsExact, Admitted, Polling

(* Every step keeps the counters exact. *)
LEMMA NextCounts == ASSUME Control, SlotsExact, [GateNext]_gateVars PROVE SlotsExact'
<1>0. /\ \A h \in Handlers : h \in Users
      /\ cleaner \in Users /\ cleaner \notin Handlers
  BY HandlersAreUsers
<1>1. ASSUME NEW u \in Users, Use(u) PROVE SlotsExact'
  <2>1. CASE TakeGate(u)
    BY <2>1, StayCounts DEF TakeGate, IsPoll
  <2>2. CASE EnterRefused(u)
    BY <2>2, LeaveCounts DEF EnterRefused
  <2>3. CASE CheckAgain(u)
    <3>1. CASE Refused(u)
      BY <2>3, <3>1, LeaveCounts DEF CheckAgain
    <3>2. CASE ~Refused(u)
      BY <2>3, <3>2, StayCounts DEF CheckAgain, IsPoll
    <3> QED BY <3>1, <3>2
  <2>4. CASE Write(u)
    BY <2>4, LeaveCounts DEF Write
  <2> QED BY <1>1, <2>1, <2>2, <2>3, <2>4 DEF Use
<1>2. ASSUME NEW h \in Handlers, HandlerStep(h) PROVE SlotsExact'
  <2>1. ASSUME NEW s \in {"write", "probe"}, Arrive(h, s) PROVE SlotsExact'
    BY <2>1, ArriveCounts
  <2>2. CASE Decode(h)
    BY <1>0, <2>2, StayCounts, LeaveCounts DEF Decode, IsPoll
  <2>3. CASE Disconnect(h)
    BY <2>3, SameCounts DEF Disconnect, Admitted, Polling, IsPoll
  <2>4. CASE Use(h)
    BY <1>0, <1>1, <2>4
  <2>5. CASE Probe(h)
    <3>1. CASE Leave(h)
      BY <1>0, <2>5, <3>1, LeaveCounts DEF Probe
    <3>2. CASE Goto(h, "enter", "take") /\ Stay
      BY <1>0, <2>5, <3>2, StayCounts DEF Probe, IsPoll
    <3>3. CASE Goto(h, "sleep", "probe") /\ Stay
      BY <1>0, <2>5, <3>3, StayCounts DEF Probe, IsPoll
    <3> QED BY <2>5, <3>1, <3>2, <3>3 DEF Probe
  <2>6. CASE Take(h)
    <3>1. CASE Leave(h)
      BY <1>0, <2>6, <3>1, LeaveCounts DEF Take
    <3>2. CASE Goto(h, "sleep", "probe") /\ Stay
      BY <1>0, <2>6, <3>2, StayCounts DEF Take, IsPoll
    <3> QED BY <2>6, <3>1, <3>2 DEF Take
  <2>7. CASE Wake(h)
    <3>1. CASE Leave(h)
      BY <1>0, <2>7, <3>1, LeaveCounts DEF Wake
    <3>2. CASE Goto(h, "enter", "probe") /\ Stay
      <4>1. IsPoll(h)
        BY <2>7 DEF Wake, Control, IsPoll
      <4> QED BY <1>0, <2>7, <3>2, <4>1, StayCounts DEF Wake
    <3> QED BY <2>7, <3>1, <3>2 DEF Wake
  <2>8. CASE PollEnds(h)
    BY <1>0, <2>8, LeaveCounts DEF PollEnds
  <2> QED BY <1>2, <2>1, <2>2, <2>3, <2>4, <2>5, <2>6, <2>7, <2>8 DEF HandlerStep
<1>3. CASE CleanerStep
  <2>1. CASE TickCleanup
    BY <1>0, <2>1, StayCounts DEF TickCleanup
  <2>2. CASE ProbeCleanup
    BY <1>0, <2>2, StayCounts DEF ProbeCleanup
  <2>3. CASE ExitCleanup
    BY <1>0, <2>3, StayCounts DEF ExitCleanup
  <2> QED BY <1>0, <1>1, <1>3, <2>1, <2>2, <2>3 DEF CleanerStep
<1>4. CASE MainStep
  <2>1. /\ UNCHANGED <<section, slots, polls>>
        /\ pc' = pc \/ \E p \in MainPoints : pc' = [pc EXCEPT ![main] = p]
    BY <1>4 DEF MainStep, MainTo, Signal, Shutdown, ServeFails, Drained, Joined, CloseGate, CloseDone
  <2>2. \A h \in Handlers : pc'[h] = pc[h]
    BY <2>1, HandlersAreUsers DEF Control
  <2>3. Admitted' = Admitted /\ Polling' = Polling
    BY <2>1, <2>2 DEF Admitted, Polling, IsPoll
  <2> QED BY <2>1, <2>3, SameCounts
<1>5. CASE UNCHANGED gateVars
  BY <1>5 DEF gateVars, SlotsExact, IsPoll
<1> QED BY <1>2, <1>3, <1>4, <1>5 DEF GateNext, Terminated

-----------------------------------------------------------------------------
GateInv == Control /\ SlotsExact

(* The inductive invariant behind the two results below. *)
THEOREM GateInvariant == GateSpec => []GateInv
<1>1. GateInit => Control
  BY GateAssumption DEF GateInit, Control, Users
<1>2. GateInit => SlotsExact
  <2> SUFFICES ASSUME GateInit PROVE SlotsExact
    OBVIOUS
  <2>1. {h \in Handlers : pc[h] # "idle"} = {} /\ {h \in Handlers : pc[h] # "idle" /\ IsPoll(h)} = {}
    BY HandlersAreUsers DEF GateInit
  <2>2. Cardinality({}) = 0
    BY FS_EmptySet
  <2>3. slots = 0 /\ polls = 0 /\ 0 <= Slots /\ 0 <= Polls
    BY GateAssumption DEF GateInit
  <2> QED BY <2>1, <2>2, <2>3 DEF SlotsExact
<1>3. Control /\ [GateNext]_gateVars => Control'
  <2> SUFFICES ASSUME Control, [GateNext]_gateVars PROVE Control'
    OBVIOUS
  <2>1. CASE UNCHANGED gateVars
    BY <2>1 DEF gateVars, Control
  <2> QED BY <2>1, HandlerControl, CleanerControl, MainControl DEF GateNext, Terminated
<1>4. Control /\ SlotsExact /\ [GateNext]_gateVars => SlotsExact'
  BY NextCounts
<1> QED BY <1>1, <1>2, <1>3, <1>4, PTL DEF GateSpec, GateInv

(* No transaction runs on the closed file and the cleanup worker has       *)
(* returned before it is closed, wherever Stop and Close meet the requests *)
(* between the two selects of Durable.enter.                               *)
THEOREM FileUseEnds == GateSpec => []NoUseAfterClose
BY GateInvariant, PTL DEF GateInv, Control

(* The gate is held by exactly the goroutine in its critical section, and  *)
(* the admission channels hold one value per request being served, at most *)
(* their capacities, on every return path.                                 *)
THEOREM HoldingsExact == GateSpec => []NothingHeld
<1>1. GateInv => NothingHeld
  BY DEF GateInv, Control, NothingHeld
<1> QED BY <1>1, GateInvariant, PTL

=============================================================================
