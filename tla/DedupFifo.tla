----------------------------- MODULE DedupFifo ------------------------------
(***************************************************************************)
(* What the in-memory broker promises: first in, first out, each event     *)
(* delivered once, and an identity is refused as long as it is remembered. *)
(* Identities are forgotten only after their event was delivered.          *)
(***************************************************************************)
EXTENDS Naturals, Sequences

CONSTANTS IDs, Contents, Unknown

VARIABLES waiting,   \* accepted events not yet delivered, in order of acceptance
          known      \* content by remembered identity

fifoVars == <<waiting, known>>

Queued == {waiting[i].id : i \in 1 .. Len(waiting)}

Forgetting(gone) == [id \in IDs |-> IF id \in gone THEN Unknown ELSE known[id]]

FifoAccept(gone, id, p) ==
  /\ Forgetting(gone)[id] = Unknown
  /\ waiting' = Append(waiting, [id |-> id, content |-> p])
  /\ known' = [Forgetting(gone) EXCEPT ![id] = p]

FifoDeliver ==
  /\ waiting # <<>>
  /\ waiting' = Tail(waiting)
  /\ UNCHANGED known

FifoForget(gone) ==
  /\ known' = Forgetting(gone)
  /\ UNCHANGED waiting

FifoInit == waiting = <<>> /\ known = [id \in IDs |-> Unknown]

FifoNext ==
  \/ FifoDeliver
  \/ \E gone \in SUBSET (IDs \ Queued) :
       FifoForget(gone) \/ \E id \in IDs, p \in Contents : FifoAccept(gone, id, p)

FifoSpec == FifoInit /\ [][FifoNext]_fifoVars

=============================================================================
