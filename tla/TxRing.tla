------------------------------- MODULE TxRing -------------------------------
(***************************************************************************)
(* The outbound ring of MeshtasticTransport: TXQ_N slots, a head index and *)
(* a count.  enqueueFrame() writes the slot after the last one in use; the *)
(* transmit path only ever looks at, and removes, the slot at the head.    *)
(*                                                                         *)
(* A frame is represented by its packet id, the only part of it that any   *)
(* decision or property depends on.  The instant txAfter is represented by *)
(* whether it has been reached (due).                                      *)
(***************************************************************************)
EXTENDS Integers, Sequences

CONSTANTS
  TXQ_N,                 \* slots in the ring (16 in the source)
  MaxAttempts            \* busy scans before a frame fails open (8)

ASSUME TxRingAssumption == /\ TXQ_N \in Nat \ {0}
                           /\ MaxAttempts \in Nat

VARIABLES
  txq,                   \* [slot -> item], _txq
  txHead,                \* slot of the oldest frame, _txHead
  txCount,               \* slots in use, _txCount
  accepted,              \* history: ids accepted, in order
  outcomes               \* history: TRUE (sent) or FALSE (dropped) per frame
                         \* removed, in order

ringVars == <<txq, txHead, txCount, accepted, outcomes>>

PacketId == Nat \ {0}    \* send() never uses id 0
NoId     == 0            \* a slot or a copy that was never written

Slot   == 0 .. TXQ_N - 1
TxItem == [id : Nat, due : BOOLEAN, attempts : 0 .. MaxAttempts]

RingInit ==
  /\ txq = [s \in Slot |-> [id |-> NoId, due |-> FALSE, attempts |-> 0]]
  /\ txHead = 0
  /\ txCount = 0
  /\ accepted = <<>>
  /\ outcomes = <<>>

-----------------------------------------------------------------------------
HeadItem == txq[txHead]

\* Accepted-order index of the frame at the head.
HeadIndex == Len(outcomes) + 1

\* Slot of the k-th frame in the queue, counting the head as 0.
SlotAt(k) == (txHead + k) % TXQ_N

\* Mutant: the test for a full ring is off by one.
HasRoomOffByOne == txCount <= TXQ_N

HasRoom == txCount < TXQ_N

\* enqueueFrame(): the caller's contention delay or override may already have
\* run out (a delay of zero slots), hence the parameter due.
EnqueueFrame(id, due) ==
  /\ HasRoom
  /\ txq' = [txq EXCEPT ![SlotAt(txCount)] =
               [id |-> id, due |-> due, attempts |-> 0]]
  /\ txCount' = txCount + 1
  /\ accepted' = Append(accepted, id)
  /\ UNCHANGED <<txHead, outcomes>>

\* Mutant: the head is not advanced with the count.
NextSlotStuck(s) == s

NextSlot(s) == (s + 1) % TXQ_N

\* The frame at the head is done with: sent, or abandoned.
PopHead(ok) ==
  /\ txCount' = txCount - 1
  /\ txHead' = NextSlot(txHead)
  /\ outcomes' = Append(outcomes, ok)
  /\ UNCHANGED <<txq, accepted>>

\* CAD heard somebody: count the attempt and draw a new instant.
DeferHead(due) ==
  /\ txq' = [txq EXCEPT ![txHead].attempts = @ + 1, ![txHead].due = due]
  /\ UNCHANGED <<txHead, txCount, accepted, outcomes>>

\* The millis() clock passes the txAfter of a queued frame.
FrameComesDue ==
  /\ \E k \in 0 .. txCount - 1 :
        /\ ~txq[SlotAt(k)].due
        /\ txq' = [txq EXCEPT ![SlotAt(k)].due = TRUE]
  /\ UNCHANGED <<txHead, txCount, accepted, outcomes>>

-----------------------------------------------------------------------------
RingTypeOK ==
  /\ txq \in [Slot -> TxItem]
  /\ txHead \in Slot
  /\ txCount \in 0 .. TXQ_N
  /\ accepted \in Seq(PacketId)
  /\ outcomes \in Seq(BOOLEAN)

\* The frames owed, oldest first, read out of the ring.
RingContents == [k \in 1 .. txCount |-> txq[SlotAt(k - 1)].id]

\* Every frame send() or resend() accepted is either gone, with an outcome on
\* record, or still in the ring, in the order of acceptance: the ring neither
\* loses, duplicates, reorders nor overwrites a frame.
NothingLostInRing ==
  /\ Len(accepted) = Len(outcomes) + txCount
  /\ \A k \in 0 .. txCount - 1 :
        txq[SlotAt(k)].id = accepted[Len(outcomes) + k + 1]
=============================================================================
