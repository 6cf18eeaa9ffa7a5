------------------------------- MODULE RxPath -------------------------------
(***************************************************************************)
(* The inbound side of MeshtasticTransport once a frame is off the radio:  *)
(* the filters, the dedupe ring _seen and the small queue poll() drains.   *)
(*                                                                         *)
(* A received frame is a record [from, id, to, ok]; ok stands for          *)
(* everything that must be right before the addresses matter and after     *)
(* them (clean CRC, sane length, channel hash, decryption, protobuf).      *)
(***************************************************************************)
EXTENDS Integers, Sequences

CONSTANTS
  RXQ_N,                 \* decoded packets waiting for poll() (4)
  SEEN_N,                \* entries of the dedupe ring (8)
  Node,                  \* node numbers
  Self,                  \* this node, _nodeNum
  Broadcast              \* BROADCAST_ADDR

ASSUME RxPathAssumption == /\ RXQ_N \in Nat \ {0}
                           /\ SEEN_N \in Nat \ {0}
                           /\ Self \in Node
                           /\ Broadcast \notin Node

VARIABLES
  rxq,                   \* keys of the decoded packets, oldest first, _rxq
  seen,                  \* [0 .. SEEN_N-1 -> key], _seen
  seenIdx,               \* next entry to overwrite, _seenIdx
  recorded,              \* history: keys written to the dedupe ring
  pushed,                \* history: keys put in rxq
  polled                 \* history: how many of them poll() handed over

rxVars == <<rxq, seen, seenIdx, recorded, pushed, polled>>

RxFrame == [from : Node, id : Nat, to : Node \cup {Broadcast}, ok : BOOLEAN]

\* The 64-bit key (from << 32 | id).  An unused entry holds zero, which no
\* real packet has: node number 0 is refused by begin().
Key    == Node \X Nat
NoKey  == <<>>
KeyOf(f) == <<f.from, f.id>>

RxInit ==
  /\ rxq = <<>>
  /\ seen = [i \in 0 .. SEEN_N - 1 |-> NoKey]
  /\ seenIdx = 0
  /\ recorded = <<>>
  /\ pushed = <<>>
  /\ polled = 0

-----------------------------------------------------------------------------
\* The checks of handleRxDone() that precede the dedupe.
ForUs(f) == f.ok /\ f.from # Self /\ f.to \in {Self, Broadcast}

\* Mutant: only the entry written last is compared.
IsDuplicateLastOnly(f) == seen[(seenIdx + SEEN_N - 1) % SEEN_N] = KeyOf(f)

IsDuplicate(f) == \E i \in 0 .. SEEN_N - 1 : seen[i] = KeyOf(f)

\* Mutant: the test for a full queue is off by one.
RxqHasRoomOffByOne == Len(rxq) <= RXQ_N

RxqHasRoom == Len(rxq) < RXQ_N

\* isDuplicate() notes the key of a packet it has not seen.
Record(k) ==
  /\ seen' = [seen EXCEPT ![seenIdx] = k]
  /\ seenIdx' = (seenIdx + 1) % SEEN_N
  /\ recorded' = Append(recorded, k)

\* Mutant: a full queue evicts its oldest packet.
PushRxEvictsOldest(k) ==
  /\ rxq' = Append(IF RxqHasRoom THEN rxq ELSE Tail(rxq), k)
  /\ pushed' = Append(pushed, k)

\* pushRx(): a full queue drops the newcomer, and nobody is told.
PushRx(k) ==
  IF RxqHasRoom
  THEN rxq' = Append(rxq, k) /\ pushed' = Append(pushed, k)
  ELSE UNCHANGED <<rxq, pushed>>

\* handleRxDone() after the read: reject, suppress, or record and queue.
Accept(f) ==
  \/ /\ ~ForUs(f)
     /\ UNCHANGED rxVars
  \/ /\ ForUs(f) /\ IsDuplicate(f)
     /\ UNCHANGED rxVars
  \/ /\ ForUs(f) /\ ~IsDuplicate(f)
     /\ Record(KeyOf(f))
     /\ PushRx(KeyOf(f))
     /\ UNCHANGED polled

\* poll(): a pure queue pop.
PopRx ==
  /\ rxq # <<>>
  /\ rxq' = Tail(rxq)
  /\ polled' = polled + 1
  /\ UNCHANGED <<seen, seenIdx, recorded, pushed>>

-----------------------------------------------------------------------------
RxTypeOK ==
  /\ rxq \in Seq(Key) /\ Len(rxq) <= RXQ_N
  /\ seen \in [0 .. SEEN_N - 1 -> Key \cup {NoKey}]
  /\ seenIdx \in 0 .. SEEN_N - 1
  /\ recorded \in Seq(Key)
  /\ pushed \in Seq(Key)
  /\ polled \in Nat

\* Retransmissions (the peer's ReliableRouter, or resend()) surface once: the
\* same packet is let through again only after SEEN_N others went by.
SurfacesOncePerWindow ==
  \A i, j \in DOMAIN recorded :
     (i < j /\ recorded[i] = recorded[j]) => j - i > SEEN_N

\* What the application polls is what was queued, in that order, with nothing
\* skipped, repeated or evicted to make room.
RxFifo ==
  /\ Len(pushed) = polled + Len(rxq)
  /\ \A i \in 1 .. Len(rxq) : rxq[i] = pushed[polled + i]
=============================================================================
