---------------------------- MODULE TxRing_proof ----------------------------
(***************************************************************************)
(* What each operation does to the outbound ring, for a ring of any size:  *)
(* every one of them keeps the ring well typed and loses nothing.          *)
(***************************************************************************)
EXTENDS TxRing, RingLemmas, TLAPS

\* The k-th frame is in a slot of the ring.
LEMMA SlotAtIsSlot ==
  ASSUME txHead \in Slot, NEW k \in 0 .. TXQ_N
  PROVE  SlotAt(k) \in Slot
  BY Wrap, TxRingAssumption DEF SlotAt, Slot

\* Different frames of the queue are in different slots.
LEMMA SlotsDiffer ==
  ASSUME txHead \in Slot, NEW j \in 0 .. TXQ_N - 1, NEW k \in 0 .. TXQ_N - 1,
         j # k
  PROVE  SlotAt(j) # SlotAt(k)
  BY WrapInjective, TxRingAssumption DEF SlotAt, Slot

\* The frame at the head is the one at distance zero.
LEMMA HeadSlot ==
  ASSUME txHead \in Slot
  PROVE  SlotAt(0) = txHead
  <1>1. TXQ_N \in Nat \ {0} /\ 0 \in 0 .. TXQ_N BY TxRingAssumption
  <1>2. txHead + 0 < TXQ_N => (txHead + 0) % TXQ_N = txHead + 0
    BY <1>1, Wrap DEF Slot
  <1> QED BY <1>1, <1>2 DEF SlotAt, Slot

-----------------------------------------------------------------------------
\* enqueueFrame() writes a free slot and disturbs no frame in the queue.
LEMMA EnqueueKeepsRing ==
  ASSUME RingTypeOK, NothingLostInRing,
         NEW id \in PacketId, NEW due \in BOOLEAN, EnqueueFrame(id, due)
  PROVE  RingTypeOK' /\ NothingLostInRing'
  <1>1. /\ TXQ_N \in Nat \ {0} /\ MaxAttempts \in Nat
        /\ txHead \in Slot /\ txCount \in 0 .. TXQ_N - 1
        /\ txHead' = txHead /\ txCount' = txCount + 1
    BY TxRingAssumption DEF RingTypeOK, EnqueueFrame, HasRoom
  <1>2. SlotAt(txCount) \in Slot BY <1>1, SlotAtIsSlot
  <1> DEFINE new == [id |-> id, due |-> due, attempts |-> 0]
  <1>3. new \in TxItem BY <1>1 DEF TxItem, PacketId
  <1>4. txq' = [txq EXCEPT ![SlotAt(txCount)] = new]
    BY DEF EnqueueFrame
  <1>5. txq' \in [Slot -> TxItem] BY <1>2, <1>3, <1>4 DEF RingTypeOK
  <1>6. RingTypeOK'
    BY <1>1, <1>5 DEF RingTypeOK, EnqueueFrame, PacketId, Slot
  <1>7. Len(accepted') = Len(outcomes') + txCount'
    BY <1>1 DEF NothingLostInRing, EnqueueFrame, RingTypeOK
  <1>8. ASSUME NEW k \in 0 .. txCount' - 1
        PROVE  txq'[SlotAt(k)].id = accepted'[Len(outcomes) + k + 1]
    <2>1. k \in 0 .. TXQ_N - 1 /\ k <= txCount BY <1>1
    <2>2. CASE k = txCount
      <3>1. txq'[SlotAt(k)] = new BY <1>2, <1>4, <2>2 DEF RingTypeOK
      <3>2. accepted'[Len(outcomes) + k + 1] = id
        BY <1>1, <2>2 DEF NothingLostInRing, EnqueueFrame, RingTypeOK
      <3> QED BY <3>1, <3>2
    <2>3. CASE k # txCount
      <3>1. k \in 0 .. txCount - 1 BY <1>1, <2>1, <2>3
      <3>2. SlotAt(k) # SlotAt(txCount) BY <1>1, <2>1, <2>3, SlotsDiffer
      <3>3. SlotAt(k) \in Slot BY <1>1, <2>1, SlotAtIsSlot
      <3>4. txq'[SlotAt(k)] = txq[SlotAt(k)]
        BY <1>2, <1>4, <3>2, <3>3 DEF RingTypeOK
      <3>5. Len(outcomes) + k + 1 \in 1 .. Len(accepted)
        BY <1>1, <3>1 DEF NothingLostInRing, RingTypeOK
      <3>6. accepted'[Len(outcomes) + k + 1] = accepted[Len(outcomes) + k + 1]
        BY <3>5 DEF EnqueueFrame, RingTypeOK
      <3> QED BY <3>1, <3>4, <3>6 DEF NothingLostInRing
    <2> QED BY <2>2, <2>3
  <1>9. \A k : SlotAt(k)' = SlotAt(k) BY <1>1 DEF SlotAt
  <1>10. outcomes' = outcomes BY DEF EnqueueFrame
  <1> QED BY <1>6, <1>7, <1>8, <1>9, <1>10 DEF NothingLostInRing

\* Removing the head moves every other frame one place forward.
LEMMA PopKeepsRing ==
  ASSUME RingTypeOK, NothingLostInRing, txCount > 0,
         NEW ok \in BOOLEAN, PopHead(ok)
  PROVE  RingTypeOK' /\ NothingLostInRing'
  <1>1. /\ TXQ_N \in Nat \ {0} /\ txHead \in Slot /\ txCount \in 1 .. TXQ_N
        /\ txCount' = txCount - 1 /\ txq' = txq /\ accepted' = accepted
        /\ outcomes' = Append(outcomes, ok)
    BY TxRingAssumption DEF RingTypeOK, PopHead
  <1>2. 1 \in 0 .. TXQ_N BY <1>1
  <1>3. txHead' = SlotAt(1) BY DEF PopHead, NextSlot, SlotAt
  <1>4. txHead' \in Slot BY <1>1, <1>2, <1>3, SlotAtIsSlot
  <1>5. Len(outcomes') = Len(outcomes) + 1 /\ outcomes' \in Seq(BOOLEAN)
    BY <1>1 DEF RingTypeOK
  <1>6. RingTypeOK' BY <1>1, <1>4, <1>5 DEF RingTypeOK, Slot
  <1>7. Len(accepted') = Len(outcomes') + txCount'
    <2>1. /\ Len(accepted) = Len(outcomes) + txCount
          /\ Len(outcomes) \in Nat /\ txCount \in Nat
      BY <1>1 DEF NothingLostInRing, RingTypeOK
    <2> QED BY <1>1, <1>5, <2>1
  <1>8. ASSUME NEW k \in 0 .. txCount' - 1
        PROVE  /\ SlotAt(k)' = SlotAt(k + 1)
               /\ k + 1 \in 0 .. txCount - 1
    <2>1. k \in 0 .. TXQ_N - 1 /\ k + 1 \in 0 .. txCount - 1 BY <1>1
    <2>2. (((txHead + 1) % TXQ_N) + k) % TXQ_N = (txHead + (k + 1)) % TXQ_N
      BY <1>1, <2>1, WrapNext DEF Slot
    <2> QED BY <2>1, <2>2 DEF SlotAt, PopHead, NextSlot
  <1>9. ASSUME NEW k \in 0 .. txCount' - 1
        PROVE  txq'[SlotAt(k)'].id = accepted'[Len(outcomes') + k + 1]
    <2>1. SlotAt(k)' = SlotAt(k + 1) /\ k + 1 \in 0 .. txCount - 1 BY <1>8
    <2>2. txq[SlotAt(k + 1)].id = accepted[Len(outcomes) + (k + 1) + 1]
      BY <2>1 DEF NothingLostInRing
    <2>3. Len(outcomes) + (k + 1) + 1 = Len(outcomes') + k + 1
      BY <1>1, <1>5 DEF RingTypeOK
    <2> QED BY <1>1, <2>1, <2>2, <2>3
  <1> QED BY <1>6, <1>7, <1>9 DEF NothingLostInRing

\* Changing a frame's timing and attempts leaves its identity alone.
LEMMA RetimeKeepsRing ==
  ASSUME RingTypeOK, NothingLostInRing,
         UNCHANGED <<txHead, txCount, accepted, outcomes>>,
         txq' \in [Slot -> TxItem],
         \A s \in Slot : txq'[s].id = txq[s].id
  PROVE  RingTypeOK' /\ NothingLostInRing'
  <1>1. TXQ_N \in Nat \ {0} BY TxRingAssumption
  <1>2. \A k : SlotAt(k)' = SlotAt(k) BY DEF SlotAt
  <1>3. \A k \in 0 .. txCount - 1 : SlotAt(k) \in Slot
    <2> TAKE k \in 0 .. txCount - 1
    <2>1. k \in 0 .. TXQ_N BY <1>1 DEF RingTypeOK
    <2> QED BY <2>1, SlotAtIsSlot DEF RingTypeOK
  <1>4. RingTypeOK' BY DEF RingTypeOK
  <1>5. NothingLostInRing' BY <1>2, <1>3 DEF NothingLostInRing
  <1> QED BY <1>4, <1>5

\* A busy scan only touches the timing and the attempts of the head.
LEMMA DeferKeepsRing ==
  ASSUME RingTypeOK, NothingLostInRing, HeadItem.attempts < MaxAttempts,
         NEW due \in BOOLEAN, DeferHead(due)
  PROVE  RingTypeOK' /\ NothingLostInRing'
  <1>1. txHead \in Slot /\ MaxAttempts \in Nat
    BY TxRingAssumption DEF RingTypeOK
  <1>2. txq[txHead] \in TxItem /\ txq[txHead].attempts + 1 \in 0 .. MaxAttempts
    BY <1>1 DEF RingTypeOK, TxItem, HeadItem
  <1>3. txq' = [txq EXCEPT ![txHead].attempts = @ + 1, ![txHead].due = due]
    BY DEF DeferHead
  <1>4. ASSUME NEW s \in Slot
        PROVE  txq'[s] \in TxItem /\ txq'[s].id = txq[s].id
    <2>1. txq[s] \in TxItem BY DEF RingTypeOK
    <2>2. CASE s = txHead
      <3>1. txq'[s] = [[txq[s] EXCEPT !.attempts = txq[s].attempts + 1]
                         EXCEPT !.due = due]
        BY <1>1, <1>3, <2>2 DEF RingTypeOK
      <3> QED BY <1>2, <2>1, <2>2, <3>1 DEF TxItem
    <2>3. CASE s # txHead BY <1>1, <1>3, <2>1, <2>3 DEF RingTypeOK
    <2> QED BY <2>2, <2>3
  <1>5. txq' \in [Slot -> TxItem] /\ \A s \in Slot : txq'[s].id = txq[s].id
    BY <1>3, <1>4 DEF RingTypeOK
  <1>6. UNCHANGED <<txHead, txCount, accepted, outcomes>> BY DEF DeferHead
  <1> QED BY <1>5, <1>6, RetimeKeepsRing

\* The clock only touches the timing of a frame.
LEMMA DueKeepsRing ==
  ASSUME RingTypeOK, NothingLostInRing, FrameComesDue
  PROVE  RingTypeOK' /\ NothingLostInRing'
  <1>1. TXQ_N \in Nat \ {0} BY TxRingAssumption
  <1>2. PICK k \in 0 .. txCount - 1 :
               txq' = [txq EXCEPT ![SlotAt(k)].due = TRUE]
    BY DEF FrameComesDue
  <1>3. k \in 0 .. TXQ_N BY <1>1 DEF RingTypeOK
  <1>4. SlotAt(k) \in Slot BY <1>3, SlotAtIsSlot DEF RingTypeOK
  <1>5. txq' \in [Slot -> TxItem] /\ \A s \in Slot : txq'[s].id = txq[s].id
    BY <1>2, <1>4 DEF RingTypeOK, TxItem
  <1>6. UNCHANGED <<txHead, txCount, accepted, outcomes>> BY DEF FrameComesDue
  <1> QED BY <1>5, <1>6, RetimeKeepsRing
-----------------------------------------------------------------------------
\* A frame that joins the queue does not disturb the one at the head.
LEMMA EnqueueKeepsHead ==
  ASSUME RingTypeOK, txCount > 0,
         NEW id \in PacketId, NEW due \in BOOLEAN, EnqueueFrame(id, due)
  PROVE  HeadItem' = HeadItem /\ txCount' > 0
  <1>1. /\ TXQ_N \in Nat \ {0} /\ txHead \in Slot /\ txHead' = txHead
        /\ txCount \in 1 .. TXQ_N - 1 /\ txCount' = txCount + 1
    BY TxRingAssumption DEF RingTypeOK, EnqueueFrame, HasRoom
  <1>2. 0 \in 0 .. TXQ_N - 1 /\ txCount \in 0 .. TXQ_N - 1 /\ txCount # 0
    BY <1>1
  <1>3. SlotAt(txCount) # txHead BY <1>1, <1>2, SlotsDiffer, HeadSlot
  <1>4. txq'[txHead] = txq[txHead]
    BY <1>1, <1>3 DEF EnqueueFrame, RingTypeOK
  <1> QED BY <1>1, <1>4 DEF HeadItem

\* The clock uses up nobody's attempts.
LEMMA DueKeepsHead ==
  ASSUME RingTypeOK, FrameComesDue
  PROVE  HeadItem'.attempts = HeadItem.attempts /\ txCount' = txCount
  <1>1. TXQ_N \in Nat \ {0} /\ txHead \in Slot
    BY TxRingAssumption DEF RingTypeOK
  <1>2. PICK k \in 0 .. txCount - 1 :
               txq' = [txq EXCEPT ![SlotAt(k)].due = TRUE]
    BY DEF FrameComesDue
  <1>3. \A s \in Slot : txq'[s].attempts = txq[s].attempts
    BY <1>2 DEF RingTypeOK, TxItem
  <1> QED BY <1>1, <1>3 DEF HeadItem, FrameComesDue
=============================================================================
