--------------------- MODULE MeshtasticTransport_proof ----------------------
(***************************************************************************)
(* MeshtasticTransport keeps its safety invariants for rings of any size,  *)
(* any traffic, any bounds and whichever radio operations may fail.        *)
(***************************************************************************)
EXTENDS MeshtasticTransport, TxRing_proof, RxPath_proof, FiniteSetTheorems,
        SequenceTheorems

-----------------------------------------------------------------------------
(* The inductive invariant.                                                *)

\* A machine that scans or sends does so for a frame that is in the ring, and
\* a frame that is being scanned for has attempts left.
HeadHeld ==
  /\ txState \in {"SCANNING", "SENDING"} => txCount > 0
  /\ txState = "SCANNING" => HeadItem.attempts < MaxAttempts

\* service() does not run while the radio is put to sleep.
PassIsAwake == pc # "app" => ~slept

\* The evidence on which a frame is taken for sent: the flag in the status
\* register, or the copy service() is about to act on.
TxDoneSeen == "TX_DONE" \in irq \/ (pc = "handle" /\ "TX_DONE" \in irqRead)

\* What the chip does is what the machine asked for, on behalf of the head.
ChipFollowsState ==
  /\ (~slept /\ chip = "cad") => txState = "SCANNING"
  /\ (~slept /\ chip = "tx") => txState = "SENDING"
  /\ (chip = "tx" /\ txState = "SENDING") => airing = HeadIndex
  /\ (txState = "SENDING" /\ TxDoneSeen) =>
        \E j \in DOMAIN aired : aired[j] = HeadIndex

\* The transmit ring is in order.
RingInv == RingTypeOK /\ NothingLostInRing

\* The inductive invariant everything below rests on.
CoreInv ==
  /\ RingInv /\ RxInv /\ ObjectTypeOK
  /\ HeadHeld /\ PassIsAwake /\ ChipFollowsState

-----------------------------------------------------------------------------
(* How a step touches each part.                                           *)

\* Only five things ever happen to the ring.
LEMMA RingMoves ==
  ASSUME CoreInv, [Next]_vars
  PROVE  \/ UNCHANGED ringVars
         \/ \E id \in PacketId, due \in BOOLEAN : EnqueueFrame(id, due)
         \/ txCount > 0 /\ \E ok \in BOOLEAN : PopHead(ok)
         \/ /\ txCount > 0 /\ HeadItem.attempts < MaxAttempts
            /\ \E due \in BOOLEAN : DeferHead(due)
         \/ FrameComesDue
  <1> USE DEF CoreInv, HeadHeld
  <1>1. CASE UNCHANGED vars BY <1>1 DEF vars
  <1>2. CASE App
    <2>1. CASE Send
      <3>1. lastId + 1 \in PacketId BY DEF ObjectTypeOK, PacketId
      <3> QED BY <2>1, <3>1 DEF Send
    <2>2. CASE Resend
      <3>1. frame \in PacketId BY <2>2 DEF Resend, ObjectTypeOK, PacketId, NoId
      <3> QED BY <2>2, <3>1 DEF Resend
    <2>3. CASE Poll BY <2>3 DEF Poll
    <2>4. CASE Sleep BY <2>4 DEF Sleep
    <2>5. CASE Wake BY <2>5 DEF Wake
    <2> QED BY <1>2, <2>1, <2>2, <2>3, <2>4, <2>5 DEF App
  <1>3. CASE Chip
    BY <1>3 DEF Chip, RxCompletes, CadCompletes, TxCompletes
  <1>4. CASE Time
    BY <1>4 DEF Time, ElapseFrame, ElapseState
  <1>5. CASE Service
    <2>1. CASE ServiceBegin BY <2>1 DEF ServiceBegin
    <2>2. CASE ReadIrq BY <2>2 DEF ReadIrq
    <2>3. CASE HandleTxDone BY <2>3 DEF HandleTxDone, SentNow
    <2>4. CASE HandleCadBusy BY <2>4 DEF HandleCadBusy, CadNow
    <2>5. CASE HandleCadFree
      BY <2>5 DEF HandleCadFree, CadNow, StartSending
    <2>6. CASE HandleRxDone BY <2>6 DEF HandleRxDone
    <2>7. CASE AcceptRx BY <2>7 DEF AcceptRx
    <2>8. CASE HandleNothing BY <2>8 DEF HandleNothing
    <2>9. CASE DriveNothing BY <2>9 DEF DriveNothing
    <2>10. CASE DriveScan BY <2>10 DEF DriveScan
    <2>11. CASE DriveSend
      BY <2>11 DEF DriveSend, HeadIsDue, StartSending
    <2>12. CASE DriveScanTimeout
      <3>1. txState = "SCANNING"
        BY <2>12 DEF DriveScanTimeout, ScanTimedOut, Driven
      <3> QED BY <2>12, <3>1 DEF DriveScanTimeout, StartSending
    <2>13. CASE DriveSendTimeout
      <3>1. txState = "SENDING"
        BY <2>13 DEF DriveSendTimeout, SendTimedOut, Driven
      <3> QED BY <2>13, <3>1 DEF DriveSendTimeout
    <2> QED BY <1>5, <2>1, <2>2, <2>3, <2>4, <2>5, <2>6, <2>7, <2>8, <2>9,
               <2>10, <2>11, <2>12, <2>13 DEF Service
  <1> QED BY <1>1, <1>2, <1>3, <1>4, <1>5 DEF Next

\* The receive side moves only when service() hands it a frame or poll()
\* takes one.
LEMMA RxMoves ==
  ASSUME [Next]_vars
  PROVE  UNCHANGED rxVars \/ Accept(rxRead) \/ PopRx
  <1>1. CASE UNCHANGED vars BY <1>1 DEF vars
  <1>2. CASE App BY <1>2 DEF App, Send, Resend, Poll, Sleep, Wake
  <1>3. CASE Chip BY <1>3 DEF Chip, RxCompletes, CadCompletes, TxCompletes
  <1>4. CASE Time BY <1>4 DEF Time, ElapseFrame, ElapseState
  <1>5. CASE Service
    BY <1>5 DEF Service, ServiceBegin, ReadIrq, HandleTxDone, HandleCadBusy,
       HandleCadFree, HandleRxDone, AcceptRx, HandleNothing, DriveNothing,
       DriveScan, DriveSend, DriveScanTimeout, DriveSendTimeout, StartSending
  <1> QED BY <1>1, <1>2, <1>3, <1>4, <1>5 DEF Next

-----------------------------------------------------------------------------
(* The parts, one at a time.                                               *)

\* begin() establishes the invariant.
LEMMA InitCore ==
  ASSUME Init
  PROVE  CoreInv
  <1>1. RxInv BY RxInitInv DEF Init
  <1>2. TXQ_N \in Nat \ {0} /\ MaxAttempts \in Nat BY TxRingAssumption
  <1>3. RingTypeOK
    BY <1>2 DEF Init, RingInit, RingTypeOK, TxItem, NoId, Slot
  <1>4. NothingLostInRing BY DEF Init, RingInit, NothingLostInRing
  <1>5. NoFrame \in RxFrame BY RxPathAssumption DEF NoFrame, RxFrame
  <1>6. ObjectTypeOK
    <2>1. aired \in Seq(Nat) /\ chip \in ChipMode BY DEF Init, ChipMode
    <2>2. irq \in SUBSET IrqFlag /\ irqRead \in SUBSET IrqFlag BY DEF Init
    <2>3. rxBuf \in RxFrame /\ rxRead \in RxFrame BY <1>5 DEF Init
    <2> QED BY <2>1, <2>2, <2>3 DEF Init, ObjectTypeOK, Phase, TxState, NoId
  <1>7. HeadHeld /\ PassIsAwake /\ ChipFollowsState
    BY DEF Init, HeadHeld, PassIsAwake, ChipFollowsState
  <1> QED BY <1>1, <1>3, <1>4, <1>6, <1>7 DEF CoreInv, RingInv

\* The ring loses nothing, whatever step the system takes.
LEMMA RingStep ==
  ASSUME CoreInv, [Next]_vars
  PROVE  RingInv'
  <1>1. RingTypeOK /\ NothingLostInRing BY DEF CoreInv, RingInv
  <1>2. CASE UNCHANGED ringVars
    BY <1>1, <1>2 DEF RingInv, RingTypeOK, NothingLostInRing, SlotAt, ringVars
  <1>3. CASE \E id \in PacketId, due \in BOOLEAN : EnqueueFrame(id, due)
    BY <1>1, <1>3, EnqueueKeepsRing DEF RingInv
  <1>4. CASE txCount > 0 /\ \E ok \in BOOLEAN : PopHead(ok)
    BY <1>1, <1>4, PopKeepsRing DEF RingInv
  <1>5. CASE /\ txCount > 0 /\ HeadItem.attempts < MaxAttempts
             /\ \E due \in BOOLEAN : DeferHead(due)
    BY <1>1, <1>5, DeferKeepsRing DEF RingInv
  <1>6. CASE FrameComesDue
    BY <1>1, <1>6, DueKeepsRing DEF RingInv
  <1> QED BY <1>2, <1>3, <1>4, <1>5, <1>6, RingMoves

\* Nor does the receive side.
LEMMA RxStep ==
  ASSUME CoreInv, [Next]_vars
  PROVE  RxInv'
  <1>1. RxInv /\ rxRead \in RxFrame BY DEF CoreInv, ObjectTypeOK
  <1>2. CASE UNCHANGED rxVars BY <1>1, <1>2, StutterKeepsRx
  <1>3. CASE Accept(rxRead) BY <1>1, <1>3, AcceptKeepsRx
  <1>4. CASE PopRx BY <1>1, <1>4, PopKeepsRx
  <1> QED BY <1>2, <1>3, <1>4, RxMoves
\* Each helper keeps the variables it assigns in their types.
LEMMA HelpersKeepTypes ==
  ASSUME RingTypeOK, ObjectTypeOK
  PROVE  /\ \A left \in SUBSET IrqFlag :
              ArmRx(left) => chip' \in ChipMode /\ irq' \in SUBSET IrqFlag
         /\ CountDrop => txFailStreak' \in Nat /\ txDropped' \in Nat
         /\ HeadItem.id \in Nat /\ HeadIndex \in Nat
         /\ StartSending /\ pc' \in Phase => ObjectTypeOK'
  <1>1. ASSUME NEW left \in SUBSET IrqFlag, ArmRx(left)
        PROVE  chip' \in ChipMode /\ irq' \in SUBSET IrqFlag
    BY <1>1 DEF ArmRx, ObjectTypeOK, ChipMode
  <1>2. CountDrop => txFailStreak' \in Nat /\ txDropped' \in Nat
    BY DEF CountDrop, ObjectTypeOK
  <1>3. HeadItem.id \in Nat /\ HeadIndex \in Nat
    BY DEF RingTypeOK, HeadItem, HeadIndex, TxItem
  <1>4. ASSUME StartSending, pc' \in Phase
        PROVE  ObjectTypeOK'
    <2>1. /\ chip' \in ChipMode /\ irq' \in SUBSET IrqFlag
          /\ airing' \in Nat /\ txFailStreak' \in Nat /\ txDropped' \in Nat
          /\ txState' \in TxState /\ txExpired' \in BOOLEAN
      BY <1>1, <1>2, <1>3, <1>4
         DEF StartSending, ObjectTypeOK, ChipMode, TxState
    <2>2. frame' \in Nat /\ rxDroppedByTx' \in Nat
      BY <1>3, <1>4 DEF StartSending, ObjectTypeOK
    <2> QED BY <1>4, <2>1, <2>2 DEF StartSending, ObjectTypeOK, worldVars
  <1> QED BY <1>1, <1>2, <1>3, <1>4

\* The rest of the object, the chip and the application keep their types.
LEMMA ObjectStep ==
  ASSUME CoreInv, [Next]_vars
  PROVE  ObjectTypeOK'
  <1>1. ObjectTypeOK /\ RingTypeOK BY DEF CoreInv, RingInv
  <1> USE <1>1 DEF ObjectTypeOK
  <1>2. CASE UNCHANGED vars
    BY <1>2 DEF vars, chipVars, serviceVars, stateVars, copyVars,
       counterVars, worldVars
  <1>3. CASE App
    <2>1. CASE Send
      BY <2>1 DEF Send, chipVars, serviceVars, stateVars, counterVars,
         worldVars
    <2>2. CASE Resend
      BY <2>2 DEF Resend, chipVars, serviceVars, stateVars, copyVars,
         counterVars, worldVars
    <2>3. CASE Poll
      BY <2>3 DEF Poll, chipVars, serviceVars, stateVars, copyVars,
         counterVars, worldVars
    <2>4. CASE Sleep
      <3>1. chip' \in ChipMode /\ irq' \in SUBSET IrqFlag
        BY <2>4 DEF Sleep, ChipMode
      <3> QED BY <2>4, <3>1 DEF Sleep, stateVars, copyVars, counterVars
    <2>5. CASE Wake
      <3>1. chip' \in ChipMode /\ slept' \in BOOLEAN
        BY <2>5 DEF Wake, StandBy, ChipMode
      <3>2. txState' \in TxState BY <2>5 DEF Wake, TxState
      <3> QED BY <2>5, <3>1, <3>2 DEF Wake, copyVars, counterVars, worldVars
    <2> QED BY <1>3, <2>1, <2>2, <2>3, <2>4, <2>5 DEF App
  <1>4. CASE Chip
    <2>1. \A r \in BOOLEAN : RaiseDio1(r) => radioEvent' \in BOOLEAN
      BY DEF RaiseDio1
    <2>2. ASSUME NEW f \in Traffic, RxCompletes(f)
          PROVE  ObjectTypeOK'
      <3>1. f \in RxFrame BY TransportAssumption
      <3>2. radioEvent' \in BOOLEAN BY <2>1, <2>2 DEF RxCompletes
      <3>3. irq' \in SUBSET IrqFlag BY <2>2 DEF RxCompletes, IrqFlag
      <3> QED BY <2>2, <3>1, <3>2, <3>3 DEF RxCompletes, serviceVars,
               stateVars, copyVars, counterVars
    <2>3. ASSUME NEW d \in BOOLEAN, CadCompletes(d)
          PROVE  ObjectTypeOK'
      <3>1. radioEvent' \in BOOLEAN BY <2>1, <2>3 DEF CadCompletes
      <3>2. chip' \in ChipMode /\ irq' \in SUBSET IrqFlag
        BY <2>3 DEF CadCompletes, IrqFlag, ChipMode
      <3> QED BY <2>3, <3>1, <3>2 DEF CadCompletes, serviceVars, stateVars,
               copyVars, counterVars, worldVars
    <2>4. CASE TxCompletes
      <3>1. radioEvent' \in BOOLEAN BY <2>1, <2>4 DEF TxCompletes
      <3>2. chip' \in ChipMode /\ irq' \in SUBSET IrqFlag
        BY <2>4 DEF TxCompletes, IrqFlag, ChipMode
      <3>3. aired' \in Seq(Nat) BY <2>4 DEF TxCompletes
      <3> QED BY <2>4, <3>1, <3>2, <3>3 DEF TxCompletes, serviceVars,
               stateVars, copyVars, counterVars
    <2> QED BY <1>4, <2>2, <2>3, <2>4 DEF Chip
  <1>5. CASE Time
    BY <1>5 DEF Time, ElapseFrame, ElapseState, chipVars, serviceVars,
       stateVars, copyVars, counterVars, worldVars
  <1>6. CASE Service
    <2>1. CASE ServiceBegin
      BY <2>1 DEF ServiceBegin, Phase, chipVars, stateVars, copyVars,
         counterVars, worldVars
    <2>2. CASE ReadIrq
      BY <2>2 DEF ReadIrq, Phase, chipVars, stateVars, copyVars, counterVars,
         worldVars
    <2>3. CASE HandleTxDone
      <3>1. chip' \in ChipMode /\ irq' \in SUBSET IrqFlag
        BY <2>3, HelpersKeepTypes DEF HandleTxDone
      <3> QED BY <2>3, <3>1 DEF HandleTxDone, ClearStreak, Phase, TxState,
               copyVars, worldVars
    <2>4. CASE HandleCadBusy
      <3>1. chip' \in ChipMode /\ irq' \in SUBSET IrqFlag
        BY <2>4, HelpersKeepTypes DEF HandleCadBusy
      <3>2. csmaDeferrals' \in Nat BY <2>4 DEF HandleCadBusy
      <3>3. txState' \in TxState /\ txExpired' \in BOOLEAN /\ pc' \in Phase
        BY <2>4 DEF HandleCadBusy, Phase, TxState
      <3> QED BY <2>4, <3>1, <3>2, <3>3 DEF HandleCadBusy, copyVars, worldVars
    <2>5. CASE HandleCadFree
      BY <2>5, HelpersKeepTypes DEF HandleCadFree, Phase
    <2>6. CASE HandleRxDone
      BY <2>6 DEF HandleRxDone, Phase, stateVars, copyVars, counterVars,
         worldVars
    <2>7. CASE AcceptRx
      <3>1. chip' \in ChipMode /\ irq' \in SUBSET IrqFlag
        BY <2>7, HelpersKeepTypes DEF AcceptRx
      <3> QED BY <2>7, <3>1 DEF AcceptRx, Phase, stateVars, copyVars,
               counterVars, worldVars
    <2>8. CASE HandleNothing
      BY <2>8 DEF HandleNothing, Phase, chipVars, stateVars, copyVars,
         counterVars, worldVars
    <2>9. CASE DriveNothing
      <3>1. txState' \in TxState BY <2>9 DEF DriveNothing, Driven, TxState
      <3> QED BY <2>9, <3>1 DEF DriveNothing, LeaveService, Phase, chipVars,
               copyVars, counterVars, worldVars
    <2>10. CASE DriveScan
      BY <2>10 DEF DriveScan, LeaveService, Phase, TxState, ChipMode,
         copyVars, counterVars, worldVars
    <2>11. CASE DriveSend
      BY <2>11, HelpersKeepTypes DEF DriveSend, Phase
    <2>12. CASE DriveScanTimeout
      BY <2>12, HelpersKeepTypes DEF DriveScanTimeout, Phase
    <2>13. CASE DriveSendTimeout
      <3>1. chip' \in ChipMode /\ irq' \in SUBSET IrqFlag
        BY <2>13, HelpersKeepTypes DEF DriveSendTimeout
      <3>2. txFailStreak' \in Nat /\ txDropped' \in Nat
        BY <2>13, HelpersKeepTypes DEF DriveSendTimeout
      <3> QED BY <2>13, <3>1, <3>2 DEF DriveSendTimeout, LeaveService, Phase,
               TxState, copyVars, worldVars
    <2> QED BY <1>6, <2>1, <2>2, <2>3, <2>4, <2>5, <2>6, <2>7, <2>8, <2>9,
               <2>10, <2>11, <2>12, <2>13 DEF Service
  <1> QED BY <1>2, <1>3, <1>4, <1>5, <1>6 DEF Next
\* A machine that scans or sends keeps the frame it does it for: only the end
\* of the attempt removes it, and that leaves the state.
LEMMA HeadStep ==
  ASSUME CoreInv, [Next]_vars
  PROVE  HeadHeld'
  <1>1. /\ RingTypeOK /\ HeadHeld /\ txCount \in Nat
        /\ HeadItem.attempts \in Nat /\ MaxAttempts \in Nat
    BY TxRingAssumption
       DEF CoreInv, RingInv, RingTypeOK, HeadItem, TxItem
  <1>2. ASSUME UNCHANGED ringVars, txState' \in {txState, "IDLE", "WAITING"}
        PROVE  HeadHeld'
    BY <1>1, <1>2 DEF HeadHeld, HeadItem, ringVars
  <1>3. ASSUME StartSending, txCount > 0
        PROVE  HeadHeld'
    BY <1>3 DEF StartSending, HeadHeld, ringVars
  <1>4. CASE UNCHANGED vars BY <1>2, <1>4 DEF vars, stateVars
  <1>5. CASE App
    <2>1. ASSUME NEW id \in PacketId, NEW due \in BOOLEAN,
                 EnqueueFrame(id, due), txState' = txState
          PROVE  HeadHeld'
      <3>1. txCount > 0 => HeadItem' = HeadItem /\ txCount' > 0
        BY <1>1, <2>1, EnqueueKeepsHead
      <3> QED BY <1>1, <2>1, <3>1 DEF HeadHeld
    <2>2. CASE Send
      <3>1. lastId + 1 \in PacketId BY DEF CoreInv, ObjectTypeOK, PacketId
      <3> QED BY <2>1, <2>2, <3>1 DEF Send, stateVars
    <2>3. CASE Resend
      <3>1. frame \in PacketId
        BY <2>3 DEF Resend, CoreInv, ObjectTypeOK, PacketId, NoId
      <3> QED BY <2>1, <2>3, <3>1 DEF Resend, stateVars
    <2>4. CASE Poll BY <1>2, <2>4 DEF Poll, stateVars
    <2>5. CASE Sleep BY <1>2, <2>5 DEF Sleep, stateVars
    <2>6. CASE Wake BY <1>2, <2>6 DEF Wake
    <2> QED BY <1>5, <2>2, <2>3, <2>4, <2>5, <2>6 DEF App
  <1>6. CASE Chip
    BY <1>2, <1>6 DEF Chip, RxCompletes, CadCompletes, TxCompletes, stateVars
  <1>7. CASE Time
    <2>1. CASE ElapseFrame
      <3>1. HeadItem'.attempts = HeadItem.attempts /\ txCount' = txCount
        BY <1>1, <2>1, DueKeepsHead DEF ElapseFrame
      <3> QED BY <1>1, <2>1, <3>1 DEF ElapseFrame, HeadHeld, stateVars
    <2>2. CASE ElapseState BY <1>2, <2>2 DEF ElapseState
    <2> QED BY <1>7, <2>1, <2>2 DEF Time
  <1>8. CASE Service
    <2>1. CASE ServiceBegin \/ ReadIrq \/ HandleRxDone \/ AcceptRx \/ HandleNothing
      BY <1>2, <2>1 DEF ServiceBegin, ReadIrq, HandleRxDone, AcceptRx,
         HandleNothing, stateVars
    <2>2. CASE HandleTxDone \/ HandleCadBusy \/ DriveSendTimeout
      <3>1. txState' \in {"IDLE", "WAITING"}
        BY <2>2 DEF HandleTxDone, HandleCadBusy, DriveSendTimeout
      <3> QED BY <3>1 DEF HeadHeld
    <2>3. CASE HandleCadFree
      BY <1>1, <1>3, <2>3 DEF HandleCadFree, CadNow, HeadHeld
    <2>4. CASE DriveNothing
      <3>1. txState' \in {txState, "IDLE", "WAITING"}
        BY <2>4 DEF DriveNothing, Driven
      <3> QED BY <1>2, <2>4, <3>1 DEF DriveNothing
    <2>5. CASE DriveScan
      <3>1. txCount > 0 /\ HeadItem.attempts < MaxAttempts
        BY <1>1, <2>5 DEF DriveScan, HeadIsDue, FailOpen
      <3> QED BY <2>5, <3>1 DEF DriveScan, HeadHeld, HeadItem, ringVars
    <2>6. CASE DriveSend BY <1>3, <2>6 DEF DriveSend, HeadIsDue
    <2>7. CASE DriveScanTimeout
      BY <1>1, <1>3, <2>7 DEF DriveScanTimeout, ScanTimedOut, Driven, HeadHeld
    <2> QED BY <1>8, <2>1, <2>2, <2>3, <2>4, <2>5, <2>6, <2>7 DEF Service
  <1> QED BY <1>4, <1>5, <1>6, <1>7, <1>8 DEF Next

\* The application sleeps only between two passes of service().
LEMMA AwakeStep ==
  ASSUME CoreInv, [Next]_vars
  PROVE  PassIsAwake'
  <1> USE DEF CoreInv, PassIsAwake
  <1>1. CASE UNCHANGED vars BY <1>1 DEF vars, serviceVars
  <1>2. CASE App
    BY <1>2 DEF App, Send, Resend, Poll, Sleep, Wake, StandBy, AtApp, serviceVars
  <1>3. CASE Chip
    BY <1>3 DEF Chip, RxCompletes, CadCompletes, TxCompletes, serviceVars
  <1>4. CASE Time BY <1>4 DEF Time, ElapseFrame, ElapseState, serviceVars
  <1>5. CASE Service
    BY <1>5 DEF Service, ServiceBegin, ReadIrq, HandleTxDone, HandleCadBusy,
       HandleCadFree, HandleRxDone, AcceptRx, HandleNothing, DriveNothing,
       DriveScan, DriveSend, DriveScanTimeout, DriveSendTimeout, StartSending,
       AtApp
  <1> QED BY <1>1, <1>2, <1>3, <1>4, <1>5 DEF Next
\* Going on air starts a transmission of the head with a clean slate: no flag
\* of an earlier one is left for service() to mistake for this one's end.
LEMMA StartFollows ==
  ASSUME CoreInv, StartSending, pc' # "handle"
  PROVE  ChipFollowsState'
  <1>1. CASE /\ chip' = "tx" /\ irq' = {} /\ airing' = HeadIndex
             /\ txState' = "SENDING" /\ UNCHANGED ringVars
    BY <1>1 DEF ChipFollowsState, TxDoneSeen, HeadIndex, ringVars
  <1>2. CASE txState' = "IDLE" /\ ArmRx(irq)
    BY <1>2 DEF ArmRx, ChipFollowsState
  <1> QED BY <1>1, <1>2 DEF StartSending

\* The chip and the state machine stay in step.
LEMMA ChipStep ==
  ASSUME CoreInv, [Next]_vars
  PROVE  ChipFollowsState'
  <1>1. ChipFollowsState /\ ObjectTypeOK BY DEF CoreInv
  <1>2. ASSUME UNCHANGED <<chip, irq, airing, pc, irqRead, slept, txState, aired>>,
               outcomes' = outcomes
        PROVE  ChipFollowsState'
    BY <1>1, <1>2 DEF ChipFollowsState, TxDoneSeen, HeadIndex
  <1>3. ASSUME ArmRx(irq), pc' # "handle", txState' = txState, aired' = aired,
               outcomes' = outcomes
        PROVE  ChipFollowsState'
    BY <1>1, <1>3 DEF ArmRx, ChipFollowsState, TxDoneSeen, HeadIndex
  <1>4. CASE UNCHANGED vars
    BY <1>2, <1>4 DEF vars, ringVars, chipVars, serviceVars, stateVars, worldVars
  <1>5. CASE App
    <2>1. CASE Send \/ Resend
      BY <1>2, <2>1 DEF Send, Resend, EnqueueFrame, chipVars, serviceVars,
         stateVars, worldVars
    <2>2. CASE Poll
      BY <1>2, <2>2 DEF Poll, ringVars, chipVars, serviceVars, stateVars, worldVars
    <2>3. CASE Sleep
      <3>1. slept' /\ pc' = pc /\ irqRead' = irqRead /\ outcomes' = outcomes
        BY <2>3 DEF Sleep, ringVars
      <3>2. UNCHANGED <<airing, txState, aired>> BY <2>3 DEF Sleep, stateVars
      <3>3. (chip' = "sleep" /\ irq' = {}) \/ (chip' = chip /\ irq' = irq)
        BY <2>3 DEF Sleep
      <3> QED BY <1>1, <3>1, <3>2, <3>3 DEF ChipFollowsState, TxDoneSeen, HeadIndex
    <2>4. CASE Wake
      BY <1>1, <2>4 DEF Wake, StandBy, ChipFollowsState
    <2> QED BY <1>5, <2>1, <2>2, <2>3, <2>4 DEF App
  <1>6. CASE Chip
    <2>1. ASSUME NEW f \in Traffic, RxCompletes(f)
          PROVE  ChipFollowsState'
      BY <1>1, <2>1 DEF RxCompletes, ringVars, serviceVars, stateVars,
         ChipFollowsState, TxDoneSeen, HeadIndex
    <2>2. ASSUME NEW d \in BOOLEAN, CadCompletes(d)
          PROVE  ChipFollowsState'
      <3>1. "TX_DONE" \notin irq' /\ chip' = "standby" BY <2>2 DEF CadCompletes
      <3> QED BY <1>1, <2>2, <3>1 DEF CadCompletes, ringVars, serviceVars,
               stateVars, worldVars, ChipFollowsState, TxDoneSeen, HeadIndex
    <2>3. CASE TxCompletes
      <3>1. /\ chip = "tx" /\ chip' = "standby" /\ aired' = Append(aired, airing)
            /\ aired \in Seq(Nat) /\ airing \in Nat
        BY <1>1, <2>3 DEF TxCompletes, ObjectTypeOK
      <3>2. aired'[Len(aired) + 1] = airing /\ Len(aired) + 1 \in DOMAIN aired'
        BY <3>1
      <3>3. UNCHANGED <<txState, outcomes>>
        BY <2>3 DEF TxCompletes, ringVars, stateVars
      <3>4. txState = "SENDING" => airing = HeadIndex
        BY <1>1, <3>1 DEF ChipFollowsState
      <3> QED BY <3>1, <3>2, <3>3, <3>4 DEF ChipFollowsState, HeadIndex
    <2> QED BY <1>6, <2>1, <2>2, <2>3 DEF Chip
  <1>7. CASE Time
    BY <1>2, <1>7 DEF Time, ElapseFrame, ElapseState, FrameComesDue, ringVars,
       chipVars, serviceVars, worldVars, stateVars
  <1>8. CASE Service
    <2>1. CASE ServiceBegin \/ HandleNothing
      BY <1>1, <2>1 DEF ServiceBegin, HandleNothing, ringVars, chipVars,
         stateVars, worldVars, ChipFollowsState, TxDoneSeen, HeadIndex
    <2>2. CASE ReadIrq
      BY <1>1, <2>2 DEF ReadIrq, ringVars, chipVars, stateVars, worldVars,
         ChipFollowsState, TxDoneSeen, HeadIndex
    <2>3. CASE HandleTxDone \/ HandleCadBusy \/ DriveSendTimeout
      <3>1. txState' # "SCANNING" /\ txState' # "SENDING"
        BY <2>3 DEF HandleTxDone, HandleCadBusy, DriveSendTimeout
      <3>2. ArmRx({}) \/ ArmRx(irq)
        BY <2>3 DEF HandleTxDone, HandleCadBusy, DriveSendTimeout
      <3>3. chip' # "cad" /\ chip' # "tx" BY <3>2 DEF ArmRx
      <3> QED BY <3>1, <3>3 DEF ChipFollowsState
    <2>4. CASE HandleCadFree \/ DriveSend \/ DriveScanTimeout
      BY <2>4, StartFollows DEF HandleCadFree, DriveSend, DriveScanTimeout
    <2>5. CASE HandleRxDone
      BY <1>1, <2>5 DEF HandleRxDone, ringVars, stateVars, worldVars,
         ChipFollowsState, TxDoneSeen, HeadIndex
    <2>6. CASE AcceptRx
      BY <1>3, <2>6 DEF AcceptRx, ringVars, stateVars, worldVars
    <2>7. CASE DriveNothing
      <3>1. /\ UNCHANGED <<chip, irq, airing, irqRead, slept, outcomes, aired>>
            /\ pc' = "app"
        BY <2>7 DEF DriveNothing, LeaveService, ringVars, chipVars, worldVars
      <3>2. /\ txState \in {"SCANNING", "SENDING"} => txState' = txState
            /\ txState' \in {"SCANNING", "SENDING"} => txState' = txState
        BY <2>7 DEF DriveNothing, Driven
      <3> QED BY <1>1, <3>1, <3>2 DEF ChipFollowsState, TxDoneSeen, HeadIndex
    <2>8. CASE DriveScan
      BY <2>8 DEF DriveScan, ChipFollowsState
    <2> QED BY <1>8, <2>1, <2>2, <2>3, <2>4, <2>5, <2>6, <2>7, <2>8 DEF Service
  <1> QED BY <1>4, <1>5, <1>6, <1>7, <1>8 DEF Next

-----------------------------------------------------------------------------
(* The theorems.                                                           *)

\* The invariant holds in every reachable state.
LEMMA CoreHolds == SafeSpec => []CoreInv
  <1>1. Init => CoreInv BY InitCore
  <1>2. CoreInv /\ [Next]_vars => CoreInv'
    BY RingStep, RxStep, ObjectStep, HeadStep, AwakeStep, ChipStep DEF CoreInv
  <1> QED BY <1>1, <1>2, PTL DEF SafeSpec

\* Every variable stays in its type, the unsigned counters of the ring and of
\* the frames' attempts included, in every execution of the transport.
THEOREM TypeCorrect == SafeSpec => []TypeOK
  <1>1. CoreInv => TypeOK BY DEF CoreInv, RingInv, RxInv, TypeOK
  <1> QED BY <1>1, CoreHolds, PTL

\* The outbound ring (enqueueFrame, service, driveTx) loses, duplicates and
\* reorders nothing, whatever its size and whichever operations fail.
THEOREM NothingIsLost == SafeSpec => []NothingLostInRing
  <1>1. CoreInv => NothingLostInRing BY DEF CoreInv, RingInv
  <1> QED BY <1>1, CoreHolds, PTL

\* isDuplicate() lets a packet through again only after SEEN_N others.
THEOREM SurfacesOnce == SafeSpec => []SurfacesOncePerWindow
  <1>1. CoreInv => SurfacesOncePerWindow BY DEF CoreInv, RxInv
  <1> QED BY <1>1, CoreHolds, PTL

\* poll() hands over what pushRx() queued: all of it, once, in order.
THEOREM PollIsFifo == SafeSpec => []RxFifo
  <1>1. CoreInv => RxFifo BY DEF CoreInv, RxInv
  <1> QED BY <1>1, CoreHolds, PTL

\* busy() covers every moment an awake radio scans or transmits.
THEOREM BusyIsHonest == SafeSpec => []BusyCoversTheAir
  <1>1. CoreInv => BusyCoversTheAir
    BY DEF CoreInv, ChipFollowsState, HeadHeld, BusyCoversTheAir
  <1> QED BY <1>1, CoreHolds, PTL
-----------------------------------------------------------------------------
(* The history of outcomes and the counters that summarise it.             *)

\* A frame leaves the ring in two ways only: sent, on the evidence of a TX
\* done of its own, with the streak cleared; or abandoned, and counted.
LEMMA OutcomeMoves ==
  ASSUME CoreInv, [Next]_vars
  PROVE  \/ UNCHANGED <<outcomes, txDropped, txFailStreak>>
         \/ /\ PopHead(TRUE) /\ ClearStreak /\ UNCHANGED txDropped
            /\ \E j \in DOMAIN aired : aired[j] = HeadIndex
         \/ PopHead(FALSE) /\ CountDrop
  <1>1. StartSending => \/ UNCHANGED <<outcomes, txDropped, txFailStreak>>
                        \/ PopHead(FALSE) /\ CountDrop
    BY DEF StartSending, ringVars
  <1>2. CASE UNCHANGED vars BY <1>2 DEF vars, ringVars, counterVars
  <1>3. CASE App
    BY <1>3 DEF App, Send, Resend, Poll, Sleep, Wake, EnqueueFrame, ringVars,
       counterVars
  <1>4. CASE Chip
    BY <1>4 DEF Chip, RxCompletes, CadCompletes, TxCompletes, ringVars, counterVars
  <1>5. CASE Time
    BY <1>5 DEF Time, ElapseFrame, ElapseState, FrameComesDue, ringVars, counterVars
  <1>6. CASE Service
    <2>1. CASE ServiceBegin \/ ReadIrq \/ HandleRxDone \/ AcceptRx \/ HandleNothing
      BY <2>1 DEF ServiceBegin, ReadIrq, HandleRxDone, AcceptRx, HandleNothing,
         ringVars, counterVars
    <2>2. CASE HandleTxDone
      <3>1. \E j \in DOMAIN aired : aired[j] = HeadIndex
        BY <2>2 DEF HandleTxDone, SentNow, CoreInv, ChipFollowsState, TxDoneSeen
      <3> QED BY <2>2, <3>1 DEF HandleTxDone
    <2>3. CASE HandleCadBusy BY <2>3 DEF HandleCadBusy, DeferHead
    <2>4. CASE HandleCadFree \/ DriveSend \/ DriveScanTimeout
      BY <1>1, <2>4 DEF HandleCadFree, DriveSend, DriveScanTimeout
    <2>5. CASE DriveNothing \/ DriveScan
      BY <2>5 DEF DriveNothing, DriveScan, ringVars, counterVars
    <2>6. CASE DriveSendTimeout BY <2>6 DEF DriveSendTimeout
    <2> QED BY <1>6, <2>1, <2>2, <2>3, <2>4, <2>5, <2>6 DEF Service
  <1> QED BY <1>2, <1>3, <1>4, <1>5, <1>6 DEF Next

\* What has been on air stays on record.
LEMMA AiredGrows ==
  ASSUME CoreInv, [Next]_vars, NEW i, \E j \in DOMAIN aired : aired[j] = i
  PROVE  \E j \in DOMAIN aired' : aired'[j] = i
  <1>1. aired \in Seq(Nat) /\ airing \in Nat BY DEF CoreInv, ObjectTypeOK
  <1>2. CASE aired' = aired BY <1>2
  <1>3. CASE aired' = Append(aired, airing)
    <2>1. PICK j \in DOMAIN aired : aired[j] = i OBVIOUS
    <2>2. j \in DOMAIN aired' /\ aired'[j] = aired[j] BY <1>1, <1>3
    <2> QED BY <2>1, <2>2
  <1>4. aired' = aired \/ aired' = Append(aired, airing)
    BY DEF Next, vars, App, Send, Resend, Poll, Sleep, Wake, Chip, RxCompletes,
       CadCompletes, TxCompletes, Time, ElapseFrame, ElapseState, Service,
       ServiceBegin, ReadIrq, HandleTxDone, HandleCadBusy, HandleCadFree,
       HandleRxDone, AcceptRx, HandleNothing, DriveNothing, DriveScan, DriveSend,
       DriveScanTimeout, DriveSendTimeout, StartSending, worldVars
  <1> QED BY <1>2, <1>3, <1>4

\* No interrupt but a frame's own TX done makes service() take it for sent.
THEOREM SentIsAired == SafeSpec => []SentWasAired
  <1>1. Init => SentWasAired BY DEF Init, RingInit, SentWasAired
  <1>2. ASSUME CoreInv, SentWasAired, [Next]_vars
        PROVE  SentWasAired'
    <2>1. outcomes \in Seq(BOOLEAN) /\ HeadIndex = Len(outcomes) + 1
      BY <1>2 DEF CoreInv, RingInv, RingTypeOK, HeadIndex
    <2> SUFFICES ASSUME NEW i \in DOMAIN outcomes', outcomes'[i]
                 PROVE  \E j \in DOMAIN aired' : aired'[j] = i
      BY DEF SentWasAired
    <2>2. \/ i \in DOMAIN outcomes /\ outcomes[i]
          \/ i = HeadIndex /\ \E j \in DOMAIN aired : aired[j] = HeadIndex
      <3>1. CASE outcomes' = outcomes BY <3>1
      <3>2. CASE outcomes' = Append(outcomes, TRUE)
                 /\ \E j \in DOMAIN aired : aired[j] = HeadIndex
        BY <2>1, <3>2
      <3>3. CASE outcomes' = Append(outcomes, FALSE) BY <2>1, <3>3
      <3> QED BY <1>2, <3>1, <3>2, <3>3, OutcomeMoves DEF PopHead
    <2>3. \E j \in DOMAIN aired : aired[j] = i BY <1>2, <2>2 DEF SentWasAired
    <2> QED BY <1>2, <2>3, AiredGrows
  <1> QED BY <1>1, <1>2, CoreHolds, PTL DEF SafeSpec
\* A history one outcome longer agrees with the shorter one.
LEMMA AppendExtends ==
  ASSUME NEW s \in Seq(BOOLEAN), NEW b \in BOOLEAN
  PROVE  /\ \A i \in DOMAIN s : Append(s, b)[i] = s[i]
         /\ Append(s, b)[Len(s) + 1] = b
  OBVIOUS

\* Counting the failures of a history one outcome longer.
LEMMA FailuresOfAppend ==
  ASSUME NEW s \in Seq(BOOLEAN), NEW b \in BOOLEAN
  PROVE  LET Failures(h) == Cardinality({i \in DOMAIN h : ~h[i]})
         IN  /\ b = TRUE => Failures(Append(s, b)) = Failures(s)
             /\ b = FALSE => Failures(Append(s, b)) = Failures(s) + 1
  <1> DEFINE F == {i \in DOMAIN s : ~s[i]}
             G == {i \in DOMAIN Append(s, b) : ~Append(s, b)[i]}
             L == Len(s)
  <1>1. L \in Nat /\ DOMAIN s = 1 .. L /\ DOMAIN Append(s, b) = 1 .. L + 1
    OBVIOUS
  <1>2. \A i \in 1 .. L : Append(s, b)[i] = s[i] OBVIOUS
  <1>3. Append(s, b)[L + 1] = b OBVIOUS
  <1>4. IsFiniteSet(F) /\ Cardinality(F) \in Nat
    <2>1. 1 \in Int /\ L \in Int /\ F \in SUBSET (1 .. L) BY <1>1
    <2> QED BY <2>1, FS_Interval, FS_Subset, FS_CardinalityType
  <1>5. L + 1 \notin F BY <1>1
  <1>6. CASE b = TRUE
    <2>1. G = F BY <1>1, <1>2, <1>3, <1>6
    <2> QED BY <1>6, <2>1
  <1>7. CASE b = FALSE
    <2>1. G = F \cup {L + 1} BY <1>1, <1>2, <1>3, <1>7
    <2>2. Cardinality(G) = Cardinality(F) + 1
      BY <1>4, <1>5, <2>1, FS_AddElement
    <2> QED BY <1>7, <2>2
  <1> QED BY <1>6, <1>7

\* txDropped() counts every accepted frame that was not sent, and no other.
THEOREM DropsAreTrue == SafeSpec => []DropsAreCounted
  <1>1. Init => DropsAreCounted
    <2> SUFFICES ASSUME Init PROVE DropsAreCounted OBVIOUS
    <2>1. outcomes = <<>> /\ txDropped = 0 BY DEF Init, RingInit
    <2>2. {i \in DOMAIN outcomes : ~outcomes[i]} = {} BY <2>1
    <2> QED BY <2>1, <2>2, FS_EmptySet DEF DropsAreCounted
  <1>2. ASSUME CoreInv, DropsAreCounted, [Next]_vars
        PROVE  DropsAreCounted'
    <2>1. outcomes \in Seq(BOOLEAN) BY <1>2 DEF CoreInv, RingInv, RingTypeOK
    <2>2. txDropped = Cardinality({i \in DOMAIN outcomes : ~outcomes[i]})
      BY <1>2 DEF DropsAreCounted
    <2>3. txDropped \in Nat BY <1>2 DEF CoreInv, ObjectTypeOK
    <2>4. CASE UNCHANGED <<outcomes, txDropped, txFailStreak>>
      BY <1>2, <2>4 DEF DropsAreCounted
    <2>5. CASE PopHead(TRUE) /\ UNCHANGED txDropped
      <3>1. outcomes' = Append(outcomes, TRUE) BY <2>5 DEF PopHead
      <3>2. Cardinality({i \in DOMAIN outcomes' : ~outcomes'[i]}) = txDropped
        BY <2>1, <2>2, <3>1, FailuresOfAppend
      <3> QED BY <2>3, <2>5, <3>2 DEF DropsAreCounted
    <2>6. CASE PopHead(FALSE) /\ CountDrop
      <3>1. outcomes' = Append(outcomes, FALSE) BY <2>6 DEF PopHead
      <3>2. Cardinality({i \in DOMAIN outcomes' : ~outcomes'[i]}) = txDropped + 1
        BY <2>1, <2>2, <3>1, FailuresOfAppend
      <3> QED BY <2>6, <3>2 DEF DropsAreCounted, CountDrop
    <2> QED BY <1>2, <2>4, <2>5, <2>6, OutcomeMoves
  <1> QED BY <1>1, <1>2, CoreHolds, PTL DEF SafeSpec

\* txFailStreak(), on which an application resets the node, is the length of
\* the current run of failures.
THEOREM StreakIsTrue == SafeSpec => []StreakIsTrailingFailures
  <1>1. Init => StreakIsTrailingFailures
    BY DEF Init, RingInit, StreakIsTrailingFailures
  <1>2. ASSUME CoreInv, StreakIsTrailingFailures, [Next]_vars
        PROVE  StreakIsTrailingFailures'
    <2>1. outcomes \in Seq(BOOLEAN) /\ txFailStreak \in Nat
      BY <1>2 DEF CoreInv, RingInv, RingTypeOK, ObjectTypeOK
    <2>2. CASE UNCHANGED <<outcomes, txDropped, txFailStreak>>
      BY <1>2, <2>2 DEF StreakIsTrailingFailures
    <2>3. CASE PopHead(TRUE) /\ ClearStreak
      <3>1. /\ outcomes' = Append(outcomes, TRUE) /\ txFailStreak' = 0
            /\ Len(outcomes') = Len(outcomes) + 1
        BY <2>1, <2>3 DEF PopHead, ClearStreak
      <3>2. outcomes'[Len(outcomes') - txFailStreak'] = TRUE BY <2>1, <3>1
      <3> QED BY <2>1, <3>1, <3>2 DEF StreakIsTrailingFailures
    <2>4. CASE PopHead(FALSE) /\ CountDrop
      <3>1. /\ outcomes' = Append(outcomes, FALSE)
            /\ txFailStreak' = txFailStreak + 1
            /\ Len(outcomes') = Len(outcomes) + 1
        BY <2>1, <2>4 DEF PopHead, CountDrop
      <3>2. /\ Len(outcomes') - txFailStreak' = Len(outcomes) - txFailStreak
            /\ txFailStreak <= Len(outcomes)
        BY <1>2, <2>1, <3>1 DEF StreakIsTrailingFailures
      <3>3. /\ \A i \in DOMAIN outcomes : outcomes'[i] = outcomes[i]
            /\ outcomes'[Len(outcomes) + 1] = FALSE
        BY <2>1, <3>1, AppendExtends
      <3>4. ASSUME NEW i \in DOMAIN outcomes', i > Len(outcomes') - txFailStreak'
            PROVE  ~outcomes'[i]
        <4>1. i \in DOMAIN outcomes \/ i = Len(outcomes) + 1 BY <2>1, <3>1
        <4> QED BY <1>2, <3>2, <3>3, <3>4, <4>1 DEF StreakIsTrailingFailures
      <3>5. ASSUME txFailStreak' < Len(outcomes')
            PROVE  outcomes'[Len(outcomes') - txFailStreak']
        <4>1. txFailStreak < Len(outcomes) BY <2>1, <3>1, <3>5
        <4>2. Len(outcomes) - txFailStreak \in DOMAIN outcomes BY <2>1, <4>1
        <4> QED BY <1>2, <3>2, <3>3, <4>1, <4>2 DEF StreakIsTrailingFailures
      <3>6. txFailStreak' <= Len(outcomes') BY <2>1, <3>1, <3>2
      <3> QED BY <3>4, <3>5, <3>6 DEF StreakIsTrailingFailures
    <2> QED BY <1>2, <2>2, <2>3, <2>4, OutcomeMoves
  <1> QED BY <1>1, <1>2, CoreHolds, PTL DEF SafeSpec
-----------------------------------------------------------------------------
(* Receptions.                                                             *)

\* A reception nobody has read is flagged, or is evidence of this pass; and
\* none is there while a scan is, which the handler of its end relies on.
Flagged ==
  /\ "RX_DONE" \in irq =>
        \/ radioEvent
        \/ pc = "irq"
        \/ pc = "handle" /\ "RX_DONE" \in irqRead
  /\ txState = "SCANNING" =>
        /\ chip # "rx" /\ "RX_DONE" \notin irq
        /\ pc # "rearm" /\ (pc = "handle" => "RX_DONE" \notin irqRead)

\* startReceive() and startTransmit() set no flag of the status register.
LEMMA RearmFlags ==
  /\ ArmRx({}) => irq' = {}
  /\ ArmRx(irq) => irq' = {} \/ irq' = irq
  /\ StartSending => /\ irq' = {} \/ irq' = irq
                     /\ txState' # "SCANNING" /\ radioEvent' = radioEvent
  BY DEF ArmRx, StartSending

\* No interrupt is lost between the handler that sets _radioEvent and the pass
\* of service() that takes it down.
THEOREM ReceptionsAreFlagged ==
  ASSUME "dio1" \notin FailingOps
  PROVE  SafeSpec => []ReceptionIsFlagged
  <1>1. Init => Flagged BY DEF Init, Flagged
  <1>2. ASSUME Flagged, [Next]_vars
        PROVE  Flagged'
    <2> USE <1>2 DEF Flagged
    <2>1. CASE UNCHANGED vars
      BY <2>1 DEF vars, chipVars, serviceVars, stateVars
    <2>2. CASE App
      BY <2>2 DEF App, Send, Resend, Poll, Sleep, Wake, StandBy, chipVars,
         serviceVars, stateVars
    <2>3. CASE Chip
      <3>1. \A r \in BOOLEAN : RaiseDio1(r) => radioEvent' = (radioEvent \/ r)
        BY DEF RaiseDio1, MayFail
      <3>2. ASSUME NEW f \in Traffic, RxCompletes(f)
            PROVE  Flagged'
        <4>1. radioEvent' = (radioEvent \/ "RX_DONE" \notin irq)
          BY <3>1, <3>2 DEF RxCompletes
        <4> QED BY <3>2, <4>1 DEF RxCompletes, serviceVars, stateVars
      <3>3. ASSUME NEW d \in BOOLEAN, CadCompletes(d)
            PROVE  Flagged'
        <4>1. "RX_DONE" \notin irq' /\ chip' # "rx" BY <3>3 DEF CadCompletes
        <4> QED BY <3>3, <4>1 DEF CadCompletes, serviceVars, stateVars
      <3>4. CASE TxCompletes
        BY <3>4 DEF TxCompletes, serviceVars, stateVars
      <3> QED BY <2>3, <3>2, <3>3, <3>4 DEF Chip
    <2>4. CASE Time
      BY <2>4 DEF Time, ElapseFrame, ElapseState, chipVars, serviceVars, stateVars
    <2>5. CASE Service
      <3>1. CASE ServiceBegin \/ ReadIrq \/ HandleNothing
        <4>1. CASE ServiceBegin
          <5>1. pc' \in {"irq", "drive"} /\ ("RX_DONE" \in irq => pc' = "irq")
            BY <4>1 DEF ServiceBegin, AtApp
          <5> QED BY <4>1, <5>1 DEF ServiceBegin, chipVars, stateVars
        <4>2. CASE ReadIrq BY <4>2 DEF ReadIrq, chipVars, stateVars
        <4>3. CASE HandleNothing
          <5>1. "RX_DONE" \notin irqRead BY <4>3 DEF HandleNothing, RxNow
          <5> QED BY <4>3, <5>1 DEF HandleNothing, chipVars, stateVars
        <4> QED BY <3>1, <4>1, <4>2, <4>3
      <3>2. CASE HandleTxDone
        BY <3>2, RearmFlags DEF HandleTxDone
      <3>3. CASE HandleCadBusy
        <4>1. "RX_DONE" \notin irq' BY <3>3, RearmFlags DEF HandleCadBusy, CadNow
        <4> QED BY <3>3, <4>1 DEF HandleCadBusy
      <3>4. CASE HandleCadFree
        <4>1. "RX_DONE" \notin irq' BY <3>4, RearmFlags DEF HandleCadFree, CadNow
        <4> QED BY <3>4, <4>1, RearmFlags DEF HandleCadFree
      <3>5. CASE HandleRxDone
        BY <3>5 DEF HandleRxDone, RxNow, stateVars
      <3>6. CASE AcceptRx
        <4>1. irq' = {} \/ (irq' = irq /\ radioEvent' = radioEvent /\ pc = "rearm")
          BY <3>6, RearmFlags DEF AcceptRx
        <4>2. pc = "rearm" /\ pc' = "drive" /\ txState' = txState
          BY <3>6 DEF AcceptRx, stateVars
        <4> QED BY <4>1, <4>2
      <3>7. CASE DriveNothing
        BY <3>7 DEF DriveNothing, LeaveService, Driven, chipVars
      <3>8. CASE DriveScan BY <3>8 DEF DriveScan, LeaveService
      <3>9. CASE DriveSend \/ DriveScanTimeout
        BY <3>9, RearmFlags DEF DriveSend, DriveScanTimeout
      <3>10. CASE DriveSendTimeout
        BY <3>10, RearmFlags DEF DriveSendTimeout
      <3> QED BY <2>5, <3>1, <3>2, <3>3, <3>4, <3>5, <3>6, <3>7, <3>8, <3>9,
                 <3>10 DEF Service
    <2> QED BY <2>1, <2>2, <2>3, <2>4, <2>5 DEF Next
  <1>3. Flagged => ReceptionIsFlagged BY DEF Flagged, ReceptionIsFlagged
  <1> QED BY <1>1, <1>2, <1>3, PTL DEF SafeSpec

\* A machine with nothing on air listens, in the middle of service() too.
Listening ==
  /\ slept => sleeps > 0
  /\ (sleeps = 0 /\ txState \in {"IDLE", "WAITING"}) => chip = "rx"

\* startReceive() is called again on every path that ends a scan or a
\* transmission.
THEOREM IdleListens ==
  ASSUME "startReceive" \notin FailingOps
  PROVE  SafeSpec => []ListensWhenIdle
  <1>1. Init => Listening BY DEF Init, Listening
  <1>2. ASSUME CoreInv, Listening, [Next]_vars
        PROVE  Listening'
    <2> USE <1>2 DEF Listening
    <2>1. \A left : ArmRx(left) => chip' = "rx" BY DEF ArmRx, MayFail
    <2>2. StartSending => /\ UNCHANGED <<slept, sleeps>>
                          /\ txState' = "SENDING" \/ chip' = "rx"
      BY <2>1 DEF StartSending, worldVars
    <2>3. CASE UNCHANGED vars
      BY <2>3 DEF vars, chipVars, serviceVars, stateVars, worldVars
    <2>4. CASE App
      <3>1. CASE Sleep
        <4>1. sleeps \in Nat BY DEF CoreInv, ObjectTypeOK
        <4>2. sleeps' > 0 BY <3>1, <4>1 DEF Sleep
        <4> QED BY <4>1, <4>2
      <3>2. CASE Wake
        BY <3>2 DEF Wake, worldVars
      <3>3. CASE Send \/ Resend \/ Poll
        BY <3>3 DEF Send, Resend, Poll, chipVars, serviceVars, stateVars, worldVars
      <3> QED BY <2>4, <3>1, <3>2, <3>3 DEF App
    <2>5. CASE Chip
      <3>1. UNCHANGED <<slept, sleeps, txState>> /\ (chip = "rx" => chip' = "rx")
        BY <2>5 DEF Chip, RxCompletes, CadCompletes, TxCompletes, serviceVars,
           stateVars, worldVars
      <3> QED BY <3>1
    <2>6. CASE Time
      BY <2>6 DEF Time, ElapseFrame, ElapseState, chipVars, serviceVars,
         stateVars, worldVars
    <2>7. CASE Service
      <3>1. CASE ServiceBegin \/ ReadIrq \/ HandleNothing \/ HandleRxDone
        BY <3>1 DEF ServiceBegin, ReadIrq, HandleNothing, HandleRxDone, chipVars,
           stateVars, worldVars
      <3>2. CASE HandleTxDone \/ HandleCadBusy \/ AcceptRx \/ DriveSendTimeout
        <4>1. chip' = "rx"
          BY <2>1, <3>2 DEF HandleTxDone, HandleCadBusy, AcceptRx, DriveSendTimeout
        <4>2. UNCHANGED <<slept, sleeps>>
          BY <3>2 DEF HandleTxDone, HandleCadBusy, AcceptRx, DriveSendTimeout,
             worldVars
        <4> QED BY <4>1, <4>2
      <3>3. CASE HandleCadFree \/ DriveSend \/ DriveScanTimeout
        BY <2>2, <3>3 DEF HandleCadFree, DriveSend, DriveScanTimeout
      <3>4. CASE DriveNothing
        BY <3>4 DEF DriveNothing, Driven, chipVars, worldVars
      <3>5. CASE DriveScan BY <3>5 DEF DriveScan, worldVars
      <3> QED BY <2>7, <3>1, <3>2, <3>3, <3>4, <3>5 DEF Service
    <2> QED BY <2>3, <2>4, <2>5, <2>6, <2>7 DEF Next
  <1>3. Listening => ListensWhenIdle BY DEF Listening, ListensWhenIdle
  <1> QED BY <1>1, <1>2, <1>3, CoreHolds, PTL DEF SafeSpec

-----------------------------------------------------------------------------
(* The order on the air.                                                   *)

\* The chip transmits nothing but the head; and the head has not been on air,
\* unless the machine waits to hear of just that, or slept over it.
HeadIsNext ==
  /\ slept => sleeps > 0
  /\ chip = "tx" => airing = HeadIndex
  /\ \A j \in DOMAIN aired :
        /\ aired[j] <= HeadIndex
        /\ (aired[j] = HeadIndex /\ sleeps = 0) =>
              txState = "SENDING" /\ chip # "tx"

\* What a step may do to the order: transmit the head, pop it, begin to
\* transmit it, and otherwise stop at most.
LEMMA AirMoves ==
  ASSUME CoreInv, HeadIsNext, [Next]_vars
  PROVE  \/ /\ chip = "tx" /\ chip' # "tx" /\ aired' = Append(aired, airing)
            /\ UNCHANGED <<outcomes, slept, sleeps, txState>>
         \/ /\ UNCHANGED <<aired, slept, sleeps>> /\ chip' # "tx"
            /\ \E ok \in BOOLEAN : outcomes' = Append(outcomes, ok)
         \/ /\ txState # "SENDING" /\ airing' = HeadIndex
            /\ UNCHANGED <<outcomes, aired, slept, sleeps>>
         \/ /\ UNCHANGED <<outcomes, aired>>
            /\ chip' = "tx" => chip = "tx" /\ airing' = airing
            /\ \/ /\ UNCHANGED <<slept, sleeps>>
                  /\ txState = "SENDING" => txState' = "SENDING"
               \/ slept' /\ sleeps' = sleeps + 1
               \/ slept /\ sleeps' = sleeps
  <1>1. \A left : ArmRx(left) => chip' # "tx" BY DEF ArmRx
  <1>2. ASSUME StartSending, txState # "SENDING"
        PROVE  \/ /\ UNCHANGED <<aired, slept, sleeps>> /\ chip' # "tx"
                  /\ \E ok \in BOOLEAN : outcomes' = Append(outcomes, ok)
               \/ /\ txState # "SENDING" /\ airing' = HeadIndex
                  /\ UNCHANGED <<outcomes, aired, slept, sleeps>>
    BY <1>1, <1>2 DEF StartSending, PopHead, worldVars, ringVars
  <1>3. CASE UNCHANGED vars
    BY <1>3 DEF vars, ringVars, chipVars, serviceVars, stateVars, worldVars
  <1>4. CASE App
    <2>1. CASE Send \/ Resend
      BY <2>1 DEF Send, Resend, EnqueueFrame, chipVars, serviceVars, stateVars,
         worldVars
    <2>2. CASE Poll
      BY <2>2 DEF Poll, ringVars, chipVars, serviceVars, stateVars, worldVars
    <2>3. CASE Sleep BY <2>3 DEF Sleep, ringVars
    <2>4. CASE Wake BY <2>4 DEF Wake, StandBy, ringVars, worldVars
    <2> QED BY <1>4, <2>1, <2>2, <2>3, <2>4 DEF App
  <1>5. CASE Chip
    BY <1>5 DEF Chip, RxCompletes, CadCompletes, TxCompletes, ringVars,
       serviceVars, stateVars, worldVars
  <1>6. CASE Time
    BY <1>6 DEF Time, ElapseFrame, ElapseState, FrameComesDue, ringVars,
       chipVars, serviceVars, stateVars, worldVars
  <1>7. CASE Service
    <2>1. CASE ServiceBegin \/ ReadIrq \/ HandleNothing \/ HandleRxDone
      BY <2>1 DEF ServiceBegin, ReadIrq, HandleNothing, HandleRxDone, ringVars,
         chipVars, stateVars, worldVars
    <2>2. CASE HandleTxDone \/ DriveSendTimeout
      BY <1>1, <2>2 DEF HandleTxDone, DriveSendTimeout, PopHead, worldVars
    <2>3. CASE HandleCadBusy
      BY <1>1, <2>3 DEF HandleCadBusy, DeferHead, SentNow, CadNow, worldVars
    <2>4. CASE HandleCadFree BY <1>2, <2>4 DEF HandleCadFree, CadNow
    <2>5. CASE AcceptRx
      BY <1>1, <2>5 DEF AcceptRx, ringVars, stateVars, worldVars
    <2>6. CASE DriveNothing
      BY <2>6 DEF DriveNothing, Driven, ringVars, chipVars, worldVars
    <2>7. CASE DriveScan
      BY <2>7 DEF DriveScan, HeadIsDue, Driven, ringVars, worldVars
    <2>8. CASE DriveSend
      BY <1>2, <2>8 DEF DriveSend, HeadIsDue, Driven
    <2>9. CASE DriveScanTimeout
      BY <1>2, <2>9 DEF DriveScanTimeout, ScanTimedOut, Driven
    <2> QED BY <1>7, <2>1, <2>2, <2>3, <2>4, <2>5, <2>6, <2>7, <2>8, <2>9
            DEF Service
  <1> QED BY <1>3, <1>4, <1>5, <1>6, <1>7 DEF Next

\* One transmission after another, in the order of send(), and once each.
THEOREM AirIsInOrder == SafeSpec => []AiredInOrder
  <1> DEFINE OrderInv == HeadIsNext /\ AiredInOrder
  <1>1. Init => OrderInv BY DEF Init, HeadIsNext, AiredInOrder
  <1>2. ASSUME CoreInv, OrderInv, [Next]_vars
        PROVE  OrderInv'
    <2>1. /\ outcomes \in Seq(BOOLEAN) /\ aired \in Seq(Nat) /\ sleeps \in Nat
          /\ airing \in Nat /\ HeadIndex \in Nat
          /\ HeadIndex = Len(outcomes) + 1
      BY <1>2 DEF CoreInv, RingInv, RingTypeOK, ObjectTypeOK, HeadIndex
    <2>2. CASE /\ chip = "tx" /\ chip' # "tx" /\ aired' = Append(aired, airing)
               /\ UNCHANGED <<outcomes, slept, sleeps, txState>>
      <3>1. airing = HeadIndex /\ HeadIndex' = HeadIndex
        BY <1>2, <2>2 DEF HeadIsNext, HeadIndex
      <3>2. \A j \in DOMAIN aired :
               aired[j] < HeadIndex \/ (aired[j] = HeadIndex /\ sleeps > 0)
        BY <1>2, <2>1, <2>2 DEF HeadIsNext
      <3>3. \A j \in DOMAIN aired' : \/ j \in DOMAIN aired /\ aired'[j] = aired[j]
                                     \/ j = Len(aired) + 1 /\ aired'[j] = HeadIndex
        BY <2>1, <2>2, <3>1
      <3>4. AiredInOrder'
        BY <1>2, <2>1, <2>2, <3>2, <3>3 DEF AiredInOrder
      <3>5. (chip = "tx" /\ ~slept) => txState = "SENDING"
        BY <1>2 DEF CoreInv, ChipFollowsState
      <3>6. HeadIsNext'
        <4>1. slept => sleeps > 0 BY <1>2 DEF HeadIsNext
        <4>2. sleeps = 0 => ~slept BY <2>1, <4>1
        <4>3. sleeps = 0 => txState = "SENDING" BY <2>2, <3>5, <4>2
        <4>4. ASSUME NEW j \in DOMAIN aired'
              PROVE  /\ aired'[j] <= HeadIndex'
                     /\ (aired'[j] = HeadIndex' /\ sleeps' = 0) =>
                           txState' = "SENDING" /\ chip' # "tx"
          <5>1. aired'[j] = HeadIndex \/ (aired'[j] \in Nat /\ aired'[j] < HeadIndex)
            BY <2>1, <3>2, <3>3, <4>4
          <5> QED BY <2>1, <2>2, <3>1, <4>3, <5>1
        <4> QED BY <2>2, <4>1, <4>4 DEF HeadIsNext
      <3> QED BY <3>4, <3>6
    <2>3. CASE /\ UNCHANGED <<aired, slept, sleeps>> /\ chip' # "tx"
               /\ \E ok \in BOOLEAN : outcomes' = Append(outcomes, ok)
      <3>1. HeadIndex' = HeadIndex + 1 BY <2>1, <2>3 DEF HeadIndex
      <3>2. \A j \in DOMAIN aired : aired[j] \in Nat /\ aired[j] <= HeadIndex
        BY <1>2, <2>1 DEF HeadIsNext
      <3> QED BY <1>2, <2>1, <2>3, <3>1, <3>2 DEF HeadIsNext, AiredInOrder
    <2>4. CASE /\ txState # "SENDING" /\ airing' = HeadIndex
               /\ UNCHANGED <<outcomes, aired, slept, sleeps>>
      BY <1>2, <2>1, <2>4 DEF HeadIsNext, AiredInOrder, HeadIndex
    <2>5. CASE /\ UNCHANGED <<outcomes, aired>>
               /\ chip' = "tx" => chip = "tx" /\ airing' = airing
               /\ \/ /\ UNCHANGED <<slept, sleeps>>
                     /\ txState = "SENDING" => txState' = "SENDING"
                  \/ slept' /\ sleeps' = sleeps + 1
                  \/ slept /\ sleeps' = sleeps
      BY <1>2, <2>1, <2>5 DEF HeadIsNext, AiredInOrder, HeadIndex
    <2> QED BY <1>2, <2>2, <2>3, <2>4, <2>5, AirMoves
  <1>3. OrderInv => AiredInOrder OBVIOUS
  <1> QED BY <1>1, <1>2, <1>3, CoreHolds, PTL DEF SafeSpec

-----------------------------------------------------------------------------
(* The outbound side implements FrameQueue.                                *)

\* What a history still owes after its first o entries.
Rest(h, o, n) == [k \in 1 .. n |-> h[o + k]]

\* A sequence that is another one shifted by one is its tail.
LEMMA TailShifts ==
  ASSUME NEW s \in Seq(Nat), NEW t \in Seq(Nat), Len(s) > 0,
         Len(t) = Len(s) - 1, \A k \in 1 .. Len(s) - 1 : s[k + 1] = t[k]
  PROVE  Tail(s) = t
  <1>1. /\ Tail(s) \in Seq(Nat) /\ Len(Tail(s)) = Len(s) - 1
        /\ \A k \in 1 .. Len(s) - 1 : Tail(s)[k] = s[k + 1]
    BY HeadTailProperties, EmptySeq
  <1>2. \A k \in 1 .. Len(t) : Tail(s)[k] = t[k] BY <1>1
  <1> QED BY <1>1, <1>2, SeqEqual

\* The rest of a history grows with it, and shrinks from its front.
LEMMA RestMoves ==
  ASSUME NEW h \in Seq(Nat), NEW o \in Nat, NEW n \in Nat, Len(h) = o + n
  PROVE  /\ Rest(h, o, n) \in Seq(Nat) /\ Len(Rest(h, o, n)) = n
         /\ \A id \in Nat :
              Append(Rest(h, o, n), id) = Rest(Append(h, id), o, n + 1)
         /\ n > 0 => Tail(Rest(h, o, n)) = Rest(h, o + 1, n - 1)
  <1>1. \A k \in 1 .. n : o + k \in 1 .. Len(h) /\ h[o + k] \in Nat OBVIOUS
  <1>2. Rest(h, o, n) \in Seq(Nat) /\ Len(Rest(h, o, n)) = n
    BY <1>1 DEF Rest
  <1>3. ASSUME NEW id \in Nat
        PROVE  Append(Rest(h, o, n), id) = Rest(Append(h, id), o, n + 1)
    <2> DEFINE s == Rest(h, o, n)
               t == Rest(Append(h, id), o, n + 1)
    <2>1. \A k \in 1 .. n : Append(h, id)[o + k] = h[o + k] BY <1>1
    <2>2. Append(h, id)[o + (n + 1)] = id OBVIOUS
    <2>3. /\ t \in Seq(Nat) /\ Len(t) = n + 1
      <3>1. \A k \in 1 .. n + 1 : Append(h, id)[o + k] \in Nat
        BY <1>1, <2>1, <2>2
      <3> QED BY <3>1 DEF Rest
    <2>4. \A k \in 1 .. n : s[k] = t[k] BY <2>1 DEF Rest
    <2>5. t[n + 1] = id
      <3>1. n + 1 \in 1 .. n + 1 OBVIOUS
      <3>2. t[n + 1] = Append(h, id)[o + (n + 1)] BY <3>1 DEF Rest
      <3> QED BY <2>2, <3>2
    <2> HIDE DEF s, t
    <2>6. s \in Seq(Nat) /\ Len(s) = n BY <1>2 DEF s
    <2>7. Append(s, id) = t BY <2>3, <2>4, <2>5, <2>6
    <2> QED BY <2>7 DEF s, t
  <1>4. ASSUME n > 0 PROVE Tail(Rest(h, o, n)) = Rest(h, o + 1, n - 1)
    <2> DEFINE s == Rest(h, o, n)
               t == Rest(h, o + 1, n - 1)
    <2>1. \A k \in 1 .. n - 1 : s[k + 1] = t[k]
      <3>1. \A k \in 1 .. n - 1 : k + 1 \in 1 .. n /\ o + (k + 1) = (o + 1) + k
        OBVIOUS
      <3> QED BY <3>1 DEF Rest
    <2>2. t \in Seq(Nat) /\ Len(t) = n - 1
      <3>1. \A k \in 1 .. n - 1 : (o + 1) + k \in 1 .. Len(h) OBVIOUS
      <3> QED BY <1>4, <3>1 DEF Rest
    <2> HIDE DEF s, t
    <2>3. s \in Seq(Nat) /\ Len(s) = n BY <1>2 DEF s
    <2>4. Tail(s) = t BY <1>4, <2>1, <2>2, <2>3, TailShifts
    <2> QED BY <2>4 DEF s, t
  <1> QED BY <1>2, <1>3, <1>4

\* The ring holds what was accepted and has not left.
LEMMA RingIsRest ==
  ASSUME CoreInv
  PROVE  /\ RingContents = Rest(accepted, Len(outcomes), txCount)
         /\ accepted \in Seq(Nat) /\ Len(outcomes) \in Nat /\ txCount \in Nat
         /\ Len(accepted) = Len(outcomes) + txCount
  <1>1. /\ accepted \in Seq(PacketId) /\ outcomes \in Seq(BOOLEAN) /\ txCount \in Nat
        /\ NothingLostInRing
    BY TxRingAssumption DEF CoreInv, RingInv, RingTypeOK
  <1>2. accepted \in Seq(Nat) BY <1>1 DEF PacketId
  <1>3. ASSUME NEW k \in 1 .. txCount
        PROVE  txq[SlotAt(k - 1)].id = accepted[Len(outcomes) + k]
    <2>1. /\ k - 1 \in 0 .. txCount - 1
          /\ Len(outcomes) + (k - 1) + 1 = Len(outcomes) + k
      BY <1>1
    <2> QED BY <1>1, <2>1 DEF NothingLostInRing
  <1>4. RingContents = Rest(accepted, Len(outcomes), txCount)
    BY <1>3 DEF RingContents, Rest
  <1> QED BY <1>1, <1>2, <1>4 DEF NothingLostInRing

\* Ids are given out one by one, so none exceeds the number of frames accepted.
IdsCounted ==
  /\ lastId <= Len(accepted) /\ Len(accepted) <= MaxSends
  /\ frame <= lastId
  /\ \A i \in DOMAIN accepted : accepted[i] <= lastId

\* The ring changes as RingMoves says, and an id that is queued was given out.
LEMMA IdMoves ==
  ASSUME CoreInv, IdsCounted, [Next]_vars
  PROVE  /\ IdsCounted'
         /\ \A id \in PacketId, due \in BOOLEAN :
              EnqueueFrame(id, due) => id \in 1 .. MaxSends
  <1>t. /\ accepted \in Seq(Nat) /\ lastId \in Nat /\ frame \in Nat
        /\ MaxSends \in Nat
    BY RingIsRest, TransportAssumption DEF CoreInv, ObjectTypeOK
  <1>1. \A id : ~ (Append(accepted, id) = accepted)
    BY <1>t
  <1>2. CASE Send
    <2>1. /\ Len(accepted) < MaxSends /\ accepted' = Append(accepted, lastId + 1)
          /\ lastId' = lastId + 1 /\ frame' = lastId + 1
      BY <1>2 DEF Send, EnqueueFrame
    <2>2. IdsCounted' BY <1>t, <2>1 DEF IdsCounted
    <2>3. ASSUME NEW id \in PacketId, NEW due \in BOOLEAN, EnqueueFrame(id, due)
          PROVE  id \in 1 .. MaxSends
      <3>1. accepted' = Append(accepted, id) BY <2>3 DEF EnqueueFrame
      <3>2. id = lastId + 1 BY <1>t, <2>1, <3>1, AppendInjective DEF PacketId
      <3> QED BY <1>t, <2>1, <3>2 DEF IdsCounted
    <2> QED BY <2>2, <2>3
  <1>3. CASE Resend
    <2>1. /\ Len(accepted) < MaxSends /\ accepted' = Append(accepted, frame)
          /\ UNCHANGED <<lastId, frame>> /\ frame # 0
      BY <1>3 DEF Resend, EnqueueFrame, copyVars, NoId
    <2>2. IdsCounted' BY <1>t, <2>1 DEF IdsCounted
    <2>3. ASSUME NEW id \in PacketId, NEW due \in BOOLEAN, EnqueueFrame(id, due)
          PROVE  id \in 1 .. MaxSends
      <3>1. accepted' = Append(accepted, id) BY <2>3 DEF EnqueueFrame
      <3>2. id = frame
        <4>1. Append(accepted, id) = Append(accepted, frame) BY <2>1, <3>1
        <4>2. id \in Nat BY DEF PacketId
        <4> QED BY <1>t, <4>1, <4>2, AppendInjective
      <3> QED BY <1>t, <2>1, <3>2 DEF IdsCounted
    <2> QED BY <2>2, <2>3
  <1>4. CASE StartSending /\ txCount > 0
    <2>1. UNCHANGED <<accepted, lastId>> /\ frame' = HeadItem.id
      BY <1>4 DEF StartSending, ringVars, PopHead
    <2>2. HeadItem.id = accepted[Len(outcomes) + 1]
      <3>1. 0 \in 0 .. txCount - 1 /\ Len(outcomes) + 0 + 1 = Len(outcomes) + 1
        BY <1>4, RingIsRest
      <3>2. txHead \in Slot BY DEF CoreInv, RingInv, RingTypeOK
      <3> QED BY <3>1, <3>2, HeadSlot DEF CoreInv, RingInv, NothingLostInRing, HeadItem
    <2>3. Len(outcomes) + 1 \in DOMAIN accepted BY <1>4, <1>t, RingIsRest
    <2>4. IdsCounted' BY <2>1, <2>2, <2>3 DEF IdsCounted
    <2> QED BY <1>1, <2>1, <2>4 DEF EnqueueFrame
  <1>5. CASE UNCHANGED <<accepted, lastId, frame>>
    BY <1>1, <1>5 DEF IdsCounted, EnqueueFrame
  <1>6. CASE UNCHANGED vars BY <1>5, <1>6 DEF vars, ringVars, copyVars
  <1>7. CASE App /\ ~Send /\ ~Resend
    BY <1>5, <1>7 DEF App, Poll, Sleep, Wake, ringVars, copyVars
  <1>8. CASE Chip
    BY <1>5, <1>8 DEF Chip, RxCompletes, CadCompletes, TxCompletes, ringVars, copyVars
  <1>9. CASE Time
    BY <1>5, <1>9 DEF Time, ElapseFrame, ElapseState, FrameComesDue, ringVars, copyVars
  <1>10. CASE Service
    <2>1. CASE \/ ServiceBegin \/ ReadIrq \/ HandleTxDone \/ HandleCadBusy
               \/ HandleRxDone \/ AcceptRx \/ HandleNothing \/ DriveNothing
               \/ DriveScan \/ DriveSendTimeout
      BY <1>5, <2>1 DEF ServiceBegin, ReadIrq, HandleTxDone, HandleCadBusy,
         HandleRxDone, AcceptRx, HandleNothing, DriveNothing, DriveScan,
         DriveSendTimeout, PopHead, DeferHead, ringVars, copyVars
    <2>2. CASE HandleCadFree
      BY <1>4, <2>2 DEF HandleCadFree, CadNow, CoreInv, HeadHeld
    <2>3. CASE DriveSend BY <1>4, <2>3 DEF DriveSend, HeadIsDue
    <2>4. CASE DriveScanTimeout
      BY <1>4, <2>4 DEF DriveScanTimeout, ScanTimedOut, Driven, CoreInv, HeadHeld
    <2> QED BY <1>10, <2>1, <2>2, <2>3, <2>4 DEF Service
  <1> QED BY <1>2, <1>3, <1>6, <1>7, <1>8, <1>9, <1>10 DEF Next

\* Counting the frames sent in a history one outcome longer.
LEMMA SuccessesOfAppend ==
  ASSUME NEW s \in Seq(BOOLEAN), NEW b \in BOOLEAN
  PROVE  LET Successes(h) == Cardinality({i \in DOMAIN h : h[i]})
         IN  /\ b = TRUE => Successes(Append(s, b)) = Successes(s) + 1
             /\ b = FALSE => Successes(Append(s, b)) = Successes(s)
  <1> DEFINE F == {i \in DOMAIN s : s[i]}
             G == {i \in DOMAIN Append(s, b) : Append(s, b)[i]}
             L == Len(s)
  <1>1. L \in Nat /\ DOMAIN s = 1 .. L /\ DOMAIN Append(s, b) = 1 .. L + 1
    OBVIOUS
  <1>2. \A i \in 1 .. L : Append(s, b)[i] = s[i] OBVIOUS
  <1>3. Append(s, b)[L + 1] = b OBVIOUS
  <1>4. IsFiniteSet(F) /\ Cardinality(F) \in Nat
    <2>1. 1 \in Int /\ L \in Int /\ F \in SUBSET (1 .. L) BY <1>1
    <2> QED BY <2>1, FS_Interval, FS_Subset, FS_CardinalityType
  <1>5. L + 1 \notin F BY <1>1
  <1>6. CASE b = FALSE
    <2>1. G = F BY <1>1, <1>2, <1>3, <1>6
    <2> QED BY <1>6, <2>1
  <1>7. CASE b = TRUE
    <2>1. G = F \cup {L + 1} BY <1>1, <1>2, <1>3, <1>7
    <2>2. Cardinality(G) = Cardinality(F) + 1
      BY <1>4, <1>5, <2>1, FS_AddElement
    <2> QED BY <1>7, <2>2
  <1> QED BY <1>6, <1>7

\* So it does after a step.
LEMMA RingIsRestNext ==
  ASSUME CoreInv'
  PROVE  RingContents' = Rest(accepted', Len(outcomes'), txCount')
  <1>1. /\ accepted' \in Seq(PacketId) /\ outcomes' \in Seq(BOOLEAN)
        /\ txCount' \in Nat /\ NothingLostInRing'
    BY TxRingAssumption DEF CoreInv, RingInv, RingTypeOK
  <1>2. ASSUME NEW k \in 1 .. txCount'
        PROVE  txq'[SlotAt(k - 1)'].id = accepted'[Len(outcomes') + k]
    <2>1. /\ k - 1 \in 0 .. txCount' - 1
          /\ Len(outcomes') + (k - 1) + 1 = Len(outcomes') + k
      <3>1. Len(outcomes') \in Nat /\ txCount' \in Nat BY <1>1
      <3>2. \A o \in Nat, n \in Nat : \A j \in 1 .. n :
              j - 1 \in 0 .. n - 1 /\ o + (j - 1) + 1 = o + j
        OBVIOUS
      <3> QED BY <3>1, <3>2
    <2> QED BY <1>1, <2>1 DEF NothingLostInRing
  <1> QED BY <1>2 DEF RingContents, Rest

\* The frames sent, of those that left the ring.
SentCount == Cardinality({i \in DOMAIN outcomes : outcomes[i]})

\* begin() hands over an empty queue.
LEMMA OutboundInit ==
  ASSUME Init
  PROVE  Outbound!Init
  <1>1. txCount = 0 /\ outcomes = <<>> /\ txDropped = 0 BY DEF Init, RingInit
  <1>2. RingContents = <<>> BY <1>1 DEF RingContents
  <1>3. {i \in DOMAIN outcomes : outcomes[i]} = {} BY <1>1
  <1>4. Cardinality({i \in DOMAIN outcomes : outcomes[i]}) = 0
    BY <1>3, FS_EmptySet
  <1> QED BY <1>1, <1>2, <1>4 DEF Outbound!Init

\* Every step of the transport accepts one frame at the back, lets one leave
\* at the front, or changes nothing a caller of send() is promised.
LEMMA OutboundStep ==
  ASSUME CoreInv, CoreInv', IdsCounted, [Next]_vars
  PROVE  [Outbound!Next]_(Outbound!vars)
  <1>1. /\ RingContents = Rest(accepted, Len(outcomes), txCount)
        /\ RingContents' = Rest(accepted', Len(outcomes'), txCount')
        /\ accepted \in Seq(Nat) /\ Len(outcomes) \in Nat /\ txCount \in Nat
        /\ Len(accepted) = Len(outcomes) + txCount
        /\ outcomes \in Seq(BOOLEAN)
    BY RingIsRest, RingIsRestNext DEF CoreInv, RingInv, RingTypeOK
  <1>2. Len(RingContents) = txCount BY <1>1, RestMoves
  <1>3. CASE UNCHANGED <<accepted, outcomes, txCount>>
    <2>1. RingContents' = RingContents BY <1>1, <1>3
    <2>2. txDropped' = txDropped
      <3>1. \A ok : ~ PopHead(ok)
        <4>1. txCount - 1 # txCount BY <1>1
        <4> QED BY <1>3, <4>1 DEF PopHead
      <3> QED BY <3>1, OutcomeMoves
    <2> QED BY <1>3, <2>1, <2>2 DEF Outbound!vars
  <1>4. CASE \E id \in PacketId, due \in BOOLEAN : EnqueueFrame(id, due)
    <2>1. PICK id \in PacketId, due \in BOOLEAN : EnqueueFrame(id, due) BY <1>4
    <2>2. /\ txCount < TXQ_N /\ accepted' = Append(accepted, id)
          /\ outcomes' = outcomes /\ txCount' = txCount + 1
      BY <2>1 DEF EnqueueFrame, HasRoom
    <2>3. id \in 1 .. MaxSends BY <2>1, IdMoves
    <2>4. id \in Nat BY DEF PacketId
    <2>5. RingContents' = Append(RingContents, id)
      BY <1>1, <2>2, <2>4, RestMoves
    <2>6. txDropped' = txDropped
      <3>1. \A ok : ~ PopHead(ok)
        <4>1. txCount - 1 # txCount + 1 BY <1>1
        <4> QED BY <2>2, <4>1 DEF PopHead
      <3> QED BY <3>1, OutcomeMoves
    <2>7. Outbound!Accept BY <1>2, <2>2, <2>3, <2>5, <2>6 DEF Outbound!Accept
    <2> QED BY <2>7 DEF Outbound!Next
  <1>5. CASE txCount > 0 /\ \E ok \in BOOLEAN : PopHead(ok)
    <2>1. PICK ok \in BOOLEAN : PopHead(ok) BY <1>5
    <2>2. /\ accepted' = accepted /\ txCount' = txCount - 1
          /\ outcomes' = Append(outcomes, ok)
      BY <2>1 DEF PopHead
    <2>3. Len(outcomes') = Len(outcomes) + 1 BY <1>1, <2>2
    <2>4. RingContents' = Tail(RingContents)
      <3>1. Tail(Rest(accepted, Len(outcomes), txCount))
              = Rest(accepted, Len(outcomes) + 1, txCount - 1)
        BY <1>1, <1>5, RestMoves
      <3> QED BY <1>1, <2>2, <2>3, <3>1
    <2>5. RingContents # <<>> BY <1>2, <1>5
    <2>6. \/ ok = TRUE /\ txDropped' = txDropped
          \/ ok = FALSE /\ txDropped' = txDropped + 1
      <3>1. Append(outcomes, ok)[Len(outcomes) + 1] = ok
        BY <1>1
      <3>2. \A b \in BOOLEAN : PopHead(b) => b = ok
        <4> SUFFICES ASSUME NEW b \in BOOLEAN, PopHead(b) PROVE b = ok
          OBVIOUS
        <4>1. Append(outcomes, b)[Len(outcomes) + 1] = b BY <1>1
        <4>2. Append(outcomes, b) = Append(outcomes, ok)
          BY <2>2 DEF PopHead
        <4> QED BY <3>1, <4>1, <4>2
      <3>3. outcomes' # outcomes
        <4>1. Len(outcomes) + 1 # Len(outcomes) BY <1>1
        <4> QED BY <2>3, <4>1
      <3>4. \/ PopHead(TRUE) /\ txDropped' = txDropped
            \/ PopHead(FALSE) /\ txDropped' = txDropped + 1
        BY <3>3, OutcomeMoves DEF CountDrop
      <3> QED BY <3>2, <3>4
    <2>7. /\ ok = TRUE => SentCount' = SentCount + 1
          /\ ok = FALSE => SentCount' = SentCount
      BY <1>1, <2>2, SuccessesOfAppend DEF SentCount
    <2>8. Outbound!Leave
      BY <2>4, <2>5, <2>6, <2>7 DEF Outbound!Leave, SentCount
    <2> QED BY <2>8 DEF Outbound!Next
  <1> QED BY <1>3, <1>4, <1>5, RingMoves DEF ringVars, DeferHead, FrameComesDue

\* Without its fairness, FrameQueue is implemented: for every size of the ring
\* and every failure of the radio, what a caller of send() sees is a bounded
\* FIFO whose frames leave exactly once, sent or counted as dropped.
THEOREM OutboundIsQueue == SafeSpec => Outbound!SafeSpec
  <1>1. Init => IdsCounted
    BY TransportAssumption DEF Init, RingInit, IdsCounted, NoId
  <1>2. CoreInv /\ IdsCounted /\ [Next]_vars => IdsCounted' BY IdMoves
  <1>3. CoreInv /\ CoreInv' /\ IdsCounted /\ [Next]_vars
          => [Outbound!Next]_(Outbound!vars)
    BY OutboundStep
  <1>4. Init => Outbound!Init BY OutboundInit
  <1> QED BY <1>1, <1>2, <1>3, <1>4, CoreHolds, PTL
      DEF SafeSpec, Outbound!SafeSpec
=============================================================================
