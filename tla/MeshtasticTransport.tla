------------------------ MODULE MeshtasticTransport -------------------------
(***************************************************************************)
(* The radio transport: one SX1262, one application loop, one interrupt.   *)
(*                                                                         *)
(* The application (a single thread) calls send(), resend(), poll(),       *)
(* sleep(), wake() and service().  The chip works on its own and raises    *)
(* DIO1; the interrupt handler only sets radioEvent.  service() is the one *)
(* place where the two meet, so it is not atomic here: the chip may raise  *)
(* DIO1 between any two of its phases                                      *)
(*                                                                         *)
(*    app -> irq -> handle [-> rearm] -> drive -> app                      *)
(*                                                                         *)
(* where a pass that finds no event goes from app to drive directly.       *)
(*                                                                         *)
(* Instants are abstract.  Each queued frame has a flag due (txAfter has   *)
(* passed), and txExpired says that _txStateMs is further back than the    *)
(* limit of the current state (200 ms scanning, 5000 ms sending).  Time    *)
(* may set them at any moment, which covers every choice of delays and     *)
(* every race of a timeout with a late answer.                             *)
(***************************************************************************)
EXTENDS TxRing, RxPath, FiniteSets

CONSTANTS
  Traffic,               \* frames the air may carry to us
  FailingOps,            \* radio operations that may fail in this instance
  MaxSends,              \* bound: frames the application gets accepted
  MaxArrivals,           \* bound: frames that arrive
  MaxSleeps              \* bound: times the application sleeps

FailingOp == {"startReceive", "startTransmit", "startChannelScan", "sleep",
              "standby", "dio1"}

ASSUME TransportAssumption == /\ Traffic \subseteq RxFrame
                              /\ FailingOps \subseteq FailingOp
                              /\ MaxSends \in Nat
                              /\ MaxArrivals \in Nat
                              /\ MaxSleeps \in Nat

VARIABLES
  \* the chip
  chip,                  \* what it is doing
  irq,                   \* its interrupt status register
  rxBuf,                 \* the last frame it completed
  airing,                \* accepted-order index of the frame in its TX buffer
  \* shared with the interrupt handler
  radioEvent,            \* _radioEvent
  \* service()
  pc,                    \* the phase it is in; "app" when it is not running
  irqRead,               \* its local irq
  rxRead,                \* its local raw
  \* the application
  slept,                 \* it has called sleep() and not yet woken the radio
  \* the rest of the object
  txState,               \* _txState
  txExpired,             \* _txStateMs is older than the state allows
  frame,                 \* id of the copy kept in _frame, NoId when empty
  lastId,                \* _lastId
  csmaDeferrals, txFailStreak, txDropped, rxDroppedByTx,
  \* history
  aired,                 \* accepted-order indices that went on air, in order
  arrivals,              \* frames the chip has completed
  sleeps                 \* times sleep() was called

chipVars    == <<chip, irq, rxBuf, airing>>
serviceVars == <<pc, irqRead, rxRead, slept>>
stateVars   == <<txState, txExpired>>
copyVars    == <<frame, lastId>>
counterVars == <<csmaDeferrals, txFailStreak, txDropped, rxDroppedByTx>>
worldVars   == <<aired, arrivals, sleeps>>

vars == <<ringVars, rxVars, chipVars, radioEvent, serviceVars, stateVars,
          copyVars, counterVars, worldVars>>

ChipMode == {"standby", "rx", "cad", "tx", "sleep"}
IrqFlag  == {"RX_DONE", "TX_DONE", "CAD_DONE", "CAD_DETECTED"}
TxState  == {"IDLE", "WAITING", "SCANNING", "SENDING"}
Phase    == {"app", "irq", "handle", "rearm", "drive"}

NoFrame == [from |-> Self, id |-> 0, to |-> Self, ok |-> FALSE]

\* begin() succeeded: RX is armed (or, if startReceive failed, it is not).
Init ==
  /\ RingInit /\ RxInit
  /\ \/ chip = "rx"
     \/ "startReceive" \in FailingOps /\ chip = "standby"
  /\ irq = {} /\ rxBuf = NoFrame /\ airing = 0
  /\ radioEvent = FALSE
  /\ pc = "app" /\ irqRead = {} /\ rxRead = NoFrame /\ slept = FALSE
  /\ txState = "IDLE" /\ txExpired = FALSE
  /\ frame = NoId /\ lastId = NoId
  /\ csmaDeferrals = 0 /\ txFailStreak = 0
  /\ txDropped = 0 /\ rxDroppedByTx = 0
  /\ aired = <<>> /\ arrivals = 0 /\ sleeps = 0

-----------------------------------------------------------------------------
(* The chip, as the code relies on it (RadioLib and the SX1262 are outside *)
(* the repository).                                                        *)

MayFail(op) == op \in FailingOps

\* DIO1 follows the status register and _onDio1Rx() runs on its rising edge.
\* A glitch may lose the edge ("dio1"), which the timeouts exist for.
RaiseDio1(rising) ==
  \/ radioEvent' = (radioEvent \/ rising)
  \/ MayFail("dio1") /\ UNCHANGED radioEvent

\* A frame completes while the chip listens.  Reception is continuous: the
\* chip stays in RX and the next frame overwrites the buffer.
RxCompletes(f) ==
  /\ chip = "rx" /\ arrivals < MaxArrivals
  /\ rxBuf' = f
  /\ irq' = irq \cup {"RX_DONE"}
  /\ RaiseDio1("RX_DONE" \notin irq)
  /\ arrivals' = arrivals + 1
  /\ UNCHANGED <<ringVars, rxVars, chip, airing, serviceVars, stateVars,
                 copyVars, counterVars, aired, sleeps>>

\* Channel activity detection ends in standby.
CadCompletes(detected) ==
  /\ chip = "cad"
  /\ chip' = "standby"
  /\ irq' = {"CAD_DONE"} \cup (IF detected THEN {"CAD_DETECTED"} ELSE {})
  /\ RaiseDio1(TRUE)
  /\ UNCHANGED <<ringVars, rxVars, rxBuf, airing, serviceVars, stateVars,
                 copyVars, counterVars, worldVars>>

\* The frame has left the antenna.
TxCompletes ==
  /\ chip = "tx"
  /\ chip' = "standby"
  /\ irq' = {"TX_DONE"}
  /\ aired' = Append(aired, airing)
  /\ RaiseDio1(TRUE)
  /\ UNCHANGED <<ringVars, rxVars, rxBuf, airing, serviceVars, stateVars,
                 copyVars, counterVars, arrivals, sleeps>>

\* Mutant: the re-arm is forgotten.
ArmRxForgotten(left) == UNCHANGED <<chip, irq>>

\* startReceive() clears the status register and listens.  If it fails the
\* chip is in standby or still listening, and the register is cleared or as
\* the caller left it.
ArmRx(left) ==
  \/ chip' = "rx" /\ irq' = {}
  \/ /\ MayFail("startReceive")
     /\ chip' \in {"standby"} \cup ({chip} \cap {"rx"})
     /\ irq' \in {{}, left}

-----------------------------------------------------------------------------
(* Transmit.                                                               *)

\* Mutant: a path that abandons a frame does not count it.
CountDropStreakOnly ==
  /\ txFailStreak' = txFailStreak + 1
  /\ UNCHANGED txDropped

\* The frame at the head is given up after send() had returned true.
CountDrop ==
  /\ txFailStreak' = txFailStreak + 1
  /\ txDropped' = txDropped + 1

\* startSending(): put the head on air.  Whatever the chip had received and
\* nobody read is destroyed, and counted.
StartSending ==
  /\ frame' = HeadItem.id
  /\ rxDroppedByTx' = rxDroppedByTx + (IF "RX_DONE" \in irq THEN 1 ELSE 0)
  /\ \/ /\ chip' = "tx" /\ irq' = {} /\ airing' = HeadIndex
        /\ txState' = "SENDING" /\ txExpired' = FALSE
        /\ UNCHANGED <<ringVars, txFailStreak, txDropped>>
     \/ /\ MayFail("startTransmit")
        /\ CountDrop
        /\ PopHead(FALSE)
        /\ txState' = "IDLE" /\ txExpired' = FALSE
        /\ ArmRx(irq)
        /\ UNCHANGED airing
  /\ UNCHANGED <<rxVars, rxBuf, radioEvent, irqRead, rxRead, slept, lastId,
                 csmaDeferrals, worldVars>>

-----------------------------------------------------------------------------
(* service(): one interrupt, then the state machine.                       *)

\* The application is between calls, and has not put the radio to sleep.
AtApp == pc = "app" /\ ~slept

\* The flag is taken down before the status register is read.
ServiceBegin ==
  /\ AtApp
  /\ pc' = IF radioEvent THEN "irq" ELSE "drive"
  /\ radioEvent' = FALSE
  /\ UNCHANGED <<ringVars, rxVars, chipVars, irqRead, rxRead, slept, stateVars,
                 copyVars, counterVars, worldVars>>

ReadIrq ==
  /\ pc = "irq"
  /\ irqRead' = irq
  /\ pc' = "handle"
  /\ UNCHANGED <<ringVars, rxVars, chipVars, radioEvent, rxRead, slept, stateVars,
                 copyVars, counterVars, worldVars>>

\* Mutant: any event is taken for the end of the transmission.
SentNowAnyEvent == txState = "SENDING"

SentNow == txState = "SENDING" /\ "TX_DONE" \in irqRead
CadNow  == txState = "SCANNING" /\ irqRead \cap {"CAD_DONE", "CAD_DETECTED"} # {}
RxNow   == ~SentNow /\ ~CadNow /\ "RX_DONE" \in irqRead

\* Mutant: a success leaves the streak alone.
KeepStreak == UNCHANGED txFailStreak

ClearStreak == txFailStreak' = 0

\* TX done: the frame left, forget it.
HandleTxDone ==
  /\ pc = "handle" /\ SentNow
  /\ PopHead(TRUE)
  /\ ClearStreak
  /\ txState' = "IDLE" /\ txExpired' = FALSE
  /\ ArmRx({})
  /\ pc' = "drive"
  /\ UNCHANGED <<rxVars, rxBuf, airing, radioEvent, irqRead, rxRead, slept, copyVars,
                 csmaDeferrals, txDropped, rxDroppedByTx, worldVars>>

\* CAD heard a preamble: listen, and try the same frame later.
HandleCadBusy ==
  /\ pc = "handle" /\ ~SentNow /\ CadNow /\ "CAD_DETECTED" \in irqRead
  /\ csmaDeferrals' = csmaDeferrals + 1
  /\ \E due \in BOOLEAN : DeferHead(due)
  /\ txState' = "WAITING" /\ txExpired' = FALSE
  /\ ArmRx(irq)
  /\ pc' = "drive"
  /\ UNCHANGED <<rxVars, rxBuf, airing, radioEvent, irqRead, rxRead, slept, copyVars,
                 txFailStreak, txDropped, rxDroppedByTx, worldVars>>

\* The channel is free: go.
HandleCadFree ==
  /\ pc = "handle" /\ ~SentNow /\ CadNow /\ "CAD_DETECTED" \notin irqRead
  /\ StartSending
  /\ pc' = "drive"

\* First half of handleRxDone(): readData empties the status register.
HandleRxDone ==
  /\ pc = "handle" /\ RxNow
  /\ rxRead' = rxBuf
  /\ irq' = {}
  /\ pc' = "rearm"
  /\ UNCHANGED <<ringVars, rxVars, chip, rxBuf, airing, radioEvent, irqRead,
                 slept, stateVars, copyVars, counterVars, worldVars>>

\* Second half: re-arm, then filter, dedupe and queue.
AcceptRx ==
  /\ pc = "rearm"
  /\ ArmRx(irq)
  /\ Accept(rxRead)
  /\ pc' = "drive"
  /\ UNCHANGED <<ringVars, rxBuf, airing, radioEvent, irqRead, rxRead, slept,
                 stateVars, copyVars, counterVars, worldVars>>

\* An event nobody can place: the flag was stale, or the cause is gone.
HandleNothing ==
  /\ pc = "handle" /\ ~SentNow /\ ~CadNow /\ ~RxNow
  /\ pc' = "drive"
  /\ UNCHANGED <<ringVars, rxVars, chipVars, radioEvent, irqRead, rxRead, slept,
                 stateVars, copyVars, counterVars, worldVars>>
-----------------------------------------------------------------------------
(* driveTx(): advance the state machine by time.                           *)

\* The state once an idle machine has noticed a queued frame.
Driven == IF txState = "IDLE" /\ txCount > 0 THEN "WAITING" ELSE txState

HeadIsDue  == Driven = "WAITING" /\ txCount > 0 /\ HeadItem.due
FailOpen   == HeadItem.attempts >= MaxAttempts

\* Mutant: the flag is taken down again on the way out.
LeaveClearingFlag == pc' = "app" /\ radioEvent' = FALSE

LeaveService == pc' = "app" /\ UNCHANGED radioEvent

\* Nothing to do yet; a WAITING machine with an empty ring goes idle.
DriveNothing ==
  /\ pc = "drive"
  /\ ~HeadIsDue
  /\ Driven \in {"SCANNING", "SENDING"} => ~txExpired
  /\ txState' = IF txCount = 0 /\ Driven = "WAITING" THEN "IDLE" ELSE Driven
  /\ LeaveService
  /\ UNCHANGED <<ringVars, rxVars, chipVars, irqRead, rxRead, slept,
                 txExpired, copyVars, counterVars, worldVars>>

\* Listen before talking.  Starting a scan stands the chip by and clears its
\* status register.
DriveScan ==
  /\ pc = "drive" /\ HeadIsDue /\ ~FailOpen
  /\ chip' = "cad" /\ irq' = {}
  /\ txState' = "SCANNING" /\ txExpired' = FALSE
  /\ LeaveService
  /\ UNCHANGED <<ringVars, rxVars, rxBuf, airing, irqRead, rxRead, slept,
                 copyVars, counterVars, worldVars>>

\* Too many busy scans, or a scan that would not start: send regardless.
DriveSend ==
  /\ pc = "drive" /\ HeadIsDue
  /\ FailOpen \/ MayFail("startChannelScan")
  /\ StartSending
  /\ pc' = "app"

\* Mutants: the scan timeout ignores the state; the send timeout is missing.
TimedOutAnyState == txExpired
TimeoutNever     == FALSE

ScanTimedOut == Driven = "SCANNING" /\ txExpired
SendTimedOut == Driven = "SENDING" /\ txExpired

\* The end of the scan never showed: stop waiting for it.
DriveScanTimeout ==
  /\ pc = "drive" /\ ScanTimedOut
  /\ StartSending
  /\ pc' = "app"

\* The end of the transmission never showed: abandon the frame.
DriveSendTimeout ==
  /\ pc = "drive" /\ SendTimedOut
  /\ CountDrop
  /\ PopHead(FALSE)
  /\ txState' = "IDLE" /\ txExpired' = FALSE
  /\ ArmRx({})
  /\ LeaveService
  /\ UNCHANGED <<rxVars, rxBuf, airing, irqRead, rxRead, slept, copyVars,
                 csmaDeferrals, rxDroppedByTx, worldVars>>
-----------------------------------------------------------------------------
(* The application's calls.                                                *)

\* send() builds a frame under a fresh id and queues it.  A refusal (full
\* ring, bad size) changes nothing.
Send ==
  /\ AtApp /\ Len(accepted) < MaxSends
  /\ \E due \in BOOLEAN : EnqueueFrame(lastId + 1, due)
  /\ lastId' = lastId + 1
  /\ frame' = lastId + 1
  /\ UNCHANGED <<rxVars, chipVars, radioEvent, serviceVars, stateVars,
                 counterVars, worldVars>>

\* resend() queues the copy in _frame once more, under the id it has.
Resend ==
  /\ AtApp /\ Len(accepted) < MaxSends
  /\ frame # NoId
  /\ \E due \in BOOLEAN : EnqueueFrame(frame, due)
  /\ UNCHANGED <<rxVars, chipVars, radioEvent, serviceVars, stateVars,
                 copyVars, counterVars, worldVars>>

Poll ==
  /\ AtApp
  /\ PopRx
  /\ UNCHANGED <<ringVars, chipVars, radioEvent, serviceVars, stateVars,
                 copyVars, counterVars, worldVars>>

\* sleep() stops the chip, whatever it was doing; a failure leaves it so.
Sleep ==
  /\ AtApp /\ sleeps < MaxSleeps
  /\ \/ chip' = "sleep" /\ irq' = {}
     \/ MayFail("sleep") /\ UNCHANGED <<chip, irq>>
  /\ slept' = TRUE
  /\ sleeps' = sleeps + 1
  /\ UNCHANGED <<ringVars, rxVars, rxBuf, airing, radioEvent, pc, irqRead,
                 rxRead, stateVars, copyVars, counterVars, aired, arrivals>>

\* Mutant: a chip that did not go to sleep is not stood by.
StandByIfAsleep ==
  /\ chip' = IF chip = "sleep" THEN "standby" ELSE chip
  /\ slept' = FALSE

StandBy ==
  \/ chip' = "standby" /\ slept' = FALSE
  \/ MayFail("standby") /\ UNCHANGED <<chip, slept>>

\* wake() restarts the state machine whether or not the chip answers; the
\* application tries again when it does not.
Wake ==
  /\ slept
  /\ txState' = "IDLE" /\ txExpired' = FALSE
  /\ StandBy
  /\ UNCHANGED <<ringVars, rxVars, irq, rxBuf, airing, radioEvent, pc, irqRead,
                 rxRead, copyVars, counterVars, worldVars>>

-----------------------------------------------------------------------------
(* Time.                                                                   *)

ElapseFrame ==
  /\ FrameComesDue
  /\ UNCHANGED <<rxVars, chipVars, radioEvent, serviceVars, stateVars,
                 copyVars, counterVars, worldVars>>

ElapseState ==
  /\ txState \in {"SCANNING", "SENDING"} /\ ~txExpired
  /\ txExpired' = TRUE
  /\ UNCHANGED <<ringVars, rxVars, chipVars, radioEvent, serviceVars, txState,
                 copyVars, counterVars, worldVars>>

-----------------------------------------------------------------------------
Service ==
  \/ ServiceBegin \/ ReadIrq
  \/ HandleTxDone \/ HandleCadBusy \/ HandleCadFree
  \/ HandleRxDone \/ AcceptRx \/ HandleNothing
  \/ DriveNothing \/ DriveScan \/ DriveSend
  \/ DriveScanTimeout \/ DriveSendTimeout

Chip == \/ \E f \in Traffic : RxCompletes(f)
        \/ \E detected \in BOOLEAN : CadCompletes(detected)
        \/ TxCompletes

App == Send \/ Resend \/ Poll \/ Sleep \/ Wake

Time == ElapseFrame \/ ElapseState

Next == App \/ Service \/ Chip \/ Time

\* The application calls service() on every pass of its loop and wakes what it
\* put to sleep; time passes.  Nothing is assumed of the chip: it may never
\* complete what it was asked to do, nor is anything assumed of send().
Fairness == /\ WF_vars(Service) /\ WF_vars(Wake)
            /\ WF_vars(ElapseFrame) /\ WF_vars(ElapseState)

SafeSpec == Init /\ [][Next]_vars
Spec == SafeSpec /\ Fairness

-----------------------------------------------------------------------------
(* What makes it correct.                                                  *)

ObjectTypeOK ==
  /\ chip \in ChipMode /\ irq \in SUBSET IrqFlag
  /\ rxBuf \in RxFrame /\ airing \in Nat
  /\ radioEvent \in BOOLEAN
  /\ pc \in Phase /\ irqRead \in SUBSET IrqFlag /\ rxRead \in RxFrame
  /\ slept \in BOOLEAN
  /\ txState \in TxState /\ txExpired \in BOOLEAN
  /\ frame \in Nat /\ lastId \in Nat
  /\ csmaDeferrals \in Nat /\ txFailStreak \in Nat
  /\ txDropped \in Nat /\ rxDroppedByTx \in Nat
  /\ aired \in Seq(Nat) /\ arrivals \in Nat /\ sleeps \in Nat

\* Every variable stays in its type.  It also says that the uint8_t counters
\* never wrap: no frame is popped from an empty ring (txCount), and no frame
\* is deferred more than MaxAttempts times (attempts).
TypeOK == RingTypeOK /\ RxTypeOK /\ ObjectTypeOK

\* txDropped() "is the only counter that can contradict" send(): it counts
\* exactly the accepted frames that left the ring without being sent, on every
\* path that abandons one.
DropsAreCounted ==
  txDropped = Cardinality({i \in DOMAIN outcomes : ~outcomes[i]})

\* txFailStreak(), which feeds the application's watchdog, is the length of
\* the run of failures at the end of the history: a success clears it, every
\* failed frame adds one, and nothing else touches it.
StreakIsTrailingFailures ==
  /\ txFailStreak <= Len(outcomes)
  /\ \A i \in DOMAIN outcomes :
        i > Len(outcomes) - txFailStreak => ~outcomes[i]
  /\ txFailStreak < Len(outcomes) => outcomes[Len(outcomes) - txFailStreak]

\* A frame removed as sent did leave the antenna: no stale interrupt of an
\* earlier frame, of a scan or of a reception is taken for its TX done.
SentWasAired ==
  \A i \in DOMAIN outcomes : outcomes[i] => \E j \in DOMAIN aired : aired[j] = i

\* Frames go on air in the order they were accepted, and none twice, unless
\* the application put the radio to sleep before the code saw the frame go.
AiredInOrder ==
  \A i, j \in DOMAIN aired :
     i < j => \/ aired[i] < aired[j]
              \/ aired[i] = aired[j] /\ sleeps > 0

\* While busy() is false the radio is neither scanning nor transmitting, so an
\* application that asks first may sleep; and while the chip transmits, the
\* frame in its buffer is the one at the head of the ring.
BusyCoversTheAir ==
  ~slept => /\ chip = "cad" => txState = "SCANNING" /\ txCount > 0
            /\ chip = "tx" => /\ txState = "SENDING" /\ txCount > 0
                              /\ airing = HeadIndex

\* No lost wake-up between the interrupt handler and service(): a received
\* frame nobody has read is either flagged, or is being read in this pass.
\* (For a chip whose edges arrive: "dio1" not in FailingOps.)
ReceptionIsFlagged ==
  ("RX_DONE" \in irq /\ pc \in {"app", "drive"}) => radioEvent

\* Between two passes, a radio that has nothing on air is listening, whatever
\* became of the last scan or transmission.  (Until it first sleeps: WakeRearms
\* below says what happens then.  For a radio whose startReceive() works.)
ListensWhenIdle ==
  (pc = "app" /\ sleeps = 0 /\ txState \in {"IDLE", "WAITING"}) => chip = "rx"

\* The outbound side is a FIFO of frames that leave exactly once, sent or
\* counted as dropped; and, though the chip may never answer and the channel
\* may be busy for ever, every accepted frame does leave.
Outbound == INSTANCE FrameQueue WITH
  Capacity <- TXQ_N,
  PacketId <- 1 .. MaxSends,
  queue    <- RingContents,
  sent     <- Cardinality({i \in DOMAIN outcomes : outcomes[i]}),
  dropped  <- txDropped

OutboundSpec == Outbound!Spec

-----------------------------------------------------------------------------
(* What the sources say and the code does not do.                          *)

\* MeshtasticTransport.cpp:74: "wake() re-arms after sleep".
WakeRearms == (sleeps > 0 /\ AtApp /\ chip = "standby") ~> chip = "rx"
=============================================================================
