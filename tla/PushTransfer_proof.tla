------------------------- MODULE PushTransfer_proof -------------------------
(***************************************************************************)
(* What push() and the device guarantee for payloads of any size, any      *)
(* number of versions, and an air that may lose, repeat and reorder: types,*)
(* that push() resolves with one whole payload, and that a device lets go  *)
(* of a payload only when a receiver has held it.                          *)
(***************************************************************************)
EXTENDS PushTransfer, FiniteSetTheorems, WellFoundedInduction, TLAPS

\* The receiver's counters stop short of their bounds until it fails, its
\* chunks are finitely many, and it is done only with a manifest.
ReceiverInv ==
  /\ ReceiverTypeOK
  /\ IsFiniteSet(DOMAIN chunks)
  /\ failed = None => unanswered < MaxUnanswered /\ staleRounds < MaxStale
  /\ rstate = "done" => manifest # None

\* A COMPLETE is only ever put together for a payload that was held whole.
Vouched == /\ \A v \in Version : Complete(v) \in down => v \in heldWhole
           /\ \A v \in Version : out = Complete(v) => v \in heldWhole

\* Types of the call to push().
ClientTypeOK ==
  /\ phase \in {"idle", "stat", "loop", "emitting", "resolved", "rejected"}
  /\ out \in Requests \cup {None}
  /\ phase = "emitting" => out # None
  /\ returned = None \/ \A i \in DOMAIN returned : returned[i] \in Version

\* Types of the device, and what it plans to send is part of what it holds.
DeviceTypeOK ==
  /\ dev \in [held : Version \cup {None}, upst : UpSt, plan : SUBSET AllSeqs,
              manifestDue : BOOLEAN]
  /\ dev.held = None => dev.upst = "idle"
  /\ dev.held # None => dev.plan \subseteq Seqs(dev.held)

\* Types of the frames on their way.
AirTypeOK == down \subseteq Requests /\ up \subseteq Uplink /\ losses \in Nat

\* Types of the bounds and of the histories.
CountersTypeOK ==
  /\ pushes \in 0 .. MaxPushes /\ publishes \in 0 .. MaxPublishes
  /\ heldWhole \subseteq Version /\ released \subseteq Version

\* The inductive invariant behind the type and the safety properties.
PushInv ==
  /\ ReceiverInv /\ ClientTypeOK /\ DeviceTypeOK /\ AirTypeOK /\ CountersTypeOK
  /\ Vouched /\ ReleasedWasHeld /\ NeverABlend

-----------------------------------------------------------------------------
(* Frames and sets of chunks.                                              *)

\* A payload has chunks, and is not null.
LEMMA VersionFacts ==
  ASSUME NEW v \in Version
  PROVE  /\ Count[v] \in Nat \ {0} /\ v # None
         /\ Seqs(v) \subseteq AllSeqs /\ Seqs(v) \subseteq Nat
  BY ReceiverAssumption DEF Seqs, AllSeqs

\* What the frames of the uplink carry.
LEMMA FrameTypes ==
  /\ \A f \in Uplink :
       \/ f.type = "chunk" /\ f.seq \in AllSeqs /\ f.data \in Version
       \/ f.type = "manifest" /\ f.crc \in Version
       \/ f.type = "progress" /\ f.done \in BOOLEAN
  /\ \A v \in Version : Manifest(v) \in Uplink
  /\ \A v \in Version : \A i \in Seqs(v) : Chunk(i, v) \in Uplink
  /\ \A d \in BOOLEAN : Progress(d) \in Uplink
  <1>1. ASSUME NEW f \in Uplink
        PROVE  \/ f.type = "chunk" /\ f.seq \in AllSeqs /\ f.data \in Version
               \/ f.type = "manifest" /\ f.crc \in Version
               \/ f.type = "progress" /\ f.done \in BOOLEAN
    <2>1. CASE f \in UNION {{Chunk(i, v) : i \in Seqs(v)} : v \in Version}
      <3>1. PICK v \in Version : \E i \in Seqs(v) : f = Chunk(i, v) BY <2>1
      <3>2. Seqs(v) \subseteq AllSeqs BY VersionFacts
      <3> QED BY <3>1, <3>2 DEF Chunk
    <2>2. CASE f \in {Manifest(v) : v \in Version} BY <2>2 DEF Manifest
    <2>3. CASE f \in {Progress(d) : d \in BOOLEAN} BY <2>3 DEF Progress
    <2> QED BY <2>1, <2>2, <2>3 DEF Uplink
  <1> QED BY <1>1 DEF Uplink

\* Every set of chunk numbers has a smallest one.
LEMMA Smallest ==
  ASSUME NEW S, S \subseteq Nat, S # {}
  PROVE  \E i \in S : \A j \in S : i <= j
  <1> DEFINE R == OpToRel(<, Nat)
  <1>1. IsWellFoundedOn(R, Nat) BY NatLessThanWellFounded
  <1>2. \A x, y \in Nat : x < y => <<x, y>> \in R BY DEF OpToRel
  <1> HIDE DEF R
  <1>3. PICK i \in S : \A j \in S : ~ (<<j, i>> \in R) BY <1>1, WFMin
  <1>4. i \in Nat /\ \A j \in S : j \in Nat OBVIOUS
  <1>5. ASSUME NEW j \in S PROVE ~ (j < i) BY <1>2, <1>3, <1>4, Zenon
  <1> QED BY <1>4, <1>5

\* A REPAIR asks for something, and for nothing the payload does not have.
LEMMA RepairIsRequest ==
  ASSUME NEW v \in Version, Missing(v) # {}
  PROVE  Repair(FirstIds(Missing(v))) \in Requests
  <1>1. Missing(v) \subseteq Nat /\ Missing(v) \subseteq AllSeqs
    BY VersionFacts DEF Missing
  <1>2. PICK i \in Missing(v) : \A j \in Missing(v) : i <= j BY <1>1, Smallest
  <1>3. {j \in Missing(v) : j < i} = {} BY <1>1, <1>2
  <1>4. Cardinality({j \in Missing(v) : j < i}) = 0 BY <1>3, FS_EmptySet
  <1>5. i \in FirstIds(Missing(v))
    BY <1>4, ReceiverAssumption DEF FirstIds
  <1>6. FirstIds(Missing(v)) \subseteq AllSeqs BY <1>1 DEF FirstIds
  <1> QED BY <1>5, <1>6 DEF Requests

\* assemble() returns the payload of the manifest, or nothing.
LEMMA AssembleIsWhole ==
  ASSUME NEW v \in Version, Assemble(v) # None
  PROVE  /\ Assemble(v) = [i \in Seqs(v) |-> v]
         /\ \A i \in Seqs(v) : i \in DOMAIN chunks /\ chunks[i] = v
  BY DEF Assemble

-----------------------------------------------------------------------------
(* The receiver.                                                           *)

\* A new receiver is in order.
LEMMA NewReceiverOK ==
  ASSUME NewReceiver
  PROVE  ReceiverInv'
  <1>1. DOMAIN chunks' = {} BY DEF NewReceiver
  <1>2. IsFiniteSet(DOMAIN chunks') BY <1>1, FS_EmptySet
  <1>3. 0 \in 0 .. MaxUnanswered /\ 0 \in 0 .. MaxStale
        /\ 0 < MaxUnanswered /\ 0 < MaxStale
    BY ReceiverAssumption
  <1>4. ReceiverTypeOK'
    BY <1>1, <1>3 DEF NewReceiver, ReceiverTypeOK, Quiet
  <1> QED BY <1>2, <1>3, <1>4 DEF NewReceiver, ReceiverInv

\* A step that leaves the receiver alone leaves it in order.
LEMMA ReceiverStutters ==
  ASSUME ReceiverInv, UNCHANGED rvars
  PROVE  ReceiverInv'
  BY DEF ReceiverInv, ReceiverTypeOK, rvars

\* onFrame() keeps the receiver in order.
LEMMA OnFrameKeepsReceiver ==
  ASSUME ReceiverInv, NEW f \in Uplink, OnFrame(f)
  PROVE  ReceiverInv'
  <1>1. /\ unanswered' = 0 /\ quiet' = "recent"
        /\ UNCHANGED <<staleRounds, heldAtLastRepair, failed>>
        /\ 0 \in 0 .. MaxUnanswered /\ 0 < MaxUnanswered
    BY ReceiverAssumption DEF OnFrame, ProofOfLife
  <1>2. CASE f.type = "chunk"
    <2>1. f.seq \in AllSeqs /\ f.data \in Version BY <1>2, FrameTypes
    <2>2. /\ chunks' = [i \in DOMAIN chunks \cup {f.seq} |->
                          IF i = f.seq THEN f.data ELSE chunks[i]]
          /\ rstate' = IF rstate = "start" THEN "receiving" ELSE rstate
          /\ UNCHANGED <<manifest, progressDone, awaitingProgress>>
      BY <1>2 DEF OnFrame
    <2>3. DOMAIN chunks' = DOMAIN chunks \cup {f.seq} BY <2>2
    <2>4. IsFiniteSet(DOMAIN chunks') BY <2>3, FS_AddElement DEF ReceiverInv
    <2>5. DOMAIN chunks' \subseteq AllSeqs
          /\ \A i \in DOMAIN chunks' : chunks'[i] \in Version
      BY <2>1, <2>2, <2>3 DEF ReceiverInv, ReceiverTypeOK
    <2> QED BY <1>1, <2>2, <2>4, <2>5 DEF ReceiverInv, ReceiverTypeOK, Quiet
  <1>3. CASE f.type = "manifest"
    <2>1. f.crc \in Version /\ f.crc # None BY <1>3, FrameTypes, VersionFacts
    <2>2. /\ manifest' = IF manifest = None THEN f.crc ELSE manifest
          /\ rstate' = IF rstate = "start" THEN "receiving" ELSE rstate
          /\ UNCHANGED <<chunks, progressDone, awaitingProgress>>
      BY <1>3 DEF OnFrame
    <2> QED BY <1>1, <2>1, <2>2 DEF ReceiverInv, ReceiverTypeOK, Quiet
  <1>4. CASE f.type = "progress"
    <2>1. f.done \in BOOLEAN BY <1>4, FrameTypes
    <2>2. /\ awaitingProgress' = FALSE /\ progressDone' = f.done
          /\ UNCHANGED <<chunks, manifest, rstate>>
      BY <1>4 DEF OnFrame
    <2> QED BY <1>1, <2>1, <2>2 DEF ReceiverInv, ReceiverTypeOK, Quiet
  <1> QED BY <1>2, <1>3, <1>4, FrameTypes

\* What tick() returns: a request, None if it failed, and a COMPLETE only for
\* the payload it holds.
TickReturns(o) ==
  /\ o \in Requests \cup {None}
  /\ \A v \in Version :
       o = Complete(v) => \A i \in Seqs(v) : i \in DOMAIN chunks /\ chunks[i] = v

\* tick() asks for progress.
LEMMA QueryOK ==
  ASSUME ReceiverInv, rstate # "done", failed = None, UNCHANGED <<chunks, manifest>>,
         quiet' = "recent", NEW o, Query(o)
  PROVE  ReceiverInv' /\ TickReturns(o)
  <1>1. CountUnanswered \in 0 .. MaxUnanswered
    BY ReceiverAssumption DEF CountUnanswered, ReceiverInv, ReceiverTypeOK
  <1>2. o \in {None, ProgressQ} BY DEF Query
  <1>3. TickReturns(o)
    <2>1. o \in Requests \cup {None} BY <1>2 DEF Requests
    <2>2. \A v \in Version : ProgressQ # Complete(v) /\ None # Complete(v)
      BY NoneAssumption DEF ProgressQ, Complete, Requests
    <2> QED BY <1>2, <2>1, <2>2 DEF TickReturns
  <1>4. ASSUME CountUnanswered >= MaxUnanswered PROVE ReceiverInv'
    <2>1. failed' = "unresponsive" /\ failed' # None
          /\ UNCHANGED <<awaitingProgress, rstate, progressDone, staleRounds,
                         heldAtLastRepair>> /\ unanswered' = CountUnanswered
      BY <1>1, <1>4, NoneAssumption DEF Query
    <2> QED BY <1>1, <2>1 DEF ReceiverInv, ReceiverTypeOK, Quiet
  <1>5. ASSUME ~(CountUnanswered >= MaxUnanswered) PROVE ReceiverInv'
    <2>1. /\ awaitingProgress' = TRUE /\ unanswered' = CountUnanswered
          /\ UNCHANGED <<failed, rstate, progressDone, staleRounds,
                         heldAtLastRepair>>
      BY <1>5 DEF Query
    <2>2. unanswered' < MaxUnanswered
      BY <1>1, <1>5, <2>1, ReceiverAssumption
    <2> QED BY <1>1, <2>1, <2>2 DEF ReceiverInv, ReceiverTypeOK, Quiet
  <1> QED BY <1>3, <1>4, <1>5

\* tick() asks for the transfer to start.
LEMMA AskToStartOK ==
  ASSUME ReceiverInv, UNCHANGED <<chunks, manifest>>, quiet' = "recent",
         NEW o, AskToStart(o)
  PROVE  ReceiverInv' /\ TickReturns(o)
  <1>1. \A v \in Version : Start # Complete(v) BY DEF Start, Complete
  <1>2. TickReturns(o)
    BY <1>1 DEF AskToStart, TickReturns, Requests
  <1> QED BY <1>2 DEF AskToStart, ReceiverInv, ReceiverTypeOK, Quiet

\* tick() completes the transfer.
LEMMA FinishOK ==
  ASSUME ReceiverInv, manifest # None, UNCHANGED <<chunks, manifest>>,
         quiet' = "recent", NEW o, Finish(o)
  PROVE  ReceiverInv' /\ TickReturns(o)
  <1>0. manifest \in Version BY DEF ReceiverInv, ReceiverTypeOK
  <1>u. UNCHANGED <<progressDone, awaitingProgress, unanswered, staleRounds,
                    heldAtLastRepair>>
    BY DEF Finish
  <1>1. CASE Assemble(manifest) = None
    <2>1. failed' = "crc" /\ o = None /\ UNCHANGED rstate BY <1>1 DEF Finish
    <2>2. \A v \in Version : None # Complete(v)
      BY NoneAssumption DEF Complete, Requests
    <2>3. TickReturns(o) BY <2>1, <2>2 DEF TickReturns
    <2>4. failed' # None BY <2>1, NoneAssumption
    <2> QED BY <1>u, <2>1, <2>3, <2>4 DEF ReceiverInv, ReceiverTypeOK, Quiet
  <1>2. CASE Assemble(manifest) # None
    <2>1. rstate' = "done" /\ o = Complete(manifest) /\ UNCHANGED failed
      BY <1>2 DEF Finish
    <2>2. \A i \in Seqs(manifest) : i \in DOMAIN chunks /\ chunks[i] = manifest
      BY <1>0, <1>2, AssembleIsWhole
    <2>3. \A v \in Version : o = Complete(v) => v = manifest
      BY <2>1 DEF Complete
    <2>4. TickReturns(o) BY <1>0, <2>1, <2>2, <2>3 DEF TickReturns, Requests
    <2> QED BY <1>u, <2>1, <2>4 DEF ReceiverInv, ReceiverTypeOK, Quiet
  <1> QED BY <1>1, <1>2

\* tick() asks for what is missing.
LEMMA AskForRepairOK ==
  ASSUME ReceiverInv, failed = None, manifest # None, Missing(manifest) # {},
         UNCHANGED <<chunks, manifest>>, quiet' = "recent", NEW o, AskForRepair(o)
  PROVE  ReceiverInv' /\ TickReturns(o)
  <1>0. manifest \in Version BY DEF ReceiverInv, ReceiverTypeOK
  <1>1. Received \in Nat BY FS_CardinalityType DEF Received, ReceiverInv
  <1>2. CountStale \in 0 .. MaxStale
    BY <1>1, ReceiverAssumption DEF CountStale, ReceiverInv, ReceiverTypeOK
  <1>3. /\ staleRounds' = CountStale /\ heldAtLastRepair' = Received
        /\ UNCHANGED <<awaitingProgress, unanswered>>
    BY DEF AskForRepair
  <1>4. CASE staleRounds' >= MaxStale
    <2>1. failed' = "stuck" /\ o = None /\ UNCHANGED <<rstate, progressDone>>
      BY <1>4 DEF AskForRepair
    <2>2. \A v \in Version : None # Complete(v)
      BY NoneAssumption DEF Complete, Requests
    <2>3. TickReturns(o) BY <2>1, <2>2 DEF TickReturns
    <2>4. failed' # None BY <2>1, NoneAssumption
    <2> QED BY <1>1, <1>2, <1>3, <2>1, <2>3, <2>4
            DEF ReceiverInv, ReceiverTypeOK, Quiet
  <1>5. CASE ~(staleRounds' >= MaxStale)
    <2>1. /\ rstate' = "repairing" /\ progressDone' = FALSE /\ UNCHANGED failed
          /\ o = Repair(FirstIds(Missing(manifest)))
      BY <1>5 DEF AskForRepair
    <2>2. o \in Requests BY <1>0, <2>1, RepairIsRequest
    <2>3. \A v \in Version : o # Complete(v) BY <2>1 DEF Repair, Complete
    <2>4. TickReturns(o) BY <2>2, <2>3 DEF TickReturns
    <2>5. staleRounds' < MaxStale BY <1>2, <1>3, <1>5, ReceiverAssumption
    <2> QED BY <1>1, <1>2, <1>3, <2>1, <2>4, <2>5
            DEF ReceiverInv, ReceiverTypeOK, Quiet
  <1> QED BY <1>4, <1>5

\* tick() keeps the receiver in order, whatever it returns.
LEMMA TickOK ==
  ASSUME ReceiverInv, NEW o, Tick(o)
  PROVE  ReceiverInv' /\ TickReturns(o)
  <1>1. /\ rstate # "done" /\ failed = None /\ quiet' = "recent"
        /\ UNCHANGED <<chunks, manifest>>
    BY DEF Tick
  <1>2. CASE AskToStart(o) BY <1>1, <1>2, AskToStartOK
  <1>3. CASE Query(o) BY <1>1, <1>3, QueryOK
  <1>4. CASE manifest # None /\ Finish(o) BY <1>1, <1>4, FinishOK
  <1>5. CASE manifest # None /\ Missing(manifest) # {} /\ AskForRepair(o)
    BY <1>1, <1>5, AskForRepairOK
  <1> QED BY <1>2, <1>3, <1>4, <1>5 DEF Tick

\* Silence grows.
LEMMA QuietRisesOK ==
  ASSUME ReceiverInv, QuietRises
  PROVE  ReceiverInv'
  BY DEF QuietRises, ReceiverInv, ReceiverTypeOK, Quiet

-----------------------------------------------------------------------------
(* The actions.                                                            *)

\* What a step keeps of the invariant when it does not touch it.
LEMMA Keeps ==
  ASSUME PushInv
  PROVE  /\ UNCHANGED <<phase, out, returned>> => (ClientTypeOK /\ NeverABlend)'
         /\ UNCHANGED dev => DeviceTypeOK'
         /\ UNCHANGED <<down, up, losses>> => AirTypeOK'
         /\ UNCHANGED <<pushes, publishes, heldWhole, released>>
              => CountersTypeOK' /\ ReleasedWasHeld'
         /\ UNCHANGED <<down, out, heldWhole>> => Vouched'
  BY DEF PushInv, ClientTypeOK, NeverABlend, DeviceTypeOK, AirTypeOK,
         CountersTypeOK, ReleasedWasHeld, Vouched

\* Neither null nor START releases anything.
LEMMA NoneIsNoFrame == \A v \in Version : None # Complete(v) /\ Start # Complete(v)
  BY NoneAssumption DEF Complete, Start, Requests

\* The initial states are in order.
LEMMA InitOK == Init => PushInv
  <1> SUFFICES ASSUME Init PROVE PushInv OBVIOUS
  <1>1. ReceiverInv
    <2>1. DOMAIN chunks = {} BY DEF Init, ReceiverInit
    <2>2. IsFiniteSet(DOMAIN chunks) BY <2>1, FS_EmptySet
    <2>3. 0 \in 0 .. MaxUnanswered /\ 0 \in 0 .. MaxStale
          /\ 0 < MaxUnanswered /\ 0 < MaxStale
      BY ReceiverAssumption
    <2> QED BY <2>1, <2>2, <2>3
            DEF Init, ReceiverInit, ReceiverInv, ReceiverTypeOK, Quiet
  <1>2. ClientTypeOK /\ NeverABlend BY DEF Init, ClientTypeOK, NeverABlend
  <1>3. DeviceTypeOK
    BY VersionFacts DEF Init, DeviceTypeOK, Holding, UpSt
  <1>4. AirTypeOK /\ CountersTypeOK /\ ReleasedWasHeld
    BY TransferAssumption DEF Init, AirTypeOK, CountersTypeOK, ReleasedWasHeld
  <1>5. Vouched BY NoneIsNoFrame DEF Init, Vouched
  <1> QED BY <1>1, <1>2, <1>3, <1>4, <1>5 DEF PushInv

\* push() starts with a receiver of its own.
LEMMA PushOK == PushInv /\ Push => PushInv'
  <1> SUFFICES ASSUME PushInv, Push PROVE PushInv' OBVIOUS
  <1>1. ReceiverInv' BY NewReceiverOK DEF Push
  <1>2. ClientTypeOK' /\ NeverABlend' BY DEF Push, ClientTypeOK, NeverABlend
  <1>3. Vouched' BY NoneIsNoFrame DEF Push, avars, hvars, PushInv, Vouched
  <1>4. CountersTypeOK' /\ ReleasedWasHeld'
    BY TransferAssumption
       DEF Push, hvars, PushInv, CountersTypeOK, ReleasedWasHeld
  <1>5. DeviceTypeOK' /\ AirTypeOK' BY Keeps DEF Push, avars
  <1> QED BY <1>1, <1>2, <1>3, <1>4, <1>5 DEF PushInv

\* The device says what it holds.
LEMMA StatAnsweredOK == PushInv /\ StatAnswered => PushInv'
  <1> SUFFICES ASSUME PushInv, StatAnswered PROVE PushInv' OBVIOUS
  <1>1. /\ phase' \in {"rejected", "loop", "emitting"}
        /\ out' \in {out, None, Start}
        /\ phase' = "emitting" => out' = Start
        /\ UNCHANGED <<rvars, returned, dev, avars, pushes, publishes, hvars>>
    BY DEF StatAnswered, Reject
  <1>2. ClientTypeOK'
    <2>1. Start \in Requests /\ Start # None BY NoneAssumption DEF Requests
    <2> QED BY <1>1, <2>1 DEF PushInv, ClientTypeOK
  <1>3. NeverABlend' BY <1>1 DEF NeverABlend
  <1>4. Vouched' BY <1>1, NoneIsNoFrame DEF PushInv, Vouched, avars, hvars
  <1>5. ReceiverInv' BY <1>1, ReceiverStutters DEF PushInv
  <1> QED BY <1>1, <1>2, <1>3, <1>4, <1>5, Keeps DEF PushInv, avars, hvars

\* The one step that puts a COMPLETE together.
LEMMA TockOK == PushInv /\ Tock => PushInv'
  <1> SUFFICES ASSUME PushInv, Tock PROVE PushInv' OBVIOUS
  <1>1. ReceiverInv' /\ TickReturns(out') BY TickOK DEF PushInv, Tock
  <1>2. /\ phase' = IF out' = None THEN "rejected" ELSE "emitting"
        /\ UNCHANGED <<returned, dev, avars, pushes, publishes, released>>
    BY DEF Tock, Reject
  <1>3. /\ heldWhole' \subseteq Version /\ heldWhole \subseteq heldWhole'
        /\ \A v \in Version :
             (\A i \in Seqs(v) : i \in DOMAIN chunks /\ chunks[i] = v)
               => v \in heldWhole'
    BY DEF Tock, PushInv, CountersTypeOK
  <1>4. ClientTypeOK' BY <1>1, <1>2 DEF PushInv, ClientTypeOK, TickReturns
  <1>5. NeverABlend' BY <1>2 DEF NeverABlend
  <1>6. Vouched' BY <1>1, <1>2, <1>3 DEF PushInv, Vouched, TickReturns, avars
  <1>7. CountersTypeOK' /\ ReleasedWasHeld'
    BY <1>2, <1>3 DEF PushInv, CountersTypeOK, ReleasedWasHeld
  <1> QED BY <1>1, <1>2, <1>4, <1>5, <1>6, <1>7, Keeps DEF PushInv, avars

\* A request is sent.
LEMMA EmitSucceedsOK == PushInv /\ EmitSucceeds => PushInv'
  <1> SUFFICES ASSUME PushInv, EmitSucceeds PROVE PushInv' OBVIOUS
  <1>1. /\ phase = "emitting" /\ down' = down \cup {out} /\ AfterEmit
        /\ UNCHANGED <<rvars, out, dev, up, losses, pushes, publishes, hvars>>
    BY DEF EmitSucceeds
  <1>2. ReceiverInv' BY <1>1, ReceiverStutters DEF PushInv
  <1>3. out \in Requests BY <1>1 DEF PushInv, ClientTypeOK
  <1>4. AirTypeOK' BY <1>1, <1>3 DEF PushInv, AirTypeOK
  <1>5. Vouched' BY <1>1 DEF PushInv, Vouched, hvars
  <1>6. ClientTypeOK' /\ NeverABlend'
    <2>1. CASE phase' = "resolved" /\ returned' = Assemble(manifest)
               /\ rstate = "done" /\ Assemble(manifest) # None
      <3>1. manifest \in Version
        BY <2>1 DEF PushInv, ReceiverInv, ReceiverTypeOK
      <3>2. returned' = [i \in Seqs(manifest) |-> manifest]
        BY <2>1, <3>1, AssembleIsWhole
      <3>3. NeverABlend' BY <2>1, <3>1, <3>2 DEF NeverABlend, Seqs
      <3>4. \A i \in DOMAIN returned' : returned'[i] \in Version BY <3>1, <3>2
      <3> QED BY <1>1, <2>1, <3>3, <3>4 DEF PushInv, ClientTypeOK
    <2>2. CASE phase' \in {"rejected", "loop"} /\ UNCHANGED returned
      BY <1>1, <2>2 DEF PushInv, ClientTypeOK, NeverABlend
    <2> QED BY <1>1, <2>1, <2>2 DEF AfterEmit, Reject
  <1> QED BY <1>1, <1>2, <1>4, <1>5, <1>6, Keeps DEF PushInv, hvars

\* A request cannot be sent; the device may have it all the same.
LEMMA EmitFailsOK == PushInv /\ EmitFails => PushInv'
  <1> SUFFICES ASSUME PushInv, EmitFails PROVE PushInv' OBVIOUS
  <1>1. /\ phase = "emitting" /\ down' \in {down, down \cup {out}}
        /\ phase' = "rejected"
        /\ UNCHANGED <<rvars, out, returned, dev, up, losses, pushes,
                       publishes, hvars>>
    BY DEF EmitFails, Reject
  <1>2. ReceiverInv' BY <1>1, ReceiverStutters DEF PushInv
  <1>3. out \in Requests BY <1>1 DEF PushInv, ClientTypeOK
  <1>4. AirTypeOK' BY <1>1, <1>3 DEF PushInv, AirTypeOK
  <1>5. Vouched' BY <1>1 DEF PushInv, Vouched, hvars
  <1>6. ClientTypeOK' /\ NeverABlend'
    BY <1>1 DEF PushInv, ClientTypeOK, NeverABlend
  <1> QED BY <1>1, <1>2, <1>4, <1>5, <1>6, Keeps DEF PushInv, hvars

\* The deadline passes.
LEMMA GiveUpOK == PushInv /\ GiveUp => PushInv'
  <1> SUFFICES ASSUME PushInv, GiveUp PROVE PushInv' OBVIOUS
  <1>1. /\ phase' = "rejected"
        /\ UNCHANGED <<rvars, out, returned, dev, avars, pushes, publishes, hvars>>
    BY DEF GiveUp, Reject
  <1>2. ClientTypeOK' /\ NeverABlend'
    BY <1>1 DEF PushInv, ClientTypeOK, NeverABlend
  <1>3. ReceiverInv' BY <1>1, ReceiverStutters DEF PushInv
  <1> QED BY <1>1, <1>2, <1>3, Keeps DEF PushInv, avars, hvars

\* The caller takes the result.
LEMMA CollectOK == PushInv /\ Collect => PushInv'
  <1> SUFFICES ASSUME PushInv, Collect PROVE PushInv' OBVIOUS
  <1>1. /\ phase' = "idle" /\ out' = None
        /\ UNCHANGED <<rvars, returned, dev, avars, pushes, publishes, hvars>>
    BY DEF Collect
  <1>2. ClientTypeOK' /\ NeverABlend'
    BY <1>1 DEF PushInv, ClientTypeOK, NeverABlend
  <1>3. ReceiverInv' BY <1>1, ReceiverStutters DEF PushInv
  <1>4. Vouched' BY <1>1, NoneIsNoFrame DEF PushInv, Vouched, avars, hvars
  <1> QED BY <1>1, <1>2, <1>3, <1>4, Keeps DEF PushInv, avars, hvars

\* A frame reaches the receiver.
LEMMA ReceiveOK == PushInv /\ (\E f \in up : Receive(f)) => PushInv'
  <1> SUFFICES ASSUME PushInv, NEW f \in up, Receive(f) PROVE PushInv' OBVIOUS
  <1>1. /\ OnFrame(f) \/ UNCHANGED rvars
        /\ up' \subseteq up
        /\ UNCHANGED <<cvars, dev, down, losses, pushes, publishes, hvars>>
    BY DEF Receive, Heard
  <1>2. f \in Uplink BY DEF PushInv, AirTypeOK
  <1>3. ReceiverInv'
    BY <1>1, <1>2, OnFrameKeepsReceiver, ReceiverStutters DEF PushInv
  <1>4. AirTypeOK' BY <1>1 DEF PushInv, AirTypeOK
  <1> QED BY <1>1, <1>3, <1>4, Keeps DEF PushInv, cvars, hvars

\* The air loses a frame.
LEMMA LoseOK == PushInv /\ Lose => PushInv'
  <1> SUFFICES ASSUME PushInv, Lose PROVE PushInv' OBVIOUS
  <1>1. /\ up' \subseteq up /\ down' \subseteq down /\ losses' \in {losses, losses + 1}
        /\ UNCHANGED <<rvars, cvars, dev, pushes, publishes, hvars>>
    BY DEF Lose
  <1>2. ReceiverInv' BY <1>1, ReceiverStutters DEF PushInv
  <1>3. AirTypeOK' BY <1>1 DEF PushInv, AirTypeOK
  <1>4. Vouched' BY <1>1 DEF PushInv, Vouched, cvars, hvars
  <1> QED BY <1>1, <1>2, <1>3, <1>4, Keeps DEF PushInv, cvars, hvars

\* The one step that lets a payload go: a COMPLETE on the air is vouched for.
LEMMA DeviceHearsOK == PushInv /\ (\E f \in down : DeviceHears(f)) => PushInv'
  <1> SUFFICES ASSUME PushInv, NEW f \in down, DeviceHears(f) PROVE PushInv'
    OBVIOUS
  <1>1. /\ down' \subseteq down
        /\ UNCHANGED <<rvars, cvars, losses, pushes, publishes, heldWhole>>
    BY DEF DeviceHears, Heard
  <1>2. ReceiverInv' BY <1>1, ReceiverStutters DEF PushInv
  <1>3. Vouched' BY <1>1 DEF PushInv, Vouched, cvars
  <1>4. DeviceTypeOK' /\ AirTypeOK' /\ CountersTypeOK' /\ ReleasedWasHeld'
    <2>1. CASE UNCHANGED <<dev, up, released>>
      BY <1>1, <2>1
         DEF PushInv, DeviceTypeOK, AirTypeOK, CountersTypeOK, ReleasedWasHeld
    <2>2. CASE dev.held # None /\ Serve(f)
      <3>0. dev.held \in Version BY <2>2 DEF PushInv, DeviceTypeOK
      <3>1. CASE f.type \in {"start", "repair"}
        <4>1. PICK ids \in SUBSET Seqs(dev.held) : dev' = Pass(ids)
          BY <2>2, <3>1 DEF Serve
        <4>2. UNCHANGED <<up, released>> BY <2>2, <3>1 DEF Serve
        <4>3. ids \subseteq AllSeqs BY <3>0, VersionFacts
        <4>4. DeviceTypeOK'
          BY <2>2, <4>1, <4>3 DEF PushInv, DeviceTypeOK, Pass, UpSt
        <4> QED BY <1>1, <4>2, <4>4
                DEF PushInv, AirTypeOK, CountersTypeOK, ReleasedWasHeld
      <3>2. CASE f.type = "query"
        <4>1. UNCHANGED <<dev, released>> BY <2>2, <3>2 DEF Serve
        <4>2. up' \subseteq up \cup {Progress(dev.upst = "await")}
          BY <2>2, <3>2 DEF Serve
        <4>3. Progress(dev.upst = "await") \in Uplink BY FrameTypes
        <4> QED BY <1>1, <4>1, <4>2, <4>3
                DEF PushInv, DeviceTypeOK, AirTypeOK, CountersTypeOK,
                    ReleasedWasHeld
      <3>3. CASE f.type = "complete"
        <4>1. UNCHANGED up BY <2>2, <3>3 DEF Serve
        <4>2. CASE UNCHANGED <<dev, released>>
          BY <1>1, <4>1, <4>2
             DEF PushInv, DeviceTypeOK, AirTypeOK, CountersTypeOK,
                 ReleasedWasHeld
        <4>3. CASE dev' = Empty /\ released' = released \cup {f.crc}
          <5>1. PICK v \in Version : f = Complete(v)
            BY <3>3 DEF PushInv, AirTypeOK, Requests, Start, ProgressQ, Repair
          <5>2. f.crc \in heldWhole
            BY <5>1 DEF PushInv, Vouched, Complete
          <5>3. DeviceTypeOK' BY <4>3 DEF DeviceTypeOK, Empty, UpSt
          <5> QED BY <1>1, <4>1, <4>3, <5>2, <5>3
                  DEF PushInv, AirTypeOK, CountersTypeOK, ReleasedWasHeld
        <4> QED BY <2>2, <3>3, <4>2, <4>3 DEF Serve
      <3> QED BY <2>2, <3>1, <3>2, <3>3 DEF Serve
    <2> QED BY <2>1, <2>2 DEF DeviceHears
  <1> QED BY <1>1, <1>2, <1>3, <1>4, Keeps DEF PushInv, cvars

\* The device sends the next of what it plans.
LEMMA DeviceSendsOK == PushInv /\ DeviceSends => PushInv'
  <1> SUFFICES ASSUME PushInv, DeviceSends PROVE PushInv' OBVIOUS
  <1>1. UNCHANGED <<rvars, cvars, down, losses, pushes, publishes, hvars>>
    BY DEF DeviceSends
  <1>2. ReceiverInv' BY <1>1, ReceiverStutters DEF PushInv
  <1>3. dev.held \in Version BY DEF PushInv, DeviceTypeOK, DeviceSends
  <1>4. DeviceTypeOK' /\ AirTypeOK'
    <2>1. CASE dev.plan = {} \/ dev.manifestDue
      <3>1. /\ up' = up \cup {Manifest(dev.held)}
            /\ dev' = [dev EXCEPT !.manifestDue = FALSE,
                                  !.upst = IF dev.manifestDue THEN @ ELSE "await"]
        BY <2>1 DEF DeviceSends
      <3>2. AirTypeOK' BY <1>1, <1>3, <3>1, FrameTypes DEF PushInv, AirTypeOK
      <3>3. DeviceTypeOK' BY <1>3, <3>1, VersionFacts DEF PushInv, DeviceTypeOK, UpSt
      <3> QED BY <3>2, <3>3
    <2>2. CASE ~(dev.plan = {} \/ dev.manifestDue)
      <3>1. PICK i \in dev.plan : /\ up' = up \cup {Chunk(i, dev.held)}
                                  /\ dev' = [dev EXCEPT !.plan = @ \ {i}]
        BY <2>2 DEF DeviceSends
      <3>2. DeviceTypeOK' BY <1>3, <3>1, VersionFacts DEF PushInv, DeviceTypeOK, UpSt
      <3>3. i \in Seqs(dev.held)
        BY <1>3, <3>1, VersionFacts DEF PushInv, DeviceTypeOK
      <3>4. Chunk(i, dev.held) \in Uplink BY <1>3, <3>3, FrameTypes
      <3> QED BY <1>1, <3>1, <3>2, <3>4 DEF PushInv, AirTypeOK
    <2> QED BY <2>1, <2>2
  <1> QED BY <1>1, <1>2, <1>4, Keeps DEF PushInv, cvars, hvars

\* The device gets another payload to hold.
LEMMA PublishOK == PushInv /\ Publish => PushInv'
  <1> SUFFICES ASSUME PushInv, Publish PROVE PushInv' OBVIOUS
  <1>1. UNCHANGED <<rvars, cvars, avars, pushes, hvars>> BY DEF Publish
  <1>2. ReceiverInv' BY <1>1, ReceiverStutters DEF PushInv
  <1>3. DeviceTypeOK'
    <2>1. CASE \E v \in Version : dev' = Holding(v)
      BY <2>1, VersionFacts DEF Holding, DeviceTypeOK, UpSt
    <2>2. CASE dev' = Empty BY <2>2 DEF Empty, DeviceTypeOK, UpSt
    <2> QED BY <2>1, <2>2 DEF Publish
  <1>4. CountersTypeOK' /\ ReleasedWasHeld'
    BY TransferAssumption
       DEF Publish, hvars, PushInv, CountersTypeOK, ReleasedWasHeld
  <1> QED BY <1>1, <1>2, <1>3, <1>4, Keeps DEF PushInv, cvars, avars, hvars

\* Time passes in silence.
LEMMA TimePassesOK == PushInv /\ TimePasses => PushInv'
  <1> SUFFICES ASSUME PushInv, TimePasses PROVE PushInv' OBVIOUS
  <1>1. QuietRises /\ UNCHANGED <<cvars, dev, avars, pushes, publishes, hvars>>
    BY DEF TimePasses
  <1>2. ReceiverInv' BY <1>1, QuietRisesOK DEF PushInv
  <1> QED BY <1>1, <1>2, Keeps DEF PushInv, cvars, avars, hvars

-----------------------------------------------------------------------------
(* The theorems.                                                           *)

\* The invariant holds in every behaviour.
LEMMA Invariance == SafeSpec => []PushInv
  <1>1. PushInv /\ UNCHANGED vars => PushInv'
    BY ReceiverStutters, Keeps DEF PushInv, vars, cvars, avars, hvars
  <1>2. PushInv /\ [Next]_vars => PushInv'
    BY <1>1, PushOK, StatAnsweredOK, TockOK, EmitSucceedsOK, EmitFailsOK,
       GiveUpOK, CollectOK, ReceiveOK, DeviceHearsOK, LoseOK, DeviceSendsOK,
       PublishOK, TimePassesOK
       DEF Next
  <1> QED BY InitOK, <1>2, PTL DEF SafeSpec

\* Every variable stays in its type, whatever the payloads and the air do.
THEOREM TypeCorrect == SafeSpec => []TypeOK
  <1>1. PushInv => TypeOK
    BY DEF PushInv, ReceiverInv, ClientTypeOK, DeviceTypeOK, AirTypeOK,
           CountersTypeOK, TypeOK
  <1> QED BY Invariance, <1>1, PTL

\* push() (index.js) resolves with one published payload, whole.
THEOREM PushIsWhole == SafeSpec => []NeverABlend
  <1>1. PushInv => NeverABlend BY DEF PushInv
  <1> QED BY Invariance, <1>1, PTL

\* A payload is only let go for a receiver that held all of it: whatever the
\* air repeats or delays, tick()'s COMPLETE names bytes that were checked.
THEOREM ReleaseIsEarned == SafeSpec => []ReleasedWasHeld
  <1>1. PushInv => ReleasedWasHeld BY DEF PushInv
  <1> QED BY Invariance, <1>1, PTL

-----------------------------------------------------------------------------
(* A transfer that loses little is not given up.                           *)

\* A first push, of a device that stays, that has lost few frames so far.
Calm == /\ pushes <= 1 /\ publishes = 0
        /\ losses <= MaxUnanswered /\ losses <= MaxStale

\* push() runs.
Active == phase \in {"stat", "loop", "emitting"}

\* The receiver has heard of no chunk and no manifest.
Fresh == DOMAIN chunks = {} /\ manifest = None

\* The kind of the last request.
Asks(t) == out # None /\ out.type = t

\* The device holds its payload, waits for a START, and at the end of a pass has
\* nothing left to send.
DeviceSteady ==
  /\ dev.held \in Version /\ dev.upst # "idle"
  /\ dev.upst = "pending" => Fresh /\ up = {}
  /\ dev.upst # "sending" => dev.plan = {} /\ ~dev.manifestDue

\* There is one payload.
OwnPayload ==
  /\ \A i \in DOMAIN chunks : chunks[i] = dev.held
  /\ manifest \in {None, dev.held}
  /\ \A f \in up : /\ f.type = "chunk" => f.data = dev.held
                   /\ f.type = "manifest" => f.crc = dev.held

\* One request is under way at a time: the receiver asks on a settled line, or
\* repeats its START.
OneRequest ==
  /\ down \subseteq {out}
  /\ phase = "stat" => dev.upst = "pending" /\ out = None
  /\ Fresh => out \in {None, Start}
  /\ Asks("repair") => dev.plan \subseteq out.ids
  /\ Asks("complete") => rstate = "done"
  /\ rstate = "done" => down = {}
  /\ quiet # "recent" => Fresh \/ Settled

\* Without a loss, what the receiver lacks is on its way.
NothingLost ==
  losses = 0 =>
    /\ ~Asks("repair")
    /\ dev.upst # "pending" =>
         /\ manifest # None \/ Manifest(dev.held) \in up \/ dev.upst = "sending"
         /\ \A i \in Seqs(dev.held) :
              i \in DOMAIN chunks \/ Chunk(i, dev.held) \in up \/ i \in dev.plan

\* A query is under way, or its answer.
AnswerDue == \/ phase = "emitting" /\ out = ProgressQ
             \/ ProgressQ \in down
             \/ \E f \in up : f.type = "progress"

\* Every query without an answer, after the loss that made it necessary, is a
\* loss.
AnswersLost ==
  awaitingProgress => /\ unanswered < losses
                      /\ AnswerDue \/ unanswered + 1 < losses

\* A repair of a missing chunk is under way, or the chunk.
RepairDue ==
  \E i \in Missing(dev.held) :
    \/ Asks("repair") /\ i \in out.ids /\ (phase = "emitting" \/ out \in down)
    \/ i \in dev.plan
    \/ Chunk(i, dev.held) \in up

\* Every repair round without a chunk, after the loss that made it necessary, is
\* a loss.
RepairsLost ==
  heldAtLastRepair # -1 =>
    /\ staleRounds < losses
    /\ \/ heldAtLastRepair < Received \/ RepairDue \/ staleRounds + 1 < losses

\* The receiver never counts what it holds beyond what it holds.
HeldCounted == heldAtLastRepair <= Received

\* A push in order.
Flow == /\ DeviceSteady /\ OwnPayload /\ OneRequest /\ NothingLost
        /\ AnswersLost /\ RepairsLost /\ HeldCounted

\* ToleratesLoss, and what it rests on.
LossInv ==
  Calm => /\ failed = None
          /\ pushes = 0 => /\ phase = "idle" /\ up = {} /\ down = {}
                           /\ dev.held \in Version /\ dev = Holding(dev.held)
          /\ Active => Flow

\* Frames are told apart by their types.
LEMMA RequestTypes ==
  /\ \A f \in Requests :
       \/ f = Start \/ f = ProgressQ
       \/ f.type = "repair" /\ f.ids \subseteq AllSeqs /\ f.ids # {}
       \/ f.type = "complete"
  /\ None \notin Requests /\ Start \in Requests /\ ProgressQ \in Requests
  /\ Start.type = "start" /\ ProgressQ.type = "query" /\ Start # ProgressQ
  BY NoneAssumption DEF Requests, Start, ProgressQ, Repair, Complete

\* A chunk on the air is one of its payload.
LEMMA ChunkOnAir ==
  ASSUME NEW f \in Uplink, f.type = "chunk"
  PROVE  f.seq \in Seqs(f.data) /\ f = Chunk(f.seq, f.data)
  BY DEF Uplink, Chunk, Manifest, Progress

\* A progress or a manifest is no chunk.
LEMMA FrameKinds ==
  /\ \A v : Manifest(v).type = "manifest" /\ Manifest(v).crc = v
  /\ \A i, v : Chunk(i, v).type = "chunk" /\ Chunk(i, v).data = v /\ Chunk(i, v).seq = i
  /\ \A d : Progress(d).type = "progress"
  BY DEF Manifest, Chunk, Progress

\* How much has come in.
LEMMA ReceivedFacts ==
  ASSUME PushInv
  PROVE  /\ Received \in Nat /\ heldAtLastRepair \in Nat \cup {-1}
         /\ Received = 0 <=> DOMAIN chunks = {}
         /\ unanswered \in Nat /\ staleRounds \in Nat /\ losses \in Nat
         /\ MaxUnanswered \in Nat \ {0} /\ MaxStale \in Nat \ {0}
  <1>1. IsFiniteSet(DOMAIN chunks) BY DEF PushInv, ReceiverInv
  <1>2. Received \in Nat /\ (Received = 0 <=> DOMAIN chunks = {})
    BY <1>1, FS_CardinalityType, FS_EmptySet DEF Received
  <1> QED BY <1>2, ReceiverAssumption DEF PushInv, ReceiverInv, ReceiverTypeOK, AirTypeOK

\* A quiet step back: what is calm now was calm before, and a loss was counted.
LEMMA CalmStep ==
  ASSUME LossesCounted > MaxUnanswered \/ LossesCounted > MaxStale,
         PushInv, Calm', [Next]_vars
  PROVE  /\ Calm /\ publishes' = publishes
         /\ losses' = losses \/ (Lose /\ losses' = losses + 1)
  <1>0. /\ losses \in Nat /\ publishes \in Nat /\ LossesCounted \in Nat
        /\ pushes \in Nat
        /\ MaxUnanswered \in Nat /\ MaxStale \in Nat
    BY ReceiverAssumption, TransferAssumption
       DEF PushInv, AirTypeOK, CountersTypeOK
  <1>1. CASE UNCHANGED <<losses, publishes>> /\ pushes' \in {pushes, pushes + 1}
    BY <1>0, <1>1 DEF Calm
  <1>2. CASE Lose
    <2>1. publishes' = publishes /\ pushes' = pushes
          /\ losses' = IF losses < LossesCounted THEN losses + 1 ELSE losses
      BY <1>2 DEF Lose
    <2> QED BY <1>0, <1>2, <2>1 DEF Calm
  <1>3. CASE Publish BY <1>0, <1>3 DEF Publish, Calm
  <1>4. ASSUME ~Lose, ~Publish 
        PROVE  UNCHANGED <<losses, publishes>> /\ pushes' \in {pushes, pushes + 1}
    BY <1>4 DEF Next, Push, StatAnswered, Tock, EmitSucceeds, EmitFails, GiveUp,
                Collect, Receive, DeviceHears, DeviceSends, TimePasses, vars, avars
  <1> QED BY <1>1, <1>2, <1>3, <1>4

\* The line is settled and the receiver not fresh: nothing is due, and what it
\* lacks has been lost.
LEMMA SettledFlow ==
  ASSUME PushInv, Flow, Settled, phase = "loop"
  PROVE  /\ down = {} /\ up = {} /\ dev.plan = {}
         /\ ~AnswerDue /\ ~RepairDue
         /\ awaitingProgress => unanswered + 1 < losses
         /\ heldAtLastRepair # -1 =>
              heldAtLastRepair < Received \/ staleRounds + 1 < losses
         /\ ~Fresh /\ (manifest = None \/ Missing(dev.held) # {}) => 0 < losses
  <1>1. down = {} /\ up = {} /\ dev.upst # "sending" BY DEF Settled
  <1>2. dev.plan = {} BY <1>1 DEF Flow, DeviceSteady
  <1>3. ~AnswerDue BY <1>1 DEF AnswerDue
  <1>4. ~RepairDue BY <1>1, <1>2 DEF RepairDue
  <1>5. ASSUME ~Fresh, manifest = None \/ Missing(dev.held) # {}, losses = 0 PROVE FALSE
    <2>1. dev.upst # "pending" BY <1>5 DEF Flow, DeviceSteady
    <2>2. manifest # None /\ \A i \in Seqs(dev.held) : i \in DOMAIN chunks
      BY <1>1, <1>2, <1>5, <2>1 DEF Flow, NothingLost
    <2> QED BY <1>5, <2>2 DEF Missing
  <1>6. losses \in Nat BY ReceivedFacts
  <1> QED BY <1>1, <1>2, <1>3, <1>4, <1>5, <1>6 DEF Flow, AnswersLost, RepairsLost

\* A START, the first or a repeated one.
LEMMA FlowStart ==
  ASSUME PushInv, Flow, phase = "loop", phase' = "emitting", out' = Start,
         quiet' = "recent", Fresh \/ Settled, rstate # "done",
         UNCHANGED <<chunks, manifest, rstate, awaitingProgress, unanswered,
                     staleRounds, heldAtLastRepair, dev, up, down, losses>>
  PROVE  Flow'
  <1>1. (DeviceSteady /\ OwnPayload /\ HeldCounted)'
    BY DEF Flow, DeviceSteady, OwnPayload, Fresh, HeldCounted, Received
  <1>2. down \subseteq {Start}
    <2>1. ASSUME Fresh PROVE down \subseteq {Start}
      BY <2>1, RequestTypes DEF Flow, OneRequest, PushInv, AirTypeOK
    <2> QED BY <2>1 DEF Settled
  <1>3. ~Asks("repair")' /\ ~Asks("complete")' BY RequestTypes DEF Asks
  <1>4. OneRequest' BY <1>2, <1>3 DEF OneRequest, Fresh
  <1>5. NothingLost' BY <1>3 DEF Flow, NothingLost
  <1>6. AnswersLost'
    BY RequestTypes DEF Flow, AnswersLost, AnswerDue
  <1>7. ASSUME RepairDue PROVE RepairDue'
    <2>1. ~ (Asks("repair") /\ out \in down)
      BY <1>2, RequestTypes DEF Asks
    <2> QED BY <1>7, <2>1 DEF RepairDue, Missing
  <1>8. RepairsLost' BY <1>7 DEF Flow, RepairsLost, Received
  <1> QED BY <1>1, <1>4, <1>5, <1>6, <1>8 DEF Flow

\* What tick() leaves in order on a settled line, whatever it asks for.
LEMMA FlowSettled ==
  ASSUME PushInv, Flow, phase = "loop", Settled, ~Fresh, phase' = "emitting",
         quiet' = "recent", UNCHANGED <<chunks, manifest, dev, up, down, losses>>,
         Asks("complete")' => rstate' = "done",
         Asks("repair")' => 0 < losses
  PROVE  (DeviceSteady /\ OwnPayload /\ OneRequest /\ NothingLost)'
  <1>1. (DeviceSteady /\ OwnPayload)' BY DEF Flow, DeviceSteady, OwnPayload, Fresh
  <1>2. down' = {} /\ dev'.plan = {} BY SettledFlow
  <1>3. ~Fresh' BY DEF Fresh
  <1>4. OneRequest' BY <1>2, <1>3 DEF OneRequest
  <1>5. NothingLost' BY DEF Flow, NothingLost
  <1> QED BY <1>1, <1>4, <1>5

\* A query: it was necessary because something was lost.
LEMMA FlowQuery ==
  ASSUME PushInv, Calm, Flow, phase = "loop", Settled, ~Fresh, quiet' = "recent",
         manifest = None \/ Missing(dev.held) # {}, failed = None,
         UNCHANGED <<chunks, manifest, dev, up, down, losses>>,
         Query(out'), phase' = IF out' = None THEN "rejected" ELSE "emitting"
  PROVE  Flow' /\ failed' = None
  <1>1. /\ 0 < losses /\ (awaitingProgress => unanswered + 1 < losses)
        /\ losses <= MaxUnanswered
    BY SettledFlow DEF Calm
  <1>2. /\ CountUnanswered \in Nat
        /\ CountUnanswered < losses /\ CountUnanswered < MaxUnanswered
    BY <1>1, ReceivedFacts DEF CountUnanswered
  <1>3. /\ unanswered' = CountUnanswered /\ awaitingProgress' = TRUE
        /\ out' = ProgressQ
        /\ UNCHANGED <<failed, rstate, progressDone, staleRounds, heldAtLastRepair>>
    BY <1>2, ReceivedFacts DEF Query
  <1>4. out' # None /\ out'.type = "query" BY <1>3, RequestTypes
  <1>5. phase' = "emitting" BY <1>4
  <1>6. ~Asks("complete")' /\ ~Asks("repair")' BY <1>4 DEF Asks
  <1>7. (DeviceSteady /\ OwnPayload /\ OneRequest /\ NothingLost)'
    BY <1>5, <1>6, FlowSettled
  <1>8. AnswersLost' BY <1>1, <1>2, <1>3, <1>5 DEF AnswersLost, AnswerDue
  <1>9. RepairsLost'
    BY <1>3, SettledFlow DEF Flow, RepairsLost, Received
  <1>10. HeldCounted' BY <1>3 DEF Flow, HeldCounted, Received
  <1> QED BY <1>3, <1>7, <1>8, <1>9, <1>10 DEF Flow

\* Every chunk is in, and they are the payload.
LEMMA FlowFinish ==
  ASSUME PushInv, Flow, phase = "loop", Settled, manifest # None, quiet' = "recent",
         Missing(dev.held) = {}, failed = None,
         UNCHANGED <<chunks, manifest, dev, up, down, losses>>,
         Finish(out'), phase' = IF out' = None THEN "rejected" ELSE "emitting"
  PROVE  Flow' /\ failed' = None
  <1>1. manifest = dev.held /\ dev.held \in Version
    BY DEF Flow, OwnPayload, DeviceSteady
  <1>2. \A i \in Seqs(dev.held) : i \in DOMAIN chunks /\ chunks[i] = dev.held
    BY DEF Missing, Flow, OwnPayload
  <1>3. Assemble(manifest) = [i \in Seqs(dev.held) |-> dev.held]
    BY <1>1, <1>2 DEF Assemble
  <1>4. Assemble(manifest) # None BY <1>1, <1>3, NoneAssumption
  <1>5. /\ rstate' = "done" /\ out' = Complete(manifest) /\ UNCHANGED failed
        /\ UNCHANGED <<progressDone, awaitingProgress, unanswered, staleRounds,
                       heldAtLastRepair>>
    BY <1>4 DEF Finish
  <1>6. out' # None /\ out'.type = "complete"
    BY <1>1, <1>5, NoneIsNoFrame DEF Complete
  <1>7. phase' = "emitting" /\ ~Fresh BY <1>6 DEF Fresh
  <1>8. ~Asks("repair")' BY <1>6 DEF Asks
  <1>9. (DeviceSteady /\ OwnPayload /\ OneRequest /\ NothingLost)'
    BY <1>5, <1>7, <1>8, FlowSettled
  <1>10. AnswersLost'
    BY <1>5, SettledFlow DEF Flow, AnswersLost
  <1>11. RepairsLost'
    BY <1>5, SettledFlow DEF Flow, RepairsLost, Received
  <1>12. HeldCounted' BY <1>5 DEF Flow, HeldCounted, Received
  <1> QED BY <1>5, <1>9, <1>10, <1>11, <1>12 DEF Flow

\* A repair asks for a chunk that is missing.
LEMMA FlowRepair ==
  ASSUME PushInv, Calm, Flow, phase = "loop", Settled, manifest # None,
         quiet' = "recent", Missing(dev.held) # {}, failed = None,
         UNCHANGED <<chunks, manifest, dev, up, down, losses>>,
         AskForRepair(out'), phase' = IF out' = None THEN "rejected" ELSE "emitting"
  PROVE  Flow' /\ failed' = None
  <1>1. manifest = dev.held /\ dev.held \in Version
    BY DEF Flow, OwnPayload, DeviceSteady
  <1>2. /\ 0 < losses /\ losses <= MaxStale /\ ~Fresh
        /\ heldAtLastRepair # -1 =>
              heldAtLastRepair < Received \/ staleRounds + 1 < losses
    BY SettledFlow DEF Calm, Fresh
  <1>3. CountStale \in Nat /\ CountStale < losses /\ CountStale < MaxStale
    BY <1>2, ReceivedFacts DEF CountStale
  <1>4. /\ staleRounds' = CountStale /\ heldAtLastRepair' = Received
        /\ rstate' = "repairing" /\ out' = Repair(FirstIds(Missing(manifest)))
        /\ UNCHANGED <<failed, awaitingProgress, unanswered>>
    BY <1>3, ReceivedFacts DEF AskForRepair
  <1>5. out' \in Requests BY <1>1, <1>4, RepairIsRequest
  <1>6. /\ out' # None /\ out'.type = "repair"
        /\ out'.ids = FirstIds(Missing(dev.held))
    BY <1>1, <1>4, <1>5, RequestTypes DEF Repair
  <1>7. phase' = "emitting" BY <1>6
  <1>8. ~Asks("complete")' BY <1>6 DEF Asks
  <1>9. (DeviceSteady /\ OwnPayload /\ OneRequest /\ NothingLost)'
    BY <1>2, <1>7, <1>8, FlowSettled
  <1>10. AnswersLost'
    BY <1>4, SettledFlow DEF Flow, AnswersLost
  <1>11. RepairDue'
    <2>1. PICK i \in out'.ids : TRUE BY <1>5, <1>6, RequestTypes DEF Repair
    <2>2. i \in Missing(dev.held) BY <1>6, <2>1 DEF FirstIds
    <2>3. (i \in Missing(dev.held))' BY <2>2 DEF Missing
    <2> QED BY <1>6, <1>7, <2>1, <2>3 DEF RepairDue, Asks
  <1>12. RepairsLost' BY <1>3, <1>4, <1>11 DEF RepairsLost
  <1>13. HeldCounted' BY <1>4, ReceivedFacts DEF HeldCounted, Received
  <1> QED BY <1>4, <1>9, <1>10, <1>12, <1>13 DEF Flow

\* A round of tick() neither fails nor loses its way.
LEMMA FlowTock ==
  ASSUME PushInv, Calm, Flow, failed = None, Tock
  PROVE  Flow' /\ failed' = None
  <1>1. /\ phase = "loop" /\ Tick(out')
        /\ phase' = IF out' = None THEN "rejected" ELSE "emitting"
        /\ UNCHANGED <<dev, up, down, losses>>
    BY DEF Tock, Reject, avars
  <1>2. /\ rstate # "done" /\ quiet' = "recent" /\ UNCHANGED <<chunks, manifest>>
        /\ quiet # "recent"
    BY <1>1 DEF Tick, GateIsOpen
  <1>3. Fresh \/ Settled BY <1>2 DEF Flow, OneRequest
  <1>4. manifest \in {None, dev.held} BY DEF Flow, OwnPayload
  <1>5. CASE manifest = None /\ Received = 0
    <2>1. /\ out' = Start
          /\ UNCHANGED <<rstate, awaitingProgress, unanswered, staleRounds,
                         heldAtLastRepair, failed>>
      BY <1>1, <1>5 DEF Tick, AskToStart
    <2>2. phase' = "emitting" BY <1>1, <2>1, RequestTypes
    <2> QED BY <1>1, <1>2, <1>3, <2>1, <2>2, FlowStart
  <1>6. CASE ~(manifest = None /\ Received = 0)
    <2>1. ~Fresh /\ Settled BY <1>3, <1>6, ReceivedFacts DEF Fresh
    <2>2. CASE /\ manifest = None \/ Missing(dev.held) # {}
               /\ Query(out')
      BY <1>1, <1>2, <2>1, <2>2, FlowQuery
    <2>3. CASE manifest # None /\ Missing(dev.held) = {} /\ Finish(out')
      BY <1>1, <1>2, <2>1, <2>3, FlowFinish
    <2>4. CASE manifest # None /\ Missing(dev.held) # {} /\ AskForRepair(out')
      BY <1>1, <1>2, <2>1, <2>4, FlowRepair
    <2> QED BY <1>1, <1>4, <1>6, <2>2, <2>3, <2>4 DEF Tick
  <1> QED BY <1>5, <1>6

\* A request goes on the air: the receiver waits for what it asked for.
LEMMA FlowEmit ==
  ASSUME PushInv, Flow, EmitSucceeds, Active'
  PROVE  Flow'
  <1>1. /\ phase = "emitting" /\ down' = down \cup {out} /\ AfterEmit
        /\ UNCHANGED <<rvars, out, dev, up, losses>>
    BY DEF EmitSucceeds
  <1>2. phase' = "loop" /\ rstate # "done"
    BY <1>1 DEF AfterEmit, Reject, Active
  <1>3. (DeviceSteady /\ OwnPayload /\ HeldCounted)'
    BY <1>1 DEF Flow, DeviceSteady, OwnPayload, Fresh, HeldCounted, Received, rvars
  <1>4. OneRequest'
    BY <1>1, <1>2 DEF Flow, OneRequest, Fresh, Settled, Asks, rvars
  <1>5. NothingLost' BY <1>1 DEF Flow, NothingLost, Asks, rvars
  <1>6. AnswersLost'
    BY <1>1 DEF Flow, AnswersLost, AnswerDue, rvars
  <1>7. RepairDue => RepairDue' BY <1>1 DEF RepairDue, Missing, Asks, rvars
  <1>8. RepairsLost' BY <1>1, <1>7 DEF Flow, RepairsLost, Received, rvars
  <1> QED BY <1>3, <1>4, <1>5, <1>6, <1>8 DEF Flow

\* The first request goes out to a device that waits for it.
LEMMA FlowStat ==
  ASSUME PushInv, Flow, StatAnswered
  PROVE  Flow' /\ failed' = failed
  <1>1. /\ phase = "stat" /\ UNCHANGED <<rvars, dev, up, down, losses>>
    BY DEF StatAnswered, avars
  <1>2. dev.upst = "pending" /\ out = None /\ Fresh
    BY <1>1 DEF Flow, OneRequest, DeviceSteady
  <1>3. phase' = "emitting" /\ out' = Start
    BY <1>2 DEF StatAnswered, HoldsNothing, Serving
  <1>4. down = {}
    BY <1>2, RequestTypes DEF Flow, OneRequest, PushInv, AirTypeOK
  <1>5. (DeviceSteady /\ OwnPayload /\ HeldCounted)'
    BY <1>1 DEF Flow, DeviceSteady, OwnPayload, Fresh, HeldCounted, Received, rvars
  <1>6. ~Asks("repair")' /\ ~Asks("complete")' BY <1>3, RequestTypes DEF Asks
  <1>7. OneRequest'
    BY <1>1, <1>2, <1>3, <1>4, <1>6 DEF Flow, OneRequest, Fresh, rvars
  <1>8. NothingLost' BY <1>1, <1>6 DEF Flow, NothingLost, rvars
  <1>9. AnswersLost'
    BY <1>1, <1>4 DEF Flow, AnswersLost, AnswerDue, rvars
  <1>10. RepairDue => RepairDue'
    BY <1>1, <1>2, <1>4 DEF RepairDue, Missing, Asks, rvars
  <1>11. RepairsLost' BY <1>1, <1>10 DEF Flow, RepairsLost, Received, rvars
  <1> QED BY <1>1, <1>5, <1>7, <1>8, <1>9, <1>11 DEF Flow, rvars

\* A frame is heard: what it carried is in, and what is not in is still due.
LEMMA FlowReceive ==
  ASSUME PushInv, Flow, Active, NEW f \in up, Receive(f)
  PROVE  Flow' /\ failed' = failed
  <1>1. /\ up' \subseteq up /\ up \ {f} \subseteq up' /\ OnFrame(f)
        /\ UNCHANGED <<phase, out, dev, down, losses>>
    BY DEF Receive, Heard, Active, cvars
  <1>2. /\ quiet' = "recent" /\ unanswered' = 0
        /\ UNCHANGED <<staleRounds, heldAtLastRepair, failed>>
    BY <1>1 DEF OnFrame, ProofOfLife
  <1>3. f \in Uplink BY DEF PushInv, AirTypeOK
  <1>4. dev.upst # "pending" /\ phase # "stat" /\ dev.held \in Version
    BY DEF Flow, DeviceSteady, OneRequest
  <1>5. /\ f.type = "chunk" => f.data = dev.held
        /\ f.type = "manifest" => f.crc = dev.held
    BY DEF Flow, OwnPayload
  <1>6. DeviceSteady' BY <1>1, <1>4 DEF Flow, DeviceSteady
  <1>7. ASSUME NEW i, Chunk(i, dev.held) \in up, Chunk(i, dev.held) \notin up'
        PROVE  f = Chunk(i, dev.held)
    BY <1>1, <1>7
  <1>8. ASSUME Manifest(dev.held) \in up, Manifest(dev.held) \notin up'
        PROVE  f = Manifest(dev.held)
    BY <1>1, <1>8
  <1>9. losses \in Nat /\ unanswered \in Nat BY ReceivedFacts
  <1>10. CASE f.type = "chunk"
    <2>1. /\ f.seq \in Seqs(dev.held) /\ f = Chunk(f.seq, dev.held)
      BY <1>3, <1>5, <1>10, ChunkOnAir
    <2>2. /\ chunks' = [i \in DOMAIN chunks \cup {f.seq} |->
                          IF i = f.seq THEN f.data ELSE chunks[i]]
          /\ rstate' = IF rstate = "start" THEN "receiving" ELSE rstate
          /\ UNCHANGED <<manifest, awaitingProgress>>
      BY <1>1, <1>10 DEF OnFrame
    <2>3. DOMAIN chunks' = DOMAIN chunks \cup {f.seq} BY <2>2
    <2>4. /\ Received' = IF f.seq \in DOMAIN chunks THEN Received ELSE Received + 1
          /\ Received \in Nat /\ heldAtLastRepair \in Nat \cup {-1}
      BY <2>3, FS_AddElement, ReceivedFacts DEF Received, PushInv, ReceiverInv
    <2>5. OwnPayload' BY <1>1, <1>5, <1>10, <2>2 DEF Flow, OwnPayload
    <2>6. OneRequest'
      BY <1>1, <1>2, <1>4, <2>2, <2>3 DEF Flow, OneRequest, Fresh, Asks
    <2>7. NothingLost'
      <3>1. ASSUME Manifest(dev.held) \in up PROVE Manifest(dev.held) \in up'
        BY <1>8, <1>10, <3>1, FrameKinds
      <3>2. ASSUME NEW i, Chunk(i, dev.held) \in up
            PROVE  i \in DOMAIN chunks' \/ Chunk(i, dev.held) \in up'
        BY <1>7, <2>3, <3>2, FrameKinds
      <3> QED BY <1>1, <2>2, <2>3, <3>1, <3>2 DEF Flow, NothingLost, Asks
    <2>8. AnswerDue => AnswerDue' BY <1>1, <1>10 DEF AnswerDue
    <2>9. AnswersLost' BY <1>1, <1>2, <1>9, <2>2, <2>8 DEF Flow, AnswersLost
    <2>10. HeldCounted' BY <1>2, <2>4 DEF Flow, HeldCounted
    <2>11. CASE f.seq \in DOMAIN chunks
      <3>1. DOMAIN chunks' = DOMAIN chunks BY <2>3, <2>11
      <3>2. ASSUME NEW i \in Missing(dev.held), Chunk(i, dev.held) \in up
            PROVE  Chunk(i, dev.held) \in up'
        BY <1>7, <2>11, <3>2, FrameKinds DEF Missing
      <3>3. RepairDue => RepairDue' BY <1>1, <3>1, <3>2 DEF RepairDue, Missing, Asks
      <3>4. RepairsLost' BY <1>1, <1>2, <2>4, <2>11, <3>3 DEF Flow, RepairsLost
      <3> QED BY <1>2, <1>6, <2>5, <2>6, <2>7, <2>9, <2>10, <3>4 DEF Flow
    <2>12. CASE f.seq \notin DOMAIN chunks
      <3>1. heldAtLastRepair' < Received'
        BY <1>2, <2>4, <2>12 DEF Flow, HeldCounted
      <3>2. RepairsLost' BY <1>1, <1>2, <3>1 DEF Flow, RepairsLost
      <3> QED BY <1>2, <1>6, <2>5, <2>6, <2>7, <2>9, <2>10, <3>2 DEF Flow
    <2> QED BY <2>11, <2>12
  <1>11. CASE f.type # "chunk"
    <2>1. /\ manifest' \in {manifest, dev.held}
          /\ f.type = "manifest" => manifest' # None
          /\ manifest # None => manifest' = manifest
          /\ awaitingProgress' => awaitingProgress /\ f.type # "progress"
          /\ rstate = "done" <=> rstate' = "done"
          /\ UNCHANGED chunks
      <3>1. f.type \in {"manifest", "progress"} BY <1>3, <1>11, FrameTypes
      <3>2. dev.held # None BY <1>4, VersionFacts
      <3> QED BY <1>1, <1>5, <3>1, <3>2 DEF OnFrame
    <2>2. OwnPayload' BY <1>1, <2>1 DEF Flow, OwnPayload
    <2>3. OneRequest' BY <1>1, <1>2, <1>4, <2>1 DEF Flow, OneRequest, Fresh, Asks
    <2>4. ASSUME NEW i, Chunk(i, dev.held) \in up PROVE Chunk(i, dev.held) \in up'
      BY <1>7, <1>11, <2>4, FrameKinds
    <2>5. NothingLost'
      <3>1. manifest' # None \/ Manifest(dev.held) \notin up \/ Manifest(dev.held) \in up'
        BY <1>8, <2>1, FrameKinds
      <3> QED BY <1>1, <2>1, <2>4, <3>1 DEF Flow, NothingLost, Asks
    <2>6. AnswerDue => AnswerDue' \/ ~awaitingProgress'
      BY <1>1, <2>1 DEF AnswerDue
    <2>7. AnswersLost' BY <1>1, <1>2, <1>9, <2>1, <2>6 DEF Flow, AnswersLost
    <2>8. RepairDue => RepairDue' BY <1>1, <2>1, <2>4 DEF RepairDue, Missing, Asks
    <2>9. RepairsLost' /\ HeldCounted'
      BY <1>1, <1>2, <2>1, <2>8 DEF Flow, RepairsLost, HeldCounted, Received
    <2> QED BY <1>2, <1>6, <2>2, <2>3, <2>5, <2>7, <2>9 DEF Flow
  <1> QED BY <1>10, <1>11

\* A frame is lost: the count of losses makes up for what is no longer due.
LEMMA FlowLose ==
  ASSUME PushInv, Flow, Active, Lose, losses' = losses + 1
  PROVE  Flow' /\ failed' = failed
  <1>1. /\ up' \subseteq up /\ down' \subseteq down
        /\ UNCHANGED <<rvars, cvars, dev>>
        /\ ~Settled
    BY DEF Lose, Settled
  <1>2. (DeviceSteady /\ OwnPayload /\ HeldCounted)'
    BY <1>1 DEF Flow, DeviceSteady, OwnPayload, Fresh, HeldCounted, Received, rvars
  <1>3. OneRequest'
    BY <1>1 DEF Flow, OneRequest, Fresh, Asks, rvars, cvars
  <1>4. /\ losses \in Nat /\ unanswered \in Nat /\ staleRounds \in Nat
        /\ losses' = losses + 1
    BY ReceivedFacts
  <1>5. NothingLost' BY <1>4 DEF NothingLost
  <1>6. AnswersLost' BY <1>1, <1>4 DEF Flow, AnswersLost, rvars
  <1>7. RepairsLost' BY <1>1, <1>4 DEF Flow, RepairsLost, rvars
  <1> QED BY <1>1, <1>2, <1>3, <1>5, <1>6, <1>7 DEF Flow, rvars

\* The device answers what it hears, or starts a pass over what is asked for.
LEMMA FlowDeviceHears ==
  ASSUME PushInv, Flow, Active, NEW f \in down, DeviceHears(f)
  PROVE  Flow' /\ failed' = failed
  <1>1. /\ down' \subseteq down /\ down \ {f} \subseteq down'
        /\ UNCHANGED <<rvars, cvars, losses>>
        /\ dev.held \in Version /\ dev.upst # "idle" /\ Serve(f)
    BY VersionFacts DEF DeviceHears, Heard, Flow, DeviceSteady
  <1>2. f = out /\ f \in Requests /\ rstate # "done" /\ ~Settled /\ phase # "stat"
    BY RequestTypes DEF Flow, OneRequest, PushInv, AirTypeOK, Settled
  <1>3. f.type # "complete" /\ out # None
    BY <1>2, RequestTypes DEF Flow, OneRequest, Asks
  <1>4. HeldCounted' BY <1>1 DEF Flow, HeldCounted, Received, rvars
  <1>5. ASSUME f.type \in {"start", "repair"} PROVE Flow'
    <2>1. PICK ids \in SUBSET Seqs(dev.held) :
            /\ dev' = Pass(ids) /\ UNCHANGED up
            /\ f.type = "start" => ids = Seqs(dev.held)
            /\ f.type = "repair" => ids = f.ids \cap Seqs(dev.held)
      BY <1>1, <1>5 DEF Serve
    <2>2. dev'.held = dev.held /\ dev'.upst = "sending" /\ dev'.plan = ids
      BY <2>1 DEF Pass, PushInv, DeviceTypeOK
    <2>3. (DeviceSteady /\ OwnPayload)'
      BY <1>1, <2>1, <2>2 DEF Flow, DeviceSteady, OwnPayload, rvars
    <2>4. OneRequest'
      BY <1>1, <1>2, <1>5, <2>1, <2>2 DEF Flow, OneRequest, Fresh, Asks, rvars, cvars
    <2>5. NothingLost'
      BY <1>1, <1>2, <1>3, <1>5, <2>1, <2>2 DEF Flow, NothingLost, Asks, rvars, cvars
    <2>6. AnswersLost'
      BY <1>1, <1>2, <1>5, <2>1, RequestTypes
         DEF Flow, AnswersLost, AnswerDue, rvars, cvars
    <2>7. ASSUME RepairDue PROVE RepairDue'
      <3>1. PICK i \in Missing(dev.held) :
              \/ f.type = "repair" /\ i \in f.ids
              \/ i \in dev.plan
              \/ Chunk(i, dev.held) \in up
        BY <1>2, <2>7 DEF RepairDue, Asks
      <3>2. i \in Seqs(dev.held) /\ i \in Missing(dev.held)'
        BY <1>1, <2>2 DEF Missing, rvars
      <3>3. f.type = "repair" => dev.plan \subseteq f.ids
        BY <1>2, <1>3 DEF Flow, OneRequest, Asks
      <3>4. i \in dev'.plan \/ Chunk(i, dev'.held) \in up'
        BY <1>5, <2>1, <2>2, <3>1, <3>2, <3>3
      <3> QED BY <3>2, <3>4 DEF RepairDue
    <2>8. RepairsLost' BY <1>1, <2>7 DEF Flow, RepairsLost, Received, rvars
    <2> QED BY <1>4, <2>3, <2>4, <2>5, <2>6, <2>8 DEF Flow
  <1>6. ASSUME f.type = "query" PROVE Flow'
    <2>1. f = ProgressQ
      BY <1>2, <1>6, RequestTypes
    <2>2. dev.upst # "pending"
      BY <1>2, <1>3, <2>1, RequestTypes DEF Flow, DeviceSteady, OneRequest
    <2>3. Serving(dev.upst)
      BY <1>1, <2>2 DEF Serving, PushInv, DeviceTypeOK, UpSt
    <2>4. PICK d : up' = up \cup {Progress(d)} /\ UNCHANGED dev
      BY <1>1, <1>6, <2>3 DEF Serve
    <2>5. (DeviceSteady /\ OwnPayload)'
      BY <1>1, <2>2, <2>4, FrameKinds DEF Flow, DeviceSteady, OwnPayload, rvars
    <2>6. OneRequest'
      BY <1>1, <1>2, <2>4 DEF Flow, OneRequest, Fresh, Asks, rvars, cvars
    <2>7. NothingLost' BY <1>1, <2>4 DEF Flow, NothingLost, Asks, rvars, cvars
    <2>8. AnswerDue' BY <2>4, FrameKinds DEF AnswerDue
    <2>9. AnswersLost' BY <1>1, <2>8 DEF Flow, AnswersLost, rvars
    <2>10. RepairDue => RepairDue'
      BY <1>1, <1>2, <1>6, <2>4 DEF RepairDue, Missing, Asks, rvars, cvars
    <2>11. RepairsLost' BY <1>1, <2>10 DEF Flow, RepairsLost, Received, rvars
    <2> QED BY <1>4, <2>5, <2>6, <2>7, <2>9, <2>11 DEF Flow
  <1> QED BY <1>1, <1>2, <1>3, <1>5, <1>6, RequestTypes DEF rvars

\* The device sends the next frame of its pass.
LEMMA FlowDeviceSends ==
  ASSUME PushInv, Flow, Active, DeviceSends
  PROVE  Flow' /\ failed' = failed
  <1>1. /\ UNCHANGED <<rvars, cvars, down, losses>>
        /\ dev.upst = "sending" /\ ~Settled /\ phase # "stat"
        /\ dev.held \in Version
    BY DEF DeviceSends, Settled, Flow, OneRequest, DeviceSteady
  <1>2. PICK f \in Uplink :
          /\ up' = up \cup {f}
          /\ dev'.held = dev.held /\ dev'.plan \subseteq dev.plan
          /\ dev'.upst \in {"sending", "await"}
          /\ dev'.upst = "await" => dev'.plan = {} /\ ~dev'.manifestDue /\ f = Manifest(dev.held)
          /\ f = Manifest(dev.held) \/ \E i \in dev.plan : f = Chunk(i, dev.held)
          /\ \A i \in dev.plan \ dev'.plan : f = Chunk(i, dev.held)
    <2>1. CASE dev.plan = {} \/ dev.manifestDue
      <3>1. /\ up' = up \cup {Manifest(dev.held)}
            /\ dev' = [dev EXCEPT !.manifestDue = FALSE,
                                  !.upst = IF dev.manifestDue THEN @ ELSE "await"]
        BY <2>1 DEF DeviceSends
      <3> QED BY <1>1, <2>1, <3>1, FrameTypes DEF PushInv, DeviceTypeOK
    <2>2. CASE ~(dev.plan = {} \/ dev.manifestDue)
      <3>1. PICK i \in dev.plan : /\ up' = up \cup {Chunk(i, dev.held)}
                                  /\ dev' = [dev EXCEPT !.plan = @ \ {i}]
        BY <2>2 DEF DeviceSends
      <3>2. i \in Seqs(dev.held) BY <1>1, VersionFacts DEF PushInv, DeviceTypeOK
      <3>3. /\ dev'.held = dev.held /\ dev'.plan = dev.plan \ {i}
            /\ dev'.upst = "sending"
        BY <1>1, <3>1 DEF PushInv, DeviceTypeOK
      <3> QED BY <1>1, <3>1, <3>2, <3>3, FrameTypes
    <2> QED BY <2>1, <2>2
  <1>3. /\ f.type = "chunk" => f.data = dev.held
        /\ f.type = "manifest" => f.crc = dev.held
    BY <1>2, FrameKinds
  <1>4. (DeviceSteady /\ OwnPayload /\ HeldCounted)'
    BY <1>1, <1>2, <1>3
       DEF Flow, DeviceSteady, OwnPayload, HeldCounted, Received, rvars
  <1>5. OneRequest'
    BY <1>1, <1>2 DEF Flow, OneRequest, Fresh, Asks, rvars, cvars
  <1>6. NothingLost'
    BY <1>1, <1>2 DEF Flow, NothingLost, Asks, rvars, cvars
  <1>7. AnswerDue => AnswerDue' BY <1>1, <1>2 DEF AnswerDue, cvars
  <1>8. AnswersLost' BY <1>1, <1>7 DEF Flow, AnswersLost, rvars
  <1>9. RepairDue => RepairDue'
    BY <1>1, <1>2 DEF RepairDue, Missing, Asks, rvars, cvars
  <1>10. RepairsLost' BY <1>1, <1>9 DEF Flow, RepairsLost, Received, rvars
  <1> QED BY <1>1, <1>4, <1>5, <1>6, <1>8, <1>10 DEF Flow, rvars

\* Time passes on a settled line.
LEMMA FlowTime ==
  ASSUME Prompt, PushInv, Flow, TimePasses
  PROVE  Flow' /\ failed' = failed
  <1>1. /\ UNCHANGED <<chunks, manifest, rstate, awaitingProgress, unanswered,
                       staleRounds, heldAtLastRepair, failed>>
        /\ UNCHANGED <<cvars, dev, avars>> /\ Settled
    BY DEF TimePasses, QuietRises
  <1>2. Settled' BY <1>1 DEF Settled, cvars, avars
  <1>3. (DeviceSteady /\ OwnPayload /\ HeldCounted)'
    BY <1>1 DEF Flow, DeviceSteady, OwnPayload, Fresh, HeldCounted, Received, avars
  <1>4. OneRequest'
    BY <1>1, <1>2 DEF Flow, OneRequest, Fresh, Asks, cvars, avars
  <1>5. NothingLost' BY <1>1 DEF Flow, NothingLost, Asks, cvars, avars
  <1>6. AnswersLost' BY <1>1 DEF Flow, AnswersLost, AnswerDue, cvars, avars
  <1>7. RepairDue => RepairDue' BY <1>1 DEF RepairDue, Missing, Asks, cvars, avars
  <1>8. RepairsLost' BY <1>1, <1>7 DEF Flow, RepairsLost, Received, avars
  <1> QED BY <1>1, <1>3, <1>4, <1>5, <1>6, <1>8 DEF Flow

\* A push begins on a clean line.
LEMMA FlowPush ==
  ASSUME NEW v \in Version, dev = Holding(v), up = {}, down = {}, Push
  PROVE  Flow' /\ failed' = None
  <1>1. /\ DOMAIN chunks' = {} /\ manifest' = None /\ rstate' = "start"
        /\ awaitingProgress' = FALSE /\ heldAtLastRepair' = -1 /\ failed' = None
        /\ phase' = "stat" /\ out' = None /\ UNCHANGED <<dev, up, down, losses>>
    BY DEF Push, NewReceiver, avars
  <1>2. /\ dev.held = v /\ dev.upst = "pending" /\ dev.plan = {} /\ ~dev.manifestDue
    BY DEF Holding
  <1>3. Fresh' BY <1>1 DEF Fresh
  <1>4. (DeviceSteady /\ OwnPayload)'
    BY <1>1, <1>2, <1>3 DEF DeviceSteady, OwnPayload
  <1>5. OneRequest' BY <1>1, <1>2, <1>3 DEF OneRequest, Asks
  <1>6. NothingLost' BY <1>1, <1>2 DEF NothingLost, Asks
  <1>7. AnswersLost' /\ RepairsLost' BY <1>1 DEF AnswersLost, RepairsLost
  <1>8. HeldCounted'
    BY <1>1, FS_EmptySet DEF HeldCounted, Received
  <1> QED BY <1>1, <1>4, <1>5, <1>6, <1>7, <1>8 DEF Flow

\* Every step keeps what is due and what was lost in balance.
LEMMA LossStep ==
  ASSUME Prompt, LossesCounted > MaxUnanswered \/ LossesCounted > MaxStale,
         PushInv, LossInv, [Next]_vars
  PROVE  LossInv'
  <1> SUFFICES ASSUME Calm'
               PROVE  /\ failed' = None
                      /\ pushes' = 0 => /\ phase' = "idle" /\ up' = {} /\ down' = {}
                                        /\ dev'.held \in Version
                                        /\ dev' = Holding(dev'.held)
                      /\ Active' => Flow'
    BY DEF LossInv
  <1>1. /\ Calm /\ publishes' = publishes
        /\ losses' = losses \/ (Lose /\ losses' = losses + 1)
    BY CalmStep
  <1>2. /\ failed = None /\ (Active => Flow)
        /\ pushes = 0 => /\ phase = "idle" /\ up = {} /\ down = {}
                         /\ dev.held \in Version /\ dev = Holding(dev.held)
    BY <1>1 DEF LossInv
  <1>3. pushes \in Nat BY DEF PushInv, CountersTypeOK
  <1>4. CASE Push
    <2>1. pushes = 0 /\ pushes' = 1 BY <1>3, <1>4 DEF Push, Calm
    <2> QED BY <1>2, <1>4, <2>1, FlowPush
  <1>5. CASE UNCHANGED vars
    <2>1. UNCHANGED <<failed, phase, pushes, up, down, dev>>
      BY <1>5 DEF vars, rvars, cvars, avars
    <2>2. ASSUME Active' PROVE Flow'
      <3>1. Flow BY <1>2, <2>1, <2>2 DEF Active
      <3> QED BY <3>1, <1>5
              DEF Flow, DeviceSteady, OwnPayload, OneRequest, NothingLost,
                  AnswersLost, AnswerDue, RepairsLost, RepairDue, Missing,
                  HeldCounted, Received, Fresh, Asks, Settled,
                  vars, rvars, cvars, avars
    <2> QED BY <1>2, <2>1, <2>2
  <1>6. ASSUME ~Push, ~UNCHANGED vars
        PROVE  /\ pushes' = pushes /\ pushes # 0
               /\ Active => failed' = None
               /\ ~Active => UNCHANGED failed
               /\ Active' => Active /\ Flow'
    <2>1. CASE StatAnswered
      <3>1. Active BY <2>1 DEF StatAnswered, Active
      <3> QED BY <1>2, <2>1, <3>1, FlowStat DEF StatAnswered, Active
    <2>2. CASE Tock
      <3>1. Active /\ phase # "idle" BY <2>2 DEF Tock, Active
      <3> QED BY <1>1, <1>2, <2>2, <3>1, FlowTock DEF Tock
    <2>3. CASE EmitSucceeds
      <3>1. Active /\ phase # "idle" BY <2>3 DEF EmitSucceeds, Active
      <3> QED BY <1>2, <2>3, <3>1, FlowEmit DEF EmitSucceeds, rvars
    <2>4. CASE EmitFails \/ GiveUp
      <3>1. ~Active' /\ phase # "idle" /\ UNCHANGED <<pushes, failed>>
        BY <2>4 DEF EmitFails, GiveUp, Reject, Active, rvars
      <3> QED BY <1>2, <3>1
    <2>5. CASE Collect
      <3>1. ~Active' /\ phase # "idle" /\ UNCHANGED <<pushes, failed>>
        BY <2>5 DEF Collect, Active, rvars
      <3> QED BY <1>2, <3>1
    <2>6. ASSUME NEW f \in up, Receive(f)
          PROVE  /\ pushes' = pushes /\ pushes # 0
                 /\ Active => failed' = None
                 /\ ~Active => UNCHANGED failed
                 /\ Active' => Active /\ Flow'
      <3>1. UNCHANGED <<pushes, phase>> /\ up # {}
        BY <2>6 DEF Receive, cvars
      <3>2. ~Active => UNCHANGED failed
        BY <2>6 DEF Receive, Active, rvars
      <3> QED BY <1>2, <2>6, <3>1, <3>2, FlowReceive DEF Active
    <2>7. ASSUME NEW f \in down, DeviceHears(f)
          PROVE  /\ pushes' = pushes /\ pushes # 0
                 /\ Active => failed' = None
                 /\ ~Active => UNCHANGED failed
                 /\ Active' => Active /\ Flow'
      <3>1. UNCHANGED <<pushes, phase, failed>> /\ down # {}
        BY <2>7 DEF DeviceHears, cvars, rvars
      <3> QED BY <1>2, <2>7, <3>1, FlowDeviceHears DEF Active
    <2>8. CASE Lose
      <3>1. UNCHANGED <<pushes, phase, failed>> /\ (up # {} \/ down # {})
        BY <2>8 DEF Lose, cvars, rvars
      <3>2. losses' = losses + 1
        BY <1>1, <2>8, TransferAssumption, ReceivedFacts DEF Lose, Calm
      <3> QED BY <1>2, <2>8, <3>1, <3>2, FlowLose DEF Active
    <2>9. CASE DeviceSends
      <3>1. UNCHANGED <<pushes, phase, failed>> /\ dev.upst = "sending"
        BY <2>9 DEF DeviceSends, cvars, rvars
      <3>2. pushes # 0 BY <1>2, <3>1 DEF Holding
      <3> QED BY <1>2, <2>9, <3>1, <3>2, FlowDeviceSends DEF Active
    <2>10. CASE TimePasses
      <3>1. UNCHANGED <<pushes, phase>> /\ Active
        BY <2>10 DEF TimePasses, cvars, Active
      <3> QED BY <1>2, <2>10, <3>1, FlowTime DEF Active
    <2>11. CASE Publish
      <3>1. publishes' = publishes + 1 /\ publishes \in Nat
        BY <2>11, TransferAssumption DEF Publish, PushInv, CountersTypeOK
      <3> QED BY <1>1, <3>1
    <2> QED BY <1>6, <2>1, <2>2, <2>3, <2>4, <2>5, <2>6, <2>7, <2>8, <2>9, <2>10,
               <2>11 DEF Next
  <1> QED BY <1>2, <1>4, <1>5, <1>6

\* The first push from a device that stays is not given up before it has lost
\* more frames than one of the receiver's bounds, whichever frames they were:
\* after the loss that stranded a chunk, every round that tick() counts against
\* the device has lost its request or its answer.  (For an air that is quiet
\* before the receiver acts.)
THEOREM FirstPushToleratesLoss ==
  ASSUME Prompt, LossesCounted > MaxUnanswered \/ LossesCounted > MaxStale
  PROVE  SafeSpec => [](Calm => failed = None)
  <1>1. Init => LossInv
    <2> SUFFICES ASSUME Init PROVE LossInv OBVIOUS
    <2>1. failed = None /\ phase = "idle" /\ up = {} /\ down = {}
      BY DEF Init, ReceiverInit
    <2>2. PICK v \in Version : dev = Holding(v) BY DEF Init
    <2>3. dev.held = v BY <2>2 DEF Holding
    <2> QED BY <2>1, <2>2, <2>3 DEF LossInv, Active
  <1>2. PushInv /\ LossInv /\ [Next]_vars => LossInv'
    BY LossStep
  <1>3. LossInv => (Calm => failed = None) BY DEF LossInv
  <1> QED BY <1>1, <1>2, <1>3, Invariance, PTL DEF SafeSpec

\* Where push() is called once, that is ToleratesLoss.  (The COMPLETE of one push,
\* late, can release the payload under the next.)
THEOREM PushToleratesLoss ==
  ASSUME Prompt, MaxPushes <= 1,
         LossesCounted > MaxUnanswered \/ LossesCounted > MaxStale
  PROVE  SafeSpec => []ToleratesLoss
  <1>1. PushInv /\ (Calm => failed = None) => ToleratesLoss
    BY TransferAssumption DEF PushInv, CountersTypeOK, Calm, ToleratesLoss
  <1>2. SafeSpec => [](Calm => failed = None) BY FirstPushToleratesLoss
  <1> QED BY <1>1, <1>2, Invariance, PTL
=============================================================================
