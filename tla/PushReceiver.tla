---------------------------- MODULE PushReceiver ----------------------------
(***************************************************************************)
(* The passive receiver of a push transfer (lib/push-receiver.js): frames  *)
(* are stored as they come, and tick() acts only when the line is quiet.   *)
(*                                                                         *)
(* One payload id is at stake, but what is published under it may change:  *)
(* the bytes of a chunk are abstracted to the version they belong to, and  *)
(* a CRC to the version of the payload it was computed from.               *)
(***************************************************************************)
EXTENDS Integers, FiniteSets

CONSTANTS
  Version,               \* the payloads published under the id, one by one
  Count,                 \* [Version -> Nat \ {0}], the chunks of each
  MaxStale,              \* give up after this many fruitless repair rounds
  MaxUnanswered,         \* give up after this many unanswered queries
  RepairIdsMax,          \* REPAIR_IDS_MAX, the ids one frame can name
  None                   \* null

ASSUME ReceiverAssumption == /\ Count \in [Version -> Nat \ {0}]
                             /\ MaxStale \in Nat \ {0}
                             /\ MaxUnanswered \in Nat \ {0}
                             /\ RepairIdsMax \in Nat \ {0}
                             /\ None \notin Version

VARIABLES
  chunks,                \* [seqs held -> Version], this.chunks
  manifest,              \* this.manifest, None when null
  rstate,                \* this.state
  progressDone,          \* this.progressDone
  awaitingProgress,      \* this.awaitingProgress
  unanswered,            \* this.unanswered
  staleRounds,           \* this.staleRounds
  heldAtLastRepair,      \* this.heldAtLastRepair
  failed,                \* this.failed, None when null
  quiet                  \* the time since the last frame, either way

rvars == <<chunks, manifest, rstate, progressDone, awaitingProgress, unanswered,
           staleRounds, heldAtLastRepair, failed, quiet>>

Seqs(v) == 0 .. Count[v] - 1
AllSeqs == UNION {Seqs(v) : v \in Version}

\* The frames of the protocol, each with what the receiver or device uses.
Start       == [type |-> "start"]
ProgressQ   == [type |-> "query"]
Repair(ids) == [type |-> "repair", ids |-> ids]
Complete(v) == [type |-> "complete", crc |-> v]
Chunk(i, v) == [type |-> "chunk", seq |-> i, data |-> v]
Manifest(v) == [type |-> "manifest", crc |-> v]
Progress(d) == [type |-> "progress", done |-> d]

Requests == {Start, ProgressQ} \cup {Repair(ids) : ids \in (SUBSET AllSeqs) \ {{}}}
              \cup {Complete(v) : v \in Version}
Uplink == (UNION {{Chunk(i, v) : i \in Seqs(v)} : v \in Version})
            \cup {Manifest(v) : v \in Version} \cup {Progress(d) : d \in BOOLEAN}

\* null is neither a request, nor a reason for a failure, nor a payload.
ASSUME NoneAssumption == /\ None \notin Requests
                         /\ \A v \in Version : None # [i \in Seqs(v) |-> v]
                         /\ None \notin {"unresponsive", "stuck", "crc"}

\* "recent": less than actMs; "act": at least actMs; "idle": at least idleMs.
Quiet == {"recent", "act", "idle"}

\* lastRxMs and lastTxMs start at -Infinity: a new receiver is idle.
ReceiverInit ==
  /\ chunks = << >> /\ manifest = None /\ rstate = "start"
  /\ progressDone = FALSE /\ awaitingProgress = FALSE
  /\ unanswered = 0 /\ staleRounds = 0 /\ heldAtLastRepair = -1
  /\ failed = None /\ quiet = "idle"

\* new PushReceiver(pid)
NewReceiver ==
  /\ chunks' = << >> /\ manifest' = None /\ rstate' = "start"
  /\ progressDone' = FALSE /\ awaitingProgress' = FALSE
  /\ unanswered' = 0 /\ staleRounds' = 0 /\ heldAtLastRepair' = -1
  /\ failed' = None /\ quiet' = "idle"

-----------------------------------------------------------------------------
Received == Cardinality(DOMAIN chunks)

\* Mutant: the loop stops one short.
MissingOffByOne(v) == {i \in Seqs(v) : i < Count[v] - 1} \ DOMAIN chunks

\* The ids that the payload still lacks.
Missing(v) == Seqs(v) \ DOMAIN chunks

\* Mutant: one id too few.
FirstIdsOffByOne(ids) ==
  {i \in ids : Cardinality({j \in ids : j <= i}) < RepairIdsMax}

\* The first ids of a set, as many as fit in a frame.
FirstIds(ids) == {i \in ids : Cardinality({j \in ids : j < i}) < RepairIdsMax}

\* Mutant: the CRC is not compared.
AssembleUnchecked(v) ==
  IF Seqs(v) \subseteq DOMAIN chunks
  THEN [i \in Seqs(v) |-> chunks[i]] ELSE None

\* The chunks side by side, if the set is complete and its CRC is right.
Assemble(v) ==
  IF \A i \in Seqs(v) : i \in DOMAIN chunks /\ chunks[i] = v
  THEN [i \in Seqs(v) |-> chunks[i]] ELSE None

ProofOfLife == unanswered' = 0

\* A frame with our payload id.
OnFrame(f) ==
  /\ quiet' = "recent"
  /\ ProofOfLife
  /\ \/ /\ f.type = "chunk"
        /\ chunks' = [i \in DOMAIN chunks \cup {f.seq} |->
                        IF i = f.seq THEN f.data ELSE chunks[i]]
        /\ rstate' = IF rstate = "start" THEN "receiving" ELSE rstate
        /\ UNCHANGED <<manifest, progressDone, awaitingProgress>>
     \/ /\ f.type = "manifest"
        /\ manifest' = IF manifest = None THEN f.crc ELSE manifest
        /\ rstate' = IF rstate = "start" THEN "receiving" ELSE rstate
        /\ UNCHANGED <<chunks, progressDone, awaitingProgress>>
     \/ /\ f.type = "progress"
        /\ awaitingProgress' = FALSE
        /\ progressDone' = f.done
        /\ UNCHANGED <<chunks, manifest, rstate>>
  /\ UNCHANGED <<staleRounds, heldAtLastRepair, failed>>

-----------------------------------------------------------------------------
(* tick().  Each disjunct below says what it returns.                      *)

\* The device has said where it is, or we hold everything: no need to wait
\* for the long silence.
Known == manifest # None /\ (progressDone \/ Missing(manifest) = {})

GateIsOpen == quiet = "idle" \/ (Known /\ quiet = "act")

\* Mutants: unanswered queries are not counted; the first one already is.
NeverCount == 0
CountFirst == unanswered + 1

\* One more query in a row without an answer, unless the last one got its.
CountUnanswered == IF awaitingProgress THEN unanswered + 1 ELSE 0

Query(out) ==
  /\ unanswered' = CountUnanswered
  /\ IF unanswered' >= MaxUnanswered
     THEN failed' = "unresponsive" /\ out = None /\ UNCHANGED awaitingProgress
     ELSE awaitingProgress' = TRUE /\ out = ProgressQ /\ UNCHANGED failed
  /\ UNCHANGED <<rstate, progressDone, staleRounds, heldAtLastRepair>>

AskToStart(out) ==
  /\ out = Start
  /\ UNCHANGED <<rstate, progressDone, awaitingProgress, unanswered,
                 staleRounds, heldAtLastRepair, failed>>

\* We hold a complete set: it is the payload, or it is not.
Finish(out) ==
  /\ IF Assemble(manifest) = None
     THEN failed' = "crc" /\ out = None /\ UNCHANGED rstate
     ELSE rstate' = "done" /\ out = Complete(manifest) /\ UNCHANGED failed
  /\ UNCHANGED <<progressDone, awaitingProgress, unanswered, staleRounds,
                 heldAtLastRepair>>

\* Progress, not attempts: a round that brought a chunk starts the count over.
CountStale == IF Received > heldAtLastRepair THEN 0 ELSE staleRounds + 1

AskForRepair(out) ==
  /\ staleRounds' = CountStale
  /\ heldAtLastRepair' = Received
  /\ IF staleRounds' >= MaxStale
     THEN /\ failed' = "stuck" /\ out = None
          /\ UNCHANGED <<rstate, progressDone>>
     ELSE /\ rstate' = "repairing" /\ progressDone' = FALSE
          /\ out = Repair(FirstIds(Missing(manifest)))
          /\ UNCHANGED failed
  /\ UNCHANGED <<awaitingProgress, unanswered>>

\* A call of tick() that gets past the gate and returns out.
Tick(out) ==
  /\ rstate # "done" /\ failed = None
  /\ GateIsOpen
  /\ quiet' = "recent"
  /\ UNCHANGED <<chunks, manifest>>
  /\ IF manifest = None
     THEN IF Received = 0 THEN AskToStart(out) ELSE Query(out)
     ELSE IF Missing(manifest) = {} THEN Finish(out)
     ELSE IF progressDone THEN AskForRepair(out) ELSE Query(out)

\* Time goes by without a frame.
QuietRises ==
  /\ quiet # "idle"
  /\ quiet' = IF quiet = "recent" THEN "act" ELSE "idle"
  /\ UNCHANGED <<chunks, manifest, rstate, progressDone, awaitingProgress,
                 unanswered, staleRounds, heldAtLastRepair, failed>>

-----------------------------------------------------------------------------
ReceiverTypeOK ==
  /\ DOMAIN chunks \subseteq AllSeqs
  /\ \A i \in DOMAIN chunks : chunks[i] \in Version
  /\ manifest \in Version \cup {None}
  /\ rstate \in {"start", "receiving", "repairing", "done"}
  /\ progressDone \in BOOLEAN /\ awaitingProgress \in BOOLEAN
  /\ unanswered \in 0 .. MaxUnanswered /\ staleRounds \in 0 .. MaxStale
  /\ heldAtLastRepair \in Nat \cup {-1}
  /\ failed \in {None, "unresponsive", "stuck", "crc"}
  /\ quiet \in Quiet
=============================================================================
