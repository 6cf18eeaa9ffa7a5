----------------------------- MODULE ChunkFetch -----------------------------
(***************************************************************************)
(* Client.fetch (index.js): a payload is pulled chunk by chunk through the *)
(* command queue, comes back over the event stream, and survives on disk   *)
(* when the process dies.  Composes ChunkClient and its store, MeshEvents, *)
(* the queue, the air and the device.                                      *)
(*                                                                         *)
(* The queue is a set of commands of which any may go next: fetch() waits  *)
(* for a manifest command to be sent, and not for a pull.  A command's     *)
(* time on the air counts as part of its wait.  The device is the chunk    *)
(* server of another library: it holds one payload, describes and serves   *)
(* it under its id, and refuses any other id.                              *)
(***************************************************************************)
EXTENDS ChunkClient, MeshEvents

CONSTANTS
  Asked,                 \* payload ids the application fetches
  Batch,                 \* chunks per pull
  MaxIdle,               \* empty windows before giving up (12)
  Prompt,                \* is the air quiet when a fetch starts and a window ends?
  MaxFetches,            \* bound: calls of fetch()
  MaxCrashes,            \* bound: deaths of the process
  MaxPublishes,          \* bound: payloads published over the first one
  MaxHitches,            \* bound: BUSY answers and frames heard once more
  LossesCounted,         \* bound: losses are counted up to here, and go on
  UpCap                  \* bound: frames of the device in flight

ASSUME FetchAssumption ==
  /\ Asked \subseteq Pids
  /\ Batch \in Nat \ {0} /\ MaxIdle \in Nat \ {0} /\ UpCap \in Nat \ {0}
  /\ Prompt \in BOOLEAN
  /\ {MaxFetches, MaxCrashes, MaxPublishes, MaxHitches, LossesCounted} \subseteq Nat

VARIABLES
  phase,                 \* where fetch() is
  pid,                   \* the payload id it was called with
  c,                     \* its ChunkClient
  before, idle,          \* chunks at the window's start; empty windows in a row
  error,                 \* why fetch() threw, None if it did not
  queued,                \* commands queued or on the air
  files,                 \* [pid -> the partial's two files]
  held, evicted,         \* the device's payload; the ids it held before
  up,                    \* frames of the device in flight
  fetches, crashes, publishes, hitches, losses  \* counters of the bounds

cvars == <<phase, pid, c, before, idle, error>>
dvars == <<held, evicted, publishes>>
nvars == <<fetches, crashes>>
avars == <<up, hitches, losses>>
vars == <<cvars, queued, files, dvars, avars, nvars, evars>>

\* The awaits of fetch(): the manifest command, the manifest, the answer to a
\* pull, the rest of the batch, the end of a BUSY.
Awaits == {"asked", "settle", "window", "batch", "busy"}
Windows == {"window", "batch", "busy"}
Errors == {"gone", "crc", "stalled", "timeout", "http"}
Running == phase \in Awaits

\* null is no reason to reject.
ASSUME NoErrorAssumption == None \notin Errors

Info(p) == [type |-> "info", pid |-> p]
Pull(p, ids) == [type |-> "pull", pid |-> p, ids |-> ids]
Commands == {Info(p) : p \in Pids} \cup {Pull(p, ids) : p \in Pids, ids \in SUBSET AllIdx}

Init ==
  /\ EventsInit
  /\ phase = "idle" /\ pid = 0 /\ c = NewClient /\ before = 0 /\ idle = 0
  /\ error = None
  /\ queued = {} /\ files = [p \in Pids |-> NoFiles]
  /\ held \in Image /\ evicted = {} /\ publishes = 0
  /\ up = {} /\ hitches = 0 /\ losses = 0 /\ fetches = 0 /\ crashes = 0

-----------------------------------------------------------------------------
(* fetch().                                                                *)

\* A pull of the same id and first chunk is not queued twice.
First(ids) == CHOOSE i \in ids : \A j \in ids : i <= j
SameKey(f, g) == /\ f.type = g.type /\ f.pid = g.pid
                 /\ f.type = "pull" => First(f.ids) = First(g.ids)

Enqueue(f) == queued' = IF \E g \in queued : SameKey(f, g)
                        THEN queued ELSE queued \cup {f}

\* fetch() rejects, and its client is dropped (finally).
Throw(why) ==
  /\ phase' = "rejected" /\ error' = why
  /\ c' = NewClient /\ before' = 0 /\ idle' = 0
  /\ UNCHANGED <<pid, queued>>

\* The files of the present id become new.
Store(new) == files' = [files EXCEPT ![pid] = new]

\* The top of the loop, down to the wait for an answer, for the client and the
\* files as the round before leaves them.
Round(c1, files1, idle1) ==
  \/ c1.gone /\ Store(NoFiles) /\ Throw("gone")
  \/ /\ ~c1.gone /\ IsVerified(c1)
     /\ Store(NoFiles) /\ c' = c1 /\ phase' = "resolved"
     /\ before' = 0 /\ idle' = 0
     /\ UNCHANGED <<pid, error, queued>>
  \/ /\ ~c1.gone /\ IsComplete(c1) /\ ~IsVerified(c1)
     /\ Store(files1) /\ Throw("crc")
  \/ /\ ~c1.gone /\ ~IsComplete(c1)
     /\ Store(files1)
     /\ c' = [c1 EXCEPT !.busy = FALSE]
     /\ Enqueue(Pull(Pid[c1.man], NextRun(c1, Batch)))
     /\ before' = Cardinality(c1.have) /\ idle' = idle1
     /\ phase' = "window"
     /\ UNCHANGED <<pid, error>>

\* The deadline comes before another round.
Continue(c1, files1, idle1) ==
  \/ Round(c1, files1, idle1)
  \/ Store(files1) /\ Throw("timeout")

\* Nothing is under way that will be heard.
Settled == queued = {} /\ up = {} /\ (link = "open" \/ stopped)
AirIsQuiet == Prompt => Settled

\* fetch(), up to the wait for the manifest command to be sent.  The application
\* calls it once it is connected, for one payload at a time.
Fetch(p) ==
  /\ ~Running /\ link = "open" /\ AirIsQuiet /\ fetches < MaxFetches
  /\ fetches' = fetches + 1
  /\ phase' = "asked" /\ pid' = p
  /\ c' = NewClient /\ before' = 0 /\ idle' = 0 /\ error' = None
  /\ Enqueue(Info(p))
  /\ UNCHANGED <<files, dvars, avars, crashes, evars>>

\* Mutant: a partial is never taken up.
NeverResumes(c1) == c1

\* A partial of this very payload is resumed, any other dropped.
Resumed(c1) == IF HasPartial(files[pid]) /\ Matches(files[pid], c1)
               THEN Seed(c1, files[pid]) ELSE c1

StaleFiles == HasPartial(files[pid]) /\ ~Matches(files[pid], c)

\* The wait for the manifest is over.
ManifestSettles ==
  /\ phase = "settle"
  /\ IF c.man # None
     THEN \/ Round(Resumed(c), IF StaleFiles THEN NoFiles ELSE files[pid], 0)
          \/ Throw("timeout") /\ Store(IF StaleFiles THEN NoFiles ELSE files[pid])
     ELSE /\ AirIsQuiet
          /\ \/ /\ phase' = "asked" /\ Enqueue(Info(pid))
                /\ UNCHANGED <<pid, c, before, idle, error>>
             \/ Throw("timeout")
          /\ UNCHANGED files
  /\ UNCHANGED <<dvars, avars, nvars, evars>>

Progressed == Cardinality(c.have) > before

\* Mutant: silence is not counted.
NeverCount(n) == n

CountIdle(n) == n + 1

\* Mutants: an off-by-one in either direction.
GivesUpLate(n) == n > MaxIdle
GivesUpEarly(n) == n + 1 >= MaxIdle

GivesUp(n) == n >= MaxIdle

\* The wait for an answer is over: BUSY, progress, or silence.
AnswerEnds ==
  /\ phase = "window"
  /\ IsVerified(c) \/ Progressed \/ c.busy \/ AirIsQuiet
  /\ IF c.busy \/ Progressed
     THEN /\ phase' = IF c.busy THEN "busy" ELSE "batch"
          /\ idle' = IF c.busy THEN idle ELSE 0
          /\ UNCHANGED <<pid, c, before, error, queued, files>>
     ELSE IF GivesUp(CountIdle(idle))
          THEN Throw("stalled") /\ UNCHANGED files
          ELSE Continue(c, files[pid], CountIdle(idle))
  /\ UNCHANGED <<dvars, avars, nvars, evars>>

BatchIsOver == \/ IsVerified(c) \/ c.busy \/ AirIsQuiet
               \/ Cardinality(c.have) >= before + Batch

\* The rest of the batch is in, or late: save, and go on.
BatchEnds ==
  /\ phase = "batch" /\ BatchIsOver
  /\ Continue(c, Save(c), 0)
  /\ UNCHANGED <<dvars, avars, nvars, evars>>

\* retry_after has passed.
BusyEnds ==
  /\ phase = "busy"
  /\ Continue(c, files[pid], 0)
  /\ UNCHANGED <<dvars, avars, nvars, evars>>

-----------------------------------------------------------------------------
(* The process dies: what it had in memory is gone.                        *)

Die ==
  /\ crashes < MaxCrashes /\ crashes' = crashes + 1
  /\ phase' = "idle" /\ pid' = 0 /\ c' = NewClient /\ before' = 0 /\ idle' = 0
  /\ error' = None /\ queued' = {}
  /\ link' = "new" /\ stopped' = FALSE
  /\ UNCHANGED <<dvars, avars, fetches, drops>>

Crash == phase # "idle" /\ Die /\ UNCHANGED files

\* In the middle of savePartial(), ...
CrashInSave ==
  /\ phase = "batch" /\ BatchIsOver
  /\ Store(SaveFirst(files[pid], c))
  /\ Die

\* ... and of clearPartial().
CrashInClear ==
  /\ \/ phase = "settle" /\ c.man # None
        /\ (StaleFiles \/ c.gone \/ IsVerified(Resumed(c)))
     \/ phase \in Windows /\ (c.gone \/ IsVerified(c))
  /\ Store(ClearFirst(IF phase = "batch" THEN Save(c) ELSE files[pid]))
  /\ Die

\* send() throws: the manifest command's promise is awaited, and fetch() with
\* it rejects.  Nobody awaits a pull's: an unhandled rejection ends the process.
SendFails(f) ==
  /\ f \in queued
  /\ IF f.type = "info"
     THEN /\ phase' = "rejected" /\ error' = "http" /\ queued' = queued \ {f}
          /\ c' = NewClient
          /\ UNCHANGED <<pid, before, idle, files, dvars, avars, nvars, evars>>
     ELSE Die /\ UNCHANGED files

-----------------------------------------------------------------------------
(* The air and the device.                                                 *)

\* What the device answers.  It may be too busy to serve a pull.
Answers(f) ==
  IF Pid[held] # f.pid
  THEN {IF f.pid \in evicted THEN {Gone(f.pid)} ELSE {}}
  ELSE IF f.type = "info"
  THEN {{Manifest(held)}}
  ELSE {{Chunk(i, held) : i \in f.ids \cap Idx(held)}}
       \cup (IF hitches < MaxHitches THEN {{Busy(f.pid)}} ELSE {})

\* The command leaves the queue, which ends the wait for a manifest command.
Sent(f) ==
  /\ queued' = queued \ {f}
  /\ phase' = IF phase = "asked" /\ f = Info(pid) THEN "settle" ELSE phase

DeviceHears(f) ==
  /\ f \in queued
  /\ Sent(f)
  /\ \E new \in Answers(f) :
       /\ Cardinality(up \cup new) <= UpCap
       /\ up' = up \cup new
       /\ hitches' = IF new = {Busy(f.pid)} THEN hitches + 1 ELSE hitches
  /\ UNCHANGED <<pid, c, before, idle, error, files, dvars, losses, nvars, evars>>

CountLoss == losses' = IF losses < LossesCounted THEN losses + 1 ELSE losses

CommandLost(f) ==
  /\ f \in queued
  /\ Sent(f) /\ CountLoss
  /\ UNCHANGED <<pid, c, before, idle, error, files, dvars, up, hitches,
                 nvars, evars>>

\* A frame comes off the air, and reaches fetch() through the gateway; it is
\* lost when nothing is connected.
Receive(f) ==
  /\ f \in up
  /\ \/ up' = up \ {f} /\ UNCHANGED hitches
     \/ hitches < MaxHitches /\ hitches' = hitches + 1 /\ UNCHANGED up
  /\ IF Hears THEN c' = (IF Running THEN OnFrame(c, f) ELSE c) /\ UNCHANGED losses
              ELSE CountLoss /\ UNCHANGED c
  /\ UNCHANGED <<phase, pid, before, idle, error, queued, files, dvars, nvars, evars>>

FrameLost(f) ==
  /\ f \in up /\ up' = up \ {f} /\ CountLoss
  /\ UNCHANGED <<cvars, queued, files, dvars, hitches, nvars, evars>>

\* A new payload evicts the old one.
Publish(v) ==
  /\ publishes < MaxPublishes /\ v # held
  /\ publishes' = publishes + 1
  /\ held' = v /\ evicted' = evicted \cup {Pid[held]}
  /\ UNCHANGED <<cvars, queued, files, avars, nvars, evars>>

Events == EventsNext /\ UNCHANGED <<cvars, queued, files, dvars, avars, nvars>>

FetchStep == ManifestSettles \/ AnswerEnds \/ BatchEnds \/ BusyEnds
CrashStep == Crash \/ CrashInSave \/ CrashInClear

Next == \/ \E p \in Asked : Fetch(p)
        \/ FetchStep \/ CrashStep
        \/ \E f \in queued : DeviceHears(f) \/ CommandLost(f) \/ SendFails(f)
        \/ \E f \in up : Receive(f) \/ FrameLost(f)
        \/ \E v \in Image : Publish(v)
        \/ Events

\* Timers fire, the queue sends, what is on the air is heard or lost, and the
\* gateway takes a connection in the end.
Fairness ==
  /\ WF_vars(FetchStep)
  /\ \A f \in Commands : WF_vars(DeviceHears(f) \/ CommandLost(f))
  /\ \A f \in Frames : WF_vars(Receive(f) \/ FrameLost(f))
  /\ WF_vars(Events /\ (Connect \/ Opens \/ RetryFires \/ Closes))

SafeSpec == Init /\ [][Next]_vars
Spec == SafeSpec /\ Fairness

-----------------------------------------------------------------------------
(* What makes it correct.                                                  *)

\* Every variable stays in its type.
TypeOK ==
  /\ EventsTypeOK
  /\ phase \in {"idle", "resolved", "rejected"} \cup Awaits
  /\ pid \in Pids \cup {0}
  /\ c.man \in Bytes /\ c.have \subseteq AllIdx
  /\ before \in Nat /\ idle \in 0 .. MaxIdle - 1
  /\ error \in Errors \cup {None}
  /\ queued \subseteq Commands /\ up \subseteq Frames
  /\ held \in Image /\ evicted \subseteq Pids

\* fetch() resolves with one published payload, whole: never with a part, and
\* never with a blend of two, though payloads share an id and a shape, frames
\* come late and twice, and the process dies between the two files it writes.
FetchedIsWhole == phase = "resolved" => \E v \in Image : c.buf = Whole(v)

\* A manifest heard again does not throw away the chunks received.
ProgressIsKept ==
  [][(Running /\ Running' /\ pid = pid' /\ c'.man = c.man) => c.have \subseteq c'.have]_vars

\* A partial that will be resumed holds the chunks it claims, of the payload it
\* claims.
SoundFiles(p) ==
  HasPartial(files[p]) =>
     \A i \in files[p].meta.have : files[p].buf[i] = files[p].meta.crc

\* One death of the process, wherever it falls between the files that are
\* written and dropped, leaves no partial that claims what it does not hold.
SoundAfterOneCrash == crashes <= 1 => \A p \in Pids : SoundFiles(p)

\* What was saved is not pulled again, however often the process dies (with a
\* device that keeps its payload).
SavedIsNotPulledAgain ==
  (publishes = 0 /\ phase \in Windows /\ HasPartial(files[pid])) =>
     files[pid].meta.have \subseteq c.have

\* A fetch that loses fewer frames than the empty windows it sits out is not
\* given up, whichever frames they are (of a device that stays).
ToleratesLoss == (publishes = 0 /\ losses < MaxIdle) => error # "stalled"

\* A fetch that knows the shape of the payload comes to an end by itself,
\* without its deadline, though every frame be lost.
KnownShapeEnds == (phase \in Windows) ~> ~Running

\* With fewer losses than that it ends in the payload, resumed or not.
FetchDelivers ==
  Running ~> (\/ phase = "resolved" \/ phase = "idle" \/ error \in {"http", "timeout"}
              \/ losses >= MaxIdle \/ crashes > 1 \/ stopped
              \/ publishes > 0 \/ Pid[held] # pid)

\* A timer that fires after stop() connects nothing: a stopped client stays so.
StopIsFinal == stopped => link \notin {"connecting", "open"}

\* A client that lost its connection gets another (unless its process dies).
Reconnects ==
  (link \in {"waiting", "connecting"}) ~> (link \in {"open", "new"} \/ stopped)

-----------------------------------------------------------------------------
(* What the sources say and the code does not do.                          *)

\* index.js:371, of a partial whose identity matches the manifest: "On a match
\* the pull loop below requests only the gaps."  What it does not request it has.
PartialIsSound == \A p \in Pids : SoundFiles(p)

\* index.js:335: a caller fetching one payload is not handed another one's
\* bytes.
FetchedWasAsked == phase = "resolved" => \A v \in Image : c.buf = Whole(v) => Pid[v] = pid
=============================================================================
