---------------------------- MODULE PushTransfer ----------------------------
(***************************************************************************)
(* A push transfer from end to end: Client.push (index.js), its            *)
(* PushReceiver, the device that streams the payload, and the air between. *)
(*                                                                         *)
(* push() awaits twice: the answer to `push stat` and the HTTP call that   *)
(* sends a request.  Frames arrive meanwhile, for _onChunk hands them to   *)
(* the receiver whatever push() is doing.                                  *)
(*                                                                         *)
(* The device is the engine of another library; it is modelled from the    *)
(* comments of lib/chunk-push.js and lib/push-receiver.js and from what    *)
(* push() expects of it.  Each direction of the air is a set of frames in  *)
(* flight: they arrive in any order, get lost, and are heard twice.        *)
(***************************************************************************)
EXTENDS PushReceiver

CONSTANTS
  Duplicates,            \* may a frame be heard twice?
  LossesCounted,         \* bound: losses are counted up to here, and go on
  Prompt,                \* does what is under way arrive before a silence?
  GatewayFails,          \* may the HTTP call that sends a request throw?
  MayGiveUp,             \* may push() be aborted or meet its deadline?
  MaxPushes,             \* bound: calls of push()
  MaxPublishes,          \* bound: payloads published over the first one
  DownCap, UpCap         \* bounds: requests and device frames in flight

ASSUME TransferAssumption == /\ Duplicates \in BOOLEAN /\ Prompt \in BOOLEAN
                             /\ LossesCounted \in Nat
                             /\ GatewayFails \in BOOLEAN
                             /\ MayGiveUp \in BOOLEAN
                             /\ MaxPushes \in Nat /\ MaxPublishes \in Nat
                             /\ DownCap \in Nat \ {0} /\ UpCap \in Nat \ {0}

VARIABLES
  phase,                 \* where push() is
  out,                   \* the frame that tick() returned last
  returned,              \* the bytes push() resolved with, None unless it did
  dev,                   \* the device: version held, state, plan, manifest due
  down,                  \* requests in flight
  up,                    \* frames of the device in flight
  losses,                \* history: frames lost, as far as they are counted
  pushes, publishes,     \* counters of the bounds
  heldWhole,             \* history: the versions a receiver has held whole
  released               \* history: the versions let go for a COMPLETE

cvars == <<phase, out, returned>>
avars == <<down, up, losses>>
hvars == <<heldWhole, released>>
vars == <<rvars, cvars, dev, avars, pushes, publishes, hvars>>

\* A sender waits while the air is full, or holds the same frame: each frame
\* in flight is lost or heard for itself.
DownHasRoom(f) == Cardinality(down) < DownCap /\ f \notin down
UpHasRoom(f) == Cardinality(up) < UpCap /\ f \notin up

\* upst: "idle", "pending", "sending" or "await" (AWAITACK).
UpSt == {"idle", "pending", "sending", "await"}
Holding(v) == [held |-> v, upst |-> "pending", plan |-> {}, manifestDue |-> FALSE]
Empty == [held |-> None, upst |-> "idle", plan |-> {}, manifestDue |-> FALSE]

Init ==
  /\ ReceiverInit
  /\ phase = "idle" /\ out = None /\ returned = None
  /\ \E v \in Version : dev = Holding(v)
  /\ down = {} /\ up = {} /\ losses = 0
  /\ pushes = 0 /\ publishes = 0
  /\ heldWhole = {} /\ released = {}

-----------------------------------------------------------------------------
(* The client.                                                             *)

\* push() up to `push stat`.
Push ==
  /\ phase = "idle" /\ pushes < MaxPushes
  /\ pushes' = pushes + 1
  /\ NewReceiver
  /\ phase' = "stat" /\ out' = None /\ returned' = None
  /\ UNCHANGED <<dev, avars, publishes, hvars>>

\* push() rejects: the receiver is dropped (finally).
Reject == phase' = "rejected"

\* The device is already serving this payload.
Serving(st) == st \in {"sending", "await"}

HoldsNothing == dev.upst = "idle"

\* The answer to `push stat`, or none.  A device that holds nothing refuses a
\* START: better to say so now.  (It speaks our version of the protocol; push()
\* rejects at this point if it does not.)
StatAnswered ==
  /\ phase = "stat"
  /\ \/ IF HoldsNothing
        THEN Reject /\ UNCHANGED out
        ELSE /\ phase' = IF Serving(dev.upst) THEN "loop" ELSE "emitting"
             /\ out' = IF Serving(dev.upst) THEN None ELSE Start
     \/ phase' = "emitting" /\ out' = Start
  /\ UNCHANGED <<rvars, returned, dev, avars, pushes, publishes, hvars>>

\* What follows emit() in the loop: failure, success, or another round.
AfterEmit ==
  IF rstate = "done"
  THEN IF Assemble(manifest) = None
       THEN Reject /\ UNCHANGED returned
       ELSE phase' = "resolved" /\ returned' = Assemble(manifest)
  ELSE phase' = "loop" /\ UNCHANGED returned

\* A round of the loop in which tick() acts.
Tock ==
  /\ phase = "loop"
  /\ Tick(out')
  /\ IF out' = None THEN Reject ELSE phase' = "emitting"
  /\ heldWhole' = heldWhole \cup {v \in Version :
                      \A i \in Seqs(v) : i \in DOMAIN chunks /\ chunks[i] = v}
  /\ UNCHANGED <<returned, dev, avars, pushes, publishes, released>>

\* _sendText() returns: the request is on the air.
EmitSucceeds ==
  /\ phase = "emitting"
  /\ DownHasRoom(out)
  /\ down' = down \cup {out}
  /\ AfterEmit
  /\ UNCHANGED <<rvars, out, dev, up, losses, pushes, publishes, hvars>>

\* _sendText() throws, whether or not the gateway sent the request.
EmitFails ==
  /\ GatewayFails /\ phase = "emitting"
  /\ \/ UNCHANGED down
     \/ DownHasRoom(out) /\ down' = down \cup {out}
  /\ Reject
  /\ UNCHANGED <<rvars, out, returned, dev, up, losses, pushes,
                 publishes, hvars>>

\* The signal or the deadline, both checked at the top of the loop.
GiveUp ==
  /\ MayGiveUp /\ phase = "loop"
  /\ Reject
  /\ UNCHANGED <<rvars, out, returned, dev, avars, pushes, publishes, hvars>>

\* The caller takes the result.
Collect ==
  /\ phase \in {"resolved", "rejected"}
  /\ phase' = "idle" /\ out' = None
  /\ UNCHANGED <<rvars, returned, dev, avars, pushes, publishes, hvars>>

-----------------------------------------------------------------------------
(* The air.                                                                *)

\* A frame that is heard leaves the air, or an echo of it stays.
Heard(air, f) == {air \ {f}} \cup (IF Duplicates THEN {air} ELSE {})

\* _onChunk: the receiver is registered while push() runs.
Receive(f) ==
  /\ f \in up
  /\ up' \in Heard(up, f)
  /\ IF phase \in {"stat", "loop", "emitting"} THEN OnFrame(f) ELSE UNCHANGED rvars
  /\ UNCHANGED <<cvars, dev, down, losses, pushes, publishes, hvars>>

Lose ==
  /\ losses' = IF losses < LossesCounted THEN losses + 1 ELSE losses
  /\ \/ \E f \in up : up' = up \ {f} /\ UNCHANGED down
     \/ \E f \in down : down' = down \ {f} /\ UNCHANGED up
  /\ UNCHANGED <<rvars, cvars, dev, pushes, publishes, hvars>>

-----------------------------------------------------------------------------
(* The device.                                                             *)

\* A pass over some chunks, the manifest ahead of them.
Pass(ids) == [dev EXCEPT !.upst = "sending", !.plan = ids, !.manifestDue = TRUE]

\* A request arrives.  A query is answered while a pass is under way or done.
\* COMPLETE releases the payload it names, and no other.
Serve(f) ==
  \/ /\ f.type = "start"
     /\ dev' = Pass(Seqs(dev.held))
     /\ UNCHANGED <<up, released>>
  \/ /\ f.type = "repair"
     /\ dev' = Pass(f.ids \cap Seqs(dev.held))
     /\ UNCHANGED <<up, released>>
  \/ /\ f.type = "query"
     /\ IF Serving(dev.upst)
        THEN /\ UpHasRoom(Progress(dev.upst = "await"))
             /\ up' = up \cup {Progress(dev.upst = "await")}
        ELSE UNCHANGED up
     /\ UNCHANGED <<dev, released>>
  \/ /\ f.type = "complete"
     /\ IF f.crc = dev.held
        THEN dev' = Empty /\ released' = released \cup {f.crc}
        ELSE UNCHANGED <<dev, released>>
     /\ UNCHANGED up

DeviceHears(f) ==
  /\ f \in down
  /\ down' \in Heard(down, f)
  /\ IF dev.held = None THEN UNCHANGED <<dev, up, released>> ELSE Serve(f)
  /\ UNCHANGED <<rvars, cvars, losses, pushes, publishes, heldWhole>>

\* The next frame of the pass: the manifest, the chunks in order, and at the
\* end the manifest again.
DeviceSends ==
  /\ dev.upst = "sending"
  /\ IF dev.plan = {} \/ dev.manifestDue
     THEN /\ UpHasRoom(Manifest(dev.held))
          /\ up' = up \cup {Manifest(dev.held)}
          /\ dev' = [dev EXCEPT !.manifestDue = FALSE,
                                !.upst = IF dev.manifestDue THEN @ ELSE "await"]
     ELSE \E i \in dev.plan :
            /\ \A j \in dev.plan : i <= j
            /\ UpHasRoom(Chunk(i, dev.held))
            /\ up' = up \cup {Chunk(i, dev.held)}
            /\ dev' = [dev EXCEPT !.plan = @ \ {i}]
  /\ UNCHANGED <<rvars, cvars, down, losses, pushes, publishes, hvars>>

\* A new payload takes the place of the old one, released or not; or what is
\* held is let go, past its retention or by a reboot.
Publish ==
  /\ publishes < MaxPublishes
  /\ publishes' = publishes + 1
  /\ dev' \in {Holding(v) : v \in Version \ {dev.held}} \cup {Empty}
  /\ UNCHANGED <<rvars, cvars, avars, pushes, hvars>>

-----------------------------------------------------------------------------
\* Nothing is under way that will be heard.
Settled == /\ down = {} /\ up = {} /\ dev.upst # "sending" /\ phase # "emitting"

TimePasses ==
  /\ phase \in {"stat", "loop", "emitting"}
  /\ Prompt => Settled
  /\ QuietRises
  /\ UNCHANGED <<cvars, dev, avars, pushes, publishes, hvars>>

Next == \/ Push \/ StatAnswered \/ Tock \/ EmitSucceeds \/ EmitFails
        \/ GiveUp \/ Collect
        \/ \E f \in up : Receive(f)
        \/ \E f \in down : DeviceHears(f)
        \/ Lose \/ DeviceSends \/ Publish \/ TimePasses

\* The loop polls, HTTP calls and the wait for `push stat` have timeouts, and
\* a device with a payload keeps sending.  Frames may all be lost.  What waits
\* for room on the air gets it in the end (strong fairness): the room is a
\* bound of this model.
Fairness == /\ WF_vars(StatAnswered) /\ WF_vars(Tock) /\ WF_vars(TimePasses)
            /\ SF_vars(EmitSucceeds \/ EmitFails)
            /\ SF_vars(DeviceSends)
            /\ \A f \in Uplink : WF_vars(Receive(f))
            /\ \A f \in Requests : SF_vars(DeviceHears(f))

SafeSpec == Init /\ [][Next]_vars
Spec == SafeSpec /\ Fairness

-----------------------------------------------------------------------------
(* What makes it correct.                                                  *)

\* Every variable stays in its type.
TypeOK ==
  /\ ReceiverTypeOK
  /\ phase \in {"idle", "stat", "loop", "emitting", "resolved", "rejected"}
  /\ out \in Requests \cup {None}
  /\ returned = None \/ \A i \in DOMAIN returned : returned[i] \in Version
  /\ dev \in [held : Version \cup {None}, upst : UpSt, plan : SUBSET AllSeqs,
              manifestDue : BOOLEAN]
  /\ down \subseteq Requests /\ up \subseteq Uplink
  /\ losses \in Nat /\ pushes \in 0 .. MaxPushes /\ publishes \in 0 .. MaxPublishes
  /\ heldWhole \subseteq Version /\ released \subseteq Version

\* push() resolves with one published payload, whole, and never with a blend
\* of two or a part of one.
NeverABlend ==
  phase = "resolved" => \E v \in Version : returned = [i \in Seqs(v) |-> v]

\* The device lets go of a payload on the word of a receiver that held all of
\* it, whatever was lost, repeated, late, or published in between.
ReleasedWasHeld == released \subseteq heldWhole

\* A transfer that loses no more frames than the receiver's bounds is not given
\* up, whichever frames they are: a first loss strands a chunk, and each bound
\* counts the losses after it.  (Of a device that stays and an air that is
\* faster than the silences the receiver waits for.)
ToleratesLoss ==
  (publishes = 0 /\ losses <= MaxUnanswered /\ losses <= MaxStale) => failed = None

\* A push that knows the shape of the payload comes to an end by itself, though
\* every frame from now on be lost and the device be gone.
KnownShapeSettles ==
  (phase = "loop" /\ manifest # None) ~> phase \in {"resolved", "rejected"}

\* No single lost frame strands a transfer.
PushDelivers ==
  phase = "stat" ~> (phase = "resolved" \/ losses > 1 \/ publishes > 0)

-----------------------------------------------------------------------------
(* What the sources say and the code does not do.                          *)

\* push-receiver.js:47: a fetch must not be one "that neither completes nor
\* errors": with a device that stays, a receiver that has heard of the transfer
\* finishes it or fails.
ReceiverSettles ==
  (phase = "loop" /\ rstate # "start")
    ~> (rstate = "done" \/ failed # None \/ publishes > 0)
=============================================================================
