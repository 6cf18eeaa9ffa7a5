------------------------------ MODULE AirTime -------------------------------
(***************************************************************************)
(* The airtime accounting of MeshtasticTransport: two rings of buckets,    *)
(* one for the occupancy of the channel and one for our own transmissions, *)
(* turned by a clock of CLOCK ticks that wraps (millis(), 2^32 of them).   *)
(*                                                                         *)
(* Beside the rings the module keeps the true windows, shifted at the end  *)
(* of every slot.  The channel is physical: frames do not overlap on it.   *)
(* A reception is logged when it ends, a transmission when it starts.      *)
(***************************************************************************)
EXTENDS Integers, FiniteSetsExt

CONSTANTS
  CLOCK,                 \* ticks until millis() wraps
  Ring,                  \* the rings: AIR_UTIL and AIR_TX in the source
  TxRings,               \* those that only count our own transmissions
  BUCKETS,               \* [Ring -> buckets], AIR_UTIL_BUCKETS, AIR_TX_BUCKETS
  BUCKET_MS,             \* [Ring -> ticks per bucket]
  Airtime,               \* airtimes a frame may have
  MaxQuiet               \* bound: ticks without a frame, less than one wrap

MaxAirtime == Max(Airtime)

ASSUME AirTimeAssumption ==
  /\ CLOCK \in Nat \ {0}
  /\ TxRings \subseteq Ring
  /\ BUCKETS \in [Ring -> Nat \ {0}] /\ BUCKET_MS \in [Ring -> Nat \ {0}]
  /\ Airtime \subseteq Nat \ {0}
  \* There is a longest frame.
  /\ \E most \in Airtime : \A ms \in Airtime : ms <= most
  /\ MaxQuiet \in Nat
  \* A ring that is not turned for a whole wrap cannot tell.
  /\ \A r \in Ring : MaxQuiet + BUCKET_MS[r] < CLOCK
  \* The jump of the slot number at the wrap clears the ring.
  /\ \A r \in Ring : CLOCK \div BUCKET_MS[r] + BUCKETS[r] <= CLOCK

VARIABLES
  now,                   \* millis()
  util,                  \* [Ring -> [bucket -> ms]], _chanUtil and _txUtil
  epoch,                 \* [Ring -> slot last turned to], _utilEpoch, _txEpoch
  window,                \* truth: [Ring -> [slots ago -> ms logged]]
  gap,                   \* ticks since the channel fell silent; negative while
                         \* a transmission of ours has still to end
  quiet                  \* ticks since the last frame was logged

vars == <<now, util, epoch, window, gap, quiet>>

Bucket(r) == 0 .. BUCKETS[r] - 1

\* Mutant: milliseconds for bucket periods.
TicksAsSlot(r, t) == t

SlotOf(r, t) == t \div BUCKET_MS[r]

Init ==
  /\ now = 0
  /\ util = [r \in Ring |-> [b \in Bucket(r) |-> 0]]
  /\ epoch = [r \in Ring |-> 0]
  /\ window = [r \in Ring |-> [a \in Bucket(r) |-> 0]]
  /\ gap = MaxAirtime
  /\ quiet = 0

-----------------------------------------------------------------------------
\* Mutants: only the bucket turned to is cleared; no bucket is.
SkippedOnlyLast(r) == {SlotOf(r, now) % BUCKETS[r]}
SkippedNone(r) == {}

\* The buckets airRotate() clears: those of the slots gone by, all of them
\* when the slot number moved by a whole turn or jumped back at the wrap.
Skipped(r) ==
  LET skipped == (SlotOf(r, now) - epoch[r]) % CLOCK
  IN  IF skipped >= BUCKETS[r]
      THEN Bucket(r)
      ELSE {(epoch[r] + s) % BUCKETS[r] : s \in 1 .. skipped}

Rotated(r) ==
  IF SlotOf(r, now) = epoch[r]
  THEN util[r]
  ELSE [b \in Bucket(r) |-> IF b \in Skipped(r) THEN 0 ELSE util[r][b]]

\* airLog(): turn both rings, then add the frame to those that count it.
AirLog(counting, ms) ==
  /\ epoch' = [r \in Ring |-> SlotOf(r, now)]
  /\ util' = [r \in Ring |->
       [b \in Bucket(r) |->
          Rotated(r)[b]
            + (IF r \in counting /\ b = epoch'[r] % BUCKETS[r] THEN ms ELSE 0)]]
  /\ window' = [r \in Ring |->
       IF r \in counting THEN [window[r] EXCEPT ![0] = @ + ms] ELSE window[r]]
  /\ quiet' = 0
  /\ UNCHANGED now

\* A frame we sent: the transmission starts now.
LogTx(ms) ==
  /\ gap >= 0
  /\ AirLog(Ring, ms)
  /\ gap' = -ms

\* A frame the radio completed, valid or not: it ends now.
LogRx(ms) ==
  /\ gap >= ms
  /\ AirLog(Ring \ TxRings, ms)
  /\ gap' = 0

Tick ==
  /\ quiet < MaxQuiet
  /\ now' = (now + 1) % CLOCK
  /\ window' = [r \in Ring |->
       IF SlotOf(r, now') = SlotOf(r, now)
       THEN window[r]
       ELSE [a \in Bucket(r) |-> IF a = 0 THEN 0 ELSE window[r][a - 1]]]
  /\ gap' = IF gap < MaxAirtime THEN gap + 1 ELSE gap
  /\ quiet' = quiet + 1
  /\ UNCHANGED <<util, epoch>>

Next == (\E ms \in Airtime : LogTx(ms) \/ LogRx(ms)) \/ Tick

Spec == Init /\ [][Next]_vars

-----------------------------------------------------------------------------
(* What makes it correct.                                                  *)

\* The loop over the n entries of a ring: f[0] + ... + f[n - 1].
Total(f, n) ==
  LET sum[k \in Nat] == IF k = 0 THEN 0 ELSE sum[k - 1] + f[k - 1] IN sum[n]

\* What channelUtilizationPercent() and utilizationTxPercent() read.
Reading(r) == Total(util[r], BUCKETS[r])

\* The airtime that was logged in the slots of the window, and the part of it
\* that the clock can still place: it forgets what came before a wrap.
InWindow(r) == Total(window[r], BUCKETS[r])
Placeable(r) ==
  Total([a \in Bucket(r) |-> IF a <= SlotOf(r, now) THEN window[r][a] ELSE 0],
        BUCKETS[r])

\* Every variable stays in its type.
TypeOK ==
  /\ now \in 0 .. CLOCK - 1
  /\ DOMAIN util = Ring /\ DOMAIN window = Ring
  /\ \A r \in Ring : util[r] \in [Bucket(r) -> Nat] /\ window[r] \in [Bucket(r) -> Nat]
  /\ DOMAIN epoch = Ring
  /\ \A r \in Ring : epoch[r] \in 0 .. CLOCK \div BUCKET_MS[r]
  /\ gap \in -MaxAirtime .. MaxAirtime
  /\ quiet \in 0 .. MaxQuiet

\* Right after a frame is logged both rings hold exactly the airtime of their
\* window, however long the silence before it and wherever the clock wrapped:
\* skipped buckets are cleared, no others are, and a wrap only ever forgets.
LogIsExact ==
  [][quiet' = 0 =>
       \A r \in Ring : Reading(r)' = Placeable(r)' /\ Reading(r)' <= InWindow(r)']_vars

\* A bucket holds at most one period of airtime, and what the frames at its two
\* ends brought in from its neighbours: readings stay near 100 % before they
\* are clamped.
BucketIsBounded ==
  \A r \in Ring : \A b \in Bucket(r) :
     util[r][b] <= BUCKET_MS[r] + 2 * MaxAirtime - 1

=============================================================================
