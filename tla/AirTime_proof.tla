---------------------------- MODULE AirTime_proof ----------------------------
(***************************************************************************)
(* What a bucket of the airtime rings can hold, and that the rings hold    *)
(* their window exactly, for any clock, any rings and any airtimes that    *)
(* the assumption of AirTime allows.                                       *)
(***************************************************************************)
EXTENDS AirTime, RingLemmas, WellFoundedInduction

\* The time at which the rings were last turned; the clock may have wrapped
\* once since.
Logged == IF now >= quiet THEN now - quiet ELSE now - quiet + CLOCK

\* The rings were turned to the slot of that time.
Turned == \A r \in Ring : epoch[r] = SlotOf(r, Logged)

\* The bucket of the current slot holds what the time gone by in the slot has
\* room for, what is still to be sent, and a reception begun before the slot.
Filled ==
  \A r \in Ring :
     epoch[r] = SlotOf(r, now) =>
       util[r][epoch[r] % BUCKETS[r]] <= (now % BUCKET_MS[r]) - gap + MaxAirtime

\* What holds all along: types, the slots of the last turn, and what the
\* current bucket and every bucket have room for.
AirInv == TypeOK /\ Turned /\ Filled /\ BucketIsBounded

-----------------------------------------------------------------------------
(* Slots.                                                                  *)

\* A remainder is what is left over a multiple.
LEMMA Remainder ==
  ASSUME NEW n \in Nat \ {0}, NEW x \in Nat, NEW rest \in 0 .. n - 1,
         NEW a \in Nat, a = n * x + rest
  PROVE  a % n = rest
  OBVIOUS

\* Every number is a multiple of the period and a remainder.
LEMMA DivMod ==
  ASSUME NEW n \in Nat \ {0}, NEW a \in Nat
  PROVE  /\ a \div n \in Nat /\ a % n \in 0 .. n - 1
         /\ \E rest \in 0 .. n - 1 : rest = a % n /\ a = n * (a \div n) + rest
  <1>1. a \div n \in Nat /\ a % n \in 0 .. n - 1 OBVIOUS
  <1>2. n * (a \div n) <= a OBVIOUS
  <1>3. a < n * (a \div n) + n OBVIOUS
  <1> DEFINE x == a \div n
             rest == a - n * x
  <1>4. x \in Nat /\ n * x \in Nat BY <1>1
  <1>5. rest \in 0 .. n - 1 BY <1>2, <1>3, <1>4
  <1>6. a = n * x + rest BY <1>4
  <1> HIDE DEF x, rest
  <1>7. a % n = rest BY <1>4, <1>5, <1>6, Remainder
  <1>8. rest = a % n BY <1>7
  <1> QED BY <1>1, <1>5, <1>6, <1>8 DEF x

\* A slot number that jumped back at the wrap.
LEMMA NegativeRemainder ==
  ASSUME NEW n \in Nat \ {0}, NEW d \in -n .. -1
  PROVE  d % n = (IF d = -n THEN 0 ELSE d + n)
  OBVIOUS

\* Multiples of the period are a period apart.
LEMMA Times ==
  ASSUME NEW n \in Nat \ {0}, NEW x \in Nat, NEW y \in Nat, x < y
  PROVE  n * x + n <= n * y
  <1>1. PICK d \in Nat : y = x + 1 + d
    <2>1. y - x - 1 \in Nat /\ y = x + 1 + (y - x - 1) OBVIOUS
    <2> QED BY <2>1
  <1>2. n * (x + 1 + d) = n * x + n + n * d OBVIOUS
  <1>3. n * d \in Nat /\ n * x \in Nat OBVIOUS
  <1> QED BY <1>1, <1>2, <1>3

\* Slots follow the clock: later is no earlier a slot, a period later is a
\* later one, and within a slot the remainder counts the ticks.
LEMMA SlotsRise ==
  ASSUME NEW n \in Nat \ {0}, NEW a \in Nat, NEW b \in Nat
  PROVE  /\ a <= b => a \div n <= b \div n
         /\ a + n <= b => a \div n < b \div n
         /\ (b = a + 1 /\ a \div n = b \div n) => b % n = (a % n) + 1
  <1> DEFINE x == a \div n
             y == b \div n
  <1>0. x \in Nat /\ y \in Nat BY DivMod
  <1>a. PICK ra \in 0 .. n - 1 : ra = a % n /\ a = n * x + ra BY DivMod
  <1>b. PICK rb \in 0 .. n - 1 : rb = b % n /\ b = n * y + rb BY DivMod
  <1>1. a = n * x + ra /\ b = n * y + rb /\ x \in Nat /\ y \in Nat
    BY <1>0, <1>a, <1>b
  <1> HIDE DEF x, y
  <1>2. y < x => n * y + n <= n * x BY <1>1, Times
  <1>3. n * x \in Nat /\ n * y \in Nat BY <1>1
  <1>4. a <= b => x <= y BY <1>1, <1>2, <1>3
  <1>5. a + n <= b => x < y
    <2> SUFFICES ASSUME a + n <= b, ~(x < y) PROVE FALSE OBVIOUS
    <2>1. CASE x = y BY <1>1, <1>3, <2>1
    <2>2. CASE y < x BY <1>1, <1>2, <1>3, <2>2
    <2> QED BY <1>1, <2>1, <2>2
  <1>6. (b = a + 1 /\ x = y) => rb = ra + 1 BY <1>1, <1>3
  <1> QED BY <1>4, <1>5, <1>6, <1>a, <1>b DEF x, y

\* The assumption, for one ring: its periods, its buckets, its slots.
LEMMA ClockFacts ==
  ASSUME NEW r \in Ring
  PROVE  /\ CLOCK \in Nat \ {0} /\ MaxQuiet \in Nat
         /\ BUCKETS[r] \in Nat \ {0} /\ BUCKET_MS[r] \in Nat \ {0}
         /\ MaxQuiet + BUCKET_MS[r] < CLOCK
         /\ CLOCK \div BUCKET_MS[r] \in Nat
         /\ CLOCK \div BUCKET_MS[r] + BUCKETS[r] <= CLOCK
         /\ \A t \in 0 .. CLOCK - 1 : SlotOf(r, t) \in 0 .. CLOCK \div BUCKET_MS[r]
  <1>1. /\ CLOCK \in Nat \ {0} /\ MaxQuiet \in Nat
        /\ BUCKETS[r] \in Nat \ {0} /\ BUCKET_MS[r] \in Nat \ {0}
        /\ MaxQuiet + BUCKET_MS[r] < CLOCK
        /\ CLOCK \div BUCKET_MS[r] + BUCKETS[r] <= CLOCK
    BY AirTimeAssumption
  <1>2. CLOCK \div BUCKET_MS[r] \in Nat BY <1>1, DivMod
  <1>3. ASSUME NEW t \in 0 .. CLOCK - 1
        PROVE  SlotOf(r, t) \in 0 .. CLOCK \div BUCKET_MS[r]
    <2>1. t \in Nat /\ t <= CLOCK BY <1>1
    <2>2. t \div BUCKET_MS[r] \in Nat BY <1>1, <2>1, DivMod
    <2>3. t \div BUCKET_MS[r] <= CLOCK \div BUCKET_MS[r]
      BY <1>1, <2>1, SlotsRise
    <2> QED BY <1>2, <2>2, <2>3 DEF SlotOf
  <1> QED BY <1>1, <1>2, <1>3

\* MaxAirtime is the airtime of the longest frame.
LEMMA LongestFrame ==
  /\ MaxAirtime \in Nat /\ MaxAirtime > 0
  /\ \A ms \in Airtime : ms \in Nat /\ ms > 0 /\ ms <= MaxAirtime
  <1>1. PICK most \in Airtime : \A ms \in Airtime : ms <= most
    BY AirTimeAssumption
  <1>2. Airtime \subseteq Nat \ {0} BY AirTimeAssumption
  <1>3. \E x \in Airtime : \A y \in Airtime : x >= y BY <1>1, <1>2
  <1>4. MaxAirtime \in Airtime /\ \A y \in Airtime : MaxAirtime >= y
    BY <1>3 DEF MaxAirtime, Max
  <1> QED BY <1>2, <1>4

-----------------------------------------------------------------------------
(* Turning the rings.                                                      *)

\* The time of the last turn, while less than a wrap has gone by.
LEMMA LoggedFacts ==
  ASSUME TypeOK, NEW r \in Ring, epoch[r] = SlotOf(r, Logged)
  PROVE  /\ Logged \in 0 .. CLOCK - 1
         /\ epoch[r] = SlotOf(r, now) => Logged = now - quiet
  <1>1. /\ now \in 0 .. CLOCK - 1 /\ quiet \in 0 .. MaxQuiet BY DEF TypeOK
  <1>2. Logged \in 0 .. CLOCK - 1 BY <1>1, ClockFacts DEF Logged
  <1>3. ASSUME Logged # now - quiet PROVE SlotOf(r, now) < SlotOf(r, Logged)
    <2>1. Logged = now - quiet + CLOCK BY <1>3 DEF Logged
    <2>2. now + BUCKET_MS[r] <= Logged BY <1>1, <2>1, ClockFacts
    <2>3. now \in Nat /\ Logged \in Nat BY <1>1, <1>2, ClockFacts
    <2> QED BY <2>2, <2>3, SlotsRise, ClockFacts DEF SlotOf
  <1>4. SlotOf(r, now) \in Int BY <1>1, ClockFacts
  <1> QED BY <1>2, <1>3, <1>4

\* airRotate() turns to an empty bucket, or to the one being filled.
LEMMA TurnsToEmpty ==
  ASSUME TypeOK, NEW r \in Ring, SlotOf(r, now) # epoch[r]
  PROVE  SlotOf(r, now) % BUCKETS[r] \in Skipped(r)
  <1> DEFINE s == SlotOf(r, now)
             e == epoch[r]
             n == BUCKETS[r]
             top == CLOCK \div BUCKET_MS[r]
  <1>1. /\ s \in 0 .. top /\ e \in 0 .. top /\ top \in Nat /\ n \in Nat \ {0}
        /\ top + n <= CLOCK /\ CLOCK \in Nat \ {0}
    BY ClockFacts DEF TypeOK
  <1>2. s % n \in Bucket(r)
    <2>1. n \in Nat \ {0} /\ s \in Nat BY <1>1
    <2> HIDE DEF s, n
    <2>2. s % n \in 0 .. n - 1 BY <2>1, DivMod
    <2> QED BY <2>2 DEF Bucket, n
  <1>3. CASE s > e
    <2>1. s - e \in 0 .. CLOCK - 1 /\ s - e >= 1 BY <1>1, <1>3
    <2>2. (s - e) % CLOCK = s - e BY <1>1, <2>1
    <2>3. e + (s - e) = s BY <1>1
    <2>4. CASE s - e >= n BY <1>2, <2>2, <2>4 DEF Skipped
    <2>5. CASE s - e < n
      <3>1. Skipped(r) = {(e + x) % n : x \in 1 .. s - e}
        BY <1>1, <2>1, <2>2, <2>5 DEF Skipped
      <3>2. s - e \in 1 .. s - e BY <2>1
      <3>3. (e + (s - e)) % n = s % n BY <2>3
      <3> QED BY <3>1, <3>2, <3>3
    <2> QED BY <1>1, <2>4, <2>5
  <1>4. CASE s < e
    <2>1. s - e + CLOCK \in 0 .. CLOCK - 1 /\ s - e + CLOCK >= n BY <1>1, <1>4
    <2>2. (s - e) % CLOCK = s - e + CLOCK
      <3> DEFINE d == s - e
      <3>1. d \in -CLOCK .. -1 /\ d + CLOCK \in 0 .. CLOCK - 1 BY <1>1, <1>4, <2>1
      <3> HIDE DEF d
      <3>2. d % CLOCK = d + CLOCK BY <1>1, <3>1, NegativeRemainder
      <3> QED BY <3>2 DEF d
    <2>3. Skipped(r) = Bucket(r) BY <1>1, <2>1, <2>2 DEF Skipped
    <2> QED BY <1>2, <2>3
  <1> QED BY <1>1, <1>3, <1>4

\* Turning a ring keeps its bounds, and leaves room in the current bucket.
LEMMA RotatedFacts ==
  ASSUME AirInv, NEW r \in Ring
  PROVE  /\ Rotated(r) \in [Bucket(r) -> Nat]
         /\ \A b \in Bucket(r) : Rotated(r)[b] <= BUCKET_MS[r] + 2 * MaxAirtime - 1
         /\ SlotOf(r, now) % BUCKETS[r] \in Bucket(r)
         /\ Rotated(r)[SlotOf(r, now) % BUCKETS[r]]
              <= (now % BUCKET_MS[r]) - gap + MaxAirtime
  <1> DEFINE cur == SlotOf(r, now) % BUCKETS[r]
  <1>1. /\ now \in Nat /\ util[r] \in [Bucket(r) -> Nat]
        /\ gap \in Int /\ gap <= MaxAirtime
        /\ now % BUCKET_MS[r] \in Nat
    <2>1. now \in Nat /\ util[r] \in [Bucket(r) -> Nat] /\ gap \in -MaxAirtime .. MaxAirtime
      BY ClockFacts DEF AirInv, TypeOK
    <2>2. now % BUCKET_MS[r] \in 0 .. BUCKET_MS[r] - 1 BY <2>1, ClockFacts, DivMod
    <2> QED BY <2>1, <2>2, LongestFrame, ClockFacts
  <1>2. cur \in Bucket(r)
    <2>1. SlotOf(r, now) \in Nat BY ClockFacts DEF AirInv, TypeOK
    <2>2. cur \in 0 .. BUCKETS[r] - 1 BY <2>1, ClockFacts, DivMod
    <2> QED BY <2>2 DEF Bucket
  <1> HIDE DEF cur
  <1>3. 0 <= BUCKET_MS[r] + 2 * MaxAirtime - 1 BY ClockFacts, LongestFrame
  <1>4. \A b \in Bucket(r) : util[r][b] <= BUCKET_MS[r] + 2 * MaxAirtime - 1
    BY DEF AirInv, BucketIsBounded
  <1>5. CASE SlotOf(r, now) = epoch[r]
    <2>1. Rotated(r) = util[r] BY <1>5 DEF Rotated
    <2>2. util[r][cur] <= (now % BUCKET_MS[r]) - gap + MaxAirtime
      BY <1>5 DEF AirInv, Filled, cur
    <2> QED BY <1>1, <1>2, <1>4, <2>1, <2>2 DEF cur
  <1>6. CASE SlotOf(r, now) # epoch[r]
    <2>1. Rotated(r) = [b \in Bucket(r) |-> IF b \in Skipped(r) THEN 0 ELSE util[r][b]]
      BY <1>6 DEF Rotated
    <2>2. cur \in Skipped(r) BY <1>6, TurnsToEmpty DEF AirInv, cur
    <2>3. Rotated(r)[cur] = 0 BY <1>2, <2>1, <2>2
    <2>4. 0 <= (now % BUCKET_MS[r]) - gap + MaxAirtime BY <1>1, LongestFrame
    <2> QED BY <1>1, <1>2, <1>3, <1>4, <2>1, <2>3, <2>4 DEF cur
  <1> QED BY <1>5, <1>6

\* A frame is logged: to the bucket of this slot, after the rings were turned.
LEMMA AirLogOK ==
  ASSUME AirInv, NEW counting \in SUBSET Ring, NEW ms \in Nat, ms <= MaxAirtime,
         AirLog(counting, ms), gap' \in -MaxAirtime .. MaxAirtime,
         \A r \in Ring : (IF r \in counting THEN ms ELSE 0) - gap <= - gap'
  PROVE  AirInv'
  <1>1. /\ epoch' = [r \in Ring |-> SlotOf(r, now)]
        /\ util' = [r \in Ring |->
             [b \in Bucket(r) |->
                Rotated(r)[b]
                  + (IF r \in counting /\ b = epoch'[r] % BUCKETS[r] THEN ms ELSE 0)]]
        /\ window' = [r \in Ring |->
             IF r \in counting THEN [window[r] EXCEPT ![0] = @ + ms] ELSE window[r]]
        /\ quiet' = 0 /\ now' = now
    BY DEF AirLog
  <1>2. /\ TypeOK /\ now \in 0 .. CLOCK - 1 /\ DOMAIN util' = Ring
        /\ DOMAIN window' = Ring /\ DOMAIN epoch' = Ring
    BY <1>1 DEF AirInv, TypeOK
  <1>3. ASSUME NEW r \in Ring
        PROVE  /\ util'[r] \in [Bucket(r) -> Nat]
               /\ window'[r] \in [Bucket(r) -> Nat]
               /\ epoch'[r] = SlotOf(r, now)
               /\ epoch'[r] \in 0 .. CLOCK \div BUCKET_MS[r]
               /\ util'[r][epoch'[r] % BUCKETS[r]]
                    <= (now % BUCKET_MS[r]) - gap' + MaxAirtime
               /\ \A b \in Bucket(r) : util'[r][b] <= BUCKET_MS[r] + 2 * MaxAirtime - 1
    <2> DEFINE cur == SlotOf(r, now) % BUCKETS[r]
               more == IF r \in counting THEN ms ELSE 0
               t == now % BUCKET_MS[r]
    <2>1. epoch'[r] = SlotOf(r, now) BY <1>1
    <2>2. epoch'[r] \in 0 .. CLOCK \div BUCKET_MS[r] BY <1>2, <2>1, ClockFacts
    <2>3. /\ Rotated(r) \in [Bucket(r) -> Nat]
          /\ \A b \in Bucket(r) : Rotated(r)[b] <= BUCKET_MS[r] + 2 * MaxAirtime - 1
          /\ cur \in Bucket(r)
          /\ Rotated(r)[cur] <= t - gap + MaxAirtime
      BY RotatedFacts
    <2>4. util'[r] = [b \in Bucket(r) |->
                        Rotated(r)[b] + (IF r \in counting /\ b = cur THEN ms ELSE 0)]
      BY <1>1, <2>1
    <2>5. t \in 0 .. BUCKET_MS[r] - 1
      <3>1. now \in Nat /\ BUCKET_MS[r] \in Nat \ {0} BY <1>2, ClockFacts
      <3> QED BY <3>1, DivMod
    <2>6. /\ gap \in Int /\ gap' \in Int /\ more \in Nat
          /\ MaxAirtime \in Nat /\ BUCKET_MS[r] \in Nat \ {0}
      BY <1>2, LongestFrame, ClockFacts DEF TypeOK
    <2>7. more - gap <= - gap' BY DEF more
    <2> HIDE DEF cur, t
    <2>8. util'[r][cur] = Rotated(r)[cur] + more BY <2>3, <2>4
    <2>9. Rotated(r)[cur] \in Nat BY <2>3
    <2> HIDE DEF more
    <2>10. util'[r][cur] <= t - gap' + MaxAirtime
      BY <2>3, <2>5, <2>6, <2>7, <2>8, <2>9
    <2>11. util'[r][cur] <= BUCKET_MS[r] + 2 * MaxAirtime - 1
      BY <2>5, <2>6, <2>8, <2>9, <2>10
    <2>12. \A b \in Bucket(r) : b # cur => util'[r][b] = Rotated(r)[b]
      BY <2>3, <2>4
    <2>13. \A b \in Bucket(r) : util'[r][b] <= BUCKET_MS[r] + 2 * MaxAirtime - 1
      BY <2>3, <2>11, <2>12
    <2>14. util'[r] \in [Bucket(r) -> Nat] BY <2>3, <2>4
    <2>15. window'[r] \in [Bucket(r) -> Nat]
      <3>1. window[r] \in [Bucket(r) -> Nat] BY <1>2 DEF TypeOK
      <3>2. 0 \in Bucket(r) BY ClockFacts DEF Bucket
      <3> QED BY <1>1, <3>1, <3>2
    <2> QED BY <2>1, <2>2, <2>10, <2>13, <2>14, <2>15 DEF cur, t
  <1>4. TypeOK'
    <2>1. quiet' \in 0 .. MaxQuiet BY <1>1, AirTimeAssumption
    <2> QED BY <1>1, <1>2, <1>3, <2>1 DEF TypeOK
  <1>5. Turned'
    <2>1. Logged' = now BY <1>1, <1>2, ClockFacts DEF Logged
    <2> QED BY <1>1, <1>3, <2>1 DEF Turned, SlotOf
  <1>6. Filled' BY <1>1, <1>3 DEF Filled, SlotOf
  <1>7. BucketIsBounded' BY <1>3 DEF BucketIsBounded
  <1> QED BY <1>4, <1>5, <1>6, <1>7 DEF AirInv

\* A transmission is logged as it starts, after everything before it ended.
LEMMA LogTxOK ==
  ASSUME AirInv, NEW ms \in Airtime, LogTx(ms)
  PROVE  AirInv'
  <1>1. ms \in Nat /\ ms <= MaxAirtime /\ MaxAirtime \in Nat BY LongestFrame
  <1>2. gap >= 0 /\ gap \in Int /\ gap' = -ms /\ AirLog(Ring, ms)
    BY <1>1 DEF LogTx, AirInv, TypeOK
  <1>3. gap' \in -MaxAirtime .. MaxAirtime BY <1>1, <1>2
  <1>4. \A r \in Ring : (IF r \in Ring THEN ms ELSE 0) - gap <= - gap' BY <1>1, <1>2
  <1> QED BY <1>1, <1>2, <1>3, <1>4, AirLogOK

\* A reception is logged as it ends.
LEMMA LogRxOK ==
  ASSUME AirInv, NEW ms \in Airtime, LogRx(ms)
  PROVE  AirInv'
  <1>1. ms \in Nat /\ ms <= MaxAirtime /\ MaxAirtime \in Nat BY LongestFrame
  <1>2. gap >= ms /\ gap \in Int /\ gap' = 0 /\ AirLog(Ring \ TxRings, ms)
    BY <1>1 DEF LogRx, AirInv, TypeOK
  <1>3. gap' \in -MaxAirtime .. MaxAirtime BY <1>1, <1>2
  <1>4. \A r \in Ring : (IF r \in Ring \ TxRings THEN ms ELSE 0) - gap <= - gap'
    BY <1>1, <1>2
  <1> QED BY <1>1, <1>2, <1>3, <1>4, AirLogOK

\* The clock moves on, and may wrap.
LEMMA TickOK ==
  ASSUME AirInv, Tick
  PROVE  AirInv'
  <1>1. /\ now \in 0 .. CLOCK - 1 /\ quiet \in 0 .. MaxQuiet /\ quiet < MaxQuiet
        /\ gap \in -MaxAirtime .. MaxAirtime
        /\ CLOCK \in Nat \ {0} /\ MaxQuiet \in Nat /\ MaxAirtime \in Nat
    BY AirTimeAssumption, LongestFrame DEF AirInv, TypeOK, Tick
  <1>2. /\ now' = (now + 1) % CLOCK /\ quiet' = quiet + 1
        /\ gap' = IF gap < MaxAirtime THEN gap + 1 ELSE gap
        /\ UNCHANGED <<util, epoch>>
        /\ window' = [r \in Ring |->
             IF SlotOf(r, now') = SlotOf(r, now)
             THEN window[r]
             ELSE [a \in Bucket(r) |-> IF a = 0 THEN 0 ELSE window[r][a - 1]]]
    BY DEF Tick
  <1>3. /\ now + 1 < CLOCK => now' = now + 1
        /\ now + 1 = CLOCK => now' = 0
    <2>1. now \in 0 .. CLOCK - 1 /\ 1 \in 0 .. CLOCK BY <1>1
    <2>2. /\ now + 1 < CLOCK => (now + 1) % CLOCK = now + 1
          /\ now + 1 >= CLOCK => (now + 1) % CLOCK = now + 1 - CLOCK
      BY <1>1, <2>1, Wrap
    <2> QED BY <1>1, <1>2, <2>2
  <1>4. /\ now' \in 0 .. CLOCK - 1 /\ quiet' \in 0 .. MaxQuiet
        /\ gap' \in -MaxAirtime .. MaxAirtime /\ gap' <= gap + 1
    BY <1>1, <1>2, <1>3
  <1>5. \A r \in Ring : window'[r] \in [Bucket(r) -> Nat]
    <2> SUFFICES ASSUME NEW r \in Ring PROVE window'[r] \in [Bucket(r) -> Nat]
      OBVIOUS
    <2>1. window[r] \in [Bucket(r) -> Nat] BY DEF AirInv, TypeOK
    <2>2. \A a \in Bucket(r) : a # 0 => a - 1 \in Bucket(r)
      BY ClockFacts DEF Bucket
    <2> QED BY <1>2, <2>1, <2>2
  <1>6. TypeOK' BY <1>2, <1>4, <1>5 DEF AirInv, TypeOK
  <1>7. ASSUME NEW r \in Ring PROVE Logged' = Logged
    <2>0. MaxQuiet < CLOCK BY <1>1, ClockFacts
    <2>1. Logged' = IF now' >= quiet' THEN now' - quiet' ELSE now' - quiet' + CLOCK
      BY DEF Logged
    <2>2. CASE now + 1 < CLOCK BY <1>1, <1>2, <1>3, <2>1, <2>2 DEF Logged
    <2>3. CASE now + 1 = CLOCK
      <3>1. now' = 0 /\ quiet' = quiet + 1 /\ now >= quiet
        BY <1>1, <1>2, <1>3, <2>0, <2>3
      <3> QED BY <1>1, <2>1, <2>3, <3>1 DEF Logged
    <2> QED BY <1>1, <2>2, <2>3
  <1>8. Turned' BY <1>2, <1>7 DEF AirInv, Turned, SlotOf
  <1>9. Filled'
    <2> SUFFICES ASSUME NEW r \in Ring, epoch[r] = SlotOf(r, now')
                 PROVE  util[r][epoch[r] % BUCKETS[r]]
                          <= (now' % BUCKET_MS[r]) - gap' + MaxAirtime
      BY <1>2 DEF Filled, SlotOf
    <2>1. epoch[r] = SlotOf(r, Logged) /\ epoch'[r] = SlotOf(r, Logged')
      BY <1>2, <1>7 DEF AirInv, Turned
    <2>2. Logged \in 0 .. CLOCK - 1 BY <2>1, LoggedFacts DEF AirInv
    <2>3. Logged = now' - quiet'
      <3>1. /\ now' \in 0 .. CLOCK - 1 /\ quiet' \in 0 .. MaxQuiet
            /\ Logged = IF now' >= quiet' THEN now' - quiet' ELSE now' - quiet' + CLOCK
        BY <1>4, <1>7 DEF Logged
      <3>2. ASSUME Logged # now' - quiet' PROVE FALSE
        <4>0. Logged = now' - quiet' + CLOCK BY <3>1, <3>2
        <4>a. /\ BUCKET_MS[r] \in Nat /\ CLOCK \in Nat /\ MaxQuiet \in Nat
              /\ MaxQuiet + BUCKET_MS[r] < CLOCK
          BY ClockFacts
        <4>1. now' + BUCKET_MS[r] <= Logged BY <3>1, <4>0, <4>a
        <4>b. now' \in 0 .. CLOCK - 1 BY <3>1
        <4>c. now' \in Nat BY <4>a, <4>b
        <4>d. Logged \in Nat BY <2>2, <4>a
        <4>2. now' \in Nat /\ Logged \in Nat BY <4>c, <4>d
        <4>3. SlotOf(r, now') < SlotOf(r, Logged)
          BY <4>1, <4>2, SlotsRise, ClockFacts DEF SlotOf
        <4>4. SlotOf(r, now') \in Int BY <3>1, ClockFacts
        <4> QED BY <2>1, <4>3, <4>4
      <3> QED BY <3>2
    <2>4. now' = now + 1 /\ Logged <= now BY <1>1, <1>2, <1>3, <1>4, <2>2, <2>3
    <2>5. now \in Nat /\ Logged \in Nat /\ now' \in Nat /\ BUCKET_MS[r] \in Nat \ {0}
      BY <1>1, <2>2, <2>4, ClockFacts
    <2>6. SlotOf(r, Logged) <= SlotOf(r, now) /\ SlotOf(r, now) <= SlotOf(r, now')
      BY <2>4, <2>5, SlotsRise DEF SlotOf
    <2>7. SlotOf(r, now) = epoch[r]
      BY <1>1, <1>4, <2>1, <2>2, <2>6, ClockFacts
    <2>8. util[r][epoch[r] % BUCKETS[r]] <= (now % BUCKET_MS[r]) - gap + MaxAirtime
      BY <2>7 DEF AirInv, Filled
    <2>9. now' % BUCKET_MS[r] = (now % BUCKET_MS[r]) + 1
      BY <2>4, <2>5, <2>7, SlotsRise DEF SlotOf
    <2>10. now % BUCKET_MS[r] \in Int BY <2>5, DivMod
    <2>11. util[r][epoch[r] % BUCKETS[r]] \in Nat
      <3>1. epoch[r] \in Nat BY ClockFacts DEF AirInv, TypeOK
      <3>2. epoch[r] % BUCKETS[r] \in 0 .. BUCKETS[r] - 1
        BY <3>1, ClockFacts, DivMod
      <3> QED BY <3>2 DEF AirInv, TypeOK, Bucket
    <2> QED BY <1>1, <1>4, <2>8, <2>9, <2>10, <2>11
  <1>10. BucketIsBounded' BY <1>2 DEF AirInv, BucketIsBounded
  <1> QED BY <1>6, <1>8, <1>9, <1>10 DEF AirInv

-----------------------------------------------------------------------------
(* The theorems.                                                           *)

\* begin() starts with empty rings.
LEMMA InitOK == Init => AirInv
  <1> SUFFICES ASSUME Init PROVE AirInv OBVIOUS
  <1>1. /\ now = 0 /\ quiet = 0 /\ gap = MaxAirtime
        /\ util = [r \in Ring |-> [b \in Bucket(r) |-> 0]]
        /\ epoch = [r \in Ring |-> 0]
        /\ window = [r \in Ring |-> [a \in Bucket(r) |-> 0]]
    BY DEF Init
  <1>2. now \in 0 .. CLOCK - 1 /\ quiet \in 0 .. MaxQuiet
        /\ gap \in -MaxAirtime .. MaxAirtime
    BY <1>1, AirTimeAssumption, LongestFrame
  <1>3. ASSUME NEW r \in Ring
        PROVE  /\ epoch[r] \in 0 .. CLOCK \div BUCKET_MS[r]
               /\ epoch[r] = SlotOf(r, 0) /\ 0 % BUCKETS[r] \in Bucket(r)
               /\ 0 % BUCKET_MS[r] \in Nat
               /\ 0 <= BUCKET_MS[r] + 2 * MaxAirtime - 1
    <2>1. BUCKETS[r] \in Nat \ {0} /\ BUCKET_MS[r] \in Nat \ {0} BY ClockFacts
    <2>2. 0 \div BUCKET_MS[r] = 0 BY <2>1
    <2>3. 0 % BUCKETS[r] \in 0 .. BUCKETS[r] - 1
          /\ 0 % BUCKET_MS[r] \in 0 .. BUCKET_MS[r] - 1
      BY <2>1, DivMod
    <2> QED BY <1>1, <2>1, <2>2, <2>3, ClockFacts, LongestFrame DEF SlotOf, Bucket
  <1>4. TypeOK BY <1>1, <1>2, <1>3 DEF TypeOK
  <1>5. Logged = 0 BY <1>1, <1>2 DEF Logged
  <1>6. Turned BY <1>3, <1>5 DEF Turned
  <1>7. Filled
    <2> SUFFICES ASSUME NEW r \in Ring
                 PROVE  util[r][0 % BUCKETS[r]] <= (0 % BUCKET_MS[r]) - gap + MaxAirtime
      BY <1>1 DEF Filled
    <2>1. util[r][0 % BUCKETS[r]] = 0 BY <1>1, <1>3
    <2> QED BY <1>1, <1>3, <2>1, LongestFrame
  <1>8. BucketIsBounded BY <1>1, <1>3 DEF BucketIsBounded
  <1> QED BY <1>4, <1>6, <1>7, <1>8 DEF AirInv

\* The invariant holds in every behaviour.
LEMMA Invariance == Spec => []AirInv
  <1>1. AirInv /\ UNCHANGED vars => AirInv'
    BY DEF AirInv, vars, TypeOK, Turned, Logged, Filled, BucketIsBounded, SlotOf
  <1>2. AirInv /\ [Next]_vars => AirInv'
    BY <1>1, LogTxOK, LogRxOK, TickOK DEF Next
  <1> QED BY InitOK, <1>2, PTL DEF Spec

\* Every variable stays in its type, through every wrap of millis().
THEOREM TypeCorrect == Spec => []TypeOK
  <1>1. AirInv => TypeOK BY DEF AirInv
  <1> QED BY Invariance, <1>1, PTL

\* No bucket of _chanUtil or _txUtil grows past its period and the frames at
\* its two ends.
THEOREM BucketsStayBounded == Spec => []BucketIsBounded
  <1>1. AirInv => BucketIsBounded BY DEF AirInv
  <1> QED BY Invariance, <1>1, PTL

-----------------------------------------------------------------------------
(* What the loop over a ring adds up to.                                   *)

\* A property of the naturals that fails somewhere fails first somewhere.
LEMMA FirstFailure ==
  ASSUME NEW S \in SUBSET Nat, S # {}
  PROVE  \E i \in S : \A j \in S : i <= j
  <1> DEFINE R == OpToRel(<, Nat)
  <1>1. IsWellFoundedOn(R, Nat) BY NatLessThanWellFounded
  <1>2. \A x, y \in Nat : x < y => <<x, y>> \in R BY DEF OpToRel
  <1> HIDE DEF R
  <1>3. PICK i \in S : \A j \in S : ~ (<<j, i>> \in R) BY <1>1, WFMin
  <1>4. \A j \in S : ~ (j < i) BY <1>2, <1>3
  <1>5. \A j \in S : i <= j BY <1>4
  <1> QED BY <1>5

\* g holds the totals of f, as far as m entries.
Sums(g, f, m) == g[0] = 0 /\ \A k \in 1 .. m : g[k] = g[k - 1] + f[k - 1]

\* There is one way only to add up.
LEMMA SumsAgree ==
  ASSUME NEW f, NEW m \in Nat, NEW p \in Nat,
         NEW g, NEW h, Sums(g, f, m), Sums(h, f, p)
  PROVE  \A k \in Nat : k <= m /\ k <= p => g[k] = h[k]
  <1> DEFINE S == {k \in Nat : k <= m /\ k <= p /\ g[k] # h[k]}
  <1> SUFFICES ASSUME S # {} PROVE FALSE OBVIOUS
  <1>1. PICK k \in S : \A j \in S : k <= j BY FirstFailure
  <1>2. k \in Nat /\ k <= m /\ k <= p /\ g[k] # h[k] BY <1>1
  <1>3. k # 0 BY <1>2 DEF Sums
  <1>4. k - 1 \in Nat /\ k - 1 \notin S BY <1>1, <1>2, <1>3
  <1>5. g[k - 1] = h[k - 1] BY <1>2, <1>4
  <1>6. k \in 1 .. m /\ k \in 1 .. p BY <1>2, <1>3
  <1>7. g[k] = g[k - 1] + f[k - 1] /\ h[k] = h[k - 1] + f[k - 1]
    BY <1>6 DEF Sums
  <1> QED BY <1>2, <1>5, <1>7

\* And one can add up as far as one likes.
LEMMA SumsExist ==
  ASSUME NEW f, NEW m \in Nat
  PROVE  \E g : Sums(g, f, m)
  <1> DEFINE S == {k \in Nat : ~ \E g : Sums(g, f, k)}
  <1> SUFFICES ASSUME S # {} PROVE FALSE OBVIOUS
  <1>1. PICK k \in S : \A j \in S : k <= j BY FirstFailure
  <1>2. k \in Nat /\ ~ \E g : Sums(g, f, k) BY <1>1
  <1>3. k # 0
    <2>1. Sums([i \in 0 .. 0 |-> 0], f, 0) BY DEF Sums
    <2> QED BY <1>2, <2>1
  <1>4. k - 1 \in Nat /\ k - 1 \notin S BY <1>1, <1>2, <1>3
  <1>5. PICK g : Sums(g, f, k - 1) BY <1>4
  <1> DEFINE h == [i \in 0 .. k |-> IF i = k THEN g[k - 1] + f[k - 1] ELSE g[i]]
  <1>6. g[0] = 0 /\ \A i \in 1 .. k - 1 : g[i] = g[i - 1] + f[i - 1]
    BY <1>5 DEF Sums
  <1>8. h[0] = 0 BY <1>2, <1>3, <1>6
  <1>9. ASSUME NEW i \in 1 .. k PROVE h[i] = h[i - 1] + f[i - 1]
    <2>1. i - 1 \in 0 .. k - 1 /\ i \in 0 .. k BY <1>2
    <2>2. h[i - 1] = g[i - 1] BY <1>2, <2>1
    <2>3. CASE i = k BY <2>1, <2>2, <2>3
    <2>4. CASE i # k
      <3>1. i \in 1 .. k - 1 BY <1>2, <2>4
      <3> QED BY <1>6, <2>1, <2>2, <2>4, <3>1
    <2> QED BY <2>3, <2>4
  <1> HIDE DEF h
  <1>10. Sums(h, f, k) BY <1>8, <1>9 DEF Sums
  <1> QED BY <1>2, <1>10

\* So the recursion of Total defines a function, and unfolds.
LEMMA TotalUnfolds ==
  ASSUME NEW f
  PROVE  /\ Total(f, 0) = 0
         /\ \A n \in Nat : Total(f, n + 1) = Total(f, n) + f[n]
  <1> DEFINE pick(m) == CHOOSE g : Sums(g, f, m)
             t == [k \in Nat |-> pick(k)[k]]
  <1>1. \A m \in Nat : Sums(pick(m), f, m) BY SumsExist
  <1> HIDE DEF pick
  <1>2. t[0] = 0 BY <1>1 DEF Sums
  <1>4. ASSUME NEW k \in Nat \ {0} PROVE t[k] = t[k - 1] + f[k - 1]
    <2>1. k - 1 \in Nat /\ k \in 1 .. k OBVIOUS
    <2>2. Sums(pick(k), f, k) /\ Sums(pick(k - 1), f, k - 1) BY <1>1, <2>1
    <2>3. pick(k)[k] = pick(k)[k - 1] + f[k - 1] BY <2>1, <2>2 DEF Sums
    <2>4. pick(k)[k - 1] = pick(k - 1)[k - 1]
      BY <2>1, <2>2, SumsAgree
    <2> QED BY <2>1, <2>3, <2>4
  <1>5. t = [k \in Nat |-> IF k = 0 THEN 0 ELSE t[k - 1] + f[k - 1]]
    BY <1>2, <1>4
  <1> HIDE DEF t
  <1>6. \E g : g = [k \in Nat |-> IF k = 0 THEN 0 ELSE g[k - 1] + f[k - 1]]
    BY <1>5
  <1> DEFINE s == CHOOSE g : g = [k \in Nat |-> IF k = 0 THEN 0 ELSE g[k - 1] + f[k - 1]]
  <1>7. s = [k \in Nat |-> IF k = 0 THEN 0 ELSE s[k - 1] + f[k - 1]]
    BY <1>6
  <1>8. \A n : Total(f, n) = s[n] BY DEF Total
  <1> HIDE DEF s
  <1>9. s[0] = 0 BY <1>7
  <1>10. ASSUME NEW n \in Nat PROVE s[n + 1] = s[n] + f[n]
    <2>1. n + 1 \in Nat /\ n + 1 # 0 /\ (n + 1) - 1 = n OBVIOUS
    <2>2. s[n + 1] = s[(n + 1) - 1] + f[(n + 1) - 1] BY <1>7, <2>1
    <2> QED BY <2>1, <2>2
  <1> QED BY <1>8, <1>9, <1>10

\* Entries that are counts add up to a count.
LEMMA TotalType ==
  ASSUME NEW f, NEW n \in Nat, \A k \in 0 .. n - 1 : f[k] \in Nat
  PROVE  \A k \in 0 .. n : Total(f, k) \in Nat
  <1> DEFINE S == {k \in Nat : k <= n /\ Total(f, k) \notin Nat}
  <1> SUFFICES ASSUME S # {} PROVE FALSE OBVIOUS
  <1>1. PICK k \in S : \A j \in S : k <= j BY FirstFailure
  <1>2. k \in Nat /\ k <= n /\ Total(f, k) \notin Nat BY <1>1
  <1>3. k # 0 BY <1>2, TotalUnfolds
  <1>4. k - 1 \in Nat /\ k - 1 \notin S BY <1>1, <1>2, <1>3
  <1>5. Total(f, k - 1) \in Nat /\ f[k - 1] \in Nat BY <1>2, <1>4
  <1>6. Total(f, (k - 1) + 1) = Total(f, k - 1) + f[k - 1]
    BY <1>4, TotalUnfolds
  <1>7. (k - 1) + 1 = k BY <1>2
  <1> QED BY <1>2, <1>5, <1>6, <1>7

\* Smaller entries add up to less.
LEMMA TotalMonotone ==
  ASSUME NEW f, NEW g, NEW n \in Nat,
         \A k \in 0 .. n - 1 : f[k] \in Nat /\ g[k] \in Nat /\ f[k] <= g[k]
  PROVE  Total(f, n) <= Total(g, n)
  <1> DEFINE S == {k \in Nat : k <= n /\ ~ (Total(f, k) <= Total(g, k))}
  <1>0. \A k \in 0 .. n : Total(f, k) \in Nat /\ Total(g, k) \in Nat
    BY TotalType
  <1>1. ASSUME S # {} PROVE FALSE
    <2>1. PICK k \in S : \A j \in S : k <= j BY <1>1, FirstFailure
    <2>2. k \in Nat /\ k <= n /\ ~ (Total(f, k) <= Total(g, k)) BY <2>1
    <2>3. k # 0 BY <2>2, TotalUnfolds
    <2>4. k - 1 \in Nat /\ k - 1 \notin S BY <2>1, <2>2, <2>3
    <2>5. k - 1 \in 0 .. n - 1 /\ k - 1 \in 0 .. n /\ (k - 1) + 1 = k
      BY <2>2, <2>4
    <2>6. Total(f, k - 1) <= Total(g, k - 1) BY <2>4, <2>5
    <2>7. /\ Total(f, k) = Total(f, k - 1) + f[k - 1]
          /\ Total(g, k) = Total(g, k - 1) + g[k - 1]
      BY <2>4, <2>5, TotalUnfolds
    <2>8. /\ Total(f, k - 1) \in Nat /\ Total(g, k - 1) \in Nat
          /\ f[k - 1] \in Nat /\ g[k - 1] \in Nat /\ f[k - 1] <= g[k - 1]
      BY <1>0, <2>5
    <2> QED BY <2>2, <2>6, <2>7, <2>8
  <1>2. n \notin S BY <1>1
  <1> QED BY <1>2

\* It does not matter at which entry one starts, nor which way one goes.
LEMMA TotalTurns ==
  ASSUME NEW n \in Nat \ {0}, NEW c \in 0 .. n - 1, NEW f, NEW g,
         \A k \in 0 .. n - 1 : f[k] \in Nat,
         \A a \in 0 .. n - 1 : g[a] = f[IF a <= c THEN c - a ELSE c - a + n]
  PROVE  Total(g, n) = Total(f, n)
  <1> DEFINE Matched(k) ==
        IF k <= c + 1
        THEN Total(g, k) + Total(f, c + 1 - k) = Total(f, c + 1)
        ELSE Total(g, k) + Total(f, n + c + 1 - k) = Total(f, c + 1) + Total(f, n)
      S == {k \in Nat : k <= n /\ ~ Matched(k)}
  <1>0. /\ \A a \in 0 .. n - 1 : g[a] \in Nat
        /\ \A k \in 0 .. n : Total(f, k) \in Nat /\ Total(g, k) \in Nat
    <2>1. ASSUME NEW a \in 0 .. n - 1 PROVE g[a] \in Nat
      <3>1. (IF a <= c THEN c - a ELSE c - a + n) \in 0 .. n - 1 OBVIOUS
      <3> QED BY <3>1
    <2> QED BY <2>1, TotalType
  <1>1. ASSUME S # {} PROVE FALSE
    <2>1. PICK k \in S : \A j \in S : k <= j BY <1>1, FirstFailure
    <2>2. k \in Nat /\ k <= n /\ ~ Matched(k) BY <2>1
    <2>3. k # 0
      <3>1. Total(g, 0) = 0 /\ Total(f, c + 1) \in Nat BY <1>0, TotalUnfolds
      <3>2. Matched(0)
        <4>1. 0 <= c + 1 /\ c + 1 - 0 = c + 1 OBVIOUS
        <4> QED BY <3>1, <4>1
      <3> QED BY <2>2, <3>2
    <2>4. k - 1 \in Nat /\ k - 1 \notin S BY <2>1, <2>2, <2>3
    <2>5. k - 1 \in 0 .. n - 1 /\ k - 1 \in 0 .. n /\ (k - 1) + 1 = k
      BY <2>2, <2>4
    <2>6. Matched(k - 1) BY <2>4, <2>5
    <2>7. /\ Total(g, k) = Total(g, k - 1) + g[k - 1]
          /\ Total(g, k - 1) \in Nat /\ g[k - 1] \in Nat
      BY <1>0, <2>4, <2>5, TotalUnfolds
    <2>8. CASE k <= c + 1
      <3> DEFINE b == c + 1 - k
      <3>1. b \in 0 .. n - 1 /\ c + 1 - (k - 1) = b + 1 /\ c - (k - 1) = b
            /\ k - 1 <= c /\ k - 1 <= c + 1 /\ b + 1 \in 0 .. n
            /\ c + 1 \in 0 .. n /\ b \in 0 .. n /\ b \in Nat
        BY <2>2, <2>4, <2>8
      <3>2. g[k - 1] = f[b] BY <2>5, <3>1
      <3>3. Total(f, b + 1) = Total(f, b) + f[b] BY <3>1, TotalUnfolds
      <3>4. Total(g, k - 1) + Total(f, b + 1) = Total(f, c + 1)
        BY <2>6, <3>1
      <3>5. /\ Total(f, b) \in Nat /\ f[b] \in Nat /\ Total(f, c + 1) \in Nat
        BY <1>0, <3>1
      <3> HIDE DEF b
      <3>6. Total(g, k) + Total(f, b) = Total(f, c + 1)
        BY <2>7, <3>2, <3>3, <3>4, <3>5
      <3> QED BY <2>2, <2>8, <3>6 DEF b
    <2>9. CASE ~ (k <= c + 1)
      <3> DEFINE b == n + c + 1 - k
      <3>1. b \in 0 .. n - 1 /\ n + c + 1 - (k - 1) = b + 1 /\ c - (k - 1) + n = b
            /\ ~ (k - 1 <= c) /\ b + 1 \in 0 .. n
            /\ c + 1 \in 0 .. n /\ n \in 0 .. n /\ b \in 0 .. n /\ b \in Nat
        BY <2>2, <2>4, <2>9
      <3>2. g[k - 1] = f[b] BY <2>5, <3>1
      <3>3. Total(f, b + 1) = Total(f, b) + f[b] BY <3>1, TotalUnfolds
      <3>5. /\ Total(f, b) \in Nat /\ f[b] \in Nat /\ Total(f, c + 1) \in Nat
            /\ Total(f, n) \in Nat
        BY <1>0, <3>1
      <3>4. Total(g, k - 1) + Total(f, b + 1) = Total(f, c + 1) + Total(f, n)
        <4>1. CASE k - 1 <= c + 1
          <5>1. k - 1 = c + 1 /\ c + 1 - (k - 1) = 0 /\ b + 1 = n
            BY <2>4, <3>1, <4>1
          <5>2. Total(g, k - 1) + Total(f, 0) = Total(f, c + 1)
            BY <2>6, <4>1, <5>1
          <5>3. Total(g, k - 1) = Total(f, c + 1)
            BY <2>7, <3>5, <5>2, TotalUnfolds
          <5> QED BY <3>5, <5>1, <5>3
        <4>2. CASE ~ (k - 1 <= c + 1) BY <2>6, <3>1, <4>2
        <4> QED BY <4>1, <4>2
      <3> HIDE DEF b
      <3>6. Total(g, k) + Total(f, b) = Total(f, c + 1) + Total(f, n)
        BY <2>7, <3>2, <3>3, <3>4, <3>5
      <3> QED BY <2>2, <2>9, <3>6 DEF b
    <2> QED BY <2>8, <2>9
  <1>2. Matched(n) BY <1>1
  <1>3. Total(f, c + 1) \in Nat /\ Total(f, n) \in Nat /\ Total(g, n) \in Nat
    BY <1>0
  <1>4. CASE n <= c + 1
    <2>1. n = c + 1 /\ c + 1 - n = 0 BY <1>4
    <2>2. Total(g, n) + Total(f, 0) = Total(f, c + 1) BY <1>2, <1>4, <2>1
    <2> QED BY <1>3, <2>1, <2>2, TotalUnfolds
  <1>5. CASE ~ (n <= c + 1)
    <2>1. n + c + 1 - n = c + 1 OBVIOUS
    <2>2. Total(g, n) + Total(f, c + 1) = Total(f, c + 1) + Total(f, n)
      BY <1>2, <1>5, <2>1
    <2> QED BY <1>3, <2>2
  <1> QED BY <1>4, <1>5

-----------------------------------------------------------------------------
(* Each bucket belongs to one slot of the window.                          *)

\* Before the rings are turned again, the slots of the window up to the last
\* turn are in their buckets, those after it are empty; and a bucket whose
\* slot is yet to come for the first time is empty.
Aligned ==
  \A r \in Ring :
     /\ \A a \in Bucket(r) :
          a <= SlotOf(r, now) =>
            window[r][a] = IF epoch[r] <= SlotOf(r, now)
                              /\ SlotOf(r, now) - a <= epoch[r]
                           THEN util[r][(SlotOf(r, now) - a) % BUCKETS[r]]
                           ELSE 0
     /\ \A b \in Bucket(r) : b > epoch[r] => util[r][b] = 0

\* Slots of one window are in different buckets: going back a slots from slot
\* s leads to a bucket of its own.
LEMMA GoingBack ==
  ASSUME NEW n \in Nat \ {0}, NEW s \in Nat, NEW a \in 0 .. n - 1, a <= s
  PROVE  (s - a) % n = (IF a <= s % n THEN (s % n) - a ELSE (s % n) - a + n)
  <1>1. s \div n \in Nat /\ s % n \in 0 .. n - 1 BY DivMod
  <1>2. PICK rest \in 0 .. n - 1 : rest = s % n /\ s = n * (s \div n) + rest
    BY DivMod
  <1> DEFINE x == s \div n
  <1>3. x \in Nat /\ s = n * x + rest BY <1>1, <1>2
  <1> HIDE DEF x
  <1>4. s - a \in Nat OBVIOUS
  <1>5. CASE a <= rest
    <2>1. s - a = n * x + (rest - a) /\ rest - a \in 0 .. n - 1
      <3>1. n * x \in Nat BY <1>3
      <3> QED BY <1>3, <1>5, <3>1
    <2>2. (s - a) % n = rest - a BY <1>3, <1>4, <2>1, Remainder
    <2> QED BY <1>2, <1>5, <2>2
  <1>6. CASE ~ (a <= rest)
    <2>1. x # 0
      <3>1. x = 0 => s = rest BY <1>3
      <3> QED BY <1>6, <3>1
    <2>2. x - 1 \in Nat /\ n * x = n * (x - 1) + n BY <1>3, <2>1
    <2>3. n * (x - 1) \in Nat BY <2>2
    <2>4. s - a = n * (x - 1) + (rest - a + n) /\ rest - a + n \in 0 .. n - 1
      BY <1>3, <1>6, <2>2, <2>3
    <2> DEFINE z == x - 1
               d == rest - a + n
               b == s - a
    <2>5. b \in Nat /\ z \in Nat /\ d \in 0 .. n - 1 /\ b = n * z + d
      BY <1>4, <2>2, <2>4
    <2> HIDE DEF z, d, b
    <2>6. b % n = d BY <2>5, Remainder
    <2> QED BY <1>2, <1>6, <2>6 DEF b, d
  <1> QED BY <1>5, <1>6

\* Two slots less than a turn apart are in different buckets.
LEMMA BucketsDiffer ==
  ASSUME NEW n \in Nat \ {0}, NEW x \in Nat, NEW y \in Nat, x < y, y - x < n
  PROVE  x % n # y % n
  <1> DEFINE a == y - x
  <1>1. a \in 0 .. n - 1 /\ a <= y /\ a # 0 /\ y - a = x OBVIOUS
  <1>2. y % n \in 0 .. n - 1 BY DivMod
  <1> HIDE DEF a
  <1>3. x % n = (IF a <= y % n THEN (y % n) - a ELSE (y % n) - a + n)
    BY <1>1, GoingBack
  <1> QED BY <1>1, <1>2, <1>3

\* The slot a ring was turned to is behind the clock, until the clock wraps;
\* then it is ahead.
LEMMA SlotOrder ==
  ASSUME NEW r \in Ring, NEW t \in 0 .. CLOCK - 1, NEW q \in 0 .. MaxQuiet,
         NEW last, last = IF t >= q THEN t - q ELSE t - q + CLOCK
  PROVE  /\ t >= q => SlotOf(r, last) <= SlotOf(r, t)
         /\ t < q => SlotOf(r, t) < SlotOf(r, last)
  <1>1. /\ CLOCK \in Nat \ {0} /\ MaxQuiet \in Nat /\ BUCKET_MS[r] \in Nat \ {0}
        /\ MaxQuiet + BUCKET_MS[r] < CLOCK
    BY ClockFacts
  <1>2. t \in Nat /\ q \in Nat /\ q <= MaxQuiet /\ t < CLOCK BY <1>1
  <1>3. CASE t >= q
    <2>1. last \in Nat /\ last <= t BY <1>2, <1>3
    <2>2. last \div BUCKET_MS[r] <= t \div BUCKET_MS[r]
      BY <1>1, <1>2, <2>1, SlotsRise
    <2> QED BY <1>2, <1>3, <2>2 DEF SlotOf
  <1>4. CASE t < q
    <2>1. last \in Nat /\ t + BUCKET_MS[r] <= last BY <1>1, <1>2, <1>4
    <2>2. t \div BUCKET_MS[r] < last \div BUCKET_MS[r]
      BY <1>1, <1>2, <2>1, SlotsRise
    <2> QED BY <1>2, <1>4, <2>2 DEF SlotOf
  <1> QED BY <1>2, <1>3, <1>4

\* What airRotate() leaves: each slot of the window in its bucket, and nothing
\* in the other buckets.
LEMMA RotatedIsAligned ==
  ASSUME AirInv, Aligned, NEW r \in Ring
  PROVE  /\ \A a \in Bucket(r) :
               a <= SlotOf(r, now) =>
                 window[r][a] = Rotated(r)[(SlotOf(r, now) - a) % BUCKETS[r]]
         /\ \A b \in Bucket(r) : b > SlotOf(r, now) => Rotated(r)[b] = 0
  <1> DEFINE s == SlotOf(r, now)
             e == epoch[r]
             n == BUCKETS[r]
             top == CLOCK \div BUCKET_MS[r]
  <1>1. /\ s \in 0 .. top /\ e \in 0 .. top /\ top \in Nat /\ n \in Nat \ {0}
        /\ top + n <= CLOCK /\ CLOCK \in Nat \ {0} /\ Bucket(r) = 0 .. n - 1
    BY ClockFacts DEF AirInv, TypeOK, Bucket
  <1>2. /\ \A a \in Bucket(r) :
             a <= s => window[r][a] = IF e <= s /\ s - a <= e
                                      THEN util[r][(s - a) % n] ELSE 0
        /\ \A b \in Bucket(r) : b > e => util[r][b] = 0
    BY DEF Aligned
  <1>3. \A a \in Bucket(r) : a <= s => (s - a) % n \in Bucket(r)
    <2> SUFFICES ASSUME NEW a \in Bucket(r), a <= s
                 PROVE  (s - a) % n \in Bucket(r)
      OBVIOUS
    <2>1. s - a \in Nat BY <1>1
    <2> HIDE DEF s, n
    <2> QED BY <1>1, <2>1, DivMod
  <1>4. CASE s = e
    <2>1. Rotated(r) = util[r] BY <1>4 DEF Rotated
    <2> HIDE DEF s, e, n
    <2>2. \A a \in Bucket(r) : s - a <= e BY <1>1, <1>4
    <2>3. e <= s BY <1>1, <1>4
    <2>4. \A a \in Bucket(r) : a <= s => window[r][a] = util[r][(s - a) % n]
      BY <1>2, <2>2, <2>3
    <2>5. \A b \in Bucket(r) : b > s => util[r][b] = 0 BY <1>2, <1>4
    <2> QED BY <2>1, <2>4, <2>5 DEF s, n
  <1>5. CASE s # e
    <2>1. Rotated(r) = [b \in Bucket(r) |-> IF b \in Skipped(r) THEN 0 ELSE util[r][b]]
      BY <1>5 DEF Rotated
    <2>2. CASE s > e
      <3>1. s - e \in 0 .. CLOCK - 1 /\ s - e >= 1 BY <1>1, <2>2
      <3>2. (s - e) % CLOCK = s - e
        <4> DEFINE d == s - e
        <4>1. d \in 0 .. CLOCK - 1 /\ CLOCK \in Nat \ {0} BY <1>1, <3>1
        <4> HIDE DEF d
        <4>2. d % CLOCK = d BY <4>1
        <4> QED BY <4>2 DEF d
      <3>3. \A b \in Bucket(r) : b > s => Rotated(r)[b] = 0
        <4>1. \A b \in Bucket(r) : b > s => b > e BY <1>1, <2>2
        <4> QED BY <1>2, <2>1, <4>1
      <3>4. CASE s - e >= n
        <4>1. Skipped(r) = Bucket(r) BY <3>2, <3>4 DEF Skipped
        <4>2. \A a \in Bucket(r) : ~ (s - a <= e) BY <1>1, <3>1, <3>4
        <4> QED BY <1>2, <1>3, <2>1, <3>3, <4>1, <4>2
      <3>5. CASE s - e < n
        <4>1. Skipped(r) = {(e + x) % n : x \in 1 .. s - e}
          <5>1. ~(s - e >= n) BY <1>1, <3>1, <3>5
          <5> QED BY <3>2, <5>1, Zenon DEF Skipped
        <4> HIDE DEF s, e, n, top
        <4>2. ASSUME NEW a \in Bucket(r), a <= s
              PROVE  window[r][a] = Rotated(r)[(s - a) % n]
          <5>1. (s - a) % n \in Bucket(r) BY <1>3, <4>2
          <5>2. CASE s - a <= e
            <6>1. window[r][a] = util[r][(s - a) % n]
              BY <1>1, <1>2, <2>2, <4>2, <5>2
            <6>2. ASSUME NEW x \in 1 .. s - e PROVE (e + x) % n # (s - a) % n
              <7>1. s - a \in Nat /\ e + x \in Nat /\ s - a < e + x
                    /\ (e + x) - (s - a) < n
                BY <1>1, <3>1, <4>2, <5>2
              <7> QED BY <1>1, <7>1, BucketsDiffer
            <6>3. (s - a) % n \notin Skipped(r) BY <4>1, <6>2
            <6> QED BY <2>1, <5>1, <6>1, <6>3
          <5>3. CASE ~ (s - a <= e)
            <6>1. window[r][a] = 0 BY <1>2, <4>2, <5>3
            <6>2. (s - a) - e \in 1 .. s - e /\ e + ((s - a) - e) = s - a
              BY <1>1, <4>2, <5>3
            <6>3. (s - a) % n \in Skipped(r) BY <4>1, <6>2
            <6> QED BY <2>1, <5>1, <6>1, <6>3
          <5> QED BY <5>2, <5>3
        <4> QED BY <3>3, <4>2 DEF s, n
      <3> QED BY <1>1, <3>4, <3>5
    <2>3. CASE s < e
      <3>1. s - e + CLOCK \in 0 .. CLOCK - 1 /\ s - e + CLOCK >= n BY <1>1, <2>3
      <3>2. (s - e) % CLOCK = s - e + CLOCK
        <4> DEFINE d == s - e
        <4>1. d \in -CLOCK .. -1 /\ d + CLOCK \in 0 .. CLOCK - 1 BY <1>1, <2>3, <3>1
        <4> HIDE DEF d
        <4>2. d % CLOCK = d + CLOCK BY <1>1, <4>1, NegativeRemainder
        <4> QED BY <4>2 DEF d
      <3>3. Skipped(r) = Bucket(r) BY <1>1, <3>1, <3>2 DEF Skipped
      <3>4. ~ (e <= s) BY <1>1, <2>3
      <3> QED BY <1>2, <1>3, <2>1, <3>3, <3>4
    <2> QED BY <1>1, <1>5, <2>2, <2>3
  <1> QED BY <1>4, <1>5

\* A tick moves the clock to the next slot at most.
LEMMA SlotsByOne ==
  ASSUME NEW n \in Nat \ {0}, NEW a \in Nat
  PROVE  (a + 1) \div n = a \div n \/ (a + 1) \div n = (a \div n) + 1
  <1> DEFINE b == a + 1
             x == a \div n
             y == b \div n
  <1>0. b \in Nat /\ b = a + 1 OBVIOUS
  <1> HIDE DEF b
  <1>1. x \in Nat /\ y \in Nat BY <1>0, DivMod
  <1>2. PICK ra \in 0 .. n - 1 : ra = a % n /\ a = n * x + ra BY DivMod
  <1>3. PICK rb \in 0 .. n - 1 : rb = b % n /\ b = n * y + rb BY <1>0, DivMod
  <1>4. x <= y BY <1>0, SlotsRise
  <1> HIDE DEF x, y
  <1>5. ASSUME x + 1 < y PROVE FALSE
    <2>1. n * (x + 1) + n <= n * y BY <1>1, <1>5, Times
    <2>2. n * (x + 1) = n * x + n /\ n * x \in Nat /\ n * y \in Nat BY <1>1
    <2> QED BY <1>0, <1>2, <1>3, <2>1, <2>2
  <1>6. y = x \/ y = x + 1 BY <1>1, <1>4, <1>5
  <1> QED BY <1>6 DEF x, y, b

\* A frame is logged to the bucket of this slot.
LEMMA AlignedLog ==
  ASSUME AirInv, Aligned, NEW counting \in SUBSET Ring, NEW ms \in Nat,
         AirLog(counting, ms)
  PROVE  Aligned'
  <1>1. /\ epoch' = [r \in Ring |-> SlotOf(r, now)]
        /\ util' = [r \in Ring |->
             [b \in Bucket(r) |->
                Rotated(r)[b]
                  + (IF r \in counting /\ b = epoch'[r] % BUCKETS[r] THEN ms ELSE 0)]]
        /\ window' = [r \in Ring |->
             IF r \in counting THEN [window[r] EXCEPT ![0] = @ + ms] ELSE window[r]]
        /\ now' = now
    BY DEF AirLog
  <1>2. ASSUME NEW r \in Ring
        PROVE  /\ \A a \in Bucket(r) :
                    a <= SlotOf(r, now) =>
                      window'[r][a] = util'[r][(SlotOf(r, now) - a) % BUCKETS[r]]
               /\ \A b \in Bucket(r) : b > SlotOf(r, now) => util'[r][b] = 0
    <2> DEFINE s == SlotOf(r, now)
               n == BUCKETS[r]
    <2>1. s \in Nat /\ n \in Nat \ {0} /\ Bucket(r) = 0 .. n - 1
      BY ClockFacts DEF AirInv, TypeOK, Bucket
    <2>2. /\ \A a \in Bucket(r) : a <= s => window[r][a] = Rotated(r)[(s - a) % n]
          /\ \A b \in Bucket(r) : b > s => Rotated(r)[b] = 0
      BY RotatedIsAligned
    <2>3. /\ Rotated(r) \in [Bucket(r) -> Nat] /\ window[r] \in [Bucket(r) -> Nat]
      BY RotatedFacts DEF AirInv, TypeOK
    <2>4. util'[r] = [b \in Bucket(r) |->
             Rotated(r)[b] + (IF r \in counting /\ b = s % n THEN ms ELSE 0)]
      BY <1>1
    <2>5. window'[r] = IF r \in counting
                       THEN [window[r] EXCEPT ![0] = window[r][0] + ms]
                       ELSE window[r]
      BY <1>1
    <2> HIDE DEF s, n
    <2>6. ASSUME NEW a \in Bucket(r), a <= s
          PROVE  window'[r][a] = util'[r][(s - a) % n]
      <3>1. s - a \in Nat BY <2>1, <2>6
      <3>2. (s - a) % n \in Bucket(r) BY <2>1, <3>1, DivMod
      <3>3. window[r][a] = Rotated(r)[(s - a) % n] BY <2>2, <2>6
      <3>4. CASE a = 0
        <4>1. s - a = s BY <2>1, <3>4
        <4> QED BY <2>3, <2>4, <2>5, <3>2, <3>3, <3>4, <4>1
      <3>5. CASE a # 0
        <4>1. s - a < s /\ s - (s - a) < n BY <2>1, <3>5
        <4>2. (s - a) % n # s % n BY <2>1, <3>1, <4>1, BucketsDiffer
        <4>3. window'[r][a] = window[r][a] BY <2>3, <2>5, <3>5
        <4>4. util'[r][(s - a) % n] = Rotated(r)[(s - a) % n]
          BY <2>3, <2>4, <3>2, <4>2
        <4> QED BY <3>3, <4>3, <4>4
      <3> QED BY <3>4, <3>5
    <2>7. ASSUME NEW b \in Bucket(r), b > s
          PROVE  util'[r][b] = 0
      <3>1. s \in 0 .. n - 1 BY <2>1, <2>7
      <3>2. s % n = s BY <2>1, <3>1
      <3> QED BY <2>1, <2>2, <2>3, <2>4, <2>7, <3>2
    <2> QED BY <2>6, <2>7 DEF s, n
  <1>3. ASSUME NEW r \in Ring
        PROVE  /\ SlotOf(r, now)' = SlotOf(r, now) /\ epoch'[r] = SlotOf(r, now)
               /\ \A a \in Bucket(r) : SlotOf(r, now) - a <= SlotOf(r, now)
               /\ SlotOf(r, now) <= SlotOf(r, now)
    <2>1. SlotOf(r, now) \in Nat BY ClockFacts DEF AirInv, TypeOK
    <2>2. \A a \in Bucket(r) : a \in Nat BY ClockFacts DEF Bucket
    <2> QED BY <1>1, <2>1, <2>2 DEF SlotOf
  <1> QED BY <1>2, <1>3 DEF Aligned

\* The clock moves on: a slot that begins is empty, the others are one slot
\* older; at the wrap nothing older can be placed.
LEMMA AlignedTick ==
  ASSUME AirInv, AirInv', Aligned, Tick
  PROVE  Aligned'
  <1>1. /\ now \in 0 .. CLOCK - 1 /\ now' \in 0 .. CLOCK - 1
        /\ quiet \in 0 .. MaxQuiet /\ quiet' \in 0 .. MaxQuiet
        /\ CLOCK \in Nat \ {0} /\ MaxQuiet \in Nat
    BY AirTimeAssumption DEF AirInv, TypeOK
  <1>2. /\ now' = (now + 1) % CLOCK /\ quiet' = quiet + 1
        /\ UNCHANGED <<util, epoch>>
        /\ window' = [r \in Ring |->
             IF SlotOf(r, now') = SlotOf(r, now)
             THEN window[r]
             ELSE [a \in Bucket(r) |-> IF a = 0 THEN 0 ELSE window[r][a - 1]]]
    BY DEF Tick
  <1>3. /\ now + 1 < CLOCK => now' = now + 1
        /\ now + 1 = CLOCK => now' = 0
    <2>1. now \in 0 .. CLOCK - 1 /\ 1 \in 0 .. CLOCK BY <1>1
    <2>2. /\ now + 1 < CLOCK => (now + 1) % CLOCK = now + 1
          /\ now + 1 >= CLOCK => (now + 1) % CLOCK = now + 1 - CLOCK
      BY <1>1, <2>1, Wrap
    <2> QED BY <1>1, <1>2, <2>2
  <1>4. ASSUME NEW r \in Ring
        PROVE  /\ \A a \in Bucket(r) :
                    a <= SlotOf(r, now') =>
                      window'[r][a] = IF epoch[r] <= SlotOf(r, now')
                                         /\ SlotOf(r, now') - a <= epoch[r]
                                      THEN util[r][(SlotOf(r, now') - a) % BUCKETS[r]]
                                      ELSE 0
               /\ \A b \in Bucket(r) : b > epoch[r] => util[r][b] = 0
    <2> DEFINE s == SlotOf(r, now)
               t == SlotOf(r, now')
               e == epoch[r]
               n == BUCKETS[r]
    <2>1. /\ s \in Nat /\ t \in Nat /\ e \in Nat /\ n \in Nat \ {0}
          /\ Bucket(r) = 0 .. n - 1
      BY <1>1, ClockFacts DEF AirInv, TypeOK, Bucket
    <2>2. /\ \A a \in Bucket(r) :
               a <= s => window[r][a] = IF e <= s /\ s - a <= e
                                        THEN util[r][(s - a) % n] ELSE 0
          /\ \A b \in Bucket(r) : b > e => util[r][b] = 0
      BY DEF Aligned
    <2>3. /\ now >= quiet => e <= s
          /\ now < quiet => s < e
          /\ now' >= quiet' => e <= t
          /\ now' < quiet' => t < e
      <3>1. /\ Logged = IF now >= quiet THEN now - quiet ELSE now - quiet + CLOCK
            /\ Logged' = IF now' >= quiet' THEN now' - quiet' ELSE now' - quiet' + CLOCK
        BY DEF Logged
      <3>2. e = SlotOf(r, Logged) /\ e = SlotOf(r, Logged')
        <4>1. epoch'[r] = SlotOf(r, Logged') BY DEF AirInv, Turned, SlotOf
        <4> QED BY <1>2, <4>1 DEF AirInv, Turned
      <3>3. /\ now >= quiet => SlotOf(r, Logged) <= SlotOf(r, now)
            /\ now < quiet => SlotOf(r, now) < SlotOf(r, Logged)
        BY <1>1, <3>1, SlotOrder
      <3>4. /\ now' >= quiet' => SlotOf(r, Logged') <= SlotOf(r, now')
            /\ now' < quiet' => SlotOf(r, now') < SlotOf(r, Logged')
        BY <1>1, <3>1, SlotOrder
      <3> QED BY <3>2, <3>3, <3>4
    <2>4. window'[r] = IF t = s THEN window[r]
                       ELSE [a \in Bucket(r) |-> IF a = 0 THEN 0 ELSE window[r][a - 1]]
      BY <1>2
    <2>5. CASE now + 1 < CLOCK
      <3>1. t = s \/ t = s + 1
        <4>1. now \in Nat /\ BUCKET_MS[r] \in Nat \ {0} BY <1>1, ClockFacts
        <4> QED BY <1>3, <2>5, <4>1, SlotsByOne DEF SlotOf
      <3>2. now >= quiet <=> now' >= quiet' BY <1>1, <1>2, <1>3, <2>5
      <3>3. e <= s <=> e <= t BY <1>1, <2>1, <2>3, <3>2
      <3> HIDE DEF s, t, e, n
      <3>4. CASE t = s BY <2>2, <2>4, <3>4 DEF s, t, e, n
      <3>5. CASE t = s + 1
        <4> SUFFICES ASSUME NEW a \in Bucket(r), a <= t
                     PROVE  window'[r][a] = IF e <= t /\ t - a <= e
                                            THEN util[r][(t - a) % n] ELSE 0
          BY <2>2 DEF s, t, e, n
        <4>1. CASE a = 0
          <5>1. window'[r][a] = 0 BY <2>1, <2>4, <3>5, <4>1
          <5>2. ~ (e <= t /\ t - a <= e) BY <2>1, <3>3, <3>5, <4>1
          <5> QED BY <5>1, <5>2
        <4>2. CASE a # 0
          <5>1. a - 1 \in Bucket(r) /\ a - 1 <= s /\ s - (a - 1) = t - a
            BY <2>1, <3>5, <4>2
          <5>2. window'[r][a] = window[r][a - 1] BY <2>1, <2>4, <3>5, <4>2
          <5> QED BY <2>2, <3>3, <5>1, <5>2
        <4> QED BY <4>1, <4>2
      <3> QED BY <3>1, <3>4, <3>5
    <2>6. CASE now + 1 = CLOCK
      <3>1. now' = 0 /\ t = 0 /\ quiet' > 0
        <4>1. BUCKET_MS[r] \in Nat \ {0} BY ClockFacts
        <4> QED BY <1>1, <1>2, <1>3, <2>6, <4>1 DEF SlotOf
      <3>2. t < e BY <1>1, <2>3, <3>1
      <3>3. t # s
        <4>1. /\ BUCKET_MS[r] \in Nat \ {0} /\ MaxQuiet + BUCKET_MS[r] < CLOCK
          BY ClockFacts
        <4>2. 0 + BUCKET_MS[r] <= now BY <1>1, <2>6, <4>1
        <4>3. SlotOf(r, 0) < SlotOf(r, now)
          <5>1. 0 \in Nat /\ now \in Nat BY <1>1
          <5>2. 0 \div BUCKET_MS[r] < now \div BUCKET_MS[r]
            BY <4>1, <4>2, <5>1, SlotsRise
          <5> QED BY <5>2 DEF SlotOf
        <4> QED BY <2>1, <3>1, <4>3
      <3>4. \A a \in Bucket(r) : a <= t => a = 0 BY <2>1, <3>1
      <3>5. window'[r][0] = 0 BY <2>1, <2>4, <3>3
      <3>6. ~ (e <= t) BY <2>1, <3>2
      <3> QED BY <2>2, <3>4, <3>5, <3>6
    <2> QED BY <1>1, <2>5, <2>6
  <1> QED BY <1>2, <1>4 DEF Aligned, SlotOf

\* begin() leaves every bucket and every slot of the window empty.
LEMMA AlignedInit == Init => Aligned
  <1> SUFFICES ASSUME Init PROVE Aligned OBVIOUS
  <1>1. /\ util = [r \in Ring |-> [b \in Bucket(r) |-> 0]]
        /\ window = [r \in Ring |-> [a \in Bucket(r) |-> 0]]
        /\ epoch = [r \in Ring |-> 0] /\ now = 0
    BY DEF Init
  <1>2. ASSUME NEW r \in Ring, NEW a \in Bucket(r), a <= SlotOf(r, now)
        PROVE  (SlotOf(r, now) - a) % BUCKETS[r] \in Bucket(r)
    <2>1. /\ BUCKETS[r] \in Nat \ {0} /\ BUCKET_MS[r] \in Nat \ {0}
      BY ClockFacts
    <2>2. SlotOf(r, now) = 0 BY <1>1, <2>1 DEF SlotOf
    <2>3. SlotOf(r, now) - a \in Nat BY <1>2, <2>1, <2>2 DEF Bucket
    <2> QED BY <2>1, <2>3, DivMod DEF Bucket
  <1> QED BY <1>1, <1>2 DEF Aligned

\* Each bucket belongs to its slot, whatever is logged and however long it is quiet.
LEMMA AlignedHolds == Spec => [](AirInv /\ Aligned)
  <1>1. AirInv /\ AirInv' /\ Aligned /\ [Next]_vars => Aligned'
    <2> SUFFICES ASSUME AirInv, AirInv', Aligned, [Next]_vars PROVE Aligned'
      OBVIOUS
    <2>1. CASE UNCHANGED vars BY <2>1 DEF vars, Aligned, SlotOf
    <2>2. ASSUME NEW ms \in Airtime, LogTx(ms) PROVE Aligned'
      BY <2>2, LongestFrame, AlignedLog DEF LogTx
    <2>3. ASSUME NEW ms \in Airtime, LogRx(ms) PROVE Aligned'
      BY <2>3, LongestFrame, AlignedLog DEF LogRx
    <2>4. CASE Tick BY <2>4, AlignedTick
    <2> QED BY <2>1, <2>2, <2>3, <2>4 DEF Next
  <1> QED BY AlignedInit, Invariance, <1>1, PTL DEF Spec

\* Once they are turned to this slot, the rings hold what the window can place.
Exact ==
  \A r \in Ring : Reading(r) = Placeable(r) /\ Reading(r) <= InWindow(r)

\* A small number is its own remainder.
LEMMA SmallRemainder ==
  ASSUME NEW n \in Nat \ {0}, NEW k \in 0 .. n - 1
  PROVE  k % n = k
  OBVIOUS

\* Aligned buckets add up to what the clock can place.
LEMMA AlignedIsExact ==
  ASSUME AirInv, Aligned, quiet = 0
  PROVE  Exact
  <1> SUFFICES ASSUME NEW r \in Ring
               PROVE  Reading(r) = Placeable(r) /\ Reading(r) <= InWindow(r)
    BY DEF Exact
  <1> DEFINE s == SlotOf(r, now)
             n == BUCKETS[r]
             c == s % n
             f == util[r]
             g == [a \in Bucket(r) |-> IF a <= s THEN window[r][a] ELSE 0]
  <1>1. epoch[r] = s
    <2>1. now \in 0 .. CLOCK - 1 /\ now >= 0 /\ now - 0 = now
      BY ClockFacts DEF AirInv, TypeOK
    <2>2. Logged = now BY <2>1 DEF Logged
    <2> QED BY <2>2 DEF AirInv, Turned
  <1>2. /\ s \in Nat /\ n \in Nat \ {0} /\ Bucket(r) = 0 .. n - 1
        /\ f \in [Bucket(r) -> Nat] /\ window[r] \in [Bucket(r) -> Nat]
    BY ClockFacts DEF AirInv, TypeOK, Bucket
  <1>3. /\ \A a \in Bucket(r) : a <= s => window[r][a] = f[(s - a) % n]
        /\ \A b \in Bucket(r) : b > s => f[b] = 0
    <2>1. /\ \A a \in Bucket(r) :
               a <= s => window[r][a] = IF epoch[r] <= s /\ s - a <= epoch[r]
                                        THEN f[(s - a) % n] ELSE 0
          /\ \A b \in Bucket(r) : b > epoch[r] => f[b] = 0
      BY DEF Aligned
    <2>2. \A a \in Bucket(r) : epoch[r] <= s /\ s - a <= epoch[r]
      <3> HIDE DEF s, n
      <3> QED BY <1>1, <1>2
    <2> QED BY <1>1, <2>1, <2>2
  <1>4. c \in 0 .. n - 1
    <2> HIDE DEF s, n
    <2> QED BY <1>2, DivMod
  <1> HIDE DEF s, n, c, f
  <1>5. \A a \in 0 .. n - 1 : g[a] \in Nat /\ g[a] <= window[r][a]
    BY <1>2
  <1>6. ASSUME NEW a \in 0 .. n - 1
        PROVE  g[a] = f[IF a <= c THEN c - a ELSE c - a + n]
    <2>1. CASE a <= s
      <3>1. (s - a) % n = (IF a <= c THEN c - a ELSE c - a + n)
        BY <1>2, <2>1, GoingBack DEF c
      <3>2. g[a] = f[(s - a) % n] BY <1>2, <1>3, <2>1
      <3> QED BY <3>1, <3>2
    <2>2. CASE ~ (a <= s)
      <3>1. s \in 0 .. n - 1 BY <1>2, <2>2
      <3>2. c = s
        <4>1. s % n = s BY <1>2, <3>1, SmallRemainder
        <4> QED BY <4>1 DEF c
      <3>3. c - a + n \in Bucket(r) /\ c - a + n > s /\ ~ (a <= c)
        BY <1>2, <2>2, <3>1, <3>2
      <3>4. f[c - a + n] = 0 BY <1>3, <3>3
      <3>5. g[a] = 0 BY <1>2, <2>2
      <3> QED BY <3>3, <3>4, <3>5
    <2> QED BY <2>1, <2>2
  <1>7. \A k \in 0 .. n - 1 : f[k] \in Nat BY <1>2
  <1> HIDE DEF g
  <1>8. Total(g, n) = Total(f, n) BY <1>2, <1>4, <1>6, <1>7, TotalTurns
  <1>9. Total(g, n) <= Total(window[r], n)
    <2>1. n \in Nat /\ \A k \in 0 .. n - 1 : window[r][k] \in Nat BY <1>2
    <2> QED BY <1>5, <2>1, TotalMonotone
  <1>10. /\ Reading(r) = Total(f, n) /\ Placeable(r) = Total(g, n)
         /\ InWindow(r) = Total(window[r], n)
    BY DEF Reading, Placeable, InWindow, f, g, n, s
  <1> QED BY <1>8, <1>9, <1>10

\* After any silence and any wrap of millis() shorter than the bound, a frame
\* is logged into rings that hold the airtime of their window and no other.
THEOREM LoggingIsExact == Spec => LogIsExact
  <1>1. AirInv /\ Aligned => (quiet = 0 => Exact) BY AlignedIsExact
  <1>2. (quiet = 0 => Exact)' => (quiet' = 0 =>
          \A r \in Ring : Reading(r)' = Placeable(r)' /\ Reading(r)' <= InWindow(r)')
    BY DEF Exact
  <1> QED BY <1>1, <1>2, AlignedHolds, PTL DEF LogIsExact
=============================================================================
