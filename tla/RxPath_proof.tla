---------------------------- MODULE RxPath_proof ----------------------------
(***************************************************************************)
(* The dedupe ring and the receive queue, for rings of any size: the ring  *)
(* always holds the last SEEN_N keys, so no packet surfaces twice within   *)
(* that many others, and poll() sees every queued packet once, in order.   *)
(***************************************************************************)
EXTENDS RxPath, RingLemmas, TLAPS

\* Entry of the dedupe ring written d records before the last one.
EntryAt(d) == (seenIdx + (SEEN_N - 1 - d)) % SEEN_N

\* The dedupe ring remembers the last SEEN_N keys: the strengthening that makes
\* SurfacesOncePerWindow inductive.
RemembersLast ==
  \A d \in 0 .. SEEN_N - 1 :
     d < Len(recorded) => seen[EntryAt(d)] = recorded[Len(recorded) - d]

\* The inductive invariant of the receive path.
RxInv == RxTypeOK /\ RemembersLast /\ SurfacesOncePerWindow /\ RxFifo

\* begin() starts with empty rings.
LEMMA RxInitInv ==
  ASSUME RxInit
  PROVE  RxInv
  <1>1. SEEN_N \in Nat \ {0} /\ RXQ_N \in Nat \ {0} BY RxPathAssumption
  <1>2. RxTypeOK BY <1>1 DEF RxInit, RxTypeOK
  <1>3. RemembersLast BY DEF RxInit, RemembersLast
  <1>4. SurfacesOncePerWindow BY DEF RxInit, SurfacesOncePerWindow
  <1>5. RxFifo BY DEF RxInit, RxFifo
  <1> QED BY <1>2, <1>3, <1>4, <1>5 DEF RxInv

\* Recording a key that is not in the ring keeps the ring exact and the window
\* free of repetitions.
LEMMA RecordKeeps ==
  ASSUME RxTypeOK, RemembersLast, SurfacesOncePerWindow,
         NEW k \in Key, \A i \in 0 .. SEEN_N - 1 : seen[i] # k,
         Record(k)
  PROVE  /\ seen' \in [0 .. SEEN_N - 1 -> Key \cup {NoKey}]
         /\ seenIdx' \in 0 .. SEEN_N - 1
         /\ recorded' \in Seq(Key)
         /\ RemembersLast' /\ SurfacesOncePerWindow'
  <1> DEFINE n == SEEN_N
             L == Len(recorded)
  <1>1. /\ n \in Nat \ {0} /\ seenIdx \in 0 .. n - 1
        /\ recorded \in Seq(Key) /\ L \in Nat
        /\ seen \in [0 .. n - 1 -> Key \cup {NoKey}]
    BY RxPathAssumption DEF RxTypeOK
  <1>2. /\ seen' = [seen EXCEPT ![seenIdx] = k]
        /\ seenIdx' = (seenIdx + 1) % n
        /\ recorded' = Append(recorded, k)
    BY DEF Record
  <1>3. 1 \in 0 .. n BY <1>1
  <1>4. seenIdx' \in 0 .. n - 1 BY <1>1, <1>2, <1>3, Wrap
  <1>5. /\ seen' \in [0 .. n - 1 -> Key \cup {NoKey}]
        /\ recorded' \in Seq(Key) /\ Len(recorded') = L + 1
        /\ recorded'[L + 1] = k
        /\ \A i \in 1 .. L : recorded'[i] = recorded[i]
    BY <1>1, <1>2
  <1>6. ASSUME NEW d \in 0 .. n - 1, d < L + 1
        PROVE  seen'[EntryAt(d)'] = recorded'[L + 1 - d]
    <2>1. EntryAt(d)' = (((seenIdx + 1) % n) + (n - 1 - d)) % n
      BY <1>2 DEF EntryAt
    <2>2. n - 1 - d \in 0 .. n - 1 BY <1>1
    <2>3. EntryAt(d)' = (seenIdx + ((n - 1 - d) + 1)) % n
      BY <1>1, <2>1, <2>2, WrapNext
    <2>4. (n - 1 - d) + 1 = n - d /\ n - d \in 0 .. n BY <1>1
    <2>5. EntryAt(d)' = (seenIdx + (n - d)) % n BY <2>3, <2>4
    <2>6. CASE d = 0
      <3>1. (seenIdx + n) % n = seenIdx + n - n
        <4>1. n \in 0 .. n /\ seenIdx + n >= n BY <1>1
        <4> QED BY <1>1, <4>1, Wrap
      <3>2. EntryAt(d)' = seenIdx BY <1>1, <2>5, <2>6, <3>1
      <3>3. seen'[seenIdx] = k BY <1>1, <1>2
      <3> QED BY <1>1, <1>5, <2>6, <3>2, <3>3
    <2>7. CASE d # 0
      <3>1. d - 1 \in 0 .. n - 1 /\ d - 1 < L /\ n - d \in 0 .. n - 1
        BY <1>1, <2>7
      <3>2. n - 1 - (d - 1) = n - d BY <1>1
      <3>3. EntryAt(d - 1) = EntryAt(d)' BY <2>5, <3>2 DEF EntryAt
      <3>4. seen[EntryAt(d - 1)] = recorded[L - (d - 1)]
        BY <3>1 DEF RemembersLast
      <3>5. EntryAt(d)' \in 0 .. n - 1 BY <1>1, <2>4, <2>5, Wrap
      <3>6. EntryAt(d)' # seenIdx
        <4>1. 0 \in 0 .. n - 1 /\ 0 \in 0 .. n BY <1>1
        <4>2. (seenIdx + 0) % n = seenIdx
          <5>1. seenIdx + 0 < n => (seenIdx + 0) % n = seenIdx + 0
            BY <1>1, <4>1, Wrap
          <5> QED BY <1>1, <5>1
        <4>3. n - d # 0 BY <1>1
        <4> QED BY <1>1, <2>5, <3>1, <4>1, <4>2, <4>3, WrapInjective
      <3>7. seen'[EntryAt(d)'] = seen[EntryAt(d)'] BY <1>1, <1>2, <3>5, <3>6
      <3>8. L - (d - 1) = L + 1 - d /\ L + 1 - d \in 1 .. L
        BY <1>1, <2>7, <3>1
      <3> QED BY <1>5, <3>3, <3>4, <3>7, <3>8
    <2> QED BY <2>6, <2>7
  <1>7. RemembersLast'
    BY <1>5, <1>6 DEF RemembersLast
  <1>8. ASSUME NEW i \in 1 .. L, recorded[i] = k
        PROVE  L + 1 - i > n
    <2>1. CASE L - i < n
      <3>1. L - i \in 0 .. n - 1 /\ L - i < L /\ L - (L - i) = i
        BY <1>1, <2>1
      <3>2. seen[EntryAt(L - i)] = recorded[i] BY <3>1 DEF RemembersLast
      <3>3. n - 1 - (L - i) \in 0 .. n BY <1>1, <3>1
      <3>4. EntryAt(L - i) \in 0 .. n - 1 BY <1>1, <3>3, Wrap DEF EntryAt
      <3> QED BY <1>8, <3>2, <3>4
    <2>2. CASE ~(L - i < n) BY <1>1, <2>2
    <2> QED BY <2>1, <2>2
  <1>9. SurfacesOncePerWindow'
    <2> SUFFICES ASSUME NEW i \in 1 .. L + 1, NEW j \in 1 .. L + 1,
                        i < j, recorded'[i] = recorded'[j]
                 PROVE  j - i > n
      BY <1>5 DEF SurfacesOncePerWindow
    <2>1. i \in 1 .. L BY <1>1
    <2>2. CASE j \in 1 .. L
      <3>1. recorded[i] = recorded[j] BY <1>5, <2>1, <2>2
      <3>2. i \in DOMAIN recorded /\ j \in DOMAIN recorded BY <1>1, <2>1, <2>2
      <3> QED BY <3>1, <3>2 DEF SurfacesOncePerWindow
    <2>3. CASE j = L + 1 BY <1>5, <1>8, <2>1, <2>3
    <2> QED BY <1>1, <2>2, <2>3
  <1> QED BY <1>4, <1>5, <1>7, <1>9

\* pushRx() appends or leaves the queue alone; either way it stays a FIFO.
LEMMA PushKeeps ==
  ASSUME RxTypeOK, RxFifo, NEW k \in Key, PushRx(k), polled' = polled
  PROVE  /\ rxq' \in Seq(Key) /\ Len(rxq') <= RXQ_N
         /\ pushed' \in Seq(Key)
         /\ RxFifo'
  <1>1. /\ RXQ_N \in Nat /\ rxq \in Seq(Key) /\ pushed \in Seq(Key)
        /\ polled \in Nat /\ Len(rxq) \in Nat /\ Len(rxq) <= RXQ_N
        /\ Len(pushed) = polled + Len(rxq)
        /\ \A i \in 1 .. Len(rxq) : rxq[i] = pushed[polled + i]
    BY RxPathAssumption DEF RxTypeOK, RxFifo
  <1>2. CASE RxqHasRoom
    <2>1. rxq' = Append(rxq, k) /\ pushed' = Append(pushed, k)
      BY <1>2 DEF PushRx
    <2>2. /\ Len(rxq') = Len(rxq) + 1 /\ Len(pushed') = Len(pushed) + 1
          /\ rxq' \in Seq(Key) /\ pushed' \in Seq(Key)
          /\ Len(rxq') <= RXQ_N
      BY <1>1, <1>2, <2>1 DEF RxqHasRoom
    <2>3. ASSUME NEW i \in 1 .. Len(rxq')
          PROVE  rxq'[i] = pushed'[polled + i]
      <3>1. CASE i = Len(rxq) + 1
        <4>1. polled + i = Len(pushed) + 1 BY <1>1, <3>1
        <4> QED BY <1>1, <2>1, <3>1, <4>1
      <3>2. CASE i # Len(rxq) + 1
        <4>1. i \in 1 .. Len(rxq) /\ polled + i \in 1 .. Len(pushed)
          BY <1>1, <2>2, <3>2
        <4> QED BY <1>1, <2>1, <4>1
      <3> QED BY <3>1, <3>2
    <2> QED BY <1>1, <2>2, <2>3 DEF RxFifo
  <1>3. CASE ~RxqHasRoom
    BY <1>1, <1>3 DEF PushRx, RxFifo
  <1> QED BY <1>2, <1>3

\* handleRxDone(): whatever frame the radio read, the receive side stays right.
LEMMA AcceptKeepsRx ==
  ASSUME RxInv, NEW f \in RxFrame, Accept(f)
  PROVE  RxInv'
  <1>1. KeyOf(f) \in Key BY DEF RxFrame, KeyOf, Key
  <1>2. CASE UNCHANGED rxVars
    BY <1>2 DEF RxInv, RxTypeOK, RemembersLast, EntryAt, SurfacesOncePerWindow,
                RxFifo, rxVars
  <1>3. CASE /\ ~IsDuplicate(f) /\ Record(KeyOf(f)) /\ PushRx(KeyOf(f))
             /\ UNCHANGED polled
    <2>1. \A i \in 0 .. SEEN_N - 1 : seen[i] # KeyOf(f)
      BY <1>3 DEF IsDuplicate
    <2>2. /\ seen' \in [0 .. SEEN_N - 1 -> Key \cup {NoKey}]
          /\ seenIdx' \in 0 .. SEEN_N - 1
          /\ recorded' \in Seq(Key)
          /\ RemembersLast' /\ SurfacesOncePerWindow'
      BY <1>1, <1>3, <2>1, RecordKeeps DEF RxInv
    <2>3. /\ rxq' \in Seq(Key) /\ Len(rxq') <= RXQ_N
          /\ pushed' \in Seq(Key)
          /\ RxFifo'
      BY <1>1, <1>3, PushKeeps DEF RxInv
    <2>4. polled' \in Nat
      BY <1>3 DEF RxInv, RxTypeOK
    <2> QED BY <2>2, <2>3, <2>4 DEF RxInv, RxTypeOK
  <1> QED BY <1>2, <1>3 DEF Accept

\* poll() takes the oldest packet.
LEMMA PopKeepsRx ==
  ASSUME RxInv, PopRx
  PROVE  RxInv'
  <1>1. /\ rxq \in Seq(Key) /\ rxq # <<>> /\ rxq' = Tail(rxq)
        /\ pushed \in Seq(Key) /\ pushed' = pushed
        /\ polled \in Nat /\ polled' = polled + 1
        /\ RXQ_N \in Nat /\ Len(rxq) <= RXQ_N
    BY RxPathAssumption DEF RxInv, RxTypeOK, PopRx
  <1>2. /\ Len(rxq) \in Nat /\ Len(rxq) > 0
        /\ rxq' \in Seq(Key) /\ Len(rxq') = Len(rxq) - 1
        /\ \A i \in 1 .. Len(rxq') : rxq'[i] = rxq[i + 1]
    BY <1>1
  <1>3. RxFifo'
    <2>1. /\ Len(pushed) = polled + Len(rxq)
          /\ \A i \in 1 .. Len(rxq) : rxq[i] = pushed[polled + i]
      BY DEF RxInv, RxFifo
    <2>2. Len(pushed') = polled' + Len(rxq') BY <1>1, <1>2, <2>1
    <2>3. ASSUME NEW i \in 1 .. Len(rxq')
          PROVE  rxq'[i] = pushed'[polled' + i]
      <3>1. i + 1 \in 1 .. Len(rxq) /\ polled' + i = polled + (i + 1)
        BY <1>1, <1>2
      <3> QED BY <1>1, <1>2, <2>1, <3>1
    <2> QED BY <2>2, <2>3 DEF RxFifo
  <1>4. RxTypeOK'
    BY <1>1, <1>2 DEF RxInv, RxTypeOK, PopRx
  <1>5. RemembersLast' /\ SurfacesOncePerWindow'
    BY DEF RxInv, PopRx, RemembersLast, EntryAt, SurfacesOncePerWindow
  <1> QED BY <1>3, <1>4, <1>5 DEF RxInv

\* Steps of the rest of the transport leave the receive side alone.
LEMMA StutterKeepsRx ==
  ASSUME RxInv, UNCHANGED rxVars
  PROVE  RxInv'
  BY DEF RxInv, RxTypeOK, RemembersLast, EntryAt, SurfacesOncePerWindow,
         RxFifo, rxVars
=============================================================================
