----------------------------- MODULE RingLemmas -----------------------------
(***************************************************************************)
(* Arithmetic of the fixed-size rings of MeshtasticTransport (_txq, _seen):*)
(* an index moves on modulo the size and wraps at most once.               *)
(***************************************************************************)
EXTENDS Integers, TLAPS

\* Slots are computed modulo the size of the ring: going k places on from slot
\* h wraps around at most once.
LEMMA Wrap ==
  ASSUME NEW n \in Nat \ {0}, NEW h \in 0 .. n - 1, NEW k \in 0 .. n
  PROVE  /\ h + k < n => (h + k) % n = h + k
         /\ h + k >= n => (h + k) % n = h + k - n
         /\ (h + k) % n \in 0 .. n - 1
  OBVIOUS

\* Going on from one slot by different distances leads to different slots.
LEMMA WrapInjective ==
  ASSUME NEW n \in Nat \ {0}, NEW h \in 0 .. n - 1,
         NEW j \in 0 .. n - 1, NEW k \in 0 .. n - 1,
         (h + j) % n = (h + k) % n
  PROVE  j = k
  <1>1. j \in 0 .. n /\ k \in 0 .. n OBVIOUS
  <1>2. /\ h + j < n => (h + j) % n = h + j
        /\ h + j >= n => (h + j) % n = h + j - n
    BY <1>1, Wrap
  <1>3. /\ h + k < n => (h + k) % n = h + k
        /\ h + k >= n => (h + k) % n = h + k - n
    BY <1>1, Wrap
  <1> QED BY <1>2, <1>3

\* Advancing the start by one and then k places is going on by k + 1.
LEMMA WrapNext ==
  ASSUME NEW n \in Nat \ {0}, NEW h \in 0 .. n - 1, NEW k \in 0 .. n - 1
  PROVE  (((h + 1) % n) + k) % n = (h + (k + 1)) % n
  <1> DEFINE g == (h + 1) % n
  <1>1. 1 \in 0 .. n /\ k \in 0 .. n /\ k + 1 \in 0 .. n OBVIOUS
  <1>2. /\ h + 1 < n => g = h + 1
        /\ h + 1 >= n => g = h + 1 - n
        /\ g \in 0 .. n - 1
    BY <1>1, Wrap
  <1>3. /\ h + (k + 1) < n => (h + (k + 1)) % n = h + (k + 1)
        /\ h + (k + 1) >= n => (h + (k + 1)) % n = h + (k + 1) - n
    BY <1>1, Wrap
  <1> HIDE DEF g
  <1>4. /\ g + k < n => (g + k) % n = g + k
        /\ g + k >= n => (g + k) % n = g + k - n
    BY <1>1, <1>2, Wrap
  <1>5. (g + k) % n = (h + (k + 1)) % n BY <1>2, <1>3, <1>4
  <1> QED BY <1>5 DEF g
=============================================================================
