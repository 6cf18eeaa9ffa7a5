------------------------------ MODULE MCAirTime ------------------------------
(***************************************************************************)
(* A small clock for TLC: it wraps after 32 ticks, which neither bucket    *)
(* period divides (just as 2^32 is no multiple of 10 000 or 60 000).       *)
(***************************************************************************)
EXTENDS AirTime

CONSTANTS chan, tx

MCRing      == {chan, tx}
MCTxRings   == {tx}
MCBuckets   == [r \in Ring |-> IF r = chan THEN 3 ELSE 2]
MCBucketMs  == [r \in Ring |-> IF r = chan THEN 3 ELSE 5]
MCAirtime   == {2, 3}
=============================================================================
