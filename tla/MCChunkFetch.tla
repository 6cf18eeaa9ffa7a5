---------------------------- MODULE MCChunkFetch ----------------------------
(***************************************************************************)
(* Instances of ChunkFetch for TLC.                                        *)
(***************************************************************************)
EXTENDS ChunkFetch

CONSTANTS v1, v2, v3

\* One image of three chunks.
MCOne == {v1}
MCOnePid == [v \in Image |-> 1]
MCThreeChunks == [v \in Image |-> 3]

\* Two shapes under one id, and a third image of another id.
MCThree == {v1, v2, v3}
MCTwoPids == [v \in Image |-> IF v = v3 THEN 2 ELSE 1]
MCTwoShapes == [v \in Image |-> IF v = v1 THEN 2 ELSE 1]
=============================================================================
