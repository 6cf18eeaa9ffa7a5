--------------------------- MODULE MCPushTransfer ---------------------------
(***************************************************************************)
(* Instances of PushTransfer for TLC: payloads of two chunks, and a second *)
(* one under the same id where the run has use for it.                     *)
(***************************************************************************)
EXTENDS PushTransfer

CONSTANTS v1, v2

MCOne == {v1}
MCTwo == {v1, v2}
MCTwoChunks == [v \in Version |-> 2]
=============================================================================
