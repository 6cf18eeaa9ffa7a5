--------------------------- MODULE MCCommandQueue ---------------------------
(***************************************************************************)
(* Instances of CommandQueue for TLC: a ping, which may be retried once, a *)
(* reboot, which may not, and a pull, which expects no text reply and      *)
(* stands behind the others.                                               *)
(***************************************************************************)
EXTENDS CommandQueue

CONSTANTS ping, reboot, pull

MCCmd     == {ping, reboot, pull}
MCPrio    == [c \in Cmd |-> IF c = pull THEN -1 ELSE 0]
MCRetries == [c \in Cmd |-> IF c = ping THEN 1 ELSE 0]
MCNoReply == {pull} \cap Cmd
=============================================================================
