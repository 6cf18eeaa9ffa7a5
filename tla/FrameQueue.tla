----------------------------- MODULE FrameQueue -----------------------------
(***************************************************************************)
(* What the outbound side of MeshtasticTransport promises its caller, with *)
(* no ring, no radio and no state machine in sight.  send() accepts a      *)
(* frame or refuses it; every accepted frame waits its turn and then       *)
(* leaves exactly once, either transmitted or counted as dropped.          *)
(***************************************************************************)
EXTENDS Naturals, Sequences

CONSTANT Capacity        \* frames the queue can hold
CONSTANT PacketId        \* identities a frame can carry

VARIABLES
  queue,                 \* frames accepted and still owed, oldest first
  sent,                  \* how many left the antenna
  dropped                \* how many were abandoned

vars == <<queue, sent, dropped>>

Init == queue = <<>> /\ sent = 0 /\ dropped = 0

\* send() or resend() returned true.
Accept == /\ Len(queue) < Capacity
          /\ \E id \in PacketId : queue' = Append(queue, id)
          /\ UNCHANGED <<sent, dropped>>

\* The oldest frame leaves, one way or the other.
Leave == /\ queue # <<>>
         /\ queue' = Tail(queue)
         /\ \/ sent' = sent + 1 /\ UNCHANGED dropped
            \/ dropped' = dropped + 1 /\ UNCHANGED sent

Next == Accept \/ Leave

\* Safety alone, and with the promise that what was accepted does leave.
SafeSpec == Init /\ [][Next]_vars
Spec == SafeSpec /\ WF_vars(Leave)
=============================================================================
