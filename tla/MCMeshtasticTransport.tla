----------------------- MODULE MCMeshtasticTransport ------------------------
(***************************************************************************)
(* Instances of MeshtasticTransport for TLC: a ring of two slots, one peer *)
(* and a third node, and a handful of frames on the air.                   *)
(***************************************************************************)
EXTENDS MeshtasticTransport

CONSTANTS self, peer, other, broadcast

MCNode == {self, peer, other}

MCHeard(id) == [from |-> peer, id |-> id, to |-> self, ok |-> TRUE]

\* One good frame, or none: enough to put RX_DONE in anyone's way.
MCOneFrame == {MCHeard(1)}

\* Every way through the filters: three good packets, one of them broadcast
\* by another node under an id the peer uses too, our own frame relayed back,
\* a frame for somebody else, and noise.
MCMixedTraffic ==
  {MCHeard(1), MCHeard(2),
   [from |-> other, id |-> 1, to |-> broadcast, ok |-> TRUE],
   [from |-> self, id |-> 2, to |-> broadcast, ok |-> TRUE],
   [from |-> peer, id |-> 3, to |-> other, ok |-> TRUE],
   [from |-> peer, id |-> 4, to |-> self, ok |-> FALSE]}

MCNoFailures == {}
MCAnyFailure == FailingOp

\* The transmit side may fail; interrupts arrive and the radio listens when
\* it is told to.
MCTxFailures == {"startTransmit", "startChannelScan"}
=============================================================================
