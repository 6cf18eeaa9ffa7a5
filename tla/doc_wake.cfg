SPECIFICATION Spec
CONSTANTS
  self = self
  peer = peer
  other = other
  broadcast = broadcast
  Self = self
  Broadcast = broadcast
  Node <- MCNode
  Traffic <- MCOneFrame
  FailingOps <- MCNoFailures
  TXQ_N = 1
  MaxAttempts = 1
  RXQ_N = 1
  SEEN_N = 1
  MaxSends = 1
  MaxArrivals = 1
  MaxSleeps = 1
PROPERTY
  WakeRearms
