SPECIFICATION Spec
CONSTANTS
  self = self
  peer = peer
  other = other
  broadcast = broadcast
  Self = self
  Broadcast = broadcast
  Node <- MCNode
  Traffic <- MCOneFrame
  FailingOps <- MCAnyFailure
  TXQ_N = 2
  MaxAttempts = 1
  RXQ_N = 1
  SEEN_N = 1
  MaxSends = 3
  MaxArrivals = 0
  MaxSleeps = 1
INVARIANTS
  TypeOK
  NothingLostInRing
  DropsAreCounted
  StreakIsTrailingFailures
  SentWasAired
  AiredInOrder
  
PROPERTY
  OutboundSpec
