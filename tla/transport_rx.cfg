SPECIFICATION SafeSpec
CONSTANTS
  self = self
  peer = peer
  other = other
  broadcast = broadcast
  Self = self
  Broadcast = broadcast
  Node <- MCNode
  Traffic <- MCMixedTraffic
  FailingOps <- MCTxFailures
  TXQ_N = 1
  MaxAttempts = 1
  RXQ_N = 2
  SEEN_N = 2
  MaxSends = 1
  MaxArrivals = 4
  MaxSleeps = 1
INVARIANTS
  
  SurfacesOncePerWindow
  
  ReceptionIsFlagged
  ListensWhenIdle
