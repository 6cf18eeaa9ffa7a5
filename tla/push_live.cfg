SPECIFICATION Spec
CONSTANTS
  v1 = v1
  v2 = v2
  None = None
  Version <- MCOne
  Count <- MCTwoChunks
  Duplicates = FALSE
  LossesCounted = 5
  Prompt = TRUE
  GatewayFails = FALSE
  MayGiveUp = FALSE
  MaxPushes = 1
  MaxPublishes = 1
  DownCap = 1
  UpCap = 2
  MaxStale = 4
  MaxUnanswered = 4
  RepairIdsMax = 1
CHECK_DEADLOCK FALSE
INVARIANT
  ToleratesLoss
PROPERTIES
  KnownShapeSettles
  PushDelivers
