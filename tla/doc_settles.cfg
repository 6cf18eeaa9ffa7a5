SPECIFICATION Spec
CONSTANTS
  v1 = v1
  v2 = v2
  None = None
  Version <- MCOne
  Count <- MCTwoChunks
  Duplicates = FALSE
  LossesCounted = 0
  Prompt = TRUE
  GatewayFails = FALSE
  MayGiveUp = FALSE
  MaxPushes = 1
  MaxPublishes = 0
  DownCap = 1
  UpCap = 2
  MaxStale = 3
  MaxUnanswered = 3
  RepairIdsMax = 2
CHECK_DEADLOCK FALSE
PROPERTY
  ReceiverSettles
