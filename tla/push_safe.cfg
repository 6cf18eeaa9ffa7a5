SPECIFICATION SafeSpec
CONSTANTS
  v1 = v1
  v2 = v2
  None = None
  Version <- MCTwo
  Count <- MCTwoChunks
  Duplicates = TRUE
  LossesCounted = 0
  Prompt = FALSE
  GatewayFails = TRUE
  MayGiveUp = TRUE
  MaxPushes = 1
  MaxPublishes = 1
  DownCap = 1
  UpCap = 2
  MaxStale = 1
  MaxUnanswered = 1
  RepairIdsMax = 1
CHECK_DEADLOCK FALSE
INVARIANTS
  TypeOK
  NeverABlend
  ReleasedWasHeld
