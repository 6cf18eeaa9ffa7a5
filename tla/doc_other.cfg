SPECIFICATION SafeSpec
CONSTANTS
  v1 = v1
  v2 = v2
  v3 = v3
  None = None
  Image <- MCThree
  Pid <- MCTwoPids
  Count <- MCTwoShapes
  Asked = {1, 2}
  Batch = 2
  MaxIdle = 2
  Prompt = FALSE
  MaxFetches = 2
  MaxCrashes = 0
  MaxPublishes = 1
  MaxHitches = 0
  LossesCounted = 0
  UpCap = 2
  MaxDrops = 0
  MayStop = FALSE
CHECK_DEADLOCK FALSE
INVARIANT
  FetchedWasAsked
