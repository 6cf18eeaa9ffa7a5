SPECIFICATION SafeSpec
CONSTANTS
  v1 = v1
  v2 = v2
  v3 = v3
  None = None
  Image <- MCOne
  Pid <- MCOnePid
  Count <- MCThreeChunks
  Asked = {1}
  Batch = 1
  MaxIdle = 2
  Prompt = FALSE
  MaxFetches = 2
  MaxCrashes = 0
  MaxPublishes = 0
  MaxHitches = 0
  LossesCounted = 0
  UpCap = 2
  MaxDrops = 0
  MayStop = FALSE
CHECK_DEADLOCK FALSE
INVARIANT
  PartialIsSound
