SPECIFICATION Spec
CONSTANTS
  v1 = v1
  v2 = v2
  v3 = v3
  None = None
  Image <- MCThree
  Pid <- MCTwoPids
  Count <- MCTwoShapes
  Asked = {1}
  Batch = 1
  MaxIdle = 2
  Prompt = TRUE
  MaxFetches = 3
  MaxCrashes = 2
  MaxPublishes = 1
  MaxHitches = 1
  LossesCounted = 2
  UpCap = 2
  MaxDrops = 1
  MayStop = TRUE
CHECK_DEADLOCK FALSE
INVARIANTS
  TypeOK
  FetchedIsWhole
  SoundAfterOneCrash
  SavedIsNotPulledAgain
  ToleratesLoss
  StopIsFinal
PROPERTIES
  ProgressIsKept
  
  FetchDelivers
  Reconnects
