SPECIFICATION Spec
CONSTANTS
  chan = chan
  tx = tx
  CLOCK = 32
  Ring <- MCRing
  TxRings <- MCTxRings
  BUCKETS <- MCBuckets
  BUCKET_MS <- MCBucketMs
  Airtime <- MCAirtime
  MaxQuiet = 26
INVARIANTS
  TypeOK
  
PROPERTY
  LogIsExact
