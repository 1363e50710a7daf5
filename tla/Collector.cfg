SPECIFICATION FairSpec
CONSTANTS
  MaxRow = 2
  t1 = t1
  t2 = t2
  o1 = o1
  o2 = o2
  b1 = b1
  b2 = b2
  Topic = {t1, t2}
  Object = {o1, o2}
  Bucket = {b1}
  BucketOf <- Together
  Message <- Shared
  Worker = {w1}
  Batch = 2
  Threshold = 1
  None = None
INVARIANTS
  TombsCounted
  BatchIsGarbage
  UndeliveredMailKept
PROPERTIES
  GarbageIsCollected
