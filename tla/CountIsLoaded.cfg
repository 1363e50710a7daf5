SPECIFICATION Spec
CONSTANTS
  MaxRow = 1
  t1 = t1
  t2 = t2
  o1 = o1
  o2 = o2
  b1 = b1
  b2 = b2
  Topic = {t1}
  Object = {o1, o2}
  Bucket = {b1}
  BucketOf <- Together
  Message <- One
  Worker = {w1}
  Batch = 1
  Threshold = 1
  None = None
INVARIANTS
  CountIsLoaded
