SPECIFICATION Spec
CONSTANTS
  Auth = {a1, a2}
  Arn = {k1, k2}
  Call = {l1, l2}
  MaxWait = 3
  None = None
SYMMETRY Symmetry
INVARIANTS
  CacheIsTable
  ArnWasConfirmed
  OneSubscriber
  NoMailLost
PROPERTIES
  ConfirmedIsUnsubscribed
