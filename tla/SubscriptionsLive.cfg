SPECIFICATION FairSpec
CONSTANTS
  Auth = {a1,a2}
  Arn = {k1,k2}
  Call = {l1}
  MaxWait = 1
  None = None
PROPERTIES
  ConfirmedAutomatically
