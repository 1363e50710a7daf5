SPECIFICATION Spec
CONSTANTS
  Auth = {a1, a2}
  Arn = {k1, k2}
  Call = {l1, l2}
  MaxWait = 2
  None = None
SYMMETRY Symmetry
INVARIANTS
  RecreateWorks
