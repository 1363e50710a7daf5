SPECIFICATION Spec
CONSTANTS
  Auth = {a1, a2, a3}
  Arn = {k1, k2, k3}
  Call = {l1, l2}
  MaxWait = 1
  None = None
SYMMETRY Symmetry
INVARIANTS
  UniqueSubscriber
