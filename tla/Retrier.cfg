SPECIFICATION Spec
CONSTANTS
  Last = 1
  Via = {"endpoint", "interim"}
  Endpoint = {e1, e2}
  Run = {r1, r2}
  Batch = 1
  Rounds = 2
  None = None
SYMMETRY Symmetry
INVARIANTS
  NothingLost
