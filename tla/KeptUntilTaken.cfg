SPECIFICATION Spec
CONSTANTS
  Last = 2
  Via = {"endpoint", "interim"}
  Endpoint = {e1}
  Run = {r1}
  Batch = 1
  Rounds = 2
  None = None
INVARIANTS
  KeptUntilTaken
