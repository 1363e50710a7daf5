SPECIFICATION FairSpec
CONSTANTS
  Last = 2
  Via = {"interim"}
  Endpoint = {e1}
  Run = {r1}
  Batch = 1
  Rounds = 2
  None = None
PROPERTIES
  EventuallyTaken
