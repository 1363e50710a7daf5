SPECIFICATION FairSpec
CONSTANTS
  Message = {m1}
  Rowid = {r1}
  Handler = {h1}
  Proc = {p1}
  Editor = {e1, e2}
  QSize = 1
  Loop = Loop
  None = None
PROPERTIES
  EveryRowAttempted
  CancelStops
