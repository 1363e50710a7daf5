SPECIFICATION FairSpec
CONSTANTS
  Message = {m1, m2}
  Rowid = {r1, r2}
  Handler = {h1}
  Proc = {p1}
  Editor = {}
  QSize = 1
  Loop = Loop
  None = None
PROPERTIES
  EveryRowAttempted
  CancelStops
