SPECIFICATION Spec
CONSTANTS
  Message = {m1, m2}
  Rowid = {r1, r2}
  Handler = {h1, h2}
  Proc = {p1}
  Editor = {e1}
  QSize = 1
  Loop = Loop
  None = None
INVARIANT
  ConnectionsFinished
