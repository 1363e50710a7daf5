SPECIFICATION Spec
CONSTANTS
  Caller = {c1, c2}
  Object = {o1, o2, o3}
  Sub = {s1}
  MaxRef = 3
  None = None
INVARIANTS
  LastAccessorDeletes
