SPECIFICATION FairSpec
CONSTANTS
  Caller = {c1, c2, c3}
  Object = {o1, o2, o3, o4}
  Sub = {s1, s2}
  MaxRef = 4
  None = None
INVARIANTS
  EntryIsCurrent
  MutualExclusion
PROPERTIES
  Refinement
  EveryCallerServed
