SPECIFICATION Spec
CONSTANTS
  Spaces = {s1, s2}
  First = s1
  UserPages = 2
  TableSize = 2
  NFrames = 10
  MaxPages = 2
  MaxCalls = 4
  Prots <- ReadOnly
  None = None
INVARIANTS PageCountCovers SpacesAreIsolated
PROPERTY FaultsKeepOtherPages
CHECK_DEADLOCK FALSE
