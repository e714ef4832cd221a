SPECIFICATION Spec
CONSTANTS
  Process = {p1, p2}
  PAGE_SIZE = 2
  total_pages = 3
  heap_start = 0
  max_heap = 4
  map_start = 4
  map_end = 8
  Breaks = {0, 2, 3, 4}
  Lengths = {3}
  FixedAddrs = {2}
  LastAddr = 8
  None = None
SYMMETRY ProcessSymmetry
INVARIANTS FramesHaveOneOwner HeapIsMapped
CHECK_DEADLOCK FALSE
