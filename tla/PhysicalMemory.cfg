SPECIFICATION Spec
CONSTANTS
  TotalFrames = 3
  WordBits = 2
  LowFrames = 1
  MaxCount = 2
  None = None
INVARIANTS CountersExact HeldIsMarked WordScanFindsFirstFree
PROPERTIES FailedMappingLeaksNothing IsFrameAllocator
