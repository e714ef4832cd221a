SPECIFICATION PagingSpec
CONSTANTS
  Virt <- Deep
  Frames = {101, 102}
  Flags <- Cached
  TableSize = 6
  MaxTables = 5
  Unmapped = Unmapped
INVARIANTS TranslationIsAsAsked CloneMapsTheSame
