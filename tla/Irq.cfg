SPECIFICATION Spec
CONSTANTS
  Lines = {1, 8, 12}
  Registered = {8, 12}
  MaxRaises = 1
  MaxSaves = 2
INVARIANT SavedFlagsNest
PROPERTIES EoiEndsOwnService MasksChangeOnRequest RequestIsTaken
