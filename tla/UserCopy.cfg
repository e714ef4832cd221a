SPECIFICATION Spec
CONSTANTS
  W = 4
  Base = 2
  End = 6
  PageSize = 2
  MaxString = 3
  WordSize = 2
  MaxTransfer = 3
  Kinds = {"from", "to", "iovec_from", "iovec_to", "string_to", "u64_from", "u64_to", "array_from", "array_to", "page_from", "page_to", "vmm_from", "vmm_to", "read", "write", "read_other", "write_other", "string", "length", "limit", "vmm_string"}
  Pointers = {0, 1, 2, 3, 5, 6}
  Lengths = {0, 1, 2, 3, 4, 6, 13}
INVARIANTS OnlyProcessTouched AllOrNothing StringsAreWellFormed
