SPECIFICATION Spec
CONSTANTS
  MAX_TASKS = 2
  MaxTaskId = 1
  Quanta = {1}
  Priorities = {5}
  Durations = {1}
  MaxTime = 1
  NewQuantum = 1
  None = None
INVARIANTS TypeOK IdsNeverCollide TaskCountExact HaltOnlyWhenNothingReady
PROPERTIES SwitchTargetWasReady PolicyPicksBest
CHECK_DEADLOCK FALSE
