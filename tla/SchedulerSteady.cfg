SPECIFICATION TurnsSpec
CONSTANTS
  MAX_TASKS = 3
  MaxTaskId = 3
  Quanta = {}
  Priorities = {}
  Durations = {}
  MaxTime = 0
  NewQuantum = 1
  None = None
INVARIANT RunningIsCurrent
PROPERTY NobodyOvertakesTwice
CHECK_DEADLOCK FALSE
