SPECIFICATION FairSpec
CONSTANTS
  W = 3
  Sec = 2
  CalTicks = 2
  Scale = 1
  HpetFreq = 3
  Kinds = {"init", "sleep_ticks", "sleep_ns", "wait_until_ns", "wait_for_event", "busy_wait_cycles", "delay_us", "microsecond_delay", "precise_sleep_ns"}
  Args = {0, 2}
  Freqs = {4}
  Cycles = {6}
  MaxTicks = 3
  MaxResets = 1
INVARIANTS NoWaitEndsEarly NoDelayEndsEarly
PROPERTY DelaysEnd
CHECK_DEADLOCK FALSE
