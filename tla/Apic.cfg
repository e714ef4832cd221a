SPECIFICATION ApicSpec
CONSTANTS
  MaxRedir = 1
  Irqs = {0, 1, 2}
  Self = 1
  Ops = {"setup_irq", "route_irq_to_cpu", "mask_irq", "unmask_irq", "set_irq_mask", "trigger", "remote_irr", "polarity", "destination", "delivery", "shorthand"}
  MaxOps = 2
INVARIANT EntriesAsAsked
CHECK_DEADLOCK FALSE
