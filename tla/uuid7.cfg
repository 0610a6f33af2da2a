CONSTANTS
  Threads = {"t1", "t2"}
  CounterMax = 2
  ClockMax = 2
SPECIFICATION Spec
CHECK_DEADLOCK FALSE
INVARIANTS
  IdsIncrease
