CONSTANTS
  t1 = t1
  t2 = t2
  Threads = {t1, t2}
  Initial = Initial
  Idle = Idle
  PRIORITYLEVELS = 2
  TicksPerSlice = 1
  ClockSize = 8
  MaxSleep = 2
  Handler = "ARM"
  t3 = t3
SPECIFICATION Spec
SYMMETRY Symmetry
PROPERTIES NeverEarly
