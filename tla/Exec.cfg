CONSTANTS
  t1 = t1
  t2 = t2
  Threads = {t1, t2}
  Initial = Initial
  Idle = Idle
  PRIORITYLEVELS = 3
  TicksPerSlice = 1
  ClockSize = 10
  MaxSleep = 3
  Handler = "C40"
  t3 = t3
SPECIFICATION FairSpec
INVARIANTS TypeOK HintSound QueuesSound LatenessBounded
PROPERTIES RunsHighest SleepersWake NeverEarly
