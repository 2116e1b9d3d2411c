CONSTANTS
  t1 = t1
  t2 = t2
  t3 = t3
  soft = soft
  hard = hard
  Threads = {t1, t2, t3}
  Sems = {soft}
  Hard = {}
  TimedHard = FALSE
  MaxCount = 1
  Initial = Initial
  Idle = Idle
  PRIORITYLEVELS = 2
  TicksPerSlice = 1
  ClockSize = 8
  MaxSleep = 2
  Handler = "C40"
SPECIFICATION SemSpec
SYMMETRY SemSymmetry
PROPERTIES ImplementsCounting
INVARIANTS QueuesSound
