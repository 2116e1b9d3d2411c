CONSTANTS
  t1 = t1
  t2 = t2
  t3 = t3
  soft = soft
  hard = hard
  Threads = {t1, t2}
  Sems = {hard}
  Hard = {hard}
  TimedHard = TRUE
  MaxCount = 1
  Initial = Initial
  Idle = Idle
  PRIORITYLEVELS = 2
  TicksPerSlice = 1
  ClockSize = 4
  MaxSleep = 2
  Handler = "C40"
SPECIFICATION SemSpec
SYMMETRY SemSymmetry
INVARIANTS NoIdleUnits
