CONSTANTS
  t1 = t1
  t2 = t2
  t3 = t3
  soft = soft
  hard = hard
  Threads = {t1, t2}
  Sems = {soft, hard}
  Hard = {hard}
  TimedHard = FALSE
  MaxCount = 1
  Initial = Initial
  Idle = Idle
  PRIORITYLEVELS = 2
  TicksPerSlice = 1
  ClockSize = 4
  MaxSleep = 2
  Handler = "C40"
SPECIFICATION SemFairSpec
INVARIANTS SemTypeOK IdLive CountTrue
PROPERTIES ImplementsExecutive TimedWaitEnds
