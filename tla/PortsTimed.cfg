CONSTANTS
  t1 = t1
  t2 = t2
  t3 = t3
  p1 = p1
  p2 = p2
  Threads = {t1, t2, t3}
  PortIndex = {p1}
  LastCycle = 2
  MultiPorts = 1
  MultiTimeouts = {"poll", "finite", "forever"}
  Clock = Clock
  None = None
SPECIFICATION FairSpec
PROPERTIES TimedCallsEnd
