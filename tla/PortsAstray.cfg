CONSTANTS
  t1 = t1
  t2 = t2
  t3 = t3
  p1 = p1
  p2 = p2
  Threads = {t1, t2}
  PortIndex = {p1, p2}
  LastCycle = 2
  MultiPorts = 2
  MultiTimeouts = {"finite"}
  Clock = Clock
  None = None
SPECIFICATION Spec
INVARIANTS NeverAstray
