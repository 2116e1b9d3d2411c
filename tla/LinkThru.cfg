CONSTANTS
  g1 = g1
  g2 = g2
  Sources = {g1, g2}
  Process = Process
  Local = Local
  Short = {0, 2}
  Long = {5, 6}
  None = None
SPECIFICATION FairSpec
INVARIANTS TypeOK AtHome
PROPERTIES RelaySpec OneAtATime TransferEnds
CHECK_DEADLOCK FALSE
