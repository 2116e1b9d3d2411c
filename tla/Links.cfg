CONSTANTS
  s1 = s1
  w1 = w1
  w2 = w2
  m = m
  Programs = {s1}
  Manager = m
  Workers = {w1, w2}
  Guardian = Guardian
  None = None
SPECIFICATION FairSpec
INVARIANTS TypeOK IdLive FlowObeyed WakersFindIt
PROPERTIES LockSpec SeatKept OnlyGuardianDrops StopIsOwned TimedSendsEnd HolderLeaves
CHECK_DEADLOCK FALSE
