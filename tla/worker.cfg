SPECIFICATION FairSpec
CONSTANTS
  r1 = r1  r2 = r2  r3 = r3  r4 = r4
  None = None
  Requests = {r1, r2, r3, r4}
  MaxQueueSize = 2
INVARIANTS
  NoLostWakeup
  StoppedIsQuiet
  CountsAddUp
PROPERTIES
  ServesInOrder
  RequestIsTaken
  StopReturns
