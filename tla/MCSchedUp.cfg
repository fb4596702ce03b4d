CONSTANTS
  Cpus = {c1}
  Tasks = {1, 2, 3}
  Root = 1
  Idle = Idle
  NoTask = NoTask
  NoCpu = NoCpu
  Signalled = {}
SPECIFICATION FairSpec
INVARIANTS
  OneSide
  
PROPERTIES
  ReadyRuns
  NoLostWakeup
