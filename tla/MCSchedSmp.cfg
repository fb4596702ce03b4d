CONSTANTS
  Cpus = {c1, c2}
  Tasks = {1, 2}
  Root = 1
  Idle = Idle
  NoTask = NoTask
  NoCpu = NoCpu
  Signalled = {1, 2}
SPECIFICATION Spec
INVARIANTS
  RefCountExact
  InterruptedHasSignal
