CONSTANTS
  Tasks = {t1, t2, t3}
  NoTask = NoTask
  MaxLevel = 3
  SpinCpus = {c1, c2}
  Locks = {1, 2}
  NoCpu = NoCpu
  MaxDepth = 4
  NumCpus = 3
  KernelPages = {k1}
  UserVms = {v1}
  KernelVm = KernelVm
  Identity = Identity
  Null = Null
  MaxModified = 2
  Halters = {}
  Producers = {p1, p2, p3}
  Consumers = {c3}
  Capacity = 2
  Modulus = 4
  MaxTickets = 5
SPECIFICATION MCSpec
INVARIANTS
  MutualExclusion
  UnlockAssertions
  HeldWhileOwned
  SpinlocksSafe
  
  QueueExact
CHECK_DEADLOCK FALSE
