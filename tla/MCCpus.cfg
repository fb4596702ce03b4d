CONSTANTS
  NumCpus = 2
  KernelPages = {k1}
  UserVms = {v1}
  KernelVm = KernelVm
  Identity = Identity
  Null = Null
  MaxModified = 2
  Halters = {0, 1}
  Producers = {p1, p2, p3}
  Consumers = {c1}
  Capacity = 2
  Modulus = 4
  MaxTickets = 5
SPECIFICATION MCSpec
PROPERTY
  CpusFinish
CHECK_DEADLOCK FALSE
