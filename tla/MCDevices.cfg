CONSTANTS
  VirtualTtys = {1, 2}
  SerialTtys = {3}
  TtyReaders = {r1, r2}
  LineSize = 4
  RingSize = 4
  QUEUE_SIZE = 2
  Scancodes <- MCScancodes
  SerialChars = {"x", "hi", "cr", "kill", "erase", "eol", "eof"}
  Modes <- MCModes
  LiveGroups = {7}
  MaxTyped = 3
  MaxEvents = 3
  MaxReads <- MCMaxReads
  ReadSizes <- MCReadSizes
  r1 = r1
  r2 = r2
  MaxIoctls = 1
  Vts = {1, 2}
  NumColumns = 2
  NumRows = 2
  TAB_STOP = 2
  Outputs <- MCOutputs
  Background = FALSE
  MaxOutputs = 3
  Tasks = {t1, t2}
  NoTask = NoTask
  Size = 4
  Modulus = 4
  Capacity = 1
  MaxRequests = 5
  Pages = 2
  Entries = 4
  MaxBuffers = 6
  Fds = {1, 2, 3}
  Closed = {3}
  Readiness <- MCReadiness
  PollSets <- MCPollSets
  SelectSets <- MCSelectSets
  Timeouts <- MCTimeouts
  Settings <- MCSettings
  NANOS = 4
  CLK_TCK = 2
  MaxUptime = 5
  MaxCalls = 1
SPECIFICATION MCSpec
INVARIANTS
  
  DiskRequestsExact
  SoundInOrder
  WaitsExact
PROPERTY
  SleepersWake
CHECK_DEADLOCK FALSE
