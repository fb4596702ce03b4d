CONSTANTS
  Tids = {1, 2, 3, 4}
  NoTid = NoTid
  Tasks = {1}
  Term = {9, 10}
  Ign = {17}
  Cont = {18}
  Stop = {20}
  Unblockable = {9}
  Actions <- MCActions
  Masks = {{9, 10}}
  SuspendMasks = {{}, {10}}
  MaxSent = 2
  MaxCalls = 2
  ArgLists <- MCArgLists
  StackSizes = {64, 80, 112}
  Base = 64
  W = 4
  NumRandom = 2
  Threads = {1, 2}
SPECIFICATION MCSpec
INVARIANTS
  RefCountsExact
  FamiliesExact
  
  ExecExact
  HandedOver
PROPERTY
  TasksReact
CHECK_DEADLOCK FALSE
