CONSTANTS
  Procs = {1, 2}
  Inodes = {1, 2, 3, 4, 5, 6, 7}
  Root = 1
  NoInode = 0
  Calls <- MCCalls
  SYMLOOP_MAX = 1
  InitialTree <- MCTree
  FirstTask = t1
  SecondTask = t2
  OpenFiles = {f1, f2}
  NoFile = NoFile
  OPEN_MAX = 3
  PageSize = 2
  MaxCapacity = 6
  FileCalls <- MCFileCalls
  Names = {"a", "b", "c", "d", "long"}
  rec_len <- MCRecLen
  FirstCapacity = 3
  InitialNames <- MCInitialNames
  MaxListChanges = 3
  Top = 16
  KERNEL = 12
  CopyPage = 4
  Bytes = {0, 1}
  Memories <- MCMemories
  Sent = 2
  Stale = 9
  Ranges <- MCRanges
  MaxCopyChanges = 2
SPECIFICATION MCSpec
INVARIANTS
  
  
  ContentExact
  ListsOnce
  CopiesWhole
PROPERTIES
  CallsReturn
CHECK_DEADLOCK FALSE
