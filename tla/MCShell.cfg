CONSTANTS
  BufSize = 4
  KeySet <- MCKeySet
  Directory <- MCDirectory
  PathDirectories <- MCPath
  MaxHistory = 2
  MaxEntered = 1
  MaxParams = 1
  MAX_ARGC = 3
  Characters = {"w", "2", " ", ">", "|", "&", ";"}
  MaxLine = 5
  Memories = {2, 9}
  BUF_SIZE = 6
  Scripts <- MCScripts
  Lines <- MCLines
  Pids = {1, 2, 3, 4, 5, 6}
  Shell = 1
  PipeIds = {1, 2}
  Capacity = 1
  MaxFd = 6
SPECIFICATION MCSpec

  
  
PROPERTY
  PromptReturns
CHECK_DEADLOCK FALSE
