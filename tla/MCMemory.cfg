CONSTANTS
  NumPages = 5
  Reserved = {0}
  MaxRef = 3
  Vms = {v1, v2}
  InitVm = v1
  NumTables = 2
  NumEntries = 2
  Destroys = {v2}
  MaxOps = 3
  NumAddrs = 5
  VmPages = 3
  Flags = {"none", "ro", "rw"}
  MaxSize = 4
  MaxCalls = 4
SPECIFICATION MCSpec
INVARIANTS
  FramesExact
  RegionsExact
PROPERTIES
  MappingsExact
  ImplementsAddressSpace
CHECK_DEADLOCK FALSE
