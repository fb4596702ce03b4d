CONSTANTS
  NumPages = 5
  Reserved = {0}
  MaxRef = 3
  Vms = {v1, v2}
  InitVm = v1
  NumTables = 2
  NumEntries = 2
  Destroys = {v2}
  MaxOps = 4
SPECIFICATION Spec
INVARIANT UnrefAssertion
CHECK_DEADLOCK FALSE
