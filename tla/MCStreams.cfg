CONSTANTS
  Capacity = 3
  Clients = {c1}
  Servers = {s1, s2}
  Forked = {s2}
  Nobody = Nobody
  Backlogs = {2}
  Readers = {r1, r2}
  Writers = {w1, w2}
  NonBlocking = {r2, "accepted"}
  MaxCount = 2
  MaxCalls = 1
SPECIFICATION MCSpec
INVARIANT
  SocketsExact
PROPERTIES
  ImplementsStream
  HangupsSeen
CHECK_DEADLOCK FALSE
