SPECIFICATION FairSpec

CONSTANTS
  NULL = NULL
  c1 = c1
  c2 = c2
  a1 = a1
  a2 = a2
  MaxFiles = 2
  Capacity = 2
  Client = {c1}
  Addr = {a1, a2}
  MaxReq = 2
  Size = 3
  PipeCap = 2
  Cmds = {"OPEN", "READ", "SEND", "SEND_OPEN"}
  Troubles = {"io"}

INVARIANTS
  ToldBeforeClose

PROPERTIES
  EventuallyReleased
  EventuallyAnswered
  EventuallyDelivered

\* An idle server with no request on its way waits for ever.
CHECK_DEADLOCK FALSE
