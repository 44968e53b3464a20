SPECIFICATION Spec

CONSTANTS
  NULL = NULL
  c1 = c1
  c2 = c2
  a1 = a1
  a2 = a2
  MaxFiles = 1
  Capacity = 1
  Client = {c1}
  Addr = {a1}
  MaxReq = 3
  Size = 3
  PipeCap = 2
  Cmds = {"OPEN", "SEND_OPEN"}
  Troubles = {}

PROPERTIES
  NamedTransferOnly

\* An idle server with no request on its way waits for ever.
CHECK_DEADLOCK FALSE
