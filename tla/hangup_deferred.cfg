SPECIFICATION Spec

CONSTANTS
  NULL = NULL
  c1 = c1
  c2 = c2
  a1 = a1
  a2 = a2
  MaxFiles = 2
  Capacity = 2
  Client = {c1}
  Addr = {a1, a2}
  MaxReq = 2
  Size = 3
  PipeCap = 1
  Cmds = {"SEND"}
  Troubles = {"close"}

SYMMETRY Symmetry

INVARIANTS
  NeverCrashes

\* An idle server with no request on its way waits for ever.
CHECK_DEADLOCK FALSE
