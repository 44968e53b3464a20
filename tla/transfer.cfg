SPECIFICATION Spec

CONSTANTS
  None = None
  f1 = f1
  x1 = x1
  x2 = x2
  Xfer = {x1, x2}
  File = {f1}
  Platforms = {"linux", "freebsd"}
  Requests <- SomeRequests
  MaxSize = 3
  MaxWrites = 1
  MaxOut = 3
  SizeMod = 8
  BlkSize = 2
  PipeCap = 3
  Troubles = {"open", "add", "write", "pipe", "io"}

SYMMETRY XferSymmetry

INVARIANTS
  TypeOK
  RangeLocked
  OneVersion
  InOrder
  AssertionsHold

PROPERTIES
  ImplementsStream

\* A failed assertion ends the server.
CHECK_DEADLOCK FALSE
