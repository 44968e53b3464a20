SPECIFICATION Spec

CONSTANTS
  None = None
  Caller = Caller
  s1 = s1
  s2 = s2
  s3 = s3
  Spawns = {s1, s2, s3}
  Troubles <- Orderly

SYMMETRY SpawnSymmetry

INVARIANTS
  Reachable
  ShutdownFreesName
  FailedSpawnReaps

PROPERTIES
  StatusAfterBind

\* When every call has returned and every server has ended nothing is left to do.
CHECK_DEADLOCK FALSE
