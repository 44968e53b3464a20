SPECIFICATION Spec
CONSTANTS
  NULL = NULL
  x1 = x1
  x2 = x2
  t1 = t1
  t2 = t2
  d1 = d1
  d2 = d2
  d3 = d3
  Xfer = {x1, x2}
  Timer = {t1, t2}
  Fd = {d1, d2, d3}
  MaxEvents = 2
SYMMETRY KqueueSymmetry
INVARIANTS TypeOK NoRegistrationLost LossBounded CrashExplained LatestTimerKept
CHECK_DEADLOCK FALSE
