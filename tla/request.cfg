SPECIFICATION FairSpec
CONSTANTS
  c1 = c1
  c2 = c2
  c3 = c3
  Call = {c1, c2, c3}
  Args <- SomeArgs
  Paths <- SomePaths
  NameMax = 2
  QueueLen = 1
  MaxMessages = 3
  SunPath = 8
  NonName = 3
  Troubles = {"pipe", "fcntl", "refuse", "register", "exit"}
INVARIANTS TypeOK NoClientLeak Understood AnsweredOwn Conversation AnswerBeforeEnd ModesKept
PROPERTIES EveryReadEnds
CHECK_DEADLOCK FALSE
