SPECIFICATION ProgressSpec
CONSTANTS
  r1 = r1
  m1 = m1
  m2 = m2
  pa = pa
  Nobody = Nobody
  None = None
  LockCalls = {"ReadManager", "WriteManager", "Update", "MarkResult", "pickNext", "pickNextNone", "ReadRegistry", "RegisterClient"}
  Thread = {t1, t2, t3}
  Request = {r1, r2}
  MaxCalls = 1
  MaxMonth = 2
  Login = {l1, l2}
  WebUI = {l1}
  Device = {l2}
  Caller = {k1}
  Refresher = {w1}
  MaxToken = 1
  QueueCap = 2
  MaxRestarts = 1
  MaxRetries = 2
  MaxPieces = 3
  ra = ra
  me = me
  c1 = c1
  c2 = c2
  nc = nc
  AnswerBlocks = 4
  AnswerItems = 3
  Pieces = 2
  ChunkParts = 2
  Chunks = 3
  LogCapacity = 1
  LogChunks = 3
  LogSwitches = 2
INVARIANTS
  PartTypeOK
  AnswersWellFormed
  LogFollowsAnswer
  NoCircularWait
  OneAttemptShown
  DoneIsWhole
PROPERTIES
  EveryCallReturns
  QueuedIsCounted
  LoginEnds
  EchoEnds
  ResponseEnds
CHECK_DEADLOCK FALSE
