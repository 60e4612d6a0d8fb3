SPECIFICATION ServicesSpec
CONSTANTS
  r1 = r1
  m1 = m1
  m2 = m2
  pa = pa
  Nobody = Nobody
  None = None
  Call = {c1, c2}
  Provider = {p1}
  Streamed = {c2}
  QueueCap = 1
  MaxQueue = 2
  Request = {r1, r2}
  Model <- Models
  ModelOf <- ModelNamed
  RecordedAs <- SameName
  Pattern <- OnePattern
  Matches <- MatchesAll
  Quota <- OneCall
  MaxCalls = 2
  MaxMonth = 1
  Login = {l1, l2}
  WebUI = {l1, l2}
  Device = {}
  Caller = {k1, k2}
  Cap = 1
  MaxBehind = 2
  Session = {s1, s2, s3}
  Refresher = {w1, w2}
  MaxToken = 2
  FeedCap = 2
  MaxRestarts = 1
  MaxBlocks = 4
  ToolIndex = {0, 1}
  NoBlock = NoBlock
  Setting = {debug, limits}
  Compared = {debug}
  Direct = {limits}
  Unpruned = {debug}
  Editor = {e1, e2}
  Reloader = {g1}
  Object = {o1, o2, o3, o4, o5}
  MaxChanges = 2
INVARIANTS
  PartTypeOK
  QuotaBounded
  CountedOnce
  OkMeansSaved
  CallbackReceived
  ForwarderStays
  CompleteIsWhole
  NobodyStranded
  CredentialsMatch
  LiveSessionsFound
  TokenKept
  GeminiAnswerWellFormed
  OpenAIAnswerWellFormed
  EditsInForce
PROPERTIES
  SavedStays
CHECK_DEADLOCK FALSE
