SPECIFICATION SelectionSpec
CONSTANTS
  c1 = c1
  c2 = c2
  m1 = m1
  m2 = m2
  p1 = p1
  p2 = p2
  r1 = r1
  r2 = r2
  q1 = q1
  q2 = q2
  pa = pa
  pb = pb
  Nil = Nil
  Parts = {"lists", "results", "manager"}
  Client = {c1, c2}
  Provider = {p1, p2}
  Model = {m1, m2}
  ModelLists <- TwiceM1
  QuotaWindow = 1
  Reporter = {r1, r2}
  Kind = {"ok", "quota", "blocked"}
  Auth = {1, 2}
  Request = {q1, q2}
  AllowedSets = {{}, {1}}
  FailureStatus = {500}
  RetryHint = {}
  RequestRetry = 1
  MaxRetryInterval = 1
  FillFirst = TRUE
  CursorWrap = 2
  QuotaBackoffBase = 1
  QuotaBackoffMax = 2
  MaxBackoffLevel = 1
  AuthCooldown = 3
  NotFoundCooldown = 4
  TransientCooldown = 1
  QuotaCooldownDisabled = FALSE
  Writer = {}
  Refreshable = {}
SYMMETRY SelectionSymmetry
INVARIANTS
  TypeOK
  CountsExact
  ProvidersExact
  SuccessResumes
  OneCallPerAttempt
