SPECIFICATION Spec
CONSTANTS
  m1 = m1
  m2 = m2
  p1 = p1
  r1 = r1
  r2 = r2
  w1 = w1
  w2 = w2
  Model = {m1}
  Auth = {1}
  Provider = {p1}
  ProviderOf <- OneProvider
  Supports <- AllSupported
  Request = {r1, r2}
  ProviderLists <- OneList
  AllowedSets <- Unlimited
  FailureStatus = {0, 429, 500}
  RetryHint = {}
  RequestRetry = 1
  MaxRetryInterval = 1
  FillFirst = TRUE
  CursorWrap = 2
  QuotaBackoffBase = 1
  QuotaBackoffMax = 2
  MaxBackoffLevel = 1
  AuthCooldown = 3
  NotFoundCooldown = 4
  TransientCooldown = 2
  QuotaCooldownDisabled = FALSE
  Writer = {}
  Refreshable = {}
PROPERTY QuotaWaitHonoured
