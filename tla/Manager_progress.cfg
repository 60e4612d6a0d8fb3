SPECIFICATION FairSpec
CONSTANTS
  m1 = m1
  m2 = m2
  p1 = p1
  r1 = r1
  r2 = r2
  w1 = w1
  w2 = w2
  Model = {m1}
  Auth = {1}
  Provider = {p1}
  ProviderOf <- OneProvider
  Supports <- AllSupported
  Request = {r1, r2}
  ProviderLists <- OneList
  AllowedSets <- Unlimited
  FailureStatus = {429}
  RetryHint = {}
  RequestRetry = 1
  MaxRetryInterval = 1
  FillFirst = FALSE
  CursorWrap = 1
  QuotaBackoffBase = 1
  QuotaBackoffMax = 2
  MaxBackoffLevel = 1
  AuthCooldown = 3
  NotFoundCooldown = 4
  TransientCooldown = 2
  QuotaCooldownDisabled = FALSE
  Writer = {w1}
  Refreshable = {1}
PROPERTIES
  NoLockout
  RequestAnswered
