SPECIFICATION Spec
CONSTANTS
  c1 = c1
  c2 = c2
  m1 = m1
  m2 = m2
  p1 = p1
  p2 = p2
  r1 = r1
  r2 = r2
  Nil = Nil
  Client = {c1, c2}
  Provider = {p1, p2}
  Model = {m1}
  ModelLists <- OnceM1
  QuotaWindow = 1
  Reporter = {r1}
  Kind = {"ok", "quota", "blocked"}
INVARIANT AvailableCounted
