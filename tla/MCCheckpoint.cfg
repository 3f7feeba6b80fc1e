CONSTANTS
  m = m
  s1 = s1
  s2 = s2
  s3 = s3
  d1 = d1
  r1 = r1
  Names = {m}
  Saves = {s1, s2, s3}
  Deletes = {d1}
  Restores = {r1}
  NameOf <- MCNameOf
  None = None
  MaxKills = 1
SPECIFICATION Spec
CHECK_DEADLOCK FALSE
INVARIANTS
  TypeOK
  ManifestSurvives
  LoneCallsSucceed
PROPERTIES
  ImplementsStore
