CONSTANTS
  m1 = m1
  m2 = m2
  p1 = p1
  t1 = t1
  t2 = t2
  Models = {m1, m2}
  Tasks = {t1, t2}
  Slices = {p1}
  Whole = p1
  Fixture <- MCFixture
  NoCommand = NoCommand
  NoStatus = NoStatus
  MaxFaults = 1
  MaxSent = 1
SPECIFICATION Spec
INVARIANT NothingUnasked
PROPERTIES
  SettledStays
  ImplementsInterface
  ServesDesired
  CommandsEnd
