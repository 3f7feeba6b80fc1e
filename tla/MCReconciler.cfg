CONSTANTS
  n1 = n1
  n2 = n2
  g1 = g1
  g2 = g2
  m1 = m1
  m2 = m2
  Nodes = {n1}
  Places = {g1}
  Models = {m1, m2}
  NodeOf <- MCNodeOf
  Fixture <- MCFixture
  Lists <- MCLists
  NoEntry = NoEntry
  Absent = Absent
  HbCap = 1
  ActCap = 1
  MaxInFlight = 1
  MaxFaults = 1
SPECIFICATION Spec
INVARIANTS
  TypeOK
  DeadAnnouncedOnce
  CommandsAreAddressed
PROPERTIES
  TicksEnd
  DeathsAreFound
  Converges
  GoesQuiet
  PlacementsAreServed
  SettledStays
