CONSTANTS
  n1 = n1
  n2 = n2
  g1 = g1
  g2 = g2
  m1 = m1
  m2 = m2
  Nodes = {n1, n2}
  Places = {g1, g2}
  Models = {m1}
  NodeOf <- MCNodeOf
  Fixture <- MCFixture
  Lists = {}
  NoEntry = NoEntry
  Absent = Absent
  HbCap = 1
  ActCap = 1
  MaxInFlight = 1
  MaxFaults = 1
SPECIFICATION Spec
PROPERTY WorkloadsRescheduled
