CONSTANTS
  a = a
  b = b
  l1 = l1
  l2 = l2
  l3 = l3
  e1 = e1
  e2 = e2
  g1 = g1
  g2 = g2
  s1 = s1
  Models = {a, b}
  Loads = {l1, l2, l3}
  Evicts = {e1, e2}
  Generates = {g1, g2}
  ModelOf <- MCModelOf
  SliceOf <- MCSliceOf
  Whole = Whole
  SliceCap <- MCSliceCap
  Size <- MCSize
  Total = 7
  Headroom = 3
  None = None
SPECIFICATION Spec
CHECK_DEADLOCK FALSE
INVARIANTS
  TypeOK
  OnlyEvictionsTakeEngines
  NeverOvercharged
PROPERTIES
  LoadsAreAnswered
  NothingLeaks
