CONSTANTS
  a = a
  b = b
  Models = {a, b}
  Window = 2
  Threshold = 2
  RequestCap = 2
  SignalCap = 2
  MaxRate = 2
SPECIFICATION Spec
INVARIANTS
  SignalsAreNotLost
PROPERTIES
  SignalsAreEarned
  BurstsAreNoticed
