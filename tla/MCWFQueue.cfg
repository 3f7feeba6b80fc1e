CONSTANTS
  Items = {req}
  Capacity = 2
SPECIFICATION SSpec
INVARIANTS
  WorkConserving
  BoundedBypass
  MinimumShare
