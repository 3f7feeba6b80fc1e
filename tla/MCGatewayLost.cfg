CONSTANTS
  p1 = p1
  p2 = p2
  batch = batch
  Nobody = Nobody
  Items = {p1, p2, batch}
  Capacity = 1
  MaxRoom = 1
  ClassOf <- MCClassOf
  Need <- MCNeed
SPECIFICATION GSpec
INVARIANT NoWaitingRequestLost
