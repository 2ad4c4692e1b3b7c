SPECIFICATION Spec
CONSTANTS
  Requests = {h1, h2}
  NoRequest = NoRequest
  Kids = {k1, k2}
  NoKid = NoKid
  MaxRotations = 2
  FailMax = 2
  MaxFails = 3
  MaxOutages = 0
SYMMETRY MCSymmetry
INVARIANTS CurrentKeyIsFound
PROPERTIES WithdrawnKeysExpire
CHECK_DEADLOCK FALSE
