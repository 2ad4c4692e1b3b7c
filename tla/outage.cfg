SPECIFICATION FairSpec
CONSTANTS
  Requests = {h1, h2}
  NoRequest = NoRequest
  Kids = {k1}
  NoKid = NoKid
  MaxRotations = 0
  FailMax = 2
  MaxFails = 3
  MaxOutages = 2
PROPERTIES ShedsOnlyInOutage FailsFast LocksAreReleased BreakerRecovers
CHECK_DEADLOCK FALSE
