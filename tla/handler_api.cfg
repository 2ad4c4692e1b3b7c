SPECIFICATION LeanSpec
CONSTANTS
  JobIds = {1, 2, 3}
  JobTypes = {t1}
  Keys = {k}
  Values = {v1}
  NoValue = NoValue
  Inputs <- MCInputs
  ConfigRows <- MCRows
  InitConfig <- MCConfig
  NoRow = NoRow
  DefaultMaxAttempts = 1
  Clients = {quiet, noisy}
  quiet = quiet
  noisy = noisy
  Tokens <- MCTokens
  NoToken = NoToken
  Asks <- MCAsks
  Claims <- MCClaims
  NoClaim = NoClaim
  People <- MCPeople
  Limit = 1
  MaxCreates = 2
  MaxFaults = 1
INVARIANTS TypeOK ReadsFollowOwnership RetriesDoNotStack
PROPERTIES NobodyIsStarved
