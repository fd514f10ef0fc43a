SPECIFICATION ListFairSpec
CONSTANTS
  g1 = g1
  g2 = g2
  g3 = g3
  X = X
  Y = Y
  null = null
  Servers <- MCServers
  Indexes <- MCIndexes
  Names <- MCNames
  Logins = {a1}
  IdxOf <- MixedIdx
  NameOf <- SharedName
  DefaultIdx = 255
  NullName = null
  NoGame = NoGame
  NoIdx = NoIdx
  NoRecord = NoRecord
INVARIANTS
  ListedConnected
  ConnectedListed
PROPERTIES
  ListingNeverReplaced
  SweepSparesOthers
  StoppedUnlisted
CHECK_DEADLOCK FALSE
