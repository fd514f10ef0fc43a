SPECIFICATION FairSpec
CONSTANTS
  c1 = c1
  c2 = c2
  c3 = c3
  alice = alice
  bob = bob
  hero = hero
  Clients <- ThreeClients
  Accounts <- MCAccounts
  AccOf <- MCAccOf
  CharOf <- ClashingCharOf
  None = None
  Unruly <- Third
  MaxStrays = 1
  LinkSize = 2
CONSTRAINT
  MCBound
INVARIANTS
  ListedLive
  VerdictReachesAsker
  AdmittedListed
PROPERTIES
  ListedAnswered
  PlayedUnlisted
CHECK_DEADLOCK FALSE
