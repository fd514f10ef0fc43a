SPECIFICATION Spec
CONSTANTS
  c1 = c1
  c2 = c2
  c3 = c3
  alice = alice
  bob = bob
  hero = hero
  Clients <- TwoClients
  Accounts <- MCAccounts
  AccOf <- MCAccOf
  CharOf <- MCCharOf
  None = None
  Unruly <- Nobody
  MaxStrays = 0
  LinkSize = 2
INVARIANT
  OnlyKeyHolderAdmitted
CHECK_DEADLOCK FALSE
