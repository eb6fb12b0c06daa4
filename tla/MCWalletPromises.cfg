SPECIFICATION FairSpec
CONSTANTS
  s1 = s1  s2 = s2  alice = alice  bob = bob  p1 = p1  env = env  own = own
  NoCompany = NoCompany
  Slot <- TwoSlots
  Tenant <- TwoTenants
  Ref <- OneRef
  Key <- TwoKeys
  Keys <- OwnKeyLater
  Price <- FractionPrice
  PayoutAmount = {2500}
  Serial <- TwoTenants
  Orphan <- OnlyBob
  MaxPayouts = 2
  MaxFaults = 2
CHECK_DEADLOCK FALSE
INVARIANT SerialDriftBounded
PROPERTIES
  ImplementsAccount
  SettledIsCredited
