SPECIFICATION Spec
CONSTANTS
  s1 = s1  s2 = s2  alice = alice  bob = bob  p1 = p1  env = env  own = own
  NoCompany = NoCompany
  Slot <- TwoSlots
  Tenant <- OneTenant
  Ref <- OneRef
  Key <- OneKey
  Keys <- EnvKey
  Price <- OneTightPrice
  PayoutAmount = {2500}
  Serial <- None
  Orphan <- None
  MaxPayouts = 2
  MaxFaults = 0
CHECK_DEADLOCK FALSE
PROPERTY EveryWalletIsAnAccount
