SPECIFICATION Spec
CONSTANTS
  s1 = s1  s2 = s2  alice = alice  bob = bob  p1 = p1  env = env  own = own
  NoCompany = NoCompany
  Slot <- TwoSlots
  Tenant <- TwoTenants
  Ref <- OneRef
  Key <- OneKey
  Keys <- SharedKey
  Price <- OneTightPrice
  PayoutAmount = {2500}
  Serial <- TwoTenants
  Orphan <- None
  MaxPayouts = 0
  MaxFaults = 0
CHECK_DEADLOCK FALSE
INVARIANT PaymentCreditedOnce
