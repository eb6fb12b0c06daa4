SPECIFICATION Spec
CONSTANTS
  s1 = s1  s2 = s2  alice = alice  bob = bob  p1 = p1  env = env  own = own
  NoCompany = NoCompany
  Slot <- TwoSlots
  Tenant <- TwoTenants
  Ref <- OneRef
  Key <- OneKey
  Keys <- SharedKey
  Price <- OneTightPrice
  PayoutAmount = {2500}
  Serial <- OneTenant
  Orphan <- None
  MaxPayouts = 2
  MaxFaults = 1
CHECK_DEADLOCK FALSE
SYMMETRY SlotSymmetry
INVARIANTS
  TypeOK
  BalancesAreGrounded
  SerialChain
  SerialCreditedOnce
  SerialMirror
  SerialNotOverdrawn
  PayoutsAreBooked
  WalletIsBacked
  SerialCreditsCollected
PROPERTY PostedTogether
