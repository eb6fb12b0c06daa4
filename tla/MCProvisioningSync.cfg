SPECIFICATION PSpec
CONSTANTS
  s1 = s1  s2 = s2  alice = alice  day = day  c1 = c1  r1 = r1
  NoRouter = NoRouter
  NoRow = NoRow
  Slot <- OneSlot
  Tenant <- OneTenant
  Package <- OnePackage
  Code <- OneCode
  Router <- OneRouter
  RouterOwner <- AlicesRouter
  Editor <- None
  MaxVouchers = 1
  MaxQuantity = 1
CHECK_DEADLOCK FALSE
INVARIANT ProvisionedInSync
