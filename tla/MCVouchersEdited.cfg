SPECIFICATION Spec
CONSTANTS
  s1 = s1  s2 = s2  alice = alice  day = day  week = week  c1 = c1
  NoRouter = NoRouter
  NoRow = NoRow
  Slot <- TwoSlots
  Tenant <- OneTenant
  Package <- TwoPackages
  Code <- OneCode
  Router <- None
  Editor <- OneTenant
  MaxVouchers = 2
  MaxQuantity = 2
CHECK_DEADLOCK FALSE
SYMMETRY SlotSymmetry
INVARIANTS
  TypeOK
  SaleIsFair
