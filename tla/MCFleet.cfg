SPECIFICATION Spec
CONSTANTS
  s1 = s1  s2 = s2  r1 = r1  r2 = r2  NoRouter = NoRouter
  Slot <- TwoSlots
  Router <- TwoRouters
  Address <- OneAddress
  Bare <- None
  Early <- OneEarly
  MaxRows = 2
  MaxKeys = 2
  MaxPasswords = 2
CHECK_DEADLOCK FALSE
INVARIANTS FTypeOK OwnDevice Renewed
