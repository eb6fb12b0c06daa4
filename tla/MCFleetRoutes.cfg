SPECIFICATION FairSpec
CONSTANTS
  s1 = s1  s2 = s2  r1 = r1  r2 = r2  NoRouter = NoRouter
  Slot <- TwoSlots
  Router <- TwoRouters
  Address <- TwoAddresses
  Bare <- JustSecond
  Early <- OneEarly
  MaxRows = 2
  MaxKeys = 2
  MaxPasswords = 1
CHECK_DEADLOCK FALSE
PROPERTY RoutesSettle
