SPECIFICATION Spec
CONSTANTS
  s1 = s1  s2 = s2  k1 = k1  k2 = k2  v1 = v1  v2 = v2  e1 = e1  e2 = e2
  Unset = Unset  NoSave = NoSave  NoKey = NoKey  Nobody = Nobody
  Slot <- TwoSlots
  Key <- TwoKeys
  Value <- TwoValues
  Asker <- TwoSlots
  DefaultRole <- Defaults
  CustomName <- Custom
  KnownResource <- Resources
  KnownAction <- Actions
  Body <- Bodies
  MaxRoles = 2
  MaxRenamed = 1
  Visitor <- TwoSlots
  Email <- OneEmail
  Elsewhere = e2
  Owner <- FirstUser
  MaxUsers = 3
  MaxEdited = 1
  Clerk <- TwoSlots
  Text <- Texts
  MaxPlans = 1
  MaxCodes = 1
  MaxClock = 60
  Operator <- TwoSlots
  MaxChanges = 2
  VPNId <- Ids
  HistoryLimit = 2
  MaxBytes = 4
  MaxSamples = 3
  MaxReboots = 1
CHECK_DEADLOCK FALSE
INVARIANTS
  SettingsTypeOK
  RolesTypeOK
  BuiltInStays
  NamesStayApart
  AccountsTypeOK
  AccountsStayApart
  NeverCutShort
  OneRunRepairs
  LansApart
  LanInOrder
  ChartIsTrue
PROPERTIES
  CredentialsKept
  ImplementsStore
  SavesAnswered
  CloseSucceeds
