SPECIFICATION AllSpec
CONSTANTS
  MaxUsers = 3
  Forms = {c1, c2}
  Names = {n1}
  Emails = {e1}
  Idents = {i1}
  AdminEdits <- MCAdminEdits
  QuotaForNewUser = 1
  QuotaForInvitee = 1
  QuotaForInviter = 1
  None = None
  MaxRequests = 2
  MaxRestarts = 1
  MaxRowErrors = 1
  Browsers = {c1, c2}
  Keys = {k1}
  Accounts = {1}
  NoKey = NoKey
  BackupCodeCount = 1
  MaxGenerations = 2
  MaxAssertions = 2
  MaxEvents = 2
  Users = {u1}
  Claimers = {c1, c2}
  Readers = {r1}
  Settings <- MCSettings
  LastDay = 3
  MaxCrashes = 1
  MaxDbErrors = 1
  o1 = o1
  o2 = o2
  NoHandler = NoHandler
  NoOrder = NoOrder
SYMMETRY Interchangeable
CHECK_DEADLOCK FALSE
INVARIANTS
  
  
  OneRewardPerDay
  StreakIsEarned
  CheckinsAreWhole
  OrdersAreWhole
PROPERTIES
  OrdersOnlyMoveOn
