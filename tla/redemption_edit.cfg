SPECIFICATION Spec
CONSTANTS
  admin = admin
  u1 = u1
  NoHandler = NoHandler
  Codes = {c1}
  Users = {admin, u1}
  CreatorOf <- MCCreatorOf
  Handlers = {h1}
  Forms = {f1}
  Quotas = {5}
  MaxCrashes = 0
  MaxDbErrors = 0
CHECK_DEADLOCK FALSE
INVARIANTS
  RedeemedOnce
