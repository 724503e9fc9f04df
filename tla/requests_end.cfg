SPECIFICATION BothSpec
CONSTANTS
  admin = admin
  u1 = u1
  k1 = k1
  NoHandler = NoHandler
  Codes = {c1}
  Users = {admin, u1}
  CreatorOf <- MCCreatorOf
  Handlers = {h1, h2}
  Forms = {f1, f2}
  Quotas = {0, 5}
  Requests = {r1}
  Tokens = {k1}
  Estimates = {0, 2}
  Bills = {1, 3}
  OpeningWallet = 4
  OpeningCap = 2
  RetryTimes = 1
  TrustFactor = 3
  MaxDeletes = 1
  MaxCrashes = 1
  MaxDbErrors = 1
CHECK_DEADLOCK FALSE
INVARIANTS
  UsedCodeWasPaid
  CreditsBounded
  TypeOK
PROPERTIES
  RequestsAnswered
  AnsweredCallsClose
