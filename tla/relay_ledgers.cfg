SPECIFICATION MCSpec
CONSTANTS
  k1 = k1
  u1 = u1
  Requests = {r1, r2}
  Tokens = {k1}
  Users = {u1}
  TokenOf <- MCTokenOf
  OwnerOf <- MCOwnerOf
  Forms = {f1}
  Estimates = {2}
  Bills = {1, 3}
  Caps = {2}
  OpeningWallet = 3
  OpeningCap = 4
  RetryTimes = 1
  TrustFactor = 2
  MaxDeletes = 1
  MaxCrashes = 1
  MaxDbErrors = 1
CHECK_DEADLOCK FALSE
SYMMETRY RequestSymmetry
INVARIANTS
  TypeOK
  FailedCallRepaid
  ServedCallBilled
  LedgersAreBounded
