SPECIFICATION Spec
CONSTANTS
  k1 = k1
  u1 = u1
  Requests = {r1}
  Tokens = {k1}
  Users = {u1}
  TokenOf <- MCTokenOf
  OwnerOf <- MCOwnerOf
  Forms = {}
  Estimates = {2}
  Bills = {1}
  Caps = {}
  OpeningWallet = 3
  OpeningCap = 4
  RetryTimes = 0
  TrustFactor = 9
  MaxDeletes = 0
  MaxCrashes = 0
  MaxDbErrors = 0
CHECK_DEADLOCK FALSE
INVARIANTS
  ReservationReturned
