SPECIFICATION FairSpec
CONSTANTS
  u1 = u1
  k1 = k1
  NoTask = NoTask
  NoNode = NoNode
  Nodes = {n1}
  Tasks = {t1, t2}
  Users <- MCUsers
  Tokens <- MCTokens
  TokenOf <- MCTokenOf
  OwnerOf <- MCOwnerOf
  Quotas = {2}
  AdjustedQuotas = {}
  FinalQuotas = {3}
  OpeningBalance = 4
  TimeoutScanLimit = 1
  PollBatchLimit = 1
  MaxCrashes = 1
  MaxDbErrors = 1
INVARIANTS
  StrandedBounded
PROPERTIES
  ImplementsBilling
  TasksResolve
  FailuresRepaid
