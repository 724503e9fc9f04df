SPECIFICATION Spec
CONSTANTS
  u1 = u1
  k1 = k1
  NoTask = NoTask
  NoNode = NoNode
  Nodes = {n1, n2}
  Tasks = {t1, t2}
  Users <- MCUsers
  Tokens <- MCTokens
  TokenOf <- MCTokenOf
  OwnerOf <- MCOwnerOf
  Quotas = {0, 2}
  AdjustedQuotas = {3}
  FinalQuotas = {1}
  OpeningBalance = 3
  TimeoutScanLimit = 1
  PollBatchLimit = 1
  MaxCrashes = 0
  MaxDbErrors = 0
SYMMETRY RaceSymmetry
INVARIANTS
  TypeOK
  OneWinner
  RefundsAreSound
  RowQuotaIsCharge
  ClosedTaskBalanced
  NeverOverRefunded
PROPERTIES
  TerminalIsFinal
