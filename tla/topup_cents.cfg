SPECIFICATION Spec
CONSTANTS
  o1 = o1
  o2 = o2
  u1 = u1
  NoHandler = NoHandler
  NoOrder = NoOrder
  Orders = {o1}
  Users = {u1}
  UserOf <- MCUserOf
  GatewayOf <- AllCrypto
  Handlers = {h1}
  Prices = {402}
  LossyPrices = {402}
  Payments = {402}
  AsyncPayments = FALSE
  MaxCrashes = 0
  MaxDbErrors = 0
CHECK_DEADLOCK FALSE
INVARIANTS
  FullPaymentNotShort
