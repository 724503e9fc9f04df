SPECIFICATION FairSpec
CONSTANTS
  o1 = o1
  o2 = o2
  u1 = u1
  NoHandler = NoHandler
  NoOrder = NoOrder
  Orders = {o1}
  Users = {u1}
  UserOf <- MCUserOf
  GatewayOf <- AllCrypto
  Handlers = {h1, h2}
  Prices = {2}
  LossyPrices = {}
  Payments = {2}
  AsyncPayments = FALSE
  MaxCrashes = 1
  MaxDbErrors = 1
CHECK_DEADLOCK FALSE
INVARIANTS
  OrdersAreWhole
PROPERTIES
  PaymentsCredited
