CONSTANTS
  Orders = {o1, o2}
  Payments = {p1, p2}
  Workers = {w1, w2}
  InstanceOf <- OneProcess
  InitialStock = 1
  MaxRefunds = 1
  ShippingConfigured = FALSE
  Ops = {"placeOnline", "verify", "webhook", "cleanup", "cancel"}
  Subscribed = {"captured"}
  Faults = {}
  NoOrder = NoOrder
  NoPayment = NoPayment
SPECIFICATION Spec
SYMMETRY Symmetry
INVARIANTS
  StockConserved
  NoStrandedMoney
PROPERTIES
  ImplementsLedger
CHECK_DEADLOCK FALSE
