CONSTANTS
  Orders = {o1}
  Payments = {p1}
  Workers = {w1, w2, w3}
  InstanceOf <- OneProcess
  InitialStock = 1
  MaxRefunds = 1
  ShippingConfigured = TRUE
  Ops = {"placeOnline", "placeCod", "replay", "verify", "webhook", "cleanup", "cancel"}
  Subscribed = {"captured", "orderPaid", "failed", "refundCreated"}
  Faults = {"gateway"}
  NoOrder = NoOrder
  NoPayment = NoPayment
SPECIFICATION Spec
SYMMETRY Symmetry
INVARIANTS
  PaidOrdersWereCaptured
PROPERTIES
  BookedOrdersStand
CHECK_DEADLOCK FALSE
