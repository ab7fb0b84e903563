CONSTANTS
  Orders = {o1}
  Payments = {p1, p2}
  Workers = {w1, w2}
  InstanceOf <- OneProcess
  InitialStock = 1
  MaxRefunds = 1
  ShippingConfigured = FALSE
  Ops = {"placeOnline", "createPayment", "retry", "webhook", "cancel", "cleanup"}
  Subscribed = {"captured", "failed"}
  Faults = {"gateway"}
  NoOrder = NoOrder
  NoPayment = NoPayment
SPECIFICATION FairSpec
INVARIANTS
  NoStrandedMoney
PROPERTIES
  CaptureSettles
CHECK_DEADLOCK FALSE
