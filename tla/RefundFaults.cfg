CONSTANTS
  Orders = {o1}
  Payments = {p1, p2}
  Workers = {w1, w2}
  InstanceOf <- ProcessPerWorker
  InitialStock = 1
  MaxRefunds = 2
  ShippingConfigured = FALSE
  Ops = {"placeOnline", "retry", "verify", "webhook", "cancel", "cleanup"}
  Subscribed = {"captured", "refundProcessed", "refundFailed"}
  Faults = {"crash", "db", "gateway"}
  NoOrder = NoOrder
  NoPayment = NoPayment
SPECIFICATION Spec
SYMMETRY Symmetry
INVARIANTS
  TypeOK
  RefundedOrdersAreCancelled
  OneLiveRefund
CHECK_DEADLOCK FALSE
