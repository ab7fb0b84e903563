CONSTANTS
  Orders = {o1}
  Payments = {p1, p2}
  Workers = {w1, w2}
  InstanceOf <- OneProcess
  InitialStock = 1
  MaxRefunds = 1
  ShippingConfigured = FALSE
  Ops = {"placeCod", "createPayment", "verify", "webhook", "confirmCod", "cancel", "adminCancel"}
  Subscribed = {"authorized", "captured"}
  Faults = {}
  NoOrder = NoOrder
  NoPayment = NoPayment
SPECIFICATION Spec
SYMMETRY Symmetry
INVARIANTS
  NoStockInvented
CHECK_DEADLOCK FALSE
