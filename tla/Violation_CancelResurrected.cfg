CONSTANTS
  Orders = {o1}
  Payments = {p1}
  Workers = {w1, w2}
  InstanceOf <- OneProcess
  InitialStock = 1
  MaxRefunds = 1
  ShippingConfigured = TRUE
  Ops = {"placeCod", "cancel"}
  Subscribed = {}
  Faults = {}
  NoOrder = NoOrder
  NoPayment = NoPayment
SPECIFICATION Spec
SYMMETRY Symmetry
PROPERTIES
  CancelledIsTerminal
CHECK_DEADLOCK FALSE
