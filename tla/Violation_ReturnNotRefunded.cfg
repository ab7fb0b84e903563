SPECIFICATION FulfilmentSpec
CONSTANTS
  Orders = {o1}
  Workers = {w1}
  InitialOrders <- DeliveredOrders
  HasVariant = FALSE
  Ops = {"return", "receive", "qc"}
  AdminStatuses = {}
  AdminPayments = {"none"}
  Faults = {}
  MaxOverrides = 0
  MaxRestocks = 1
  NoOrder = NoOrder
INVARIANT ReturnedGoodsAreRefunded
CHECK_DEADLOCK FALSE
