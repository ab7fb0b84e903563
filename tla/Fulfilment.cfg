SPECIFICATION MCSpec
CONSTANTS
  Orders = {o1}
  Workers = {w1, w2}
  OneWorker = {w1}
  InitialOrders <- BookedOrders
  HasVariant = TRUE
  Ops = {"webhook", "sync"}
  AdminStatuses = {"DELIVERED"}
  AdminPayments = {"none", "COMPLETED"}
  Faults = {}
  MaxOverrides = 0
  MaxRestocks = 1
  NoOrder = NoOrder
SYMMETRY WorkerSymmetry
INVARIANTS
  SettlesInTurn
  RestockedOnceAtOnce
  CashBooksAgree
  OneCodPayout
PROPERTIES
  SyncAdvancesAtOnce
CHECK_DEADLOCK FALSE
