SPECIFICATION MCSpec
CONSTANTS
  Items = {i1, i2}
  Variants = {i2}
  Requests = {q1, q2}
  RowIds = {1, 2, 3}
  OnShelf <- TwoEach
  MaxQuantity = 3
  Amounts = {1}
  Keys = {k1, k2}
  Reservations = {v1}
  Nothing = Nothing
  CartOps = {"add", "update", "remove", "view"}
  CartFaults = {"redis", "ttl"}
  OneRequest = {q1}
  OneDispatch = {d1}
  OneTask = {t1}
  Areas <- AllAreas
  Admins = {a1, a2}
  Subtotals = {400, 500}
  Fees = {90}
  Percentages = {18}
  FreeDelivery = 450
  Tolerance = 45
  MaxSaves = 2
  Events = {"ORDER_PLACED", "ORDER_STATUS_SHIPPED", "ORDER_STATUS_OUT_FOR_DELIVERY", "RETURN_REQUESTED"}
  Dispatches = {d1, d2}
  MaxStock = 3
  Threshold = 2
  MaxCalls = 3
  NotifyOps = {"alerts"}
  NotifyFaults = {}
  Delivered = {1, 2}
  Voters = {7, 8}
  Ratings = {4, 5}
  ReviewTasks = {t1, t2}
  ReviewOps = {"create", "moderate"}
  MaxModerations = 1
INVARIANTS
  StorefrontTypeOK
  NoEntryBeyondTheShelfAtOnce
  OrderedAsShownInTurn
  ShelfIsAccountedForAtOnce
  ToldOnceInTurn
  NoAlertIsLostAtOnce
  ReviewBooksAgreeInTurn
PROPERTIES
  ChargedAsShown
  MergingLosesNothing
CHECK_DEADLOCK FALSE
