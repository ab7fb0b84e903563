SPECIFICATION MCSpec
CONSTANTS
  Ids = {1, 2, 3}
  BatchLimit = 2
  MaxRestarts = 1
  Trackers = {a}
  AuthUsers = {}
  Requests = {q1, q2}
  Routes = {"getOrders"}
  NoTracker = NoTracker
  Scale = 60
  MaxServed = 3
  ThrottleFaults = {}
  Goods = {p1}
  Aisles = {c1}
  Slugs = {s1, s2}
  p1 = p1
  c1 = c1
  s1 = s1
  Story = story
  Visitors = {v}
  Editors = {e}
  MaxVersion = 1
  DetailsTtl = 2
  ListTtl = 1
  FeedTtl = 1
  Nothing = Nothing
PROPERTIES
  EveryDeliveryIsNoticed
  WindowsEnd
  EveryChangeIsShown
CHECK_DEADLOCK FALSE
