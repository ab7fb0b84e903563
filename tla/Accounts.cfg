SPECIFICATION MCSpec
CONSTANTS
  Users = {u1}
  Phones = {p1}
  Mails = {}
  Callers = {c1, c2}
  OneCaller = {c1}
  GuessLimit = 2
  SendLimit = 2
  MaxCodes = 2
  CodeOps = {"phone", "cleanup", "time"}
  Nobody = Nobody
  NoTracker = NoTracker
  SomePhones = {p1}
  SomeMails = {m1, m2}
  Clients = {k1}
  MaxTokens = 4
  SessionOps = {"refresh", "logout", "block", "crash"}
  Tabs = {t1, t2}
  MaxSessions = 2
  MaxRotations = 3
  MaxResets = 3
  Horizon = 12
  DayStep = 6
  ShortStay = 7
  LongStay = 30
  StayThreshold = 14
  ResetsPerHour = 2
  GuessesPerHour = 2
  AdminOps = {"reset", "change"}
  AddressIds = {11, 12}
  PetIds = {21, 22}
  MethodIds = {31, 32, 33}
  Products = {4, 5, 6, 7}
  ViewLimit = 2
  Visits = {v1}
  ProfileOps = {"profile", "methods"}
  Trackers = {a}
  AuthUsers = {a}
  Requests = {q1, q2}
  Routes = {"getOrders", "cancelOrder"}
  Scale = 60
  MaxServed = 6
  ThrottleFaults = {"crash"}
INVARIANTS
  AccountsTypeOK
  GuessesBounded
  CodesWorkOnce
  VerifiedInTurn
  RotationIsSound
  ProfileInTurn
  ThrottledWhileRedisIsUp
CHECK_DEADLOCK FALSE
