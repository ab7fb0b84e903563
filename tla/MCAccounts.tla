----------------------------- MODULE MCAccounts -----------------------------
(* The modules about a caller's identity, side by side in one run: `area`   *)
(* says which of them a behaviour exercises, the others stay where they     *)
(* start.  The cfg gives the constants of the areas where requests overlap. *)
EXTENDS OneTimeCodes, CustomerSessions, AdminAccess, Profile, Throttle

CONSTANTS
  OneCaller,   \* the instances where requests come one at a time
  SomePhones, SomeMails

ASSUME AccountsAssumption ==
  /\ SomePhones \cap SomeMails = {}
  /\ Nobody \notin SomePhones \cup SomeMails \cup {"ann", "bob"}

VARIABLE area

\* Accounts opened and edited by requests that come one at a time.
InTurn == INSTANCE OneTimeCodes WITH
  Callers <- OneCaller, Users <- {"ann", "bob"}, Phones <- SomePhones,
  Mails <- SomeMails, CodeOps <- {"phone", "email", "google", "profile", "verification"}

\* Sessions of an admin, two tabs at a time.
Stays == INSTANCE AdminAccess WITH AdminOps <- {"login", "logout"}

\* Redis comes and goes.
NoRedis == INSTANCE Throttle WITH
  Routes <- {"verifyOtp", "refresh", "handleWebhook"}, MaxServed <- 2,
  Requests <- OneCaller, ThrottleFaults <- {"redis"}

\* Two visits of a product page at a time.
Pages == INSTANCE Profile WITH Visits <- Callers, ProfileOps <- {"views"}

-----------------------------------------------------------------------------
allVars == <<codeVars, sessionVars, adminVars, profileVars, throttleVars>>

Area == {"codes", "codes in turn", "sessions", "admin stays", "admin resets",
         "profile", "pages", "throttle", "throttle without redis"}

MCInit ==
  /\ area \in Area
  /\ IF area = "codes in turn" THEN InTurn!CodesInit ELSE CodesInit
  /\ SessionsInit
  /\ AdminInit
  /\ IF area = "pages" THEN Pages!ProfileInit ELSE ProfileInit
  /\ IF area = "throttle without redis" THEN NoRedis!ThrottleInit ELSE ThrottleInit

OnlyCodes    == UNCHANGED <<sessionVars, adminVars, profileVars, throttleVars>>
OnlySessions == UNCHANGED <<codeVars, adminVars, profileVars, throttleVars>>
OnlyAdmin    == UNCHANGED <<codeVars, sessionVars, profileVars, throttleVars>>
OnlyProfile  == UNCHANGED <<codeVars, sessionVars, adminVars, throttleVars>>
OnlyThrottle == UNCHANGED <<codeVars, sessionVars, adminVars, profileVars>>

MCNext ==
  /\ UNCHANGED area
  /\ \/ area = "codes"         /\ CodesNext          /\ OnlyCodes
     \/ area = "codes in turn" /\ InTurn!CodesNext   /\ OnlyCodes
     \/ area = "sessions"      /\ SessionsNext       /\ OnlySessions
     \/ area = "admin stays"   /\ Stays!AdminNext    /\ OnlyAdmin
     \/ area = "admin resets"  /\ AdminNext          /\ OnlyAdmin
     \/ area = "profile"       /\ ProfileNext        /\ OnlyProfile
     \/ area = "pages"         /\ Pages!ProfileNext  /\ OnlyProfile
     \/ area = "throttle"      /\ ThrottleNext       /\ OnlyThrottle
     \/ area = "throttle without redis" /\ NoRedis!ThrottleNext /\ OnlyThrottle

MCSpec == MCInit /\ [][MCNext]_<<allVars, area>>

-----------------------------------------------------------------------------
\* Every row, key and request of the area has its type.
AccountsTypeOK ==
  /\ area = "codes" => CodesTypeOK
  /\ area = "codes in turn" => InTurn!CodesTypeOK
  /\ area = "sessions" => SessionsTypeOK
  /\ area \in {"admin stays", "admin resets"} => AdminTypeOK
  /\ area = "profile" => ProfileTypeOK
  /\ area = "pages" => Pages!ProfileTypeOK
  /\ area = "throttle" => ThrottleTypeOK
  /\ area = "throttle without redis" => NoRedis!ThrottleTypeOK

\* Requests that come one at a time leave no verified address that its account
\* did not prove.
VerifiedInTurn == area = "codes in turn" => InTurn!VerifiedMailWasProved

\* A customer who does one thing at a time finds the profile consistent, and the
\* list of recently viewed products within its limit although two pages are
\* opened at once.
ProfileInTurn ==
  IF area = "pages" THEN Pages!ViewsBounded ELSE ProfileConsistent

\* "Single-Use": a customer's code and an admin's reset work once, and no more
\* than once per request that had read them before they were used up; and an
\* hour's resets stay within their limit but for the requests in flight.
CodesWorkOnce == CodesUsedOnce /\ ResetsAreBounded

\* As long as Redis answers, requests that arrive at once do not exceed what
\* their throttler allows.
ThrottledWhileRedisIsUp == area = "throttle" => ServedWithinLimit
=============================================================================
