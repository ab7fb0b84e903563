------------------------------ MODULE Throttle ------------------------------
(* Rate limiting: AppThrottlerGuard decides which named throttler owns a     *)
(* request and what its limit is, RedisThrottlerStorage counts the hits of   *)
(* the caller in Redis with a window that expires.  (LruThrottlerStorage is  *)
(* not installed: app.module.ts uses the Redis storage.)                     *)
(*                                                                           *)
(* A counter belongs to a caller, a handler and a throttler: the library     *)
(* makes its key of the class, the handler, the throttler and the tracker.   *)
(* Limits are divided by Scale, and are at least one: the BOUND that keeps   *)
(* the counters small.                                                       *)
EXTENDS Integers, Sequences, FiniteSets, FiniteSetsExt

CONSTANTS
  Trackers,     \* callers' identities
  AuthUsers,    \* those of them that are signed in ("user:...")
  Requests,     \* requests in flight: BOUND on concurrency
  Routes,       \* the handlers that are asked for
  NoTracker,    \* no caller
  Scale,        \* BOUND: limits are divided by it
  MaxServed,    \* BOUND on the hits and the answers of a window
  ThrottleFaults \* {"crash", "redis"} or less

ASSUME ThrottleAssumption ==
  /\ NoTracker \notin Trackers /\ AuthUsers \subseteq Trackers /\ IsFiniteSet(Requests)
  /\ Scale \in Nat \ {0} /\ MaxServed \in Nat

-----------------------------------------------------------------------------
(* The handlers behind the guard *)

\* What the guard can tell of a handler: the fragments it looks for that the
\* url has, whether the method only reads, the throttlers whose limit its
\* @Throttle lifts to 10000, whether it has @SkipThrottle.  (The limits of the
\* other @Throttle decorators are the configured ones or ones that
\* resolveEffectiveLimit replaces.)
Reads(has)        == [has |-> has, isRead |-> TRUE,  lifts |-> {},    skips |-> FALSE]
Writes(has)       == [has |-> has, isRead |-> FALSE, lifts |-> {},    skips |-> FALSE]
Codes(has, lifts) == [has |-> has, isRead |-> FALSE, lifts |-> lifts, skips |-> FALSE]
Unlimited(isRead) == [has |-> {},  isRead |-> isRead, lifts |-> {},   skips |-> TRUE]

\* The handlers of the controllers with @UseGuards(ThrottlerGuard), one of each
\* kind.  "/email-otp" and "/send-verification" have neither "/otp" nor
\* "/verification".
Handlers ==
  [sendOtp          |-> Codes({"otp"}, {"otp_verify"}),
   verifyOtp        |-> Codes({"otp"}, {"otp_send_short", "otp_send_long"}),
   sendEmailOtp     |-> Codes({}, {"otp_verify"}),
   verifyEmailOtp   |-> Codes({}, {"otp_send_short", "otp_send_long"}),
   refresh          |-> Unlimited(FALSE),
   getMe            |-> Unlimited(TRUE),
   getReviews       |-> Unlimited(TRUE),
   markHelpful      |-> Writes({"helpful"}),
   getCart          |-> Reads({"cart"}),
   addCartItem      |-> Writes({"cart"}),
   getGuestCart     |-> Reads({"cart", "cart/guest"}),
   addGuestCartItem |-> Writes({"cart", "cart/guest"}),
   getDeliveryEstimate |-> Reads({"delivery-estimate"}),
   search           |-> Reads({"search"}),
   getSuggestions   |-> Reads({"search", "suggestions"}),
   recordSearch     |-> Writes({"search"}),
   recordView       |-> Writes({}),
   getProducts      |-> Reads({"products"}),
   getWishlist      |-> Reads({"wishlist"}),
   addToWishlist    |-> Writes({"wishlist"}),
   getOrders        |-> Reads({"orders"}),
   cancelOrder      |-> Writes({"orders"}),
   getCheckout      |-> Reads({"checkout"}),
   placeOrder       |-> Writes({"checkout"}),
   createPaymentOrder |-> Writes({"create-order"}),
   verifyPayment    |-> Writes({"payments/verify"}),
   getPaymentById   |-> Reads({}),
   handleWebhook    |-> [Unlimited(FALSE) EXCEPT !.has = {"webhook"}],
   getProfile       |-> Reads({"profile"}),
   addAddress       |-> Writes({"profile", "addresses"})]

ASSUME RoutesAssumption == Routes \subseteq DOMAIN Handlers

-----------------------------------------------------------------------------
(* Who owns a route *)

Throttlers ==
  [default |-> 120, otp_send_short |-> 3, otp_send_long |-> 20, otp_verify |-> 20,
   search |-> 30, search_suggestions |-> 30, products |-> 60, delivery_estimate |-> 30,
   cart |-> 120, guest_cart |-> 20, wishlist |-> 120, orders |-> 60,
   address_read |-> 60, address_mutation |-> 30, checkout |-> 20, payment_create |-> 20,
   payment_verify |-> 30, reviews_helpful |-> 20]

Names == DOMAIN Throttlers
OtpNames == {"otp_send_short", "otp_send_long", "otp_verify"}

\* resolveRouteThrottler's tests in their order: the first fragment that a path
\* has decides.  Two rules look further.
Rules == <<
  [has |-> {"otp", "verification"}, owner |-> "otp"],
  [has |-> {"cart/guest"}, owner |-> "guest_cart"],
  [has |-> {"cart"}, owner |-> "cart"],
  [has |-> {"delivery-estimate"}, owner |-> "delivery_estimate"],
  [has |-> {"search"}, owner |-> "search"],
  [has |-> {"products"}, owner |-> "products"],
  [has |-> {"wishlist"}, owner |-> "wishlist"],
  [has |-> {"orders"}, owner |-> "orders"],
  [has |-> {"checkout"}, owner |-> "checkout"],
  [has |-> {"create-order", "retry", "cod/confirm"}, owner |-> "payment_create"],
  [has |-> {"payments/verify"}, owner |-> "payment_verify"],
  [has |-> {"helpful"}, owner |-> "reviews_helpful"],
  [has |-> {"profile", "addresses"}, owner |-> "address"] >>

RouteThrottler(h) ==
  LET path == Handlers[h].has
      matching == {i \in DOMAIN Rules : Rules[i].has \cap path # {}}
      owner == IF matching = {} THEN "default" ELSE Rules[Min(matching)].owner
  IN  CASE owner = "address" -> IF Handlers[h].isRead THEN "address_read" ELSE "address_mutation"
        [] owner = "search" -> IF "suggestions" \in path THEN "search_suggestions" ELSE "search"
        [] OTHER -> owner

\* @SkipThrottle() says of "default" that it does not apply.
Skipped(h) == IF Handlers[h].skips THEN {"default"} ELSE {}

\* isThrottlerApplicable, for all throttlers: the three of the OTP routes apply
\* together.  Webhooks and the admin's routes are never limited.
Applicable(h) ==
  IF {"webhook", "admin"} \cap Handlers[h].has # {} THEN {}
  ELSE (IF RouteThrottler(h) = "otp" THEN OtpNames ELSE {RouteThrottler(h)}) \ Skipped(h)

\* The limit that the handler or the module configures.
Configured(name, h) == IF name \in Handlers[h].lifts THEN 10000 ELSE Throttlers[name]

\* resolveEffectiveLimit.
EffectiveLimit(name, h, isAuthUser) ==
  LET limit ==
    CASE name = "products" -> IF isAuthUser THEN 120 ELSE 60
      [] name = "search" -> IF isAuthUser THEN 60 ELSE 30
      [] name = "search_suggestions" -> IF isAuthUser THEN 120 ELSE 30
      [] name = "delivery_estimate" -> IF isAuthUser THEN 60 ELSE 30
      [] name = "cart" -> IF isAuthUser THEN 120 ELSE 20
      [] name \in {"orders", "wishlist"} /\ Handlers[h].isRead -> IF isAuthUser THEN 240 ELSE 60
      [] OTHER -> Configured(name, h)
  IN Max({1, limit \div Scale})

-----------------------------------------------------------------------------
(* The storage *)

VARIABLES
  hits,       \* the counter of each key
  expiring,   \* the keys whose counter has a time to live
  blockedFor, \* the keys with a live `:blocked` key
  served,     \* requests let through per key since its counter started
  throttled   \* what each request is doing

throttleVars == <<hits, expiring, blockedFor, served, throttled>>

\* A handler is counted by each throttler that applies to it, for each caller.
CountersOf(h) == {h} \X Applicable(h)
Counters == UNION {CountersOf(h) : h \in Routes}
Keys == Trackers \X Counters

\* `todo`: the counters that still have to be asked.
ThrottledPC == {"idle", "check", "incr", "expire", "block", "refused"}
Throttled == [pc: ThrottledPC, who: Trackers \cup {NoTracker},
              todo: SUBSET Counters, done: SUBSET Counters]
NotThrottled == [pc |-> "idle", who |-> NoTracker, todo |-> {}, done |-> {}]

ThrottleTypeOK ==
  /\ hits \in [Keys -> Nat] /\ served \in [Keys -> Nat]
  /\ expiring \subseteq Keys /\ blockedFor \subseteq Keys
  /\ throttled \in [Requests -> Throttled]

ThrottleInit ==
  /\ hits = [k \in Keys |-> 0] /\ served = [k \in Keys |-> 0]
  /\ expiring = {} /\ blockedFor = {}
  /\ throttled = [q \in Requests |-> NotThrottled]

\* A request is tried by its throttlers one after the other.
Current(q) == CHOOSE n \in throttled[q].todo : TRUE
KeyOf(q) == <<throttled[q].who, Current(q)>>
LimitOf(k) == EffectiveLimit(k[2][2], k[2][1], k[1] \in AuthUsers)

Step(q, pc) == throttled' = [throttled EXCEPT ![q].pc = pc]

\* A throttler lets the request pass: on to the next, or to the handler.
PassedTo(q) ==
  LET rest == throttled[q].todo \ {Current(q)}  passed == throttled[q].done \cup {Current(q)} IN
  IF rest # {}
  THEN /\ throttled' = [throttled EXCEPT ![q].pc = "check", ![q].todo = rest, ![q].done = passed]
       /\ UNCHANGED served
  ELSE /\ throttled' = [throttled EXCEPT ![q] = NotThrottled]
       /\ served' = [k \in Keys |-> IF k[1] = throttled[q].who /\ k[2] \in passed
                                    THEN served[k] + 1 ELSE served[k]]

HandleRequest(q) ==
  /\ throttled[q].pc = "idle"
  /\ \E h \in Routes, who \in Trackers :
       /\ CountersOf(h) # {}
       /\ \A n \in CountersOf(h) : hits[<<who, n>>] < MaxServed /\ served[<<who, n>>] < MaxServed
       /\ throttled' = [throttled EXCEPT ![q] =
            [pc |-> "check", who |-> who, todo |-> CountersOf(h), done |-> {}]]
  /\ UNCHANGED <<hits, expiring, blockedFor, served>>

CheckBlocked(q) ==
  /\ throttled[q].pc = "check"
  /\ Step(q, IF KeyOf(q) \in blockedFor THEN "refused" ELSE "incr")
  /\ UNCHANGED <<hits, expiring, blockedFor, served>>

\* Mutant: a hit is not counted.
Uncounted(q) == hits

\* INCR is atomic.
Incremented(q) == [hits EXCEPT ![KeyOf(q)] = @ + 1]

\* The count decides; the first hit of a window sets its time to live.
Incr(q) ==
  LET n == hits[KeyOf(q)] + 1 IN
  /\ throttled[q].pc = "incr"
  /\ hits' = Incremented(q)
  /\ IF n = 1 THEN Step(q, "expire") /\ UNCHANGED served
     ELSE IF n > LimitOf(KeyOf(q)) THEN Step(q, "block") /\ UNCHANGED served
     ELSE PassedTo(q)
  /\ UNCHANGED <<expiring, blockedFor>>

\* Mutant: the window gets no time to live.
NoTtl(k) == expiring

WithTtl(k) == expiring \cup {k}

\* A limit is at least one: the first hit is never beyond it.
Expire(q) ==
  /\ throttled[q].pc = "expire"
  /\ expiring' = WithTtl(KeyOf(q))
  /\ PassedTo(q)
  /\ UNCHANGED <<hits, blockedFor>>

\* blockDuration is the window's length by default.
Block(q) ==
  /\ throttled[q].pc = "block"
  /\ blockedFor' = blockedFor \cup {KeyOf(q)}
  /\ Step(q, "refused")
  /\ UNCHANGED <<hits, expiring, served>>

\* 429 with a Retry-After.
Refuse(q) ==
  /\ throttled[q].pc = "refused"
  /\ throttled' = [throttled EXCEPT ![q] = NotThrottled]
  /\ UNCHANGED <<hits, expiring, blockedFor, served>>

\* Redis is not connected: every call of RedisService answers as if nothing was
\* there (incr answers 0), and the request passes.
RedisDown(q) ==
  /\ "redis" \in ThrottleFaults
  /\ throttled[q].pc \in {"check", "incr", "expire"}
  /\ PassedTo(q)
  /\ UNCHANGED <<hits, expiring, blockedFor>>

\* A window ends: the counter with a time to live is gone.
WindowEnds(k) ==
  /\ k \in expiring
  /\ hits' = [hits EXCEPT ![k] = 0] /\ served' = [served EXCEPT ![k] = 0]
  /\ expiring' = expiring \ {k}
  /\ UNCHANGED <<blockedFor, throttled>>

BlockEnds(k) ==
  /\ k \in blockedFor
  /\ blockedFor' = blockedFor \ {k}
  /\ UNCHANGED <<hits, expiring, served, throttled>>

\* The process dies between INCR and EXPIRE.
ThrottleCrash(q) ==
  /\ "crash" \in ThrottleFaults
  /\ throttled[q].pc # "idle"
  /\ throttled' = [throttled EXCEPT ![q] = NotThrottled]
  /\ UNCHANGED <<hits, expiring, blockedFor, served>>

ThrottleNext ==
  \/ \E q \in Requests :
       \/ HandleRequest(q) \/ CheckBlocked(q) \/ Incr(q) \/ Expire(q) \/ Block(q)
       \/ Refuse(q) \/ RedisDown(q) \/ ThrottleCrash(q)
  \/ \E k \in Keys : WindowEnds(k) \/ BlockEnds(k)

ThrottleSpec == ThrottleInit /\ [][ThrottleNext]_throttleVars

\* Requests that are being handled go on, and time passes.
ThrottleFairness ==
  /\ \A q \in Requests :
       WF_throttleVars(CheckBlocked(q) \/ Incr(q) \/ Expire(q) \/ Block(q) \/ Refuse(q))
  /\ \A k \in Keys : WF_throttleVars(WindowEnds(k)) /\ WF_throttleVars(BlockEnds(k))

ThrottleFairSpec == ThrottleSpec /\ ThrottleFairness

-----------------------------------------------------------------------------
(* Properties *)

\* With Redis up, the requests of a caller that one handler lets through in a
\* window stay within the limit of each throttler that applies to it, however
\* many arrive at once.  A request counted in one window and let through in the
\* next is counted there.
ServedWithinLimit ==
  \A k \in Keys : served[k] <= LimitOf(k) + Cardinality(Requests)

\* While processes do not die a caller who is over the limit is not locked out
\* for good: the counter starts again ("the client ... how long to back off").
WindowsEnd == \A k \in Keys : hits[k] > 0 ~> hits[k] = 0

=============================================================================
