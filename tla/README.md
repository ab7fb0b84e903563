# A TLA+ development of kickat-server

kickat-server is the backend of a web shop: a NestJS application over Postgres (Prisma) and Redis,
with Razorpay as payment gateway and Ekart as courier. This directory models its protocols: orders
and their money, fulfilment and returns, carts, accounts and sessions, rate limits, reviews,
notifications, and the back office with the pages it serves. TLC checks the models on small
instances; TLAPS proves the central facts for every value of the constants.

Paths below are relative to `src/src/` (`modules/...`, `common/...`) unless they start with `docs/`.

## 1. The system

### Components

| Component | State it keeps | Operations | What makes it correct |
| :-- | :-- | :-- | :-- |
| Checkout (`checkout/checkout.service.ts`) | `Order`, `OrderItem`, stock, `StockReservation` | `getCheckout`, `placeOrder` (COD, online, buy now), replays of one `Idempotency-Key`, reservation clean-up | one order per key; it is for what the cart showed; stock leaves the shelf once; it costs what was shown |
| Payments (`payments/payments.service.ts`) | `Payment`, `WebhookLog`, `paymentStatus` | `createPaymentOrder`, `retryPayment`, `confirmCod`, `verifyPayment`, `handleWebhook` | an order is paid only with captured money, promoted once; every capture is answered for |
| Refunds (same file) | `RefundAudit`, the in-process refund locks | `initiateRefundForOrder`, refund events | money goes back at most once, only for closed orders |
| Cancellation (`orders/`, `admin/orders/`, `pending-order-cleanup.service.ts`) | `orderStatus`, stock | customer, admin, cleanup job | stock restored exactly if it was taken; CANCELLED is terminal |
| Shipments (`admin/shipping/shipping.service.ts`) | AWB, in-process locks | `createShipmentForOrder`, `assignCourier`, `updateShipmentStatus` | no shipment for an unpaid or cancelled order |
| Courier events (`ekart-webhook.service.ts`, `shipment-tracking-sync.service.ts`) | status, tracking events, RTO fields, cursor of the job | webhook, half-hourly sync | statuses only advance; an RTO restocks once; every delivery is noticed |
| Returns (`orders/`, `admin/orders/`) | `OrderReturn`, `RefundAudit`, stock | `returnOrder`, receipt, QC, COD payout, manual refund | one payout per return, goods restocked once |
| Cart (`cart/`, `wishlist/`, reorder) | Redis hash per cart, `CartItem` rows | get, add, update, remove, merge, sync, warm | a cart never asks for more than the shelf holds, a merge loses nothing |
| Fees (`admin/settings/`, `cart/`, `checkout/`) | settings rows | settings PATCH, fee computation, total shown and charged | the total charged is the total shown |
| One-time codes (`auth/`, `users/`, otp cache) | `OtpLog`, Redis counters, `User` contacts | send, verify, link, Google, clean-up | guesses are bounded, a code works once, verified contacts were proved |
| Sessions (`auth/`, `admin/auth/`) | `RefreshToken`, admin sessions, password resets | log in, refresh, logout, block, reset | only the newest token of a log-in works; a replay ends the log-in |
| Profile (`profile/`, `users/`) | addresses, payment methods, pets, viewed products | CRUD | one default; the completeness flag agrees with the rows |
| Rate limiting (`common/throttler/`) | counters and blocks in Redis, one per caller, handler and throttler | guard, `increment` | at most the limit per window; nobody is locked out for good |
| Notifications (`notifications/`) | `NotificationLog` | four channels per event, stock alerts | told once, no alert lost |
| Reviews (`reviews/`, `admin/reviews/`) | `Review`, votes, rating and count on the product | create, vote, moderate | the product's books agree with its reviews |
| Back office (`admin/products/`, `admin/categories/`, `admin/upload/`) | categories, products, variants, image files | CRUD, move, stock, bulk delete | the hierarchy is a tree, stock is the sum of the variants', one default variant, no file deleted in use |
| Pages (`products/`, `categories/`, `home/`, Redis cache) | cached answers with a TTL | cached GETs, invalidation by writers | a page shows the rows of now, or comes to |
| Search, analytics, dashboards, reports, vault, infrastructure | – | queries and glue | no protocol (section 7) |

### How they interact

All handlers share the Postgres rows. A handler is an async function; another may run at each `await`,
in the same process or in another. What protects the rows is the *conditional update* (`updateMany` with
the expected state in its `where`), the transaction, two in-process locks keyed by order, and unique
columns (`idempotencyKey`, `eventId`, `awb`, phone, e-mail). Redis holds carts, counters, cooldowns and pages,
and every caller has a fallback for when it does not answer. The gateway calls back through the browser
and through its webhook, the courier through its webhook; both deliver in any order, late and again. Jobs run
beside them: the cleanup of unpaid orders, the tracking sync, the clean-up of codes and reservations.

### What is hard

The callback, `payment.captured` and `order.paid` race to promote one order; a capture may arrive after
the order was closed. Refund results may be saved after the gateway already reported the refund's end. Cancellations,
shipments, the courier's webhook and the sync decide on rows they read earlier. The cart lives in two
stores with a fallback between them. Guesses at a code are counted by reads and writes that overlap. A refresh
dies between revoking one token and creating the next. Invalidation of a page races with the visitor who is
about to store it. `PROJECT.json` lists each such hazard with its line and the properties that cover it.

## 2. The modules

Orders and money:

| Module | Models |
| :-- | :-- |
| `ShopState` | the rows (`orders`, `payments`, `stock`, `audits`, `expired`, `logged`), the gateway's books (`captured`, `refunds`, `sent`), the handlers (`task`), and shared helpers |
| `CheckoutService`, `PaymentsService`, `RefundService`, `CancellationService`, `ShipmentCreation` | the handlers of the services of that name |
| `Shop` | their composition with gateway, crashes, database errors, fairness, and the properties |
| `StockLedger` | the abstract specification of stock: take once, give back once, never after closing |

Fulfilment (an order that was placed and paid, with the refund as one step):

| Module | Models |
| :-- | :-- |
| `FulfilmentState` | order, payment and return rows, tracking events, the courier's parcels and scans, product and variant stock, payouts |
| `CourierEvents` | `processWebhook`: ranks, duplicate check, RTO with restock and refund |
| `TrackingSync`, `TrackingCron` | what a visit of the sync does to an order or a return; which orders a run of the job visits |
| `ReturnService` | `returnOrder`, `confirmReturnReceived`, `processReturnQc`, `confirmCodRefund`, `processRefund` |
| `ShippingAdmin` | `assignCourier`, `updateShipmentStatus`, `updateOrderStatus`, the admin's cancellation |
| `Fulfilment` | their composition with crashes, and the properties |

Customers:

| Module | Models |
| :-- | :-- |
| `Cart`, `CartCheckout`, `CartSources` | the cart in Redis and its rows; checking it out, with reservations; what else fills it (wishlist, ordering again). Each extends the one before |
| `Pricing` | settings, `calculateFeesHelper`, the total shown and charged |
| `OneTimeCodes` | codes and the accounts they open |
| `CustomerSessions`, `AdminAccess` | refresh tokens of customers; sessions and resets of an admin |
| `Profile` | addresses, methods, pets, viewed products |
| `Throttle` | the guard (which throttler owns a handler, what `@Throttle` and `@SkipThrottle` change, the limits by caller) and the Redis storage, with one counter per caller, handler and throttler; `Routes` are the handlers that are asked for, one of each kind of the controllers that use the guard. A controller without it is never limited |
| `Notifications`, `Reviews` | messages and alerts; reviews, votes, moderation |

Back office:

| Module | Models |
| :-- | :-- |
| `CatalogueState` | rows and files that both services edit |
| `CategoryTree`, `ProductCatalogue`, `Catalogue` | `CategoriesService`, `ProductsService`, and both together |
| `CatalogueCache` | the pages in Redis (product by id and slug, home feed, testimonials, filters, suggestions), visitors and editors; a page is reduced to the versions of the rows it shows, a product's with the category it is in |

Instances for TLC: `MCShop`, `MCFulfilment` (with `MCFulfilmentAreas`), `MCAccounts`, `MCStorefront`,
`MCBackoffice`, `MCEventually`. Proofs: `ShopProofs`, `FulfilmentProofs`, `AccountsProofs`, `StorefrontProofs`,
`CatalogueProofs` (which starts with lemmas on sums and other recursions over finite sets and lists), `CatalogueCacheProofs`. Fulfilment and
back office run in areas that are instances of one module with other constants: `MCFulfilmentAreas` instantiates `FulfilmentProofs`, and
`MCBackoffice` the two proof modules of the catalogue, so that each lemma is proved once and holds of every area. `FulfilmentAreasProofs`
and `BackofficeProofs` put the areas together.

### Conventions

**Handlers.** A request in flight is a record in a function (`task`, `job`, `cartReq`, `request`, `admin`, ...): `pc` names
the `await` it stands at, and the other fields are what it read earlier. Every stale read of the code is
such a field. Each action is everything the code does up to the next `await` at which an interleaving matters; a transaction
and a conditional update are one step. A request that a check refuses and that writes nothing is no step at all.

**Endpoints.** The constant `Ops` (`CartOps`, `AdminOps`, ...) chooses the endpoints of an instance, `Faults`
(`CartFaults`, ...) what may go wrong: a process dies and its handlers vanish, a statement fails, the gateway
throws, Redis does not answer, a key expires.

**In-process locks** of the shop are not variables: a lock is held exactly while a handler of the same process
stands at a label between taking and releasing it (`HeldBySibling`). `InstanceOf` maps workers to processes.

**The gateway** is external: it produces the subscribed events of every outcome, keeps an event until it is
delivered, delivers in any order, and does not deduplicate refunds (the comment at
`payments.service.ts:1139`). **The courier** is external too: its parcel moves through its stages, every stage
is a scan, and a scan may be reported at any time afterwards and any number of times.

**Data.** Shop orders buy one unit each. In `Fulfilment` a COD order may have no `Payment` row (`attempt` is "none"): checkout
writes none, `confirmCod` of module `PaymentsService` does. Amounts appear in `Pricing` only, in paise. A page is the
versions of what it shows. A path is the set of the fragments the guard looks for. Time is what expires:
ages, windows and TTLs are counters of a few ticks.

**Sums and folds.** What the code adds up with a loop or a query is an operator with a name: units of a cart (`UnitsIn`, `Together`,
`RowsWith`), ratings (`Giving` a number of stars, `StarsOf`), variants' stock (`Units`), the rows an update leaves (`RowsAfter`). A quantity is mostly the
number of a set's elements, unit by unit, which TLC counts and the provers can reason about with the library's facts on cardinalities.

**Assumptions.** Every module names what it takes from its constants (`ShopAssumption`, `CartAssumption`, `ReviewsAssumption`,
`CatalogueAssumption`, ...): a null id is no id, what is counted is finite, limits are numbers. `FormsAssumption` only bounds what a product's form
may say: that it names no variant twice, and none of another product, is checked nowhere in the code and so a hypothesis of the theorems that need it (`PlainForms`). An MC module with a theorem says what
its areas rely on: one worker is one worker, ids are apart (`AreasAssumption`, `AccountsAssumption`, `BackofficeAssumption`). TLC evaluates all of them.

**Ghost variables** record what properties speak about and the code does not keep: `payouts` (calls of `confirmCodRefund` that were answered), `gone` and `shelf`
of an order, `compared`, `accepted` and `proved` of codes, `served` of windows, `received` and `crossed` of
messages, `replayed` of token families.

## 3. What is checked

| Run | Instance | Shows |
| :-- | :-- | :-- |
| `callback_and_courier` | 1 order, 3 workers in one process, all endpoints of an online or COD order with automatic shipments | `PaidOrdersWereCaptured`: nothing leaves unpaid; `BookedOrdersStand`: no customer or job cancels an order that carries an AWB |
| `two_orders` | 2 orders, 1 unit, 2 workers | `StockConserved` although the shelf is oversold; `NoStrandedMoney`; `ImplementsLedger`: the rows implement `StockLedger` |
| `refund_faults` | 2 attempts with 2 refunds each, every worker a process of its own, crashes, failing statements, failing gateway | `TypeOK`, `RefundedOrdersAreCancelled`, `OneLiveRefund` |
| `cod_and_admin` | COD, confirmation, online payment of a COD order, customer and admin cancel | `NoStockInvented` |
| `settlement` | `FairSpec`, 2 attempts, no symmetry | `CaptureSettles` (liveness), `NoStrandedMoney` |
| `fulfilment` | the cfg's own instance, area "at once": scans of booked orders, two handlers; and as `INSTANCE`s scans in turn with crashes, and delivered orders that come back, two admins | `SettlesInTurn`, `RestockedOnceAtOnce`, `CashBooksAgree` (and all types), `OneCodPayout`, `SyncAdvancesAtOnce` |
| `accounts` | nine areas over `OneTimeCodes`, `CustomerSessions`, `AdminAccess`, `Profile`, `Throttle` | `GuessesBounded`, `CodesWorkOnce`, `VerifiedInTurn`, `RotationIsSound`, `ProfileInTurn`, `ThrottledWhileRedisIsUp`, `AccountsTypeOK` |
| `storefront` | nine areas over the cart modules, `Pricing`, `Notifications`, `Reviews` | `NoEntryBeyondTheShelfAtOnce`, `MergingLosesNothing`, `OrderedAsShownInTurn`, `ShelfIsAccountedForAtOnce`, `ChargedAsShown`, `ToldOnceInTurn`, `NoAlertIsLostAtOnce`, `ReviewBooksAgreeInTurn`, `StorefrontTypeOK` |
| `backoffice` | five areas (tree, edits, counts, media, pages) over `Catalogue` and `CatalogueCache` | `TreeStandsInTurn` (and all types), `OneDefaultVariantAtOnce`, `StockIsDerivedInTurn`, `GalleryKeepsVariantsInTurn`, `PagesAreCurrentInTurn` |
| `eventually` | three areas, fair | the liveness properties `EveryDeliveryIsNoticed`, `WindowsEnd`, `EveryChangeIsShown` |
| `cancel_resurrected` | violation | a shipment overwrites a cancellation (section 4) |
| `return_not_refunded` | violation | a return that passed QC is not refunded (section 4) |

**Areas.** Modules that share no rows are checked side by side in one run: the variable `area` is chosen by the initial
state and never changes, and only the modules of that area step. An area is an `INSTANCE` of a module
with constants of its own, so that the state spaces add up instead of multiplying. A property named `...InTurn` speaks of an area
where one request is handled at a time, `...AtOnce` of one where two overlap: the names say on which side of the
line the code's guarantee lies. What is beyond the line is in section 4 or section 5.

The runs disable the deadlock check: when everything is delivered and settled, and the bounds are used up, nothing is
left to do.

**Bounds.** Two requests at once show every race of two steps; `callback_and_courier` has three workers because
a promotion, a cancellation and a shipment overlap. Two payment attempts are needed for "another
attempt was paid"; `MaxRefunds` is 2 where a second refund is the question. One order suffices for what
concerns an order's own rows, two for what they share, the stock. Guess, send and reset limits are 2 instead of 5: the limit
must be reached and passed, and two requests must be able to pass it together. Four tokens are two
log-ins with a refresh each, or one log-in with three. `MaxSaves`, `MaxModerations`, `MaxOverrides`, `MaxRestocks`, `MaxVersion` and `MaxCalls` bound
how often an admin or a customer repeats an operation that could go on forever. `Ids = {1, 2, 3}` with batches of 2 makes the job's
cursor wrap around. Limits of the throttler are divided by `Scale`; `MaxServed` ends a window's hits once the limit was passed. `Shelves` are the categories that
a product's form names, `Owns` says whether it names a field of the product: what locks the product's row. A transaction that waits for rows another one
holds starts when they are free. Pages know two levels of categories. A page of `backoffice` is kept for one tick: its question is what a page shows
while it is kept; `eventually` keeps some for two, so that pages expire apart. Symmetry is used in safety runs only.

A parcel on its way back ends with the scan "RTO Delivered" or with "Returned" (`ekart-webhook.service.ts:49`); the webhook treats the second as a
status and nothing else. An order's total is compared with what the customer expects when the request says so
(`checkout.service.ts:704`), to a rupee (`Tolerance`). A code is used up when Redis's new count, or the count of the row as it was read, reaches the limit
(`auth.service.ts:216`).

**Fairness.**

* `settlement`: weak fairness of each handler's next step (Node resumes every continuation); strong
  fairness of delivering *some* event (the gateway redelivers until it is answered; strong because a delivery needs
  an idle worker, a limit the server does not have). No customer, admin, job or bank has to act. Without
  crashes and database errors: see section 4.
* `eventually`, cron: the timer fires (weak fairness of starting, stepping and ending a run), and the courier answers for an order again and
  again if it is asked again and again (strong fairness of visiting each order; a visit may fail).
* `eventually`, throttle: requests go on (weak), Redis expires keys (weak). No crash: a process that dies between
  `INCR` and `EXPIRE` leaves a counter that never expires.
* `eventually`, pages: visitors and editors go on (weak), and time passes (strong, because a tick is disabled while nothing is
  cached). Nobody has to visit or edit.

## 4. Divergences

The two runs that expect a violation are findings of `PROJECT.json`, which quotes the sentences they refute.

* `cancel_resurrected`: the shipment's save (`shipping.service.ts:1169`) overwrites a cancellation that committed during the call
  to the courier: a cancelled, restocked, refunded order is PACKED.
* `return_not_refunded`: QC sets `paymentStatus` REFUNDED (`admin/orders/orders.service.ts:941`) and asks for the
  refund afterwards, which is refused because the order is not COMPLETED: the customer is told of a refund that never happens.

Other sentences of documents and comments are stated as properties too, each in the last section of its module ("Promises of
documents that TLC refutes"), or are properties of a run that fail in a wider instance. To see one fail, change a cfg as
described and check the one property.

| Property | Instance | What happens |
| :-- | :-- | :-- |
| `NoStrandedMoney` | `two_orders` with `Ops = {"placeOnline", "webhook", "adminCancel"}` | an admin's cancellation decides on the order it read first and skips the refund of a payment confirmed since |
| `NoStrandedMoney` | the same with `{"placeOnline", "webhook"}`, `Faults = {"db"}` | an event is logged as done before it is processed; when processing fails the redelivery is "already processed" |
| `NoStrandedMoney` | `Ops = {"placeCod", "createPayment", "webhook", "cancel"}` | a customer cancels a COD order while it is being paid online: `orders.service.ts:1105` tests the row read before the transaction |
| `EveryCaptureRefunded` | the same with `{"placeOnline", "retry", "webhook", "cancel", "cleanup"}` | two attempts are captured after the order was closed: only one is refunded or flagged |
| `NoStockInvented` | `{"placeOnline", "adminCancel"}` | an admin cancels a hidden order and restocks what never left |
| `RefundedIsTerminal` | `refundCreated` and `refundProcessed` subscribed | `refund.created` is handled like `refund.processed`; a late save puts REFUNDED back to REFUND_INITIATED |
| `OneOpenAttempt` | `{"placeOnline", "replay"}` | two replays both find no open attempt and both create one |
| `BookedOrdersStand` | `Ops = {"placeCod", "createPayment", "webhook", "cancel"}`, shipping on, 3 workers in one process, `Subscribed = {"captured"}` | a COD order that is paid online gets a second shipment handler; the first, which waited with an order it read as CANCELLED, finishes late and writes CANCELLED over a PACKED order with an AWB |
| `PackedStaysPacked` | `{"placeCod", "confirmCod"}` with shipping | `confirmCod` puts a PACKED order back to PLACED |
| `PaidOrdersWereCaptured` | `authorized` subscribed | an authorization makes an order paid and visible |
| `RestockedAtMostOnce`, `RestockedWhereTaken` | `fulfilment`, delivered orders | two QC decisions both restock; a restock adds to the product row as well as to the variant's |
| `NeverBackwards` | `fulfilment` with two workers on the webhook | the rank check uses the status read before the transaction |
| `CheckoutSeesTheCart` | `storefront` with `Areas = {"buying"}`, `Requests = {q1}` | GET /checkout reads the rows and not the hash: it answers "Cart is empty" for a cart that lives in Redis |
| `MovedIsShown` | the same | an item moved from the wishlist becomes a row, and is not in the Redis cart that is shown |
| `OneRowPerItem` | `storefront` with `Areas = {"carts"}` | a null `variantId` defeats the unique index: two additions create two rows |
| `AlertsRearm`, `ClaimsAreAtomic` | `storefront` with `Areas = {"alerts"}` | an alert claimed once is never sent again; two claims both find no row |
| `LifetimeKept` | `accounts` with `Tabs = {t1}`, `AdminOps = {"login", "logout"}` | `admin/auth/auth.service.ts:215` infers "remember me" from the time between creation and expiry: a short session that was refreshed for a week becomes a long one |
| `NoCircularHierarchy` | two overlapping moves in `Catalogue` | each move checks the tree before the other is saved: a cycle |
| `OneDefaultVariant` | `Edits` with `Owns <- {FALSE}` | two PATCHes of a product's variants only: the first statement has no columns, writes and locks no row (`products.service.ts:1180`), and each inserts a default |
| `OneDefaultVariant` | `Counts` with a list that names `v1` twice | nothing refuses it: the second mention takes the first one's default away |
| `StockIsDerived` | `Counts` with `"foreign"` in `CatalogueOps` | a stock update or a form writes any variant by its id (`products.service.ts:1336`, `:1693`) and adds up the product it was sent for |
| `LiveProductsInLiveCategories` | `Tree` with `"update"` and `Shelves <- {Nobody, c2}`, or with `"create"` | the category of a form only has to exist: a product on sale is put into a deleted category (`products.service.ts:934`) |
| `StockIsDerived` | in turn, with `Stocks = {-1, 2}` | a product's own stock is written beside its variants' (`products.service.ts:1728` says it is derived) |

Without a run: `app-throttler.guard.ts` gives the three `otp_*` throttlers the paths with `/otp` or `/verification`. `/auth/email-otp/...` and
`/users/{email,mobile}/{send-verification,verify}` have neither, so `default` (120 a minute) owns them and the `otp_*` limits of their
`@Throttle` decorators are never looked at. `Handlers` of `Throttle` models it so.

Deleting a category, announced as "Safe deletion with product dependency validation", deletes its products with it
(`DeleteCategory` cascades).

The passing runs leave out exactly the operation or the overlap that causes the divergence they would meet; this is
visible in their `Ops`, `Faults` and areas, and it is an explicit assumption of the theorems.

## 5. Observations without a property

Met while modelling, visible in the actions, and not the subject of a run:

* Cart: removing the last item of a Redis cart brings stale rows of the database back; warming a cart
  overwrites an item added meanwhile; Redis is emptied before a COD order commits; an online buy-now empties the whole
  cart; two place-orders at once write its rows twice; ordering a simple product again fails; a merge during which Redis goes away
  loses the guest's entries. Reservations hold no stock.
* Accounts: two overlapping refreshes of one token leave two that work; `deleteSession`'s guard can never fire; the hourly clean-up
  deletes rows that the hourly limit counts; attempts at an admin's reset are counted by read and write; `isPhoneVerified`
  survives a change of the phone; a blocked customer can log in again; two overlapping additions give two default payment methods.
* Settings: overlapping saves lose one of them, a bulk save may stop half way; the COD minimum and maximum are never enforced; COD
  switched off between the check and the reading of its fee drops the fee.
* Notifications: COD orders and promotions never evaluate stock alerts; a mail that failed is never sent again.
* Reviews: two votes taken back at once lose one; a new review uses the product's count read before the transaction; the spam
  toggle restores a status read earlier.
* Fulfilment: a parcel whose last scan is 'Returned' is RETURNED with neither restock nor refund, unlike one that came back as RTO.
* Rate limiting: a process that dies between `INCR` and `EXPIRE` leaves a counter that locks its caller out.
* Catalogue: bulk status changes, sales and ratings do not invalidate pages; a category that is edited stays as it was on the pages of its products for up to 30 minutes; a variant image that is also in the gallery keeps the URL that its file had before it was moved; deleting a product does not drop its slug's page, deleting a
  category no product's page; a product can be created in or moved to a deleted category; a refused creation has moved its images; two stock updates at once
  lose the sum; a sale decrements the variant and not the product; two products may take one SKU at once.
* Shipping: `assignCourier` and `updateShipmentStatus` write what they decided on a row read earlier; an RTO sets REFUND_INITIATED
  before it asks for the refund, which is then refused; a second creation that waited on the lock books a second shipment.

## 6. What is proved

For all constants that satisfy the named `ASSUME`s of the modules (null ids are not ids, bounds are numbers, sets that are
counted or searched for a smallest element are finite): any number of orders, attempts, workers, processes, codes, tokens, carts
and messages. Each of these is a property of a run as well, except where the statement says otherwise below.

| Theorem | Further assumption | Statement |
| :-- | :-- | :-- |
| `ShopProofs!TypeCorrect` | none | `Spec => [](TypeOK /\ Busy)` |
| `ShopProofs!PaidCaptured` | `"authorized" \notin Subscribed` | `Spec => []PaidOrdersWereCaptured` |
| `ShopProofs!RefundedCancelled` | `~ShippingConfigured` | `Spec => []RefundedOrdersAreCancelled` |
| `ShopProofs!CancelledTerminal` | `~ShippingConfigured` | `Spec => CancelledIsTerminal` |
| `ShopProofs!OneRefundIsLive` | `~ShippingConfigured` | `Spec => []OneLiveRefund` |
| `ShopProofs!MoneyIsAnswered` | `SettlementAssumption`: no shipping, no crash and no failing statement, no admin cancellation, not both COD orders and customers' cancellations, captures are heard of | `Spec => []NoStrandedMoney` |
| `ShopProofs!BookedStay` | `BookingAssumption`: COD orders are not paid online | `Spec => BookedOrdersStand` |
| `ShopProofs!StockIsConserved` | `~ShippingConfigured`, no admin cancellation | `Spec => []StockConserved` |
| `ShopProofs!ShopImplementsLedger` | the same | `Spec => ImplementsLedger` |
| `ShopProofs!StockIsNeverInvented` | `StockAssumption`: no shipping, not both online orders and admin cancellations | `Spec => []NoStockInvented` |
| `FulfilmentProofs!FulfilmentTyped` | none | `FulfilmentSpec => []FulfilmentTypeOK` |
| `FulfilmentProofs!PaidOutOnce` | none | `FulfilmentSpec => []OneCodPayout` |
| `FulfilmentProofs!SyncMovesForward` | none | `FulfilmentSpec => SyncOnlyAdvances` |
| `FulfilmentProofs!RestockedOnce` | `CourierAlone`: neither QC nor admin cancellation, orders start booked with Ekart | `FulfilmentSpec => []RestockedByCourierOnce` |
| `FulfilmentProofs!CodBooksStand` | `CashIsKept`: no crash, no admin books FAILED or REFUNDED by hand, COD orders start PENDING or COMPLETED | `FulfilmentSpec => []CodBooksAgree` |
| `FulfilmentProofs!OrdersSettle` | `OneAtATime`: one handler, which may die, on webhook, sync and assignment; orders without an AWB are not yet SHIPPED | `FulfilmentSpec => []SettlesAtCourierStatus` |
| `FulfilmentAreasProofs!OrdersSettleInTurn` | `AreasAssumption` | `MCSpec => []SettlesInTurn` |
| `FulfilmentAreasProofs!RestockedOnceInArea` | `AreasAssumption` | `MCSpec => []RestockedOnceAtOnce` |
| `FulfilmentAreasProofs!BooksAgreeInAreas` | `AreasAssumption` | `MCSpec => []CashBooksAgree` |
| `FulfilmentAreasProofs!SyncAdvancesInAreas` | `AreasAssumption` | `MCSpec => SyncAdvancesAtOnce` |
| `AccountsProofs!RotationSound` | one client at a time | `SessionsSpec => []RotationIsSound` |
| `AccountsProofs!GuessesAreBounded` | none | `CodesSpec => [](GuessesBounded /\ CodesUsedOnce)` |
| `AccountsProofs!ResetsWorkOnce` | none | `CodesSpec /\ AdminSpec => []CodesWorkOnce` |
| `AccountsProofs!LimitsHold` | Redis answers | `MCSpec => []ThrottledWhileRedisIsUp` |
| `AccountsProofs!VerifiedAreProved` | one caller in the area | `MCSpec => []VerifiedInTurn` |
| `AccountsProofs!ProfileStaysConsistent` | one request at a time, but for the visits of pages, which overlap | `MCSpec => []ProfileInTurn` |
| `StorefrontProofs!CartsStayWithinTheShelf` | `ShelfIsLeftAlone`: no sale or delivery changes the stock, no merge, wishlist or reorder | `MCSpec => []NoEntryBeyondTheShelfAtOnce` |
| `StorefrontProofs!LoginsLoseNothing` | one request at a time, which may die | `MCSpec => MergingLosesNothing` |
| `StorefrontProofs!ChargedAsAgreed` | none | `MCSpec => ChargedAsShown` |
| `StorefrontProofs!SettingsServeEveryCheckout` | none | `MCSpec => []SettingsStayUsable` |
| `StorefrontProofs!AlertsArrive` | no execution dies | `MCSpec => []NoAlertIsLostAtOnce` |
| `StorefrontProofs!EventsAreToldOnce` | one execution at a time, none dies | `MCSpec => []ToldOnceInTurn` |
| `StorefrontProofs!ReviewsAddUp` | one request at a time | `MCSpec => []ReviewBooksAgreeInTurn` |
| `StorefrontProofs!OrdersAreAsShown` | one request at a time | `MCSpec => []OrderedAsShownInTurn` |
| `StorefrontProofs!OrdersTakeWhatTheySell` | none | `MCSpec => []ShelfIsAccountedForAtOnce` |
| `CatalogueProofs!CatalogueTypes` | none | `CatalogueSpec => []CatalogueTypeOK` |
| `CatalogueProofs!OneDefaultHolds` | `PlainForms`: a form names a variant once and none of another product; `Serial`: every update sends a field of the product itself, or one request at a time | `CatalogueSpec => []OneDefaultVariant` |
| `CatalogueProofs!StockDerivedInTurn` | `OneAtATime`, `NoSales` (nor a product's own stock in a form), `PlainForms` | `CatalogueSpec => []StockIsDerived` |
| `CatalogueProofs!TreeStands` | one request at a time | `CatalogueSpec => [](NoCircularHierarchy /\ LiveUnderLive)` |
| `CatalogueProofs!ShelvesStand` | one request at a time, none creates a product or gives one another category (`Shelves` within `{Nobody}`); from any rows in order (`InOrder`) | `... => []LiveProductsInLiveCategories` |
| `CatalogueProofs!GalleryKeepsVariants` | `OneAtATime`, `PlainForms` | `CatalogueSpec => [][GalleryStepKeepsVariants]_catalogueVars` |
| `CatalogueCacheProofs!PagesCurrentInTurn` | no id is a slug (`Named`); no edit that invalidates nothing, Redis answers (`Told`) | `InTurnSpec => [](DetailsAreCurrent /\ FeedIsCurrent)` |
| `BackofficeProofs!OneDefaultAtOnce` | none | `MCSpec => []OneDefaultVariantAtOnce` |
| `BackofficeProofs!StockDerivedInArea` | none | `MCSpec => []StockIsDerivedInTurn` |
| `BackofficeProofs!PagesCurrentInAreas` | none | `MCSpec => []PagesAreCurrentInTurn` |
| `BackofficeProofs!GalleryKeepsInArea` | none | `MCSpec => GalleryKeepsVariantsInTurn` |
| `BackofficeProofs!TreeStandsInAreas` | none | `MCSpec => []TreeStandsInTurn` |

A theorem about `MCSpec` is about the very composition that TLC runs, with its constants open; what an area restricts (one worker, which
endpoints) is part of that composition. `CodBooksAgree` and `SettlesAtCourierStatus` are what `CashBooksAgree` and `SettlesInTurn` say of their areas.
`CancelledIsTerminal` is part of no run since `RefundedOrdersAreCancelled` is proved together with it; `SettingsStayUsable` is a
conjunct of `StorefrontTypeOK`.

The further assumptions are not convenience. Section 4 has a counterexample without each part of `~ShippingConfigured`
(`cancel_resurrected`), `"authorized"`, `SettlementAssumption`, `StockAssumption` and `BookingAssumption`, of `CourierAlone`
(`RestockedAtMostOnce`), `OneAtATime` (`NeverBackwards`) and of one execution at a time (`ClaimsAreAtomic`); section 5 has the two
overlapping refreshes, the merge during which Redis goes away, the lost counter, and the edits that drop no page. Section 4 also has counterexamples for
`PlainForms`, `Serial`, `NoSales` and the products that are created in or moved to a deleted category. Without "one request at a time" overlapping moves close a cycle (`NoCircularHierarchy`), stock updates lose a sum and votes are lost. A merge, a moved wish and a repeated order
compare nothing with the shelf, and a process that dies takes the alert it had claimed with it.

**Arguments.**

* *Types of the shop.* `TypeInv` adds to `TypeOK` that a busy handler works on an order that exists (`Busy`); without it a
  handler could write the row of an order nobody placed. One lemma per action.
* *Paid orders were captured.* `MoneyInv` says why a handler may trust what it carries: a capture, order-paid or refund event
  exists only for a captured attempt (`GatewayBooks`), and a handler at a promoting, refunding or shipping label works on an
  order that was captured or is COD (`MoneyHandlers`). Captures are never undone and an order's method never changes
  (`Lasting`), so the claims of the other handlers survive a step; this frame lemma is proved once and used by every action.
* *Answers to captures.* `SettlementInv`, on top of `PayoutInv`: a captured attempt has an event that was sent and not yet logged, or its order
  is `Accounted`: a handler that knows of the capture has not answered it (`Answering`), the order stands paid, or it is CANCELLED
  with an audit or a handler that is about to write one. Each step keeps the debtor or passes the debt on; the same holds of what makes
  the code skip a redelivered capture (`MarkedAccounted`, `PaidCancelled`). The steps that would lose the debtor are the assumptions.
* *One live refund.* `PayoutInv`: whoever is refunding a paid order is alone, because the claim is conditional on CANCELLED and
  COMPLETED, or an audit stops everybody later at the live-refund guard (`OneRefunds`, `OpenIsGuarded`). A refund counts as open from the
  gateway's acceptance until the shop has dealt with its failure, if it ever fails.
* *Shipments.* `BookingInv`: the order that a handler is booking is COD, paid or CANCELLED (`Settled`), so no payment of it is claimed
  again and no second handler books it (`OneShipper`). The save, which writes the status it read before the courier was called,
  therefore only reaches an order without an AWB; and the cancellations ask for the AWB themselves.
* *Refunds and CANCELLED.* `RefundInv`: a handler between `refund_order` and `refund_save`, or processing a refund event with the
  view it read, works on a CANCELLED order (`Decided`). That CANCELLED lasts is proved together with it: each depends on the other.
* *Stock.* `StockInv` adds that a handler in a customer's cancellation works on an order that took its unit, and that a COD order is
  never hidden. Each action moves one order between `open`, `held` and `closed` and the stock by the matching amount; the same
  case analysis shows that each step is a `Take`, `GiveBack`, `Abandon` or stutter of `StockLedger`, whose `fate` is `FateOf` of the rows.
* *Fulfilment.* Types are inductive only together with what a handler may have decided: a scan carries a stage, a return's poll a
  return status. A COD payout leaves a record, the endpoint refuses an order that has one, no handler deletes records, and check and write are one
  conditional step: hence one payout, although statuses are set back and returns received again. A sync under
  way carries a decision that is good for the row it read (`Decided`); its save is conditional on that very status, so it is good for the row it writes.
* *Restock after RTO.* The scan that brings an order back is logged once, and its handler is the only one that may restock, until it
  has done so or dies; before that scan is in the log there is none (`RestockInv`).
* *Cash.* A COD order without a payment row has nothing to agree with. When the order says COMPLETED and its payment row, if there is one, does not, a handler stands between the two writes and will settle the row
  (`Settler`); this is what a crash breaks.
* *Tracking.* The order's status is the one its parcel's furthest reported scan maps to, or a scan not yet handled takes it there
  (`TrackInv`, which also bounds the status of an order whose parcel has not moved).
* *Rotation.* Of each family only the newest token may work, and the invariant says what a refresh knows between its read,
  its revocation and its creation: that the token it replaces was the newest, and that nothing works in between. A replay
  revokes the family; the invariant keeps a dead family dead.
* *Codes.* A request at the comparison holds a right to one more guess: `compared[i]` plus the number of requests at the comparison
  never exceeds the limit less one plus the number of callers, because a row is read only while its counter is below the
  limit, and the counter lags behind `compared[i]` by the requests on their way to count (`GuessesAccounted`). Likewise for codes about to be
  accepted (`AcceptsAccounted`). The counting is by the library's theorems on finite sets, in one lemma (`MovesCount`) for every step.
* *Resets.* As with codes, by counting the requests between reading and writing: the acceptances of a reset and the requests about to
  accept it never exceed the number of requests, and an hour's rows exceed the limit by those about to create one at most.
* *Limits.* `ThrottleInv`: for each counter, that is for each caller, handler and throttler that applies to it, the requests served in the window and those that were counted and are on their way through are
  no more than the counter, up to the limit, and one per request that may have survived from the window before (`Covered`).
* *Verified addresses.* `VerifiedInv`: an account with a verified address is in `proved` with it, and one with a Google id is verified; a request that is about to
  write an address typed into the profile, which proves nothing, goes on only while the account is not verified, and nobody else is
  under way to verify it meanwhile.
* *Profile.* `ProfileInv` says which rows have a default, and that the flag was computed from the rows after the last write. Overlapping visits of
  pages only share the list of viewed products: it is within its limit, or a visit is under way that bounds
  it again (`PagesInv`).
* *Carts.* `CartInv`: what a request will write was compared with the shelf (`Compared`); a row id that it holds still names a row of
  the item it read (`KeepsItem`), because the id of a new row is one that nobody holds. Each action ends, begins or moves one request,
  and changes a hash or the rows by something that was compared.
* *Logins.* While a merge is written, each of the guest's entries is still to be written or already in the customer's hash
  (`Covers`). The fold over the guest's rows is unrolled for the one row the instance can have.
* *Settings.* An edit carries the whole group it will save, which is valid because it is a valid group with one edit applied to it and
  checked; what other admins save meanwhile does not matter, since the group is written whole.
* *Charges.* `VisitInv`: what a customer was shown was computed from the settings of the save that is noted (`seen`), and while nothing was saved since the
  groups read for the order are those, so the fees of the options chosen add up to the total shown and those told of.
* *Alerts.* Each level was told of or an execution still has it on its list; a log row of an alert stands for a message that went out or
  that its claimer is about to send. An execution that skips a channel because of a row hands its debt to that claimer (`AlertsInv`).
* *Events in turn.* What went out is in the log, or the one execution is about to log it; what it is about to send has not gone out
  (`ToldInv`).
* *Orders as shown.* `BuyInv`: what a request read is still what the rows and the hash say (`Sees`), since nobody else is under way; of a
  cart that lives in both, what the hash shows is what the order takes over from it. The units of an order are counted one by one, so that joining
  lists that name an item twice is the union of disjoint sets.
* *Placing.* `PlacingInv`: the units that left the shelf are those of the orders that stand, each unit of each order counted once. A request
  at its transaction is alone with its key, which has no order yet, because the key is unique; it takes units and writes the order in one
  step. Payment and expiry of an online order move its units between the kinds of orders and never to a second one.
* *Ratings.* `RatingInv`: the count is the number of public reviews, a review's helpful count the number of its voters. The rating, which a
  new review updates by a rounded mean, stays between the worst and the best of the public stars: rounding to tenths never leaves an interval
  whose ends are whole, and moderation computes it anew.
* *One default.* `DefaultsInv`: the form in a request is normalised to one default before anything is written, and the transaction writes its rows and
  deletes the others. An update that also writes the product's row keeps the next one out until it commits; one that does not has the rows it found
  under way (`Held`), and is followed by the others only because requests take turns then. New rows get ids that no row has (`NewIds`).
* *Derived stock.* `StockInv`: the number that a request is about to save with the product is the sum of the rows it writes with it; that a
  sum over the list of a form is the sum over the rows it leaves is shown by taking the list's rows away one by one.
* *The tree.* `TreeInv`: `below` is acyclic because of a set of ancestors that is closed upwards and does not hold the moved category
  while the walk to the root goes on; a deletion carries the set of what hangs below, of which more and more is deleted. `ShelfInv` adds the
  products of those categories, which stay where they are as long as no form names a category.
* *Images.* `GalleryInv`: what an update will delete at its end (`garbage`) was shown by no variant of the form it wrote, and whatever is written
  in between is its own.
* *Pages.* `PagesInv`: a product's page that is kept shows the product of now in its category of now, and the home page shows all rows of now, or an
  editor that has written is under way and will drop it (`Awaited`), in which case nobody reads; a visitor about to keep a page has read the
  rows of now. Nothing drops a product's page when its category is edited: the version of the category on it is one of before. Slugs of
  different products differ, so dropping a product's pages drops nobody else's answer.
* *Sums.* A sum over a finite set or list is a recursive function; that it grows by what is added is proved by taking a smallest set for
  which it fails (`SmallestSet`), which needs well-foundedness of inclusion and no theorem with a predicate as parameter.

All these invariants were checked by TLC on the runs' instances before they were proved.

**Only model-checked:** what holds under fairness, `CaptureSettles`, `EveryDeliveryIsNoticed`, `WindowsEnd` and `EveryChangeIsShown` (the
provers have no `ENABLED`), and `StorefrontTypeOK` and `AccountsTypeOK`, which put the types of nine areas each together; the
invariants proved for an area contain the types their proofs need. Every other property of a passing run is a theorem.

## 7. Not modelled

* Analytics, dashboards, reports, customer lists, search and recommendations: queries that write nothing, but for the cached
  suggestions and filters, which are pages of `CatalogueCache`. The vault is a key behind a PIN.
* `LruThrottlerStorage`: not installed.
* The courier's and the gateway's HTTP clients, signatures, payload parsing, invoices, mail texts, DTO validation.
* How many shipments a courier booked for one order, and the provider's cancellation after an order's.
* Amounts of refunds: each is for the order's whole total. Several items of an order: the same conditional updates inside one
  transaction.
* When several audits of an order are open, refund events settle any of them (the code takes the newest); the model allows more.
* Rows nobody branches on: general settings, attributes, dimensions, banners, blogs, and testimonials but for their cached page.
* The lists of categories of `HomeService` (`getCategories`, `getCategoryTree`, `getCategoryById`): no controller routes them, and what `/categories`
  answers is not cached.

## 8. What is left

1. The types of all areas of `accounts` and `storefront` as theorems.
2. The courier's own shipments, composed with `ShipmentCreation`: one booked shipment per order.
3. An abstract atomic cart that the two stores implement where Redis stays up.
