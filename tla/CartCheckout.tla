---------------------------- MODULE CartCheckout ----------------------------
(* CheckoutService with the cart it empties: GET /checkout, place-order from *)
(* the cart or past it (buy now), the reservations it keeps, the payment     *)
(* that confirms an online order, and the job that cleans reservations up.   *)
(* The payment attempts, refunds and shipments of an order are module Shop's.*)
EXTENDS Cart

VARIABLES
  placed,     \* the order of each Idempotency-Key
  reserved    \* the StockReservation rows: no stock is held by them

checkoutVars == <<placed, reserved>>
cartCheckoutVars == <<cartVars, checkoutVars>>

\* `shown` is history: what GET /cart would have shown when the order was asked for.
PlacedOrder == [status: {"none", "pending", "placed"}, rows: SUBSET CartRow,
                buyNow: BOOLEAN, shown: Contents]
NotPlaced == [status |-> "none", rows |-> {}, buyNow |-> FALSE, shown |-> Empty]

ReservationState == {"none", "open", "expired", "fulfilled"}

CheckoutTypeOK ==
  /\ placed \in [Keys -> PlacedOrder]
  /\ reserved \in [Reservations -> ReservationState]

CartCheckoutInit ==
  /\ CartInit
  /\ placed = [k \in Keys |-> NotPlaced]
  /\ reserved = [r \in Reservations |-> "none"]

\* The next row, as long as there is one.
Unused == {v \in Reservations : reserved[v] = "none"}
NextReservation == IF Unused = {} THEN Nothing ELSE CHOOSE v \in Unused : TRUE
Reserve == reserved' = IF Unused = {} THEN reserved ELSE [reserved EXCEPT ![NextReservation] = "open"]

RowsWith(rows, i) == {r \in rows : r.item = i}
Units(rows, i) == Together(RowsWith(rows, i))
CartContents == [i \in Items |-> Shown("user", i)]

-----------------------------------------------------------------------------
(* GET /checkout *)

\* The rows are read, not the hash; every visit makes a reservation.
GetCheckout(q) ==
  /\ "checkout" \in CartOps
  /\ IF RowsOf("user") = {}
     THEN BeginCart(q, "no_cart", "user", NoCartRequest.item, 0, 0) /\ UNCHANGED reserved
     ELSE AtCart(q, "idle") /\ UNCHANGED cartReq /\ Reserve
  /\ UNCHANGED <<shelf, offSale, redisUp, cached, saved, placed>>

\* 409 "Cart is empty"
NoCart(q) ==
  /\ AtCart(q, "no_cart")
  /\ CartEnd(q)
  /\ UNCHANGED <<shelf, offSale, redisUp, cached, saved, checkoutVars>>

\* The page of one item bought past the cart.
GetBuyNowCheckout(q, i, n) ==
  /\ "checkout" \in CartOps
  /\ i \notin offSale /\ n <= shelf[i]
  /\ AtCart(q, "idle") /\ Reserve
  /\ UNCHANGED <<cartVars, placed>>

-----------------------------------------------------------------------------
(* POST /checkout/place-order *)

\* A key that has an order is answered with it.  The item bought past the cart
\* is checked when the request comes.
PlaceOrder(q, k) ==
  \E online, buyNow \in BOOLEAN, i \in Items, n \in Amounts :
    /\ (IF online THEN "place_online" ELSE "place_cod") \in CartOps
    /\ buyNow => "buy_now" \in CartOps
    /\ placed[k].status = "none"
    /\ IF buyNow THEN i \notin offSale ELSE i = NoCartRequest.item /\ n = Min(Amounts)
    /\ AtCart(q, "idle")
    /\ cartReq' = [cartReq EXCEPT ![q] =
         [NoCartRequest EXCEPT
            !.pc = "reserve",
            !.rows = IF buyNow THEN {[id |-> Min(RowIds), owner |-> "user", item |-> i, quantity |-> n]}
                     ELSE {},
            !.shown = CartContents,
            !.order = [NoChoice EXCEPT !.key = k, !.online = online, !.buyNow = buyNow]]]
    /\ UNCHANGED <<shelf, offSale, redisUp, cached, saved, checkoutVars>>

\* An open reservation of the customer is used, else one is made.
TakeReservation(q) ==
  /\ AtCart(q, "reserve")
  /\ \E v \in Reservations \cup {Nothing} :
       /\ IF \E r \in Reservations : reserved[r] = "open"
          THEN v # Nothing /\ reserved[v] = "open" /\ UNCHANGED reserved
          ELSE v = NextReservation /\ Reserve
       /\ cartReq' = [cartReq EXCEPT ![q].pc = IF cartReq[q].order.buyNow THEN "place" ELSE "sync",
                                     ![q].order.reservation = v]
  /\ UNCHANGED <<shelf, offSale, redisUp, cached, saved, placed>>

\* syncCartToDb does nothing when the hash is empty.
SyncRead(q) ==
  /\ AtCart(q, "sync")
  /\ cartReq' = [cartReq EXCEPT ![q].pc = IF IsCached("user") THEN "sync_delete" ELSE "read_rows",
                                ![q].basket = Hash("user")]
  /\ UNCHANGED <<shelf, offSale, redisUp, cached, saved, checkoutVars>>

\* Mutant: the rows of an earlier checkout stay.
NoRows == {}

OldRows == RowsOf("user")

\* deleteMany takes the rows that are committed when it runs.
SyncDelete(q) ==
  /\ AtCart(q, "sync_delete")
  /\ cartReq' = [cartReq EXCEPT ![q].pc = "sync_commit", ![q].rows = OldRows]
  /\ UNCHANGED <<shelf, offSale, redisUp, cached, saved, checkoutVars>>

\* One row per entry: bijections between the entries and free ids are all alike,
\* so the least ids serve.
SyncedRows(q) ==
  LET wanted == {i \in Items : cartReq[q].basket[i] > 0}
      ids == CHOOSE f \in [wanted -> FreeIds] : \A i, j \in wanted : i # j => f[i] # f[j]
  IN  {[id |-> ids[i], owner |-> "user", item |-> i, quantity |-> cartReq[q].basket[i]] : i \in wanted}

\* The rows of another sync may be there by now: a variant's would be a second
\* one and the transaction fails, a product's is not.
SyncCommit(q) ==
  LET gone == {r.id : r \in cartReq[q].rows}
      kept == {r \in saved : r.id \notin gone}
      clash == \E r \in kept : r.owner = "user" /\ r.item \in Variants /\ cartReq[q].basket[r.item] > 0
  IN
  /\ AtCart(q, "sync_commit")
  /\ IF clash THEN UNCHANGED saved /\ CartEnd(q)
     ELSE /\ Cardinality(FreeIds) >= Cardinality({i \in Items : cartReq[q].basket[i] > 0})
          /\ saved' = kept \cup SyncedRows(q)
          /\ cartReq' = [cartReq EXCEPT ![q].pc = "read_rows", ![q].rows = {}, ![q].basket = Empty]
  /\ UNCHANGED <<shelf, offSale, redisUp, cached, checkoutVars>>

\* An empty cart, or one with a product that is off sale, is refused.
ReadRows(q) ==
  /\ AtCart(q, "read_rows")
  /\ IF RowsOf("user") = {} \/ \E r \in RowsOf("user") : r.item \in offSale
     THEN CartEnd(q)
     ELSE cartReq' = [cartReq EXCEPT ![q].pc = "place", ![q].rows = RowsOf("user"),
                                     ![q].basket = Empty]
  /\ UNCHANGED <<shelf, offSale, redisUp, cached, saved, checkoutVars>>

\* COD takes the units line by line, each where there are enough; an online
\* order only looks at each line.
Suffices(online, rows) ==
  IF online THEN \A r \in rows : r.quantity <= shelf[r.item]
  ELSE \A i \in Items : Units(rows, i) > 0 => Units(rows, i) <= shelf[i]

\* Mutant: the transaction of a second request with the same key is not refused.
AlwaysNew(k) == TRUE

\* idempotencyKey is unique: the second transaction fails with P2002, and its
\* request is answered with the first order.
KeyIsNew(k) == placed[k].status = "none"

\* Another transaction holds a row that this one needs, until it commits.
Blocked(q) ==
  \E x \in Requests \ {q} :
    /\ AtCart(x, "commit")
    /\ \/ cartReq[x].order.key = cartReq[q].order.key
       \/ \E r \in cartReq[x].rows, s \in cartReq[q].rows : r.item = s.item

Accepted(q) ==
  LET order == cartReq[q].order IN
  /\ ~Blocked(q) /\ KeyIsNew(order.key) /\ Suffices(order.online, cartReq[q].rows)

\* A COD order from the cart clears the hash, without waiting for the answer,
\* before its transaction commits: the two may happen in either order.
EmptiesCart(q) == ~cartReq[q].order.online /\ ~cartReq[q].order.buyNow

ClearBeforeCommit(q) ==
  /\ AtCart(q, "place") /\ EmptiesCart(q) /\ Accepted(q)
  /\ DropFields("user", Items)
  /\ CartStep(q, "commit")
  /\ UNCHANGED <<shelf, offSale, redisUp, saved, checkoutVars>>

\* What the transaction does.
Commit(q) ==
  LET r == cartReq[q] IN
  /\ placed' = [placed EXCEPT ![r.order.key] =
       [status |-> IF r.order.online THEN "pending" ELSE "placed", rows |-> r.rows,
        buyNow |-> r.order.buyNow, shown |-> r.shown]]
  /\ shelf' = IF r.order.online THEN shelf ELSE [i \in Items |-> shelf[i] - Units(r.rows, i)]
  /\ IF EmptiesCart(q)
     THEN /\ saved' = saved \ RowsOf("user")
          /\ reserved' = [v \in Reservations |-> IF v = r.order.reservation THEN "fulfilled" ELSE reserved[v]]
     ELSE UNCHANGED <<saved, reserved>>

CommitOrder(q) ==
  /\ \/ AtCart(q, "place") /\ Accepted(q)
        /\ IF EmptiesCart(q) THEN CartStep(q, "clear") ELSE CartEnd(q)
     \/ AtCart(q, "commit") /\ CartEnd(q)
  /\ Commit(q)
  /\ UNCHANGED <<offSale, redisUp, cached>>

RefuseOrder(q) ==
  /\ AtCart(q, "place") /\ ~Blocked(q) /\ ~Accepted(q)
  /\ CartEnd(q)
  /\ UNCHANGED <<shelf, offSale, redisUp, cached, saved, checkoutVars>>

ClearHash(q) ==
  /\ AtCart(q, "clear")
  /\ DropFields("user", Items)
  /\ CartEnd(q)
  /\ UNCHANGED <<shelf, offSale, redisUp, saved, checkoutVars>>

-----------------------------------------------------------------------------
(* The payment of an online order, and time *)

\* promoteOrderAfterPayment, which claims the order once (module
\* PaymentsService): the units are taken even if there are not enough, the
\* customer's whole cart is emptied, and all their reservations are done.
ConfirmPayment(q, k) ==
  /\ "pay" \in CartOps
  /\ placed[k].status = "pending"
  /\ BeginCart(q, "clear", "user", NoCartRequest.item, 0, 0)
  /\ placed' = [placed EXCEPT ![k].status = "placed"]
  /\ shelf' = [i \in Items |-> shelf[i] - Units(placed[k].rows, i)]
  /\ saved' = saved \ RowsOf("user")
  /\ reserved' = [v \in Reservations |-> IF reserved[v] \in {"open", "expired"} THEN "fulfilled"
                                         ELSE reserved[v]]
  /\ UNCHANGED <<offSale, redisUp, cached>>

ReservationExpires(v) ==
  /\ reserved[v] = "open"
  /\ reserved' = [reserved EXCEPT ![v] = "expired"]
  /\ UNCHANGED <<cartVars, placed>>

\* StockReservationCleanupService: up to 100 rows per run, each claimed by an
\* updateMany that only one process can win.
CleanReservation(v) ==
  /\ reserved[v] = "expired"
  /\ reserved' = [reserved EXCEPT ![v] = "fulfilled"]
  /\ UNCHANGED <<cartVars, placed>>

CheckoutRequestNext(q) ==
  \/ GetCheckout(q) \/ NoCart(q)
  \/ \E i \in Items, n \in Amounts : GetBuyNowCheckout(q, i, n)
  \/ \E k \in Keys : PlaceOrder(q, k) \/ ConfirmPayment(q, k)
  \/ TakeReservation(q) \/ SyncRead(q) \/ SyncDelete(q) \/ SyncCommit(q) \/ ReadRows(q)
  \/ ClearBeforeCommit(q) \/ CommitOrder(q) \/ RefuseOrder(q) \/ ClearHash(q)

CartCheckoutNext ==
  \/ CartNext /\ UNCHANGED checkoutVars
  \/ \E q \in Requests : CheckoutRequestNext(q)
  \/ \E v \in Reservations : ReservationExpires(v) \/ CleanReservation(v)

CartCheckoutSpec == CartCheckoutInit /\ [][CartCheckoutNext]_cartCheckoutVars

-----------------------------------------------------------------------------
(* Properties *)

Standing == {k \in Keys : placed[k].status = "placed"}
Taken(i) == Cardinality(UNION {{k} \X UnitsIn(RowsWith(placed[k].rows, i)) : k \in Standing})

\* Units leave the shelf once per order that stands: however often a request is
\* repeated, and wherever a process dies, an order that is refused takes nothing.
ShelfIsAccountedFor == \A i \in Items : shelf[i] + Taken(i) = OnShelf[i]

\* Requests that come one at a time: an order from the cart is for what GET
\* /cart would have shown, neither more nor less, wherever the cart was kept.
OrderedAsShown ==
  \A k \in Keys :
    (placed[k].status # "none" /\ ~placed[k].buyNow) =>
      \A i \in Items : Units(placed[k].rows, i) = placed[k].shown[i]

-----------------------------------------------------------------------------
(* Promises of documents that TLC refutes; README.md, "Divergences", has the *)
(* instances.                                                                *)

\* cart.service.ts, syncCartToDb: "Sync Redis cart state to PostgreSQL - called
\* before checkout".  A customer with something in the cart can check it out.
CheckoutSeesTheCart ==
  \A q \in Requests : AtCart(q, "no_cart") => \A i \in Items : Shown("user", i) = 0
=============================================================================
