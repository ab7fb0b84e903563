-------------------------- MODULE CheckoutService --------------------------
(* CheckoutService.placeOrder: one transaction per order, then the payment  *)
(* attempt (online) or the shipment (COD) in the same request.              *)
EXTENDS ShopState

\* Online: availability is checked, nothing is taken, the order stays hidden.
PlaceOnlineOrder(w, o) ==
  /\ "placeOnline" \in Ops
  /\ ~Exists(o)
  /\ stock >= 1
  /\ Begin(w, "prepare_payment", o, NoPayment, NoRow)
  /\ orders' = [orders EXCEPT ![o].status = "PENDING"]
  /\ UNCHANGED <<payments, stock, audits, expired, gateway, logged>>

\* COD: the unit is taken in the transaction that creates the order.
PlaceCodOrder(w, o) ==
  /\ "placeCod" \in Ops
  /\ ~Exists(o)
  /\ stock >= 1
  /\ stock' = stock - 1
  /\ orders' = [orders EXCEPT ![o].status = "PLACED", ![o].cod = TRUE]
  /\ IF ShippingConfigured
       THEN Begin(w, "ship_read", o, NoPayment, NoRow)
       ELSE At(w, "idle") /\ UNCHANGED task
  /\ UNCHANGED <<payments, audits, expired, gateway, logged>>

\* The same Idempotency-Key again: an unpaid online order gets its attempt back.
ReplayPlaceOrder(w, o) ==
  /\ "replay" \in Ops
  /\ orders[o].status = "PENDING"
  /\ Begin(w, "prepare_payment", o, NoPayment, NoRow)
  /\ UNCHANGED <<rows, gateway, logged>>

-----------------------------------------------------------------------------

\* createPaymentOrder's checks for an online attempt.
Payable(o) ==
  /\ Exists(o)
  /\ orders[o].pay # "COMPLETED"
  /\ orders[o].status \notin {"CANCELLED", "DELIVERED"}

HasPendingAttempt(o) == \E p \in PaymentsOf(o) : payments[p].status = "PENDING"

\* prepareOnlinePayment: reuse the open attempt, else createPaymentOrder up to
\* its gateway call.  Every error is swallowed: the client falls back to
\* POST /payments/create-order.
PrepareOnlinePayment(w) ==
  LET o == task[w].order IN
  /\ At(w, "prepare_payment")
  /\ IF Payable(o) /\ ~HasPendingAttempt(o) /\ RowsLeft
       THEN Goto(w, "insert_online")
       ELSE Finish(w)
  /\ UNCHANGED <<rows, gateway, logged>>
=============================================================================
