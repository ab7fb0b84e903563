-------------------------------- MODULE Shop --------------------------------
(* The composition: checkout, payments, refunds, cancellation and shipment  *)
(* creation over one set of rows, with the payment gateway, crashes and the *)
(* properties of an order's money and stock.                                *)
EXTENDS PaymentsService, RefundService, CancellationService, ShipmentCreation

-----------------------------------------------------------------------------
(* The gateway (Razorpay), as src/ relies on it: a webhook event is produced *)
(* for every outcome, kept until it is delivered, and may come in any order. *)

PaymentEvent(kind, p) == [kind |-> kind, payment |-> p, refund |-> 0]

\* The customer's bank authorizes an attempt; the capture may follow or not.
GatewayAuthorize(p) ==
  /\ "authorized" \in Subscribed
  /\ payments[p].order # NoOrder
  /\ payments[p].online
  /\ Announce({PaymentEvent("authorized", p)})
  /\ UNCHANGED <<rows, captured, refunds, logged, task>>

\* The customer pays an attempt.  An attempt that failed may still be paid.
GatewayCapture(p) ==
  /\ payments[p].order # NoOrder
  /\ payments[p].online
  /\ p \notin captured
  /\ captured' = captured \cup {p}
  /\ Announce({PaymentEvent("captured", p), PaymentEvent("orderPaid", p)})
  /\ UNCHANGED <<rows, refunds, logged, task>>

GatewayDecline(p) ==
  /\ "failed" \in Subscribed
  /\ payments[p].order # NoOrder
  /\ payments[p].online
  /\ p \notin captured
  /\ Announce({PaymentEvent("failed", p)})
  /\ UNCHANGED <<rows, captured, refunds, logged, task>>

GatewayRefundEnds(p, n, outcome) ==
  /\ refunds[p][n] = "pending"
  /\ refunds' = [refunds EXCEPT ![p][n] = outcome]
  /\ Announce({[payment |-> p, refund |-> n, kind |->
                IF outcome = "processed" THEN "refundProcessed" ELSE "refundFailed"]})
  /\ UNCHANGED <<rows, captured, logged, task>>

\* The process dies between two steps of its handlers.
Crash(i) ==
  /\ "crash" \in Faults
  /\ \E w \in Workers : InstanceOf[w] = i /\ ~At(w, "idle")
  /\ task' = [w \in Workers |-> IF InstanceOf[w] = i THEN IdleTask ELSE task[w]]
  /\ UNCHANGED <<rows, gateway, logged>>

\* A statement fails: the request ends with an error, or the caller logs it.
\* The two refund steps that handle their own failures are in RefundService.
DatabaseError(w) ==
  /\ "db" \in Faults
  /\ task[w].pc \notin {"idle", "refund_call", "refund_save"}
  /\ Finish(w)
  /\ UNCHANGED <<rows, gateway, logged>>

-----------------------------------------------------------------------------

\* A request arrives.
Request(w) ==
  \/ \E o \in Orders :
       \/ PlaceOnlineOrder(w, o)
       \/ PlaceCodOrder(w, o)
       \/ ReplayPlaceOrder(w, o)
       \/ \E online \in BOOLEAN : CreatePaymentOrder(w, o, online)
       \/ \E online \in BOOLEAN : RetryPayment(w, o, online)
       \/ CancelOrder(w, o)
       \/ AdminCancelOrder(w, o)
  \/ \E p \in Payments, valid \in BOOLEAN : VerifyPayment(w, p, valid)

\* The gateway delivers an event.
Deliver(w, e) ==
  \/ ReceiveCaptured(w, e)
  \/ ReceiveFailed(w, e)
  \/ ReceiveRefundDone(w, e)
  \/ ReceiveRefundFailed(w, e)

\* A handler takes its next step.
Continue(w) ==
  \/ PrepareOnlinePayment(w)
  \/ \E p \in Payments : InsertPayment(w, p)
  \/ GatewayOrderFails(w)
  \/ RejectSignature(w)
  \/ MarkPaymentCompleted(w)
  \/ PromotePending(w)
  \/ PromoteVisible(w)
  \/ PromoteNothing(w)
  \/ ClaimLateCapture(w)
  \/ SkipLateCapture(w)
  \/ MarkPaymentFailed(w)
  \/ RefundReadOrder(w)
  \/ RefundGuard(w)
  \/ RefundCodManually(w)
  \/ RefundWithoutCapture(w)
  \/ \E p \in Payments : RefundPickPayment(w, p)
  \/ \E n \in RefundNumbers : RefundAccepted(w, n)
  \/ RefundRejected(w)
  \/ RefundPersist(w)
  \/ RefundPersistFails(w)
  \/ MarkRefunded(w)
  \/ MarkRefundFailed(w)
  \/ CancelCommit(w)
  \/ CancelConflict(w)
  \/ \E restockItems \in BOOLEAN : AdminCancelCommit(w, restockItems)
  \/ AdminCancelConflict(w)
  \/ AdminRefundGuard(w)
  \/ ShipOnce(w)
  \/ ShipRead(w)
  \/ ShipLock(w)
  \/ ShipSave(w)
  \/ ShipFails(w)

Environment ==
  \/ \E p \in Payments :
       GatewayAuthorize(p) \/ GatewayCapture(p) \/ GatewayDecline(p)
  \/ \E p \in Payments, n \in RefundNumbers, outcome \in {"processed", "failed"} :
       GatewayRefundEnds(p, n, outcome)
  \/ \E o \in Orders : WindowExpires(o) \/ CancelAbandonedOrder(o)
  \/ \E o \in Orders, p \in Payments : ConfirmCod(o, p)
  \/ \E w \in Workers : DatabaseError(w) \/ Crash(InstanceOf[w])

Next ==
  \/ \E w \in Workers : Request(w) \/ Continue(w)
  \/ \E w \in Workers, e \in Event : Deliver(w, e)
  \/ Environment

Spec == Init /\ [][Next]_vars

(* A handler that started runs to its end: the event loop is shared fairly  *)
(* and every await returns.  The gateway redelivers its events until they   *)
(* are acknowledged, and there are finitely many; the server has room for   *)
(* one request more again and again (Workers is this model's bound), so     *)
(* deliveries are not starved by other requests.  Nothing obliges a         *)
(* customer, an admin, a job or a bank to act.                              *)
Fairness ==
  /\ \A w \in Workers : WF_vars(Continue(w))
  /\ SF_vars(\E w \in Workers, e \in Event : Deliver(w, e))

FairSpec == Spec /\ Fairness

-----------------------------------------------------------------------------
(* Vocabulary of the properties *)

\* Statuses under which the order has its unit in the warehouse or on the road.
HoldsStock == OrderStatus \ {"PENDING", "CANCELLED"}

Holders == {o \in Orders : orders[o].status \in HoldsStock}

PaidFor(o) == \E p \in PaymentsOf(o) : p \in captured

MoneyStatus == {"COMPLETED", "REFUND_INITIATED", "REFUNDED"}

RefundsOf(p) == {n \in RefundNumbers : refunds[p][n] # "none"}

\* No handler works on the order and no event about it is waiting.
Quiet(o) ==
  /\ \A w \in Workers : task[w].order # o
  /\ \A e \in sent \ logged : payments[e.payment].order # o

-----------------------------------------------------------------------------
(* Properties *)

\* promoteOrderAfterPayment takes the stock of an online order exactly once,
\* placeOrder takes a COD order's, and a cancellation gives it back only if it
\* was taken: the shelf always misses one unit per order that holds one,
\* whichever of the callback, the webhooks, the cleanup job and the
\* cancellations ran, in whatever order.
StockConserved == stock = InitialStock - Cardinality(Holders)

\* Goods are never put back on the shelf that did not leave it; an admin may
\* cancel without restocking, so some may be missing.
NoStockInvented == stock <= InitialStock - Cardinality(Holders)

\* What the order's status says of its unit.
FateOf(o) ==
  IF orders[o].status \in {"NONE", "PENDING"} THEN "open"
  ELSE IF orders[o].status = "CANCELLED" THEN "closed" ELSE "held"

Ledger == INSTANCE StockLedger WITH fate <- [o \in Orders |-> FateOf(o)]

\* The stock of an order is taken at most once, by whichever handler claims it,
\* given back at most once, and never taken again after a cancellation: the
\* rows implement the ledger.
ImplementsLedger == Ledger!LedgerSpec

\* No order becomes visible as an online order, or counts as paid, unless the
\* gateway captured one of its attempts: a callback with a bad signature, a
\* failed attempt or a refund event never makes goods leave unpaid.
NeedsMoney(row) ==
  \/ row.pay \in MoneyStatus
  \/ ~row.cod /\ (row.status \in HoldsStock \/ row.awb)

PaidOrdersWereCaptured == \A o \in Orders : NeedsMoney(orders[o]) => PaidFor(o)

\* Money only goes back for an order that was cancelled, and an order whose
\* money went back never holds goods: the customer does not get both.
RefundedOrdersAreCancelled ==
  \A p \in Payments :
    RefundsOf(p) # {} => orders[payments[p].order].status = "CANCELLED"

\* At most one refund of an order is on its way or done: the paymentStatus
\* check, the live-refund guard and the callers' claims never let two through.
Live(p, n) == refunds[p][n] \in {"pending", "processed"}

OneLiveRefund ==
  \A p, q \in Payments, m, n \in RefundNumbers :
    Live(p, m) /\ Live(q, n) /\ payments[p].order = payments[q].order
    => p = q /\ m = n

\* Once nothing is in flight for an order, its captured money is accounted for:
\* the order stands and is paid, or the money went back, or a RefundAudit row
\* tells an admin that it has to.
NoStrandedMoney ==
  \A o \in Orders :
    Quiet(o) /\ PaidFor(o) =>
      \/ orders[o].status \in HoldsStock /\ orders[o].pay = "COMPLETED"
      \/ orders[o].status = "CANCELLED" /\ AuditsOf(o) # {}

\* CANCELLED is terminal.
CancelledIsTerminal ==
  [][\A o \in Orders :
       orders[o].status = "CANCELLED" => orders'[o].status = "CANCELLED"]_orders

\* A customer's cancellation, or the cleanup's, never overtakes the courier: an
\* order that carries an AWB is not cancelled any more, although the AWB is
\* assigned by another handler and the endpoint looked before.  Only an admin
\* may still cancel it.
BookedOrdersStand ==
  [][\A o \in Orders :
       orders[o].awb /\ orders[o].status # "CANCELLED"
       => \/ orders'[o].status # "CANCELLED"
          \/ \E w \in Workers, restockItems \in BOOLEAN : AdminCancelCommit(w, restockItems)]_vars

\* A captured attempt is eventually answered for: the order is visible and
\* paid, or its money is refunded or flagged.  The callback may never come; the
\* webhook is enough.
AnsweredFor(p) ==
  \E o \in Orders :
    /\ payments[p].order = o
    /\ \/ orders[o].status \in HoldsStock /\ orders[o].pay = "COMPLETED"
       \/ orders[o].status = "CANCELLED" /\ AuditsOf(o) # {}

CaptureSettles == \A p \in Payments : p \in captured ~> AnsweredFor(p)

-----------------------------------------------------------------------------
(* Promises of documents that TLC refutes; README.md, "Divergences", has the *)
(* instances.                                                                *)

\* Every attempt the gateway captured on an order that ends cancelled is
\* refunded, or flagged for a manual refund.
EveryCaptureRefunded ==
  \A p \in captured :
    LET o == payments[p].order IN
    Quiet(o) /\ orders[o].status = "CANCELLED" =>
      RefundsOf(p) # {} \/ \E a \in AuditsOf(o) : a.status = "FAILED"

\* REFUNDED is terminal for the money of an order.
RefundedIsTerminal ==
  [][\A o \in Orders :
       orders[o].pay = "REFUNDED" => orders'[o].pay = "REFUNDED"]_orders

\* An order the courier was booked for is not put back to PLACED.
PackedStaysPacked ==
  [][\A o \in Orders :
       orders[o].status = "PACKED" => orders'[o].status # "PLACED"]_orders

\* At most one gateway attempt of an order is open at a time.
OneOpenAttempt ==
  \A p, q \in Payments :
    /\ payments[p].order # NoOrder /\ payments[p].order = payments[q].order
    /\ payments[p].online /\ payments[q].online
    /\ payments[p].status = "PENDING" /\ payments[q].status = "PENDING"
    => p = q
=============================================================================
