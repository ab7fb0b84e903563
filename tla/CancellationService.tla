------------------------ MODULE CancellationService ------------------------
(* The three ways an order is cancelled: by the customer                    *)
(* (OrdersService.cancelOrder), by an admin (AdminOrdersService.cancelOrder) *)
(* and by the job that ends abandoned payments.  Both endpoints decide      *)
(* whether to refund on the order row they read before their transaction.   *)
EXTENDS ShopState

NonCancellable ==
  {"PACKED", "SHIPPED", "OUT_FOR_DELIVERY", "DELIVERED", "CANCELLED", "RETURNED",
   "RETURN_INITIATED"}

\* An unpaid hidden order is a 404 for its customer.
CancelOrder(w, o) ==
  /\ "cancel" \in Ops
  /\ Exists(o)
  /\ orders[o].status \notin NonCancellable \cup {"PENDING"}
  /\ ~orders[o].awb
  /\ Begin(w, "cancel", o, NoPayment, orders[o])
  /\ UNCHANGED <<rows, gateway, logged>>

\* Mutant: the re-check only looks at the AWB.
StillUnbooked(o) == ~orders[o].awb

\* Mutant: the re-check only asks whether it was cancelled meanwhile.
StillStanding(o) == orders[o].status # "CANCELLED"

\* The transaction's own re-check.
StillCancellable(o) == orders[o].status \notin NonCancellable /\ ~orders[o].awb

\* Mutant: cancelling refunds nothing.
AfterCancelNoRefund(w, label) == Finish(w)

AfterCancel(w, label) ==
  IF task[w].view.pay = "COMPLETED" THEN Goto(w, label) ELSE Finish(w)

CancelCommit(w) ==
  LET o == task[w].order IN
  /\ At(w, "cancel")
  /\ StillCancellable(o)
  /\ orders' = [orders EXCEPT ![o].status = "CANCELLED"]
  /\ stock' = stock + 1
  /\ AfterCancel(w, "refund_order")
  /\ UNCHANGED <<payments, audits, expired, gateway, logged>>

CancelConflict(w) ==
  /\ At(w, "cancel")
  /\ ~StillCancellable(task[w].order)
  /\ Finish(w)
  /\ UNCHANGED <<rows, gateway, logged>>

-----------------------------------------------------------------------------

AdminCancelOrder(w, o) ==
  /\ "adminCancel" \in Ops
  /\ Exists(o)
  /\ orders[o].status # "CANCELLED"
  /\ Begin(w, "admin_cancel", o, NoPayment, orders[o])
  /\ UNCHANGED <<rows, gateway, logged>>

\* Any order that is not CANCELLED yet, whether or not it ever took stock.
AdminCancelCommit(w, restockItems) ==
  LET o == task[w].order IN
  /\ At(w, "admin_cancel")
  /\ orders[o].status # "CANCELLED"
  /\ orders' = [orders EXCEPT ![o].status = "CANCELLED"]
  /\ stock' = IF restockItems THEN stock + 1 ELSE stock
  /\ AfterCancel(w, "admin_refund")
  /\ UNCHANGED <<payments, audits, expired, gateway, logged>>

AdminCancelConflict(w) ==
  /\ At(w, "admin_cancel")
  /\ orders[task[w].order].status = "CANCELLED"
  /\ Finish(w)
  /\ UNCHANGED <<rows, gateway, logged>>

\* refundCancelledOrder: a recorded refund is never stacked with another.
AdminRefundGuard(w) ==
  /\ At(w, "admin_refund")
  /\ IF LiveAudits(task[w].order) # {} THEN Finish(w) ELSE Goto(w, "refund_order")
  /\ UNCHANGED <<rows, gateway, logged>>

-----------------------------------------------------------------------------

\* The 30-minute payment window of an order passes; only these two look at it.
WindowExpires(o) ==
  /\ Ops \cap {"retry", "cleanup"} # {}
  /\ Exists(o)
  /\ o \notin expired
  /\ expired' = expired \cup {o}
  /\ UNCHANGED <<orders, payments, stock, audits, gateway, logged, task>>

\* Mutant: the job restores the stock of the order it cancels.
CancelAbandonedRestocks(o) ==
  /\ "cleanup" \in Ops
  /\ o \in expired
  /\ orders[o].status = "PENDING"
  /\ orders[o].pay \in {"PENDING", "FAILED"}
  /\ ~orders[o].awb
  /\ orders' = [orders EXCEPT ![o].status = "CANCELLED"]
  /\ stock' = stock + 1
  /\ UNCHANGED <<payments, audits, expired, gateway, logged, task>>

\* One order of cancelAbandonedPendingOrders: the batch only preselects, the
\* conditional update decides.  No stock was taken, none is restored.
CancelAbandonedOrder(o) ==
  /\ "cleanup" \in Ops
  /\ o \in expired
  /\ orders[o].status = "PENDING"
  /\ orders[o].pay \in {"PENDING", "FAILED"}
  /\ ~orders[o].awb
  /\ orders' = [orders EXCEPT ![o].status = "CANCELLED"]
  /\ UNCHANGED <<payments, stock, audits, expired, gateway, logged, task>>
=============================================================================
