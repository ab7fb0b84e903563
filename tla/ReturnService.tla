--------------------------- MODULE ReturnService ---------------------------
(* A delivered order comes back: the customer's returnOrder and its pickup, *)
(* and the admin's confirmReturnReceived, processReturnQc, confirmCodRefund *)
(* and processRefund.                                                       *)
EXTENDS FulfilmentState

\* The seven-day window is open, and the order has no return yet, as read.
ReturnOrder(w, o) ==
  /\ "return" \in Ops
  /\ orders[o].status = "DELIVERED"
  /\ returns[o].status = "NONE"
  /\ Start(w, "return_save", o, "return", "NONE")
  /\ UNCHANGED <<books, courier, scanLog, overrides>>

StillDelivered(o) == orders[o].status = "DELIVERED"

\* The claim and the return row, in one transaction.
ReturnSave(w) ==
  LET o == job[w].order IN
  /\ Doing(w, "return_save")
  /\ StillDelivered(o)
  /\ orders'  = [orders EXCEPT ![o].status = "RETURN_INITIATED"]
  /\ returns' = [returns EXCEPT ![o] = [NoReturn EXCEPT !.status = "INITIATED"]]
  /\ Continue(w, "return_pickup")
  /\ UNCHANGED <<attempt, audits, gone, payouts, shelf, courier, scanLog, overrides>>

ReturnConflict(w) ==
  /\ Doing(w, "return_save")
  /\ ~StillDelivered(job[w].order)
  /\ Done(w)
  /\ UNCHANGED <<books, courier, scanLog, overrides>>

\* The provider accepts the pickup; the row is updated whatever its status.
ReturnPickup(w) ==
  LET o == job[w].order IN
  /\ Doing(w, "return_pickup")
  /\ returns' = [returns EXCEPT ![o].status = "PICKUP_SCHEDULED", ![o].pickup = TRUE]
  /\ parcel'  = [parcel EXCEPT ![o]["return"] = "PACKED"]
  /\ Done(w)
  /\ UNCHANGED <<orders, attempt, audits, gone, payouts, shelf, scans, scanLog,
                 overrides>>

\* Best effort: the return stays INITIATED.
ReturnPickupFails(w) ==
  /\ Doing(w, "return_pickup")
  /\ Done(w)
  /\ UNCHANGED <<books, courier, scanLog, overrides>>

-----------------------------------------------------------------------------
(* The warehouse *)

ConfirmReturnReceived(w, o) ==
  /\ "receive" \in Ops
  /\ returns[o].status \notin {"NONE", "RETURN_RECEIVED"}
  /\ shelf[o].product < MaxRestocks
  /\ Start(w, "receive_save", o, "return", "RETURN_RECEIVED")
  /\ UNCHANGED <<books, courier, scanLog, overrides>>

ConfirmReturnReceivedSave(w) ==
  /\ Doing(w, "receive_save")
  /\ returns' = [returns EXCEPT ![job[w].order].status = "RETURN_RECEIVED",
                                ![job[w].order].qc = "PENDING"]
  /\ Done(w)
  /\ UNCHANGED <<orders, attempt, audits, gone, payouts, shelf, courier, scanLog,
                 overrides>>

ProcessReturnQc(w, o, verdict) ==
  /\ "qc" \in Ops
  /\ returns[o].qc \notin {"PASSED", "FAILED"}
  /\ returns[o].status = "RETURN_RECEIVED"
  /\ Start(w, "qc_save", o, "return", verdict)
  /\ UNCHANGED <<books, courier, scanLog, overrides>>

\* Mutant: the return's status is written as the payment's.
ReturnedPaid(row) ==
  IF row.cod \/ row.status = "RETURNED" THEN row
  ELSE [row EXCEPT !.status = "RETURNED", !.pay = "RETURNED"]

\* What a passed check makes of the order: an online order is booked as
\* RETURNED and REFUNDED at once.
ReturnedOnline(row) ==
  IF row.cod \/ row.status = "RETURNED" THEN row
  ELSE [row EXCEPT !.status = "RETURNED", !.pay = "REFUNDED"]

QcPassed(w, restockItems) ==
  LET o == job[w].order IN
  /\ Doing(w, "qc_save")
  /\ job[w].decision = "PASSED"
  /\ returns' = [returns EXCEPT ![o].qc = "PASSED",
                                ![o].status = IF orders[o].cod
                                              THEN "COD_REFUND_PENDING" ELSE "REFUNDED"]
  /\ shelf'   = IF restockItems THEN [shelf EXCEPT ![o] = Restocked(@)] ELSE shelf
  /\ orders'  = [orders EXCEPT ![o] = ReturnedOnline(@)]
  /\ IF orders[o].cod THEN Done(w) ELSE Continue(w, "qc_refund")
  /\ UNCHANGED <<attempt, audits, gone, payouts, courier, scanLog, overrides>>

\* After the transaction, when the order does not count as paid any more.
QcRefund(w) ==
  /\ Doing(w, "qc_refund")
  /\ RefundOrder(job[w].order)
  /\ Done(w)
  /\ UNCHANGED <<returns, payouts, shelf, courier, scanLog, overrides>>

QcFailed(w) ==
  /\ Doing(w, "qc_save")
  /\ job[w].decision = "RETURN_REJECTED"
  /\ returns' = [returns EXCEPT ![job[w].order].qc = "FAILED",
                                ![job[w].order].status = "RETURN_REJECTED"]
  /\ Done(w)
  /\ UNCHANGED <<orders, attempt, audits, gone, payouts, shelf, courier, scanLog,
                 overrides>>

-----------------------------------------------------------------------------
(* Money back *)

ConfirmCodRefund(w, o) ==
  /\ "codRefund" \in Ops
  /\ orders[o].cod
  /\ orders[o].status # "RETURNED"
  /\ returns[o].status \in {"RETURN_RECEIVED", "COD_REFUND_PENDING"}
  /\ Start(w, "payout_save", o, "return", "NONE")
  /\ UNCHANGED <<books, courier, scanLog, overrides>>

\* Mutant: the record's idempotencyKey is not unique.
AnyPayout(o) == orders[o].status # "RETURNED"

\* The transaction claims the order and inserts a record whose key,
\* cod_refund_<return>, is unique.
PayoutAllowed(o) ==
  /\ orders[o].status # "RETURNED"
  /\ "COD_REFUNDED" \notin audits[o]

ConfirmCodRefundSave(w) ==
  LET o == job[w].order IN
  /\ Doing(w, "payout_save")
  /\ PayoutAllowed(o)
  /\ orders'  = [orders EXCEPT ![o].status = "RETURNED", ![o].pay = "REFUNDED"]
  /\ returns' = [returns EXCEPT ![o].status = "COD_REFUNDED"]
  /\ audits'  = [audits EXCEPT ![o] = @ \cup {"COD_REFUNDED"}]
  /\ payouts' = [payouts EXCEPT ![o] = @ + 1]
  /\ Done(w)
  /\ UNCHANGED <<attempt, gone, shelf, courier, scanLog, overrides>>

ConfirmCodRefundConflict(w) ==
  /\ Doing(w, "payout_save")
  /\ ~PayoutAllowed(job[w].order)
  /\ Done(w)
  /\ UNCHANGED <<books, courier, scanLog, overrides>>

\* processRefund books a refund and moves no money.
ProcessRefund(o) ==
  /\ "processRefund" \in Ops
  /\ returns' = [returns EXCEPT ![o].status = IF @ = "INITIATED" THEN "REFUNDED" ELSE @]
  /\ audits'  = [audits EXCEPT ![o] = @ \cup {"REFUND_INITIATED"}]
  /\ UNCHANGED <<orders, attempt, gone, payouts, shelf, courier, scanLog, overrides, job>>
=============================================================================
