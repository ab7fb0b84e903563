--------------------------- MODULE ShippingAdmin ---------------------------
(* The admin's hand on an order: a courier assigned, a status set, an order *)
(* cancelled.  None of these looks at the status again when it writes,      *)
(* except the cancellation.                                                 *)
EXTENDS FulfilmentState

\* The courier takes over a parcel for the order: BOUND, one per order.
BookParcel(o) ==
  parcel' = IF parcel[o]["forward"] = "NONE"
            THEN [parcel EXCEPT ![o]["forward"] = "PACKED"] ELSE parcel

ShippedFrom(status) ==
  IF status \in {"PENDING", "PLACED", "PROCESSING", "PACKED"} THEN "SHIPPED"
  ELSE status

AssignCourier(w, o) ==
  /\ "assign" \in Ops
  /\ Start(w, "assign_save", o, "forward", ShippedFrom(orders[o].status))
  /\ UNCHANGED <<books, courier, scanLog, overrides>>

\* Names the courier partner, not the shipping provider.
AssignSave(w) ==
  LET o == job[w].order IN
  /\ Doing(w, "assign_save")
  /\ orders' = [orders EXCEPT ![o].awb = TRUE, ![o].status = job[w].decision]
  /\ BookParcel(o)
  /\ Done(w)
  /\ UNCHANGED <<attempt, returns, audits, gone, payouts, shelf, scans, scanLog,
                 overrides>>

Overrides == overrides < MaxOverrides /\ overrides' = overrides + 1

\* updateShipmentStatus: one unconditional write.
UpdateShipmentStatus(o, status) ==
  /\ "shipmentStatus" \in Ops
  /\ Overrides
  /\ orders' = [orders EXCEPT ![o].status = status]
  /\ UNCHANGED <<attempt, returns, audits, gone, payouts, shelf, courier, scanLog, job>>

\* updateOrderStatus reads the order to decide whether cash was collected.
UpdateOrderStatus(w, o, status, pay) ==
  /\ "orderStatus" \in Ops
  /\ Overrides
  /\ StartAsked(w, "status_save", o, "forward", status, pay)
  /\ UNCHANGED <<books, courier, scanLog>>

CashOnDelivery(w) ==
  /\ job[w].decision = "DELIVERED"
  /\ job[w].view.cod /\ job[w].view.pay = "PENDING"

TargetPayment(w) ==
  IF job[w].pay = "none" /\ CashOnDelivery(w) THEN "COMPLETED" ELSE job[w].pay

UpdateOrderStatusSave(w) ==
  LET o == job[w].order IN
  /\ Doing(w, "status_save")
  /\ orders' = [orders EXCEPT ![o].status = job[w].decision,
                              ![o].pay = IF TargetPayment(w) = "none" THEN @
                                         ELSE TargetPayment(w)]
  /\ job' = [job EXCEPT ![w].pc = "status_payments", ![w].pay = TargetPayment(w)]
  /\ UNCHANGED <<attempt, returns, audits, gone, payouts, shelf, courier, scanLog,
                 overrides>>

\* The payment row, if there is one, follows in a statement of its own.
AttemptAfter(status, pay) ==
  IF \/ pay = "REFUNDED" /\ status # "none"
     \/ pay \in {"COMPLETED", "FAILED"} /\ status = "PENDING"
  THEN pay ELSE status

UpdateOrderStatusPayments(w) ==
  /\ Doing(w, "status_payments")
  /\ attempt' = [attempt EXCEPT ![job[w].order] = AttemptAfter(@, job[w].pay)]
  /\ Done(w)
  /\ UNCHANGED <<orders, returns, audits, gone, payouts, shelf, courier, scanLog,
                 overrides>>

-----------------------------------------------------------------------------
(* cancelOrder, at a status beyond those of module CancellationService *)

AdminCancel(w, o) ==
  /\ "adminCancel" \in Ops
  /\ orders[o].status # "CANCELLED"
  /\ Start(w, "cancel_save", o, "forward", "NONE")
  /\ UNCHANGED <<books, courier, scanLog, overrides>>

\* The claim; restocking is the admin's choice.
AdminCancelSave(w, restockItems) ==
  LET o == job[w].order IN
  /\ Doing(w, "cancel_save")
  /\ IF orders[o].status = "CANCELLED"
       THEN /\ UNCHANGED <<orders, shelf>>
            /\ Done(w)
       ELSE /\ orders' = [orders EXCEPT ![o].status = "CANCELLED"]
            /\ shelf'  = IF restockItems THEN [shelf EXCEPT ![o] = Restocked(@)]
                         ELSE shelf
            /\ Continue(w, "cancel_refund")
  /\ UNCHANGED <<attempt, returns, audits, gone, payouts, courier, scanLog, overrides>>

\* refundCancelledOrder decides on the order read before the claim.
AdminCancelRefund(w) ==
  /\ Doing(w, "cancel_refund")
  /\ IF job[w].view.pay = "COMPLETED" THEN RefundOrder(job[w].order)
     ELSE UNCHANGED <<orders, attempt, gone, audits>>
  /\ Done(w)
  /\ UNCHANGED <<returns, payouts, shelf, courier, scanLog, overrides>>
=============================================================================
