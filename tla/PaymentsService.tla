-------------------------- MODULE PaymentsService --------------------------
(* PaymentsService: opening attempts, the success callback, the capture and *)
(* failure webhooks, and the promotion they share.  Refunds are in module   *)
(* RefundService.                                                           *)
EXTENDS CheckoutService

-----------------------------------------------------------------------------
(* Opening an attempt *)

\* POST /payments/create-order.  A COD attempt skips the pending-attempt check.
CreatePaymentOrder(w, o, online) ==
  /\ "createPayment" \in Ops
  /\ Payable(o)
  /\ online => ~HasPendingAttempt(o)
  /\ RowsLeft
  /\ Begin(w, IF online THEN "insert_online" ELSE "insert_cod", o, NoPayment, NoRow)
  /\ UNCHANGED <<rows, gateway, logged>>

\* POST /payments/retry: within the window, whatever attempts are open.
RetryPayment(w, o, online) ==
  /\ "retry" \in Ops
  /\ Payable(o)
  /\ o \notin expired
  /\ RowsLeft
  /\ Begin(w, IF online THEN "insert_online" ELSE "insert_cod", o, NoPayment, NoRow)
  /\ UNCHANGED <<rows, gateway, logged>>

\* The insert, after the gateway order exists (online) or directly (COD).
InsertPayment(w, p) ==
  /\ At(w, "insert_online") \/ At(w, "insert_cod")
  /\ p \in UnusedPayments
  /\ payments' = [payments EXCEPT ![p] =
                   NewAttempt(task[w].order, At(w, "insert_online"))]
  /\ Finish(w)
  /\ UNCHANGED <<orders, stock, audits, expired, gateway, logged>>

\* createRazorpayOrder throws: no row.
GatewayOrderFails(w) ==
  /\ "gateway" \in Faults
  /\ At(w, "insert_online")
  /\ Finish(w)
  /\ UNCHANGED <<rows, gateway, logged>>

\* POST /payments/cod/confirm: its reads are all repeated by the conditional
\* update of its transaction, so it is one step.
ConfirmCod(o, p) ==
  /\ "confirmCod" \in Ops
  /\ Exists(o)
  /\ orders[o].cod
  /\ orders[o].pay # "COMPLETED"
  /\ orders[o].status # "CANCELLED"
  /\ RowsLeft
  /\ p \in UnusedPayments
  /\ orders' = [orders EXCEPT ![o].pay = "PENDING", ![o].status = "PLACED"]
  /\ payments' = [payments EXCEPT ![p] = NewAttempt(o, FALSE)]
  /\ UNCHANGED <<stock, audits, expired, gateway, logged, task>>

-----------------------------------------------------------------------------
(* The success callback *)

\* POST /payments/verify up to the signature check.  Only the gateway can sign
\* a captured payment; anybody can send a signature that does not match.
VerifyPayment(w, p, signatureValid) ==
  /\ "verify" \in Ops
  /\ payments[p].order # NoOrder
  /\ payments[p].online
  /\ payments[p].status # "COMPLETED"
  /\ signatureValid => p \in captured
  /\ Begin(w, IF signatureValid THEN "capture" ELSE "reject",
           payments[p].order, p, NoRow)
  /\ UNCHANGED <<rows, gateway, logged>>

\* Mutant: the bad signature is recorded, but the request goes on.
RejectSignatureGoesOn(w) ==
  /\ At(w, "reject")
  /\ payments' = [payments EXCEPT ![task[w].payment].status = "FAILED"]
  /\ Goto(w, "promote")
  /\ UNCHANGED <<orders, stock, audits, expired, gateway, logged>>

RejectSignature(w) ==
  /\ At(w, "reject")
  /\ payments' = [payments EXCEPT ![task[w].payment].status = "FAILED"]
  /\ Finish(w)
  /\ UNCHANGED <<orders, stock, audits, expired, gateway, logged>>

-----------------------------------------------------------------------------
(* Promotion, shared by the callback and the webhook *)

\* The attempt is marked first, in a write of its own.
MarkPaymentCompleted(w) ==
  /\ At(w, "capture")
  /\ payments' = [payments EXCEPT ![task[w].payment].status = "COMPLETED"]
  /\ Goto(w, "promote")
  /\ UNCHANGED <<orders, stock, audits, expired, gateway, logged>>

\* Mutant: the claim forgets to ask for a hidden order.
ClaimableAnyStatus(o) == orders[o].pay # "COMPLETED"

ClaimablePending(o) ==
  orders[o].status = "PENDING" /\ orders[o].pay # "COMPLETED"

ClaimableVisible(o) ==
  /\ orders[o].status \in {"PLACED", "PROCESSING", "PACKED"}
  /\ orders[o].pay # "COMPLETED"

AfterClaim(w) == IF ShippingConfigured THEN Goto(w, "ship_once") ELSE Finish(w)

\* Hidden -> visible: the claim takes the unit, below zero when it must.
PromotePending(w) ==
  LET o == task[w].order IN
  /\ At(w, "promote")
  /\ ClaimablePending(o)
  /\ orders' = [orders EXCEPT ![o].status = "PLACED", ![o].pay = "COMPLETED"]
  /\ stock' = stock - 1
  /\ AfterClaim(w)
  /\ UNCHANGED <<payments, audits, expired, gateway, logged>>

\* An order that was visible already (COD paid online) is only marked paid.
PromoteVisible(w) ==
  LET o == task[w].order IN
  /\ At(w, "promote")
  /\ ClaimableVisible(o)
  /\ orders' = [orders EXCEPT ![o].pay = "COMPLETED"]
  /\ AfterClaim(w)
  /\ UNCHANGED <<payments, stock, audits, expired, gateway, logged>>

\* Mutant: a capture that promotes nothing is dropped.
PromoteNothingDropsCapture(w) ==
  /\ At(w, "promote")
  /\ ~ClaimablePending(task[w].order)
  /\ ~ClaimableVisible(task[w].order)
  /\ Finish(w)
  /\ UNCHANGED <<rows, gateway, logged>>

PromoteNothing(w) ==
  /\ At(w, "promote")
  /\ ~ClaimablePending(task[w].order)
  /\ ~ClaimableVisible(task[w].order)
  /\ Goto(w, "late_refund")
  /\ UNCHANGED <<rows, gateway, logged>>

\* Mutant: a FAILED order is not claimed.
LateCaptureOfPending(o) ==
  orders[o].status = "CANCELLED" /\ orders[o].pay = "PENDING"

\* Mutant: a refund that was already claimed is claimed again.
LateCaptureTwice(o) ==
  /\ orders[o].status = "CANCELLED"
  /\ orders[o].pay # "REFUNDED"

\* refundLateCaptureOnCancelledOrder's claim.
LateCapture(o) ==
  /\ orders[o].status = "CANCELLED"
  /\ orders[o].pay \notin {"COMPLETED", "REFUND_INITIATED", "REFUNDED"}

ClaimLateCapture(w) ==
  LET o == task[w].order IN
  /\ At(w, "late_refund")
  /\ LateCapture(o)
  /\ orders' = [orders EXCEPT ![o].pay = "COMPLETED"]
  /\ Goto(w, "refund_order")
  /\ UNCHANGED <<payments, stock, audits, expired, gateway, logged>>

SkipLateCapture(w) ==
  /\ At(w, "late_refund")
  /\ ~LateCapture(task[w].order)
  /\ Finish(w)
  /\ UNCHANGED <<rows, gateway, logged>>

-----------------------------------------------------------------------------
(* POST /payments/webhook: the event is logged as a SUCCESS first, then the *)
(* payment row is read and the event is dispatched on it.                   *)

LogEvent(e) ==
  /\ "webhook" \in Ops
  /\ e \in sent \ logged
  /\ payments[e.payment].order # NoOrder
  /\ logged' = logged \cup {e}

\* Mutant: a failed attempt is dispatched like a captured one.
CaptureKindsWithFailed == {"captured", "orderPaid", "failed"}

\* An authorization is treated as a capture.
CaptureKinds == {"authorized", "captured", "orderPaid"}

ReceiveCaptured(w, e) ==
  /\ LogEvent(e)
  /\ e.kind \in CaptureKinds
  /\ IF payments[e.payment].status # "COMPLETED"
       THEN Begin(w, "capture", payments[e.payment].order, e.payment, NoRow)
       ELSE At(w, "idle") /\ UNCHANGED task
  /\ UNCHANGED <<rows, gateway>>

ReceiveFailed(w, e) ==
  /\ LogEvent(e)
  /\ e.kind = "failed"
  /\ IF payments[e.payment].status # "COMPLETED"
       THEN Begin(w, "payment_failed", payments[e.payment].order, e.payment, NoRow)
       ELSE At(w, "idle") /\ UNCHANGED task
  /\ UNCHANGED <<rows, gateway>>

\* The payment.failed transaction: the attempt unconditionally, the order
\* unless it is COMPLETED.
MarkPaymentFailed(w) ==
  LET o == task[w].order IN
  /\ At(w, "payment_failed")
  /\ payments' = [payments EXCEPT ![task[w].payment].status = "FAILED"]
  /\ orders' = [orders EXCEPT ![o].pay = IF @ = "COMPLETED" THEN @ ELSE "FAILED"]
  /\ Finish(w)
  /\ UNCHANGED <<stock, audits, expired, gateway, logged>>
=============================================================================
