--------------------------- MODULE RefundService ---------------------------
(* PaymentsService.initiateRefundForOrder / performRefundForOrder, and the  *)
(* refund events of the webhook.  A refund is for the whole order.          *)
EXTENDS ShopState

RefundLabels ==
  {"refund_guard", "refund_payment", "refund_call", "refund_save"}

\* initiateRefundForOrder: a refund of the same order in flight in this process
\* is awaited and its outcome reported, otherwise performRefundForOrder reads
\* the order.
RefundReadOrder(w) ==
  LET o == task[w].order IN
  /\ At(w, "refund_order")
  /\ IF HeldBySibling(w, o, RefundLabels) \/ orders[o].pay # "COMPLETED"
       THEN Finish(w)
       ELSE Goto(w, "refund_guard")
  /\ UNCHANGED <<rows, gateway, logged>>

\* The live-refund guard.
RefundGuard(w) ==
  /\ At(w, "refund_guard")
  /\ IF LiveAudits(task[w].order) # {} THEN Finish(w) ELSE Goto(w, "refund_payment")
  /\ UNCHANGED <<rows, gateway, logged>>

CompletedPayments(o) == {p \in PaymentsOf(o) : payments[p].status = "COMPLETED"}

\* The newest COMPLETED attempt, the one that is refunded.
IsCapturedPayment(o, p) ==
  /\ p \in CompletedPayments(o)
  /\ \A q \in CompletedPayments(o) : payments[q].at <= payments[p].at

AddAudit(o, p, n, status) ==
  audits' = audits \cup {[order |-> o, payment |-> p, refund |-> n, status |-> status]}

\* COD: no gateway capture to reverse, the refund is left to an admin.
RefundCodManually(w) ==
  LET o == task[w].order IN
  /\ At(w, "refund_payment")
  /\ orders[o].cod
  /\ AddAudit(o, NoPayment, 0, "REFUND_INITIATED")
  /\ Finish(w)
  /\ UNCHANGED <<orders, payments, stock, expired, gateway, logged>>

\* No COMPLETED attempt with a gateway id: flagged for manual processing.
RefundWithoutCapture(w) ==
  LET o == task[w].order IN
  /\ At(w, "refund_payment")
  /\ ~orders[o].cod
  /\ \A p \in PaymentsOf(o) : IsCapturedPayment(o, p) => ~payments[p].online
  /\ AddAudit(o, NoPayment, 0, "FAILED")
  /\ Finish(w)
  /\ UNCHANGED <<orders, payments, stock, expired, gateway, logged>>

RefundPickPayment(w, p) ==
  LET o == task[w].order IN
  /\ At(w, "refund_payment")
  /\ ~orders[o].cod
  /\ IsCapturedPayment(o, p)
  /\ payments[p].online
  /\ task' = [task EXCEPT ![w].pc = "refund_call", ![w].payment = p]
  /\ UNCHANGED <<rows, gateway, logged>>

\* The gateway accepts the refund of a captured attempt (it does not
\* deduplicate) and announces it.
RefundAccepted(w, n) ==
  LET p == task[w].payment IN
  /\ At(w, "refund_call")
  /\ p \in captured
  /\ refunds[p][n] = "none"
  /\ \A m \in RefundNumbers : m < n => refunds[p][m] # "none"
  /\ refunds' = [refunds EXCEPT ![p][n] = "pending"]
  /\ Announce({[kind |-> "refundCreated", payment |-> p, refund |-> n]})
  /\ task' = [task EXCEPT ![w].pc = "refund_save", ![w].refund = n]
  /\ UNCHANGED <<rows, captured, logged>>

\* The gateway call throws: a FAILED row (whose own failure is ignored), the
\* order stays COMPLETED.
RefundRejected(w) ==
  LET p == task[w].payment IN
  /\ At(w, "refund_call")
  /\ \/ "gateway" \in Faults
     \/ p \notin captured
     \/ \A n \in RefundNumbers : refunds[p][n] # "none"
  /\ \/ AddAudit(task[w].order, p, 0, "FAILED")
     \/ "db" \in Faults /\ UNCHANGED audits
  /\ Finish(w)
  /\ UNCHANGED <<orders, payments, stock, expired, gateway, logged>>

\* The hard gate: audit, attempt and order in one transaction.
RefundPersist(w) ==
  LET t == task[w] IN
  /\ At(w, "refund_save")
  /\ AddAudit(t.order, t.payment, t.refund, "REFUND_INITIATED")
  /\ payments' = [payments EXCEPT ![t.payment].status = "REFUND_INITIATED"]
  /\ orders' = [orders EXCEPT ![t.order].pay = "REFUND_INITIATED"]
  /\ Finish(w)
  /\ UNCHANGED <<stock, expired, gateway, logged>>

\* The transaction fails: the audit alone is inserted out of band, if it can be.
RefundPersistFails(w) ==
  LET t == task[w] IN
  /\ "db" \in Faults
  /\ At(w, "refund_save")
  /\ \/ AddAudit(t.order, t.payment, t.refund, "REFUND_INITIATED")
     \/ UNCHANGED audits
  /\ Finish(w)
  /\ UNCHANGED <<orders, payments, stock, expired, gateway, logged>>

-----------------------------------------------------------------------------
(* Refund events.  Event ids are unique, so each is dispatched at most once. *)

AuditFor(e, status) ==
  \E a \in audits :
    a.payment = e.payment /\ a.refund = e.refund /\ a.status = status

BeginRefundEvent(w, label, e) ==
  /\ At(w, "idle")
  /\ task' = [task EXCEPT ![w] =
               [pc |-> label, order |-> payments[e.payment].order,
                payment |-> e.payment, refund |-> e.refund,
                view |-> orders[payments[e.payment].order]]]

\* The event is logged and the payment read with its order's status.
ReceiveRefundDone(w, e) ==
  /\ "webhook" \in Ops
  /\ e \in sent \ logged
  /\ payments[e.payment].order # NoOrder
  /\ e.kind \in {"refundCreated", "refundProcessed"}
  /\ logged' = logged \cup {e}
  /\ IF AuditFor(e, "REFUNDED")
       THEN At(w, "idle") /\ UNCHANGED task
       ELSE BeginRefundEvent(w, "refund_processed", e)
  /\ UNCHANGED <<rows, gateway>>

ReceiveRefundFailed(w, e) ==
  /\ "webhook" \in Ops
  /\ e \in sent \ logged
  /\ payments[e.payment].order # NoOrder
  /\ e.kind = "refundFailed"
  /\ logged' = logged \cup {e}
  /\ IF AuditFor(e, "FAILED")
       THEN At(w, "idle") /\ UNCHANGED task
       ELSE BeginRefundEvent(w, "refund_failed", e)
  /\ UNCHANGED <<rows, gateway>>

\* The pending audit of the order becomes `status`; without one a row is added.
SettleAudit(t, status) ==
  LET settled == [order |-> t.order, payment |-> t.payment, refund |-> t.refund,
                  status |-> status]
      open == {a \in AuditsOf(t.order) : a.status = "REFUND_INITIATED"}
  IN IF open = {}
       THEN audits' = audits \cup {settled}
       ELSE \E a \in open : audits' = (audits \ {a}) \cup {settled}

\* Mutant: every refunded order is a returned one.
StatusAfterRefundAlwaysReturned(seen, status) == "RETURNED"

\* A refund of an order that was not cancelled when it was read is a return.
StatusAfterRefund(seen, status) == IF seen = "CANCELLED" THEN status ELSE "RETURNED"

\* refund.created, .speed_changed and .processed alike.  A second event of the
\* same refund hits the unique idempotencyKey and its transaction is undone.
MarkRefunded(w) ==
  LET t == task[w] IN
  /\ At(w, "refund_processed")
  /\ IF AuditFor(t, "REFUNDED")
       THEN UNCHANGED <<orders, payments, audits>>
       ELSE /\ orders' = [orders EXCEPT
                 ![t.order].status = StatusAfterRefund(t.view.status, @),
                 ![t.order].pay = "REFUNDED"]
            /\ payments' = [payments EXCEPT ![t.payment].status = "REFUNDED"]
            /\ SettleAudit(t, "REFUNDED")
  /\ Finish(w)
  /\ UNCHANGED <<stock, expired, gateway, logged>>

\* Mutant: the order's status is written where its payment status belongs.
ReopenAsPlaced(status) == IF status = "REFUND_INITIATED" THEN "PLACED" ELSE status

Reopen(status) == IF status = "REFUND_INITIATED" THEN "COMPLETED" ELSE status

\* refund.failed: what is in flight goes back to COMPLETED, to be retried.
MarkRefundFailed(w) ==
  LET t == task[w] IN
  /\ At(w, "refund_failed")
  /\ orders' = [orders EXCEPT ![t.order].pay = Reopen(@)]
  /\ payments' = [payments EXCEPT ![t.payment].status = Reopen(@)]
  /\ SettleAudit(t, "FAILED")
  /\ Finish(w)
  /\ UNCHANGED <<stock, expired, gateway, logged>>
=============================================================================
