----------------------------- MODULE ShopProofs -----------------------------
(* Type correctness of Shop, for every value of its constants.  TypeOK is    *)
(* inductive together with the fact that a handler that is not idle works   *)
(* on an order.                                                             *)
EXTENDS Shop, FiniteSetTheorems, TLAPS

Busy == \A w \in Workers : task[w].pc # "idle" => task[w].order \in Orders

TypeInv == TypeOK /\ Busy

-----------------------------------------------------------------------------
(* What the helpers do to the type of a handler. *)

\* The null values are in their types.
LEMMA NullTypes ==
  /\ NoRow \in OrderRow
  /\ NoAttempt \in PaymentRow
  /\ IdleTask \in Task
BY DEF NoRow, NoAttempt, IdleTask, OrderRow, PaymentRow, Task, PC, PaymentStatus

\* A busy handler that moves to a label keeps its order.
LEMMA GotoType ==
  ASSUME TypeInv, NEW w \in Workers, task[w].pc # "idle", NEW label \in PC,
         Goto(w, label)
  PROVE  task' \in [Workers -> Task] /\ Busy'
BY DEF TypeInv, TypeOK, Busy, Goto, Task

\* Writing down what a handler found.
LEMMA TaskWrite ==
  ASSUME NEW f \in [Workers -> Task], NEW w \in Workers, NEW label \in PC
  PROVE  /\ \A p \in Payments :
              [f EXCEPT ![w].pc = label, ![w].payment = p] \in [Workers -> Task]
         /\ \A n \in RefundNumbers :
              [f EXCEPT ![w].pc = label, ![w].refund = n] \in [Workers -> Task]
         /\ \A row \in OrderRow :
              [f EXCEPT ![w].pc = label, ![w].view = row] \in [Workers -> Task]
<1>1. ASSUME NEW p \in Payments
      PROVE  [f EXCEPT ![w].pc = label, ![w].payment = p] \in [Workers -> Task]
  BY DEF Task
<1>2. ASSUME NEW n \in RefundNumbers
      PROVE  [f EXCEPT ![w].pc = label, ![w].refund = n] \in [Workers -> Task]
  BY DEF Task
<1>3. ASSUME NEW row \in OrderRow
      PROVE  [f EXCEPT ![w].pc = label, ![w].view = row] \in [Workers -> Task]
  BY DEF Task
<1> QED BY <1>1, <1>2, <1>3

\* A busy handler that moves and notes something down keeps its order.
LEMMA NoteType ==
  ASSUME TypeInv, NEW w \in Workers, task[w].pc # "idle", NEW label \in PC,
         \/ \E p \in Payments :
              task' = [task EXCEPT ![w].pc = label, ![w].payment = p]
         \/ \E n \in RefundNumbers :
              task' = [task EXCEPT ![w].pc = label, ![w].refund = n]
         \/ \E row \in OrderRow :
              task' = [task EXCEPT ![w].pc = label, ![w].view = row]
  PROVE  task' \in [Workers -> Task] /\ Busy'
<1>1. task' \in [Workers -> Task]
  <2>1. task \in [Workers -> Task]
    BY DEF TypeInv, TypeOK
  <2>2. CASE \E p \in Payments : task' = [task EXCEPT ![w].pc = label, ![w].payment = p]
    <3>1. PICK p \in Payments : task' = [task EXCEPT ![w].pc = label, ![w].payment = p]
      BY <2>2
    <3>2. [task EXCEPT ![w].pc = label, ![w].payment = p] \in [Workers -> Task]
      BY <2>1, TaskWrite
    <3> QED BY <3>1, <3>2
  <2>3. CASE \E n \in RefundNumbers : task' = [task EXCEPT ![w].pc = label, ![w].refund = n]
    <3>1. PICK n \in RefundNumbers : task' = [task EXCEPT ![w].pc = label, ![w].refund = n]
      BY <2>3
    <3>2. [task EXCEPT ![w].pc = label, ![w].refund = n] \in [Workers -> Task]
      BY <2>1, TaskWrite
    <3> QED BY <3>1, <3>2
  <2>4. CASE \E row \in OrderRow : task' = [task EXCEPT ![w].pc = label, ![w].view = row]
    <3>1. PICK row \in OrderRow : task' = [task EXCEPT ![w].pc = label, ![w].view = row]
      BY <2>4
    <3>2. [task EXCEPT ![w].pc = label, ![w].view = row] \in [Workers -> Task]
      BY <2>1, TaskWrite
    <3> QED BY <3>1, <3>2
  <2> QED BY <2>2, <2>3, <2>4
<1>2. \A v \in Workers : task'[v].order = task[v].order
  <2>1. task \in [Workers -> Task]
    BY DEF TypeInv, TypeOK
  <2>2. \A v \in Workers \ {w} : task'[v] = task[v]
    BY <2>1
  <2>3. task'[w].order = task[w].order
    BY <2>1 DEF Task
  <2> QED BY <2>2, <2>3
<1>3. \A v \in Workers \ {w} : task'[v].pc = task[v].pc
  BY DEF TypeInv, TypeOK
<1> QED BY <1>1, <1>2, <1>3 DEF TypeInv, Busy

\* A handler that ends is idle again.
LEMMA FinishType ==
  ASSUME TypeInv, NEW w \in Workers, Finish(w)
  PROVE  task' \in [Workers -> Task] /\ Busy'
<1>1. task' \in [Workers -> Task]
  BY NullTypes DEF TypeInv, TypeOK, Finish
<1>2. Busy'
  BY DEF TypeInv, TypeOK, Busy, Finish, IdleTask
<1> QED BY <1>1, <1>2

\* A handler begins on an order.
LEMMA BeginType ==
  ASSUME TypeInv, NEW w \in Workers, NEW label \in PC, NEW o \in Orders,
         NEW p \in Payments \cup {NoPayment}, NEW view \in OrderRow,
         Begin(w, label, o, p, view)
  PROVE  task' \in [Workers -> Task] /\ Busy'
BY DEF TypeInv, TypeOK, Busy, Begin, Task

\* Nothing happens to the handlers.
LEMMA SameType ==
  ASSUME TypeInv, UNCHANGED task
  PROVE  task' \in [Workers -> Task] /\ Busy'
BY DEF TypeInv, TypeOK, Busy

\* Writing columns of an Order row.
LEMMA StatusWrite ==
  ASSUME NEW f \in [Orders -> OrderRow], NEW o \in Orders,
         NEW s \in OrderStatus \cup {"NONE"}
  PROVE  [f EXCEPT ![o].status = s] \in [Orders -> OrderRow]
BY DEF OrderRow

LEMMA PayWrite ==
  ASSUME NEW f \in [Orders -> OrderRow], NEW o \in Orders, NEW m \in PaymentStatus
  PROVE  [f EXCEPT ![o].pay = m] \in [Orders -> OrderRow]
BY DEF OrderRow

LEMMA StatusAndPayWrite ==
  ASSUME NEW f \in [Orders -> OrderRow], NEW o \in Orders,
         NEW s \in OrderStatus \cup {"NONE"}, NEW m \in PaymentStatus
  PROVE  /\ [f EXCEPT ![o].status = s, ![o].pay = m] \in [Orders -> OrderRow]
         /\ [f EXCEPT ![o].pay = m, ![o].status = s] \in [Orders -> OrderRow]
<1>1. [f EXCEPT ![o].status = s, ![o].pay = m] \in [Orders -> OrderRow]
  BY DEF OrderRow
<1>2. [f EXCEPT ![o].pay = m, ![o].status = s] \in [Orders -> OrderRow]
  BY DEF OrderRow
<1> QED BY <1>1, <1>2

LEMMA StatusAndAwbWrite ==
  ASSUME NEW f \in [Orders -> OrderRow], NEW o \in Orders,
         NEW s \in OrderStatus \cup {"NONE"}, NEW b \in BOOLEAN
  PROVE  [f EXCEPT ![o].awb = b, ![o].status = s] \in [Orders -> OrderRow]
BY DEF OrderRow

\* Writing the status of a Payment row.
LEMMA PaymentWrite ==
  ASSUME NEW f \in [Payments -> PaymentRow], NEW p, NEW m \in PaymentStatus
  PROVE  [f EXCEPT ![p].status = m] \in [Payments -> PaymentRow]
BY DEF PaymentRow

\* A new attempt is a Payment row.
LEMMA NewAttemptType ==
  ASSUME NEW o \in Orders, NEW online \in BOOLEAN
  PROVE  NewAttempt(o, online) \in PaymentRow
<1>1. IsFiniteSet(Payments \ UnusedPayments)
  BY ShopAssumption, FS_Subset
<1>2. Cardinality(Payments \ UnusedPayments) \in Nat
  BY <1>1, FS_CardinalityType
<1> QED BY <1>2 DEF NewAttempt, PaymentRow, PaymentStatus

-----------------------------------------------------------------------------

LEMMA TypeInit == Init => TypeInv
BY NullTypes, ShopAssumption DEF Init, TypeInv, TypeOK, Busy, RefundState, IdleTask

\* Requests.
LEMMA TypeRequest ==
  ASSUME TypeInv, NEW w \in Workers, Request(w) PROVE TypeInv'
<1> USE NullTypes
<1>1. ASSUME NEW o \in Orders, PlaceOnlineOrder(w, o) PROVE TypeInv'
  <2>1. task' \in [Workers -> Task] /\ Busy'
    BY <1>1, BeginType DEF PlaceOnlineOrder, PC
  <2>2. orders' \in [Orders -> OrderRow]
    BY <1>1 DEF PlaceOnlineOrder, TypeInv, TypeOK, OrderRow, OrderStatus
  <2> QED BY <1>1, <2>1, <2>2 DEF PlaceOnlineOrder, TypeInv, TypeOK, gateway
<1>2. ASSUME NEW o \in Orders, PlaceCodOrder(w, o) PROVE TypeInv'
  <2>1. task' \in [Workers -> Task] /\ Busy'
    BY <1>2, BeginType, SameType DEF PlaceCodOrder, PC
  <2>2. orders' \in [Orders -> OrderRow]
    BY <1>2 DEF PlaceCodOrder, TypeInv, TypeOK, OrderRow, OrderStatus
  <2> QED BY <1>2, <2>1, <2>2 DEF PlaceCodOrder, TypeInv, TypeOK, gateway
<1>3. ASSUME NEW o \in Orders, ReplayPlaceOrder(w, o) PROVE TypeInv'
  <2>1. task' \in [Workers -> Task] /\ Busy'
    BY <1>3, BeginType DEF ReplayPlaceOrder, PC
  <2> QED BY <1>3, <2>1 DEF ReplayPlaceOrder, TypeInv, TypeOK, rows, gateway
<1>4. ASSUME NEW o \in Orders, NEW online \in BOOLEAN,
             CreatePaymentOrder(w, o, online) \/ RetryPayment(w, o, online)
      PROVE  TypeInv'
  <2>1. task' \in [Workers -> Task] /\ Busy'
    BY <1>4, BeginType DEF CreatePaymentOrder, RetryPayment, PC
  <2> QED BY <1>4, <2>1 DEF CreatePaymentOrder, RetryPayment, TypeInv, TypeOK,
                            rows, gateway
<1>5. ASSUME NEW o \in Orders, CancelOrder(w, o) \/ AdminCancelOrder(w, o)
      PROVE  TypeInv'
  <2>1. orders[o] \in OrderRow
    BY DEF TypeInv, TypeOK
  <2>2. task' \in [Workers -> Task] /\ Busy'
    BY <1>5, <2>1, BeginType DEF CancelOrder, AdminCancelOrder, PC
  <2> QED BY <1>5, <2>2 DEF CancelOrder, AdminCancelOrder, TypeInv, TypeOK,
                            rows, gateway
<1>6. ASSUME NEW p \in Payments, NEW valid \in BOOLEAN, VerifyPayment(w, p, valid)
      PROVE  TypeInv'
  <2>1. payments[p].order \in Orders
    BY <1>6 DEF VerifyPayment, TypeInv, TypeOK, PaymentRow
  <2>2. task' \in [Workers -> Task] /\ Busy'
    BY <1>6, <2>1, BeginType DEF VerifyPayment, PC
  <2> QED BY <1>6, <2>2 DEF VerifyPayment, TypeInv, TypeOK, rows, gateway
<1> QED BY <1>1, <1>2, <1>3, <1>4, <1>5, <1>6 DEF Request

\* Deliveries.
LEMMA TypeDeliver ==
  ASSUME TypeInv, NEW w \in Workers, NEW e \in Event, Deliver(w, e) PROVE TypeInv'
<1>1. /\ e.payment \in Payments
      /\ e.refund \in RefundNumbers \cup {0}
      /\ payments[e.payment].order \in Orders
      /\ logged' \subseteq Event
  BY DEF Event, TypeInv, TypeOK, PaymentRow, Deliver, ReceiveCaptured,
         ReceiveFailed, ReceiveRefundDone, ReceiveRefundFailed, LogEvent
<1>2. ASSUME ReceiveCaptured(w, e) \/ ReceiveFailed(w, e) PROVE TypeInv'
  <2>1. task' \in [Workers -> Task] /\ Busy'
    BY <1>1, <1>2, NullTypes, BeginType, SameType
    DEF ReceiveCaptured, ReceiveFailed, PC
  <2> QED BY <1>1, <1>2, <2>1 DEF ReceiveCaptured, ReceiveFailed, TypeInv, TypeOK,
                                  rows, gateway
<1>3. ASSUME ReceiveRefundDone(w, e) \/ ReceiveRefundFailed(w, e) PROVE TypeInv'
  <2>1. orders[payments[e.payment].order] \in OrderRow
    BY <1>1 DEF TypeInv, TypeOK
  <2>2. ASSUME NEW label \in PC, BeginRefundEvent(w, label, e)
        PROVE  task' \in [Workers -> Task] /\ Busy'
    BY <1>1, <2>1, <2>2 DEF BeginRefundEvent, TypeInv, TypeOK, Busy, Task
  <2>3. task' \in [Workers -> Task] /\ Busy'
    BY <1>3, <2>2, SameType DEF ReceiveRefundDone, ReceiveRefundFailed, PC
  <2> QED BY <1>1, <1>3, <2>3 DEF ReceiveRefundDone, ReceiveRefundFailed, TypeInv,
                                  TypeOK, rows, gateway
<1> QED BY <1>2, <1>3 DEF Deliver

\* The handler steps that read and decide, and write no row.
Decides(w) ==
  \/ PrepareOnlinePayment(w) \/ GatewayOrderFails(w) \/ PromoteNothing(w)
  \/ SkipLateCapture(w) \/ RefundReadOrder(w) \/ RefundGuard(w)
  \/ CancelConflict(w) \/ AdminCancelConflict(w) \/ AdminRefundGuard(w)
  \/ ShipOnce(w) \/ ShipLock(w) \/ ShipFails(w) \/ DatabaseError(w)

LEMMA TypeDecides ==
  ASSUME TypeInv, NEW w \in Workers, Decides(w) PROVE TypeInv'
<1>1. task[w].pc # "idle" /\ UNCHANGED <<rows, gateway, logged>>
  BY DEF Decides, PrepareOnlinePayment, GatewayOrderFails, PromoteNothing,
         SkipLateCapture, RefundReadOrder, RefundGuard, CancelConflict,
         AdminCancelConflict, AdminRefundGuard, ShipOnce, ShipLock, ShipFails,
         DatabaseError, At
<1>2. Finish(w) \/ \E label \in PC : Goto(w, label)
  BY DEF Decides, PrepareOnlinePayment, GatewayOrderFails, PromoteNothing,
         SkipLateCapture, RefundReadOrder, RefundGuard, CancelConflict,
         AdminCancelConflict, AdminRefundGuard, ShipOnce, ShipLock, ShipFails,
         DatabaseError, PC
<1>3. task' \in [Workers -> Task] /\ Busy'
  BY <1>1, <1>2, FinishType, GotoType
<1> QED BY <1>1, <1>3 DEF TypeInv, TypeOK, rows, gateway

\* The steps that open an attempt, record a capture and promote the order.
LEMMA TypePayment ==
  ASSUME TypeInv, NEW w \in Workers, task[w].order \in Orders,
         \/ \E p \in Payments : InsertPayment(w, p)
         \/ RejectSignature(w) \/ MarkPaymentCompleted(w) \/ MarkPaymentFailed(w)
         \/ PromotePending(w) \/ PromoteVisible(w) \/ ClaimLateCapture(w)
  PROVE  TypeInv'
<1>1. ASSUME NEW p \in Payments, InsertPayment(w, p) PROVE TypeInv'
  <2>1. task' \in [Workers -> Task] /\ Busy'
    BY <1>1, FinishType DEF InsertPayment
  <2>2. task[w].order \in Orders
    BY <1>1 DEF InsertPayment, At, TypeInv, Busy
  <2>3. payments' \in [Payments -> PaymentRow]
    BY <1>1, <2>2, NewAttemptType DEF InsertPayment, TypeInv, TypeOK, At
  <2> QED BY <1>1, <2>1, <2>3 DEF InsertPayment, TypeInv, TypeOK, gateway
<1>2. ASSUME RejectSignature(w) \/ MarkPaymentCompleted(w) PROVE TypeInv'
  <2>1. task' \in [Workers -> Task] /\ Busy'
    BY <1>2, FinishType, GotoType DEF RejectSignature, MarkPaymentCompleted, At, PC
  <2>2. payments' \in [Payments -> PaymentRow]
    <3>1. CASE RejectSignature(w)
      BY <3>1, PaymentWrite DEF RejectSignature, TypeInv, TypeOK, PaymentStatus
    <3>2. CASE MarkPaymentCompleted(w)
      BY <3>2, PaymentWrite DEF MarkPaymentCompleted, TypeInv, TypeOK, PaymentStatus
    <3> QED BY <1>2, <3>1, <3>2
  <2> QED BY <1>2, <2>1, <2>2
          DEF RejectSignature, MarkPaymentCompleted, TypeInv, TypeOK, gateway
<1>3. ASSUME MarkPaymentFailed(w) PROVE TypeInv'
  <2>1. task' \in [Workers -> Task] /\ Busy'
    BY <1>3, FinishType DEF MarkPaymentFailed
  <2>2. payments' \in [Payments -> PaymentRow]
    BY <1>3, PaymentWrite DEF MarkPaymentFailed, TypeInv, TypeOK, PaymentStatus
  <2>3. orders' \in [Orders -> OrderRow]
    BY <1>3, PayWrite DEF MarkPaymentFailed, TypeInv, TypeOK, PaymentStatus
  <2> QED BY <1>3, <2>1, <2>2, <2>3 DEF MarkPaymentFailed, TypeInv, TypeOK, gateway
<1>4. ASSUME PromotePending(w) PROVE TypeInv'
  <2>1. task' \in [Workers -> Task] /\ Busy'
    BY <1>4, FinishType, GotoType DEF PromotePending, AfterClaim, At, PC
  <2>2. orders' \in [Orders -> OrderRow]
    BY <1>4, StatusAndPayWrite DEF PromotePending, TypeInv, TypeOK, OrderStatus, PaymentStatus
  <2> QED BY <1>4, <2>1, <2>2 DEF PromotePending, TypeInv, TypeOK, gateway
<1>5. ASSUME PromoteVisible(w) PROVE TypeInv'
  <2>1. task' \in [Workers -> Task] /\ Busy'
    BY <1>5, FinishType, GotoType DEF PromoteVisible, AfterClaim, At, PC
  <2>2. orders' \in [Orders -> OrderRow]
    BY <1>5, PayWrite DEF PromoteVisible, TypeInv, TypeOK, PaymentStatus
  <2> QED BY <1>5, <2>1, <2>2 DEF PromoteVisible, TypeInv, TypeOK, gateway
<1>6. ASSUME ClaimLateCapture(w) PROVE TypeInv'
  <2>1. task' \in [Workers -> Task] /\ Busy'
    BY <1>6, GotoType DEF ClaimLateCapture, At, PC
  <2>2. orders' \in [Orders -> OrderRow]
    BY <1>6, PayWrite DEF ClaimLateCapture, TypeInv, TypeOK, PaymentStatus
  <2> QED BY <1>6, <2>1, <2>2 DEF ClaimLateCapture, TypeInv, TypeOK, gateway
<1> QED BY <1>1, <1>2, <1>3, <1>4, <1>5, <1>6

\* A recorded refund is a RefundAudit row.
LEMMA AddAuditType ==
  ASSUME TypeInv, NEW o \in Orders, NEW p \in Payments \cup {NoPayment},
         NEW n \in RefundNumbers \cup {0}, NEW status \in AuditStatus,
         AddAudit(o, p, n, status)
  PROVE  audits' \subseteq AuditRow
BY DEF TypeInv, TypeOK, AddAudit, AuditRow

\* The steps of a refund.
LEMMA TypeRefund ==
  ASSUME TypeInv, NEW w \in Workers,
         \/ RefundCodManually(w) \/ RefundWithoutCapture(w)
         \/ RefundRejected(w) \/ RefundPersist(w) \/ RefundPersistFails(w)
         \/ \E p \in Payments : RefundPickPayment(w, p)
         \/ \E n \in RefundNumbers : RefundAccepted(w, n)
  PROVE  TypeInv'
<1>1. /\ task[w].order \in Orders
      /\ task[w].payment \in Payments \cup {NoPayment}
      /\ task[w].refund \in RefundNumbers \cup {0}
  BY DEF TypeInv, TypeOK, Busy, Task, At, RefundCodManually, RefundWithoutCapture,
         RefundRejected, RefundPersist, RefundPersistFails, RefundPickPayment,
         RefundAccepted
<1>2. ASSUME RefundCodManually(w) \/ RefundWithoutCapture(w) \/ RefundRejected(w)
             \/ RefundPersistFails(w)
      PROVE  TypeInv'
  <2>1. task' \in [Workers -> Task] /\ Busy'
    BY <1>2, FinishType
    DEF RefundCodManually, RefundWithoutCapture, RefundRejected, RefundPersistFails
  <2>2. audits' \subseteq AuditRow
    BY <1>1, <1>2, AddAuditType
    DEF RefundCodManually, RefundWithoutCapture, RefundRejected, RefundPersistFails,
        AuditStatus, TypeInv, TypeOK
  <2> QED BY <1>2, <2>1, <2>2
          DEF RefundCodManually, RefundWithoutCapture, RefundRejected,
              RefundPersistFails, TypeInv, TypeOK, gateway
<1>3. ASSUME RefundPersist(w) PROVE TypeInv'
  <2>1. task' \in [Workers -> Task] /\ Busy'
    BY <1>3, FinishType DEF RefundPersist
  <2>2. audits' \subseteq AuditRow
    BY <1>1, <1>3, AddAuditType DEF RefundPersist, AuditStatus
  <2>3. payments' \in [Payments -> PaymentRow]
    BY <1>3, PaymentWrite DEF RefundPersist, TypeInv, TypeOK, PaymentStatus
  <2>4. orders' \in [Orders -> OrderRow]
    BY <1>1, <1>3, PayWrite DEF RefundPersist, TypeInv, TypeOK, PaymentStatus
  <2> QED BY <1>3, <2>1, <2>2, <2>3, <2>4 DEF RefundPersist, TypeInv, TypeOK, gateway
<1>4. ASSUME NEW p \in Payments, RefundPickPayment(w, p) PROVE TypeInv'
  <2>1. task' \in [Workers -> Task] /\ Busy'
    BY <1>4, NoteType DEF RefundPickPayment, At, PC
  <2> QED BY <1>4, <2>1 DEF RefundPickPayment, TypeInv, TypeOK, rows, gateway
<1>5. ASSUME NEW n \in RefundNumbers, RefundAccepted(w, n) PROVE TypeInv'
  <2>1. task' \in [Workers -> Task] /\ Busy'
    BY <1>5, NoteType DEF RefundAccepted, At, PC
  <2>2. task[w].payment \in Payments
    BY <1>5 DEF RefundAccepted, TypeInv, TypeOK
  <2>3. refunds' \in [Payments -> [RefundNumbers -> RefundState]]
    BY <1>5, <2>2 DEF RefundAccepted, TypeInv, TypeOK, RefundState
  <2>4. sent' \subseteq Event
    <3> DEFINE event == [kind |-> "refundCreated", payment |-> task[w].payment, refund |-> n]
    <3>1. {event} \in SUBSET Event
      BY <2>2 DEF Event, EventKind
    <3> QED BY <1>5, <3>1 DEF RefundAccepted, Announce, TypeInv, TypeOK
  <2> QED BY <1>5, <2>1, <2>3, <2>4 DEF RefundAccepted, TypeInv, TypeOK, rows
<1> QED BY <1>2, <1>3, <1>4, <1>5

\* The refund events.
LEMMA TypeRefundEvent ==
  ASSUME TypeInv, NEW w \in Workers, MarkRefunded(w) \/ MarkRefundFailed(w)
  PROVE  TypeInv'
<1>1. /\ task[w].order \in Orders
      /\ task[w].payment \in Payments \cup {NoPayment}
      /\ task[w].refund \in RefundNumbers \cup {0}
  BY DEF TypeInv, TypeOK, Busy, Task, At, MarkRefunded, MarkRefundFailed
<1>2. task' \in [Workers -> Task] /\ Busy'
  BY FinishType DEF MarkRefunded, MarkRefundFailed
<1>3. ASSUME NEW status \in AuditStatus, SettleAudit(task[w], status)
      PROVE  audits' \subseteq AuditRow
  BY <1>1, <1>3 DEF SettleAudit, TypeInv, TypeOK, AuditRow
<1>4. audits' \subseteq AuditRow
  BY <1>3 DEF MarkRefunded, MarkRefundFailed, AuditStatus, TypeInv, TypeOK
<1>5. payments' \in [Payments -> PaymentRow]
  <2> USE DEF PaymentStatus
  <2>1. ASSUME NEW p \in Payments PROVE Reopen(payments[p].status) \in PaymentStatus
    BY DEF Reopen, TypeInv, TypeOK, PaymentRow, PaymentStatus
  <2>2. CASE MarkRefunded(w)
    <3>1. CASE payments' = [payments EXCEPT ![task[w].payment].status = "REFUNDED"]
      BY <3>1, PaymentWrite DEF TypeInv, TypeOK
    <3>2. CASE UNCHANGED payments
      BY <3>2 DEF TypeInv, TypeOK
    <3> QED BY <2>2, <3>1, <3>2 DEF MarkRefunded
  <2>3. CASE MarkRefundFailed(w)
    BY <2>3, <2>1, PaymentWrite DEF MarkRefundFailed, TypeInv, TypeOK
  <2> QED BY <2>2, <2>3
<1>6. orders' \in [Orders -> OrderRow]
  <2>1. /\ Reopen(orders[task[w].order].pay) \in PaymentStatus
        /\ StatusAfterRefund(task[w].view.status, orders[task[w].order].status)
             \in OrderStatus \cup {"NONE"}
    BY <1>1 DEF Reopen, StatusAfterRefund, TypeInv, TypeOK, OrderRow, OrderStatus,
                PaymentStatus
  <2>2. CASE MarkRefunded(w)
    <3>1. CASE orders' = [orders EXCEPT
                 ![task[w].order].status =
                   StatusAfterRefund(task[w].view.status, orders[task[w].order].status),
                 ![task[w].order].pay = "REFUNDED"]
      BY ZenonT(60), <1>1, <2>1, <3>1, StatusAndPayWrite DEF TypeInv, TypeOK, PaymentStatus
    <3>2. CASE UNCHANGED orders
      BY <3>2 DEF TypeInv, TypeOK
    <3> QED BY <1>1, <2>2, <3>1, <3>2 DEF MarkRefunded, TypeInv, TypeOK
  <2>3. CASE MarkRefundFailed(w)
    BY <1>1, <2>1, <2>3, PayWrite DEF MarkRefundFailed, TypeInv, TypeOK
  <2> QED BY <2>2, <2>3
<1> QED BY <1>2, <1>4, <1>5, <1>6 DEF MarkRefunded, MarkRefundFailed, TypeInv,
                                      TypeOK, gateway

\* Cancellation and shipment.
LEMMA TypeFulfilment ==
  ASSUME TypeInv, NEW w \in Workers,
         \/ CancelCommit(w) \/ ShipRead(w) \/ ShipSave(w)
         \/ \E restockItems \in BOOLEAN : AdminCancelCommit(w, restockItems)
  PROVE  TypeInv'
<1>1. ASSUME \/ CancelCommit(w)
             \/ \E restockItems \in BOOLEAN : AdminCancelCommit(w, restockItems)
      PROVE  TypeInv'
  <2>1. task' \in [Workers -> Task] /\ Busy'
    BY <1>1, FinishType, GotoType DEF CancelCommit, AdminCancelCommit, AfterCancel, At, PC
  <2>2. task[w].order \in Orders
    BY <1>1 DEF CancelCommit, AdminCancelCommit, At, TypeInv, Busy
  <2>3. orders' = [orders EXCEPT ![task[w].order].status = "CANCELLED"]
    BY <1>1 DEF CancelCommit, AdminCancelCommit
  <2>4. orders' \in [Orders -> OrderRow]
    BY <2>2, <2>3, StatusWrite DEF TypeInv, TypeOK, OrderStatus
  <2>5. stock' \in Int
    BY <1>1 DEF CancelCommit, AdminCancelCommit, TypeInv, TypeOK
  <2> QED BY <1>1, <2>1, <2>4, <2>5 DEF CancelCommit, AdminCancelCommit, TypeInv, TypeOK, gateway
<1>2. ASSUME ShipRead(w) PROVE TypeInv'
  <2>1. orders[task[w].order] \in OrderRow
    BY <1>2 DEF ShipRead, At, TypeInv, TypeOK, Busy
  <2>2. task' \in [Workers -> Task] /\ Busy'
    BY <1>2, <2>1, NoteType DEF ShipRead, At, PC
  <2> QED BY <1>2, <2>2 DEF ShipRead, TypeInv, TypeOK, rows, gateway
<1>3. ASSUME ShipSave(w) PROVE TypeInv'
  <2>1. task' \in [Workers -> Task] /\ Busy'
    BY <1>3, FinishType DEF ShipSave
  <2>2. /\ task[w].order \in Orders
        /\ PackedFrom(task[w].view.status) \in OrderStatus \cup {"NONE"}
    BY <1>3 DEF ShipSave, PackedFrom, At, TypeInv, TypeOK, Busy, Task, OrderRow, OrderStatus
  <2>3. orders' \in [Orders -> OrderRow]
    BY <1>3, <2>2, StatusAndAwbWrite DEF ShipSave, TypeInv, TypeOK
  <2> QED BY <1>3, <2>1, <2>3 DEF ShipSave, TypeInv, TypeOK, gateway
<1> QED BY <1>1, <1>2, <1>3

\* Every step of a handler.
LEMMA TypeContinue ==
  ASSUME TypeInv, NEW w \in Workers, Continue(w) PROVE TypeInv'
<1>1. CASE Decides(w)
  BY <1>1, TypeDecides
<1>2. CASE ~Decides(w)
  <2>1. task[w].pc # "idle"
    BY <1>2 DEF Continue, Decides, At, InsertPayment, RejectSignature,
         MarkPaymentCompleted, MarkPaymentFailed, PromotePending, PromoteVisible,
         ClaimLateCapture, RefundCodManually, RefundWithoutCapture, RefundPickPayment,
         RefundAccepted, RefundRejected, RefundPersist, RefundPersistFails,
         MarkRefunded, MarkRefundFailed, CancelCommit, AdminCancelCommit, ShipRead,
         ShipSave
  <2>2. task[w].order \in Orders
    BY <2>1 DEF TypeInv, Busy
  <2> QED BY <1>2, <2>2, TypePayment, TypeRefund, TypeRefundEvent, TypeFulfilment
          DEF Continue, Decides
<1> QED BY <1>1, <1>2

\* Everything else that moves: the gateway, the jobs, time, crashes.
LEMMA TypeEnvironment ==
  ASSUME TypeInv, Environment PROVE TypeInv'
<1>1. ASSUME NEW p \in Payments,
             GatewayAuthorize(p) \/ GatewayCapture(p) \/ GatewayDecline(p)
      PROVE  TypeInv'
  <2>1. sent' \subseteq Event
    BY <1>1 DEF GatewayAuthorize, GatewayCapture, GatewayDecline, Announce,
                PaymentEvent, TypeInv, TypeOK, Event, EventKind
  <2> QED BY <1>1, <2>1, SameType
          DEF GatewayAuthorize, GatewayCapture, GatewayDecline, TypeInv, TypeOK, rows
<1>2. ASSUME NEW p \in Payments, NEW n \in RefundNumbers,
             NEW outcome \in {"processed", "failed"}, GatewayRefundEnds(p, n, outcome)
      PROVE  TypeInv'
  <2>1. sent' \subseteq Event
    BY <1>2 DEF GatewayRefundEnds, Announce, TypeInv, TypeOK, Event, EventKind
  <2>2. refunds' \in [Payments -> [RefundNumbers -> RefundState]]
    BY <1>2 DEF GatewayRefundEnds, TypeInv, TypeOK, RefundState
  <2> QED BY <1>2, <2>1, <2>2, SameType DEF GatewayRefundEnds, TypeInv, TypeOK, rows
<1>3. ASSUME NEW o \in Orders, WindowExpires(o) \/ CancelAbandonedOrder(o)
      PROVE  TypeInv'
  <2>1. orders' \in [Orders -> OrderRow]
    BY <1>3 DEF WindowExpires, CancelAbandonedOrder, TypeInv, TypeOK, OrderRow,
                OrderStatus
  <2> QED BY <1>3, <2>1, SameType DEF WindowExpires, CancelAbandonedOrder, TypeInv,
                                      TypeOK, gateway
<1>4. ASSUME NEW o \in Orders, NEW p \in Payments, ConfirmCod(o, p) PROVE TypeInv'
  <2>1. orders' \in [Orders -> OrderRow]
    <3>1. /\ orders \in [Orders -> OrderRow]
          /\ "PLACED" \in OrderStatus \cup {"NONE"} /\ "PENDING" \in PaymentStatus
      BY DEF TypeInv, TypeOK, OrderStatus, PaymentStatus
    <3>2. orders' = [orders EXCEPT ![o].pay = "PENDING", ![o].status = "PLACED"]
      BY <1>4 DEF ConfirmCod
    <3> HIDE <1>4
    <3> QED BY <3>1, <3>2, StatusAndPayWrite, Zenon
  <2>2. payments' \in [Payments -> PaymentRow]
    BY <1>4, NewAttemptType DEF ConfirmCod, TypeInv, TypeOK
  <2> QED BY <1>4, <2>1, <2>2, SameType DEF ConfirmCod, TypeInv, TypeOK, gateway
<1>5. ASSUME NEW w \in Workers, DatabaseError(w) PROVE TypeInv'
  BY <1>5, TypeDecides DEF Decides
<1>6. ASSUME NEW i, Crash(i) PROVE TypeInv'
  <2>1. task' \in [Workers -> Task] /\ Busy'
    BY <1>6, NullTypes DEF Crash, TypeInv, TypeOK, Busy, IdleTask
  <2> QED BY <1>6, <2>1 DEF Crash, TypeInv, TypeOK, rows, gateway
<1> QED BY <1>1, <1>2, <1>3, <1>4, <1>5, <1>6 DEF Environment

LEMMA TypeNext == TypeInv /\ [Next]_vars => TypeInv'
<1> SUFFICES ASSUME TypeInv, [Next]_vars PROVE TypeInv'
  OBVIOUS
<1>1. CASE UNCHANGED vars
  BY <1>1 DEF vars, TypeInv, TypeOK, Busy
<1> QED BY <1>1, TypeRequest, TypeContinue, TypeDeliver, TypeEnvironment DEF Next

\* Every reachable state of the shop has the declared types, and a handler that
\* is at work works on an order: no request, job, event or crash leaves a row
\* with a status its enum does not have.
THEOREM TypeCorrect == Spec => [](TypeOK /\ Busy)
<1>1. Spec => []TypeInv
  BY TypeInit, TypeNext, PTL DEF Spec
<1>2. TypeInv => TypeOK /\ Busy
  BY DEF TypeInv
<1> QED BY <1>1, <1>2, PTL

-----------------------------------------------------------------------------
(* No order counts as paid, is visible as an online order or is booked with *)
(* the courier unless the gateway captured one of its attempts.             *)
(*                                                                          *)
(* The invariant says what each handler may rely on: one that is past the   *)
(* point where it learned of a capture (a valid signature, a capture event, *)
(* an order row it read as paid) works on an order that is paid for, and    *)
(* what the gateway ever told the shop is true of the gateway's own books.  *)

RefundKinds == {"refundCreated", "refundProcessed", "refundFailed"}

\* What the gateway announced happened.
GatewayBooks ==
  /\ \A p \in captured : payments[p].order \in Orders
  /\ \A p \in Payments : RefundsOf(p) # {} => p \in captured
  /\ \A e \in sent : e.kind \in Subscribed
  /\ \A e \in sent : e.kind \notin {"authorized", "failed"} => e.payment \in captured
  /\ \A e \in sent : e.kind \in RefundKinds => RefundsOf(e.payment) # {}

MoneyLabels ==
  {"capture", "promote", "late_refund", "refund_order", "refund_guard",
   "refund_payment", "refund_call", "refund_save", "refund_processed",
   "refund_failed", "admin_refund", "ship_once"}

ShipLabels == {"ship_once", "ship_read", "ship_lock", "ship_save"}

\* What a handler that holds `t` may rely on.
Trusted(t) ==
  /\ t.pc \in MoneyLabels => PaidFor(t.order)
  /\ t.view.pay \in MoneyStatus => PaidFor(t.order)
  /\ t.pc \in ShipLabels => PaidFor(t.order) \/ orders[t.order].cod

MoneyHandlers == \A w \in Workers : Trusted(task[w])

MoneyInv == TypeInv /\ GatewayBooks /\ MoneyHandlers /\ PaidOrdersWereCaptured

-----------------------------------------------------------------------------
(* What no step undoes. *)

MethodLasts(o) ==
  /\ orders[o].cod => orders'[o].cod
  /\ orders'[o].cod => orders[o].cod \/ orders'[o].status = "PLACED"

Lasting ==
  /\ captured \subseteq captured'
  /\ \A p \in Payments : payments[p].order \in Orders =>
       payments'[p].order = payments[p].order
  /\ \A o \in Orders : MethodLasts(o)
  /\ \A p \in Payments : RefundsOf(p) # {} => RefundsOf(p)' # {}

\* A new attempt takes a row that belongs to no order.
LEMMA InsertLasts ==
  ASSUME TypeInv, NEW p \in UnusedPayments, NEW row \in PaymentRow,
         payments' = [payments EXCEPT ![p] = row]
  PROVE  \A q \in Payments : payments[q].order \in Orders =>
           payments'[q].order = payments[q].order
BY ShopAssumption DEF TypeInv, TypeOK, UnusedPayments

\* Marking an attempt leaves its order alone.
LEMMA MarkLasts ==
  ASSUME TypeInv, NEW x, NEW m, payments' = [payments EXCEPT ![x].status = m]
  PROVE  \A q \in Payments : payments'[q].order = payments[q].order
BY DEF TypeInv, TypeOK, PaymentRow

\* One row is written, and not its payment method.
OnlyRow(x) ==
  \A q \in Orders :
    /\ orders'[q].cod = orders[q].cod
    /\ q # x => orders'[q] = orders[q]

\* Every way the code writes an existing order row is such a write.
LEMMA RowLasts ==
  ASSUME TypeInv
  PROVE  /\ \A x, s : orders' = [orders EXCEPT ![x].status = s] => OnlyRow(x)
         /\ \A x, m : orders' = [orders EXCEPT ![x].pay = m] => OnlyRow(x)
         /\ \A x, s, m :
              orders' = [orders EXCEPT ![x].status = s, ![x].pay = m] => OnlyRow(x)
         /\ \A x, s, m :
              orders' = [orders EXCEPT ![x].pay = m, ![x].status = s] => OnlyRow(x)
         /\ \A x, s, b :
              orders' = [orders EXCEPT ![x].awb = b, ![x].status = s] => OnlyRow(x)
<1> USE DEF TypeInv, TypeOK, OrderRow, OnlyRow
<1>1. ASSUME NEW x, NEW s, orders' = [orders EXCEPT ![x].status = s] PROVE OnlyRow(x)
  BY <1>1
<1>2. ASSUME NEW x, NEW m, orders' = [orders EXCEPT ![x].pay = m] PROVE OnlyRow(x)
  BY <1>2
<1>3. ASSUME NEW x, NEW s, NEW m,
             orders' = [orders EXCEPT ![x].status = s, ![x].pay = m]
      PROVE  OnlyRow(x)
  BY <1>3
<1>4. ASSUME NEW x, NEW s, NEW m,
             orders' = [orders EXCEPT ![x].pay = m, ![x].status = s]
      PROVE  OnlyRow(x)
  BY <1>4
<1>5. ASSUME NEW x, NEW s, NEW b,
             orders' = [orders EXCEPT ![x].awb = b, ![x].status = s]
      PROVE  OnlyRow(x)
  BY <1>5
<1> HIDE DEF OnlyRow
<1> QED BY <1>1, <1>2, <1>3, <1>4, <1>5

\* The attempt of an order, the order's payment method and the money the
\* gateway took or gave back are for ever.
LEMMA Lasts == ASSUME TypeInv, [Next]_vars PROVE Lasting
<1> USE DEF TypeInv, TypeOK, MethodLasts
<1>1. CASE UNCHANGED vars
  BY <1>1 DEF vars, Lasting, RefundsOf
<1>2. ASSUME NEW w \in Workers, Request(w) PROVE Lasting
  <2>1. UNCHANGED <<captured, payments, refunds>>
    BY <1>2 DEF Request, PlaceOnlineOrder, PlaceCodOrder, ReplayPlaceOrder,
         CreatePaymentOrder, RetryPayment, CancelOrder, AdminCancelOrder,
         VerifyPayment, rows, gateway
  <2>2. ASSUME NEW o \in Orders, PlaceOnlineOrder(w, o) \/ PlaceCodOrder(w, o)
        PROVE  \A q \in Orders : MethodLasts(q)
    <3>1. CASE PlaceOnlineOrder(w, o)
      BY <3>1, RowLasts DEF OnlyRow, PlaceOnlineOrder
    <3>2. CASE PlaceCodOrder(w, o)
      BY <3>2 DEF PlaceCodOrder, OrderRow
    <3> QED BY <2>2, <3>1, <3>2
  <2>3. \A q \in Orders : MethodLasts(q)
    BY <1>2, <2>2 DEF Request, ReplayPlaceOrder, CreatePaymentOrder, RetryPayment,
         CancelOrder, AdminCancelOrder, VerifyPayment, rows
  <2> QED BY <2>1, <2>3 DEF Lasting, RefundsOf
<1>3. ASSUME NEW w \in Workers, NEW e \in Event, Deliver(w, e) PROVE Lasting
  BY <1>3 DEF Deliver, ReceiveCaptured, ReceiveFailed, ReceiveRefundDone,
       ReceiveRefundFailed, rows, gateway, Lasting, RefundsOf
<1>4. ASSUME NEW w \in Workers, Decides(w) PROVE Lasting
  <2>1. UNCHANGED <<rows, gateway>>
    BY <1>4 DEF Decides, PrepareOnlinePayment, GatewayOrderFails, PromoteNothing,
         SkipLateCapture, RefundReadOrder, RefundGuard, CancelConflict,
         AdminCancelConflict, AdminRefundGuard, ShipOnce, ShipLock, ShipFails,
         DatabaseError
  <2> QED BY <2>1 DEF rows, gateway, Lasting, RefundsOf
<1>5. ASSUME NEW w \in Workers, NEW p \in Payments, InsertPayment(w, p)
      PROVE  Lasting
  <2>1. task[w].order \in Orders
    BY <1>5 DEF InsertPayment, At, Busy
  <2>2. \A q \in Payments : payments[q].order \in Orders =>
          payments'[q].order = payments[q].order
    BY <1>5, <2>1, InsertLasts, NewAttemptType DEF InsertPayment, At
  <2> QED BY <1>5, <2>2 DEF InsertPayment, gateway, Lasting, RefundsOf
<1>6. ASSUME NEW w \in Workers, RejectSignature(w) \/ MarkPaymentCompleted(w)
      PROVE  Lasting
  BY <1>6, MarkLasts DEF RejectSignature, MarkPaymentCompleted, gateway, Lasting,
                         RefundsOf
<1>7. ASSUME NEW w \in Workers, MarkPaymentFailed(w) \/ RefundPersist(w)
      PROVE  Lasting
  <2>1. \A q \in Payments : payments'[q].order = payments[q].order
    BY <1>7, MarkLasts DEF MarkPaymentFailed, RefundPersist
  <2>2. \A o \in Orders : orders'[o].cod = orders[o].cod
    BY <1>7, RowLasts DEF OnlyRow, MarkPaymentFailed, RefundPersist
  <2> QED BY <1>7, <2>1, <2>2 DEF MarkPaymentFailed, RefundPersist, gateway,
                                  Lasting, RefundsOf
<1>8. ASSUME NEW w \in Workers, MarkRefunded(w) \/ MarkRefundFailed(w)
      PROVE  Lasting
  <2>1. \A q \in Payments : payments'[q].order = payments[q].order
    BY <1>8, MarkLasts DEF MarkRefunded, MarkRefundFailed
  <2>2. \A o \in Orders : orders'[o].cod = orders[o].cod
    <3>1. CASE MarkRefunded(w)
      <4>1. CASE UNCHANGED orders
        BY <4>1
      <4>2. CASE orders' = [orders EXCEPT
                   ![task[w].order].status =
                     StatusAfterRefund(task[w].view.status, orders[task[w].order].status),
                   ![task[w].order].pay = "REFUNDED"]
        BY <4>2, RowLasts DEF OnlyRow
      <4>3. task[w].order \in Orders
        BY <3>1 DEF MarkRefunded, At, Busy
      <4> QED BY <3>1, <4>1, <4>2, <4>3 DEF MarkRefunded
    <3>2. CASE MarkRefundFailed(w)
      BY <3>2, RowLasts DEF OnlyRow, MarkRefundFailed
    <3> QED BY <1>8, <3>1, <3>2
  <2> QED BY <1>8, <2>1, <2>2 DEF MarkRefunded, MarkRefundFailed, gateway,
                                  Lasting, RefundsOf
<1>9. ASSUME NEW w \in Workers,
             \/ PromotePending(w) \/ PromoteVisible(w) \/ ClaimLateCapture(w)
             \/ CancelCommit(w) \/ ShipSave(w)
             \/ \E restockItems \in BOOLEAN : AdminCancelCommit(w, restockItems)
      PROVE  Lasting
  <2>1. \A o \in Orders : orders'[o].cod = orders[o].cod
    BY <1>9, RowLasts DEF OnlyRow, PromotePending, PromoteVisible, ClaimLateCapture,
         CancelCommit, ShipSave, AdminCancelCommit
  <2>2. UNCHANGED <<payments, gateway>>
    BY <1>9 DEF PromotePending, PromoteVisible, ClaimLateCapture, CancelCommit,
         ShipSave, AdminCancelCommit
  <2> QED BY <2>1, <2>2 DEF gateway, Lasting, RefundsOf
<1>10. ASSUME NEW w \in Workers,
              \/ RefundCodManually(w) \/ RefundWithoutCapture(w)
              \/ RefundRejected(w) \/ RefundPersistFails(w) \/ ShipRead(w)
              \/ \E p \in Payments : RefundPickPayment(w, p)
       PROVE  Lasting
  <2>1. UNCHANGED <<orders, payments, gateway>>
    BY <1>10 DEF RefundCodManually, RefundWithoutCapture, RefundRejected,
         RefundPersistFails, RefundPickPayment, ShipRead, rows
  <2> QED BY <2>1 DEF gateway, Lasting, RefundsOf
<1>11. ASSUME NEW w \in Workers, NEW n \in RefundNumbers, RefundAccepted(w, n)
       PROVE  Lasting
  <2>1. \A p \in Payments : RefundsOf(p) \subseteq RefundsOf(p)'
    BY <1>11 DEF RefundAccepted, RefundsOf
  <2> QED BY <1>11, <2>1 DEF RefundAccepted, rows, Lasting
<1>12. ASSUME NEW p \in Payments,
              GatewayAuthorize(p) \/ GatewayCapture(p) \/ GatewayDecline(p)
       PROVE  Lasting
  BY <1>12 DEF GatewayAuthorize, GatewayCapture, GatewayDecline, rows, Lasting,
               RefundsOf
<1>13. ASSUME NEW p \in Payments, NEW n \in RefundNumbers,
              NEW outcome \in {"processed", "failed"}, GatewayRefundEnds(p, n, outcome)
       PROVE  Lasting
  <2>1. \A q \in Payments : RefundsOf(q) \subseteq RefundsOf(q)'
    BY <1>13 DEF GatewayRefundEnds, RefundsOf
  <2> QED BY <1>13, <2>1 DEF GatewayRefundEnds, rows, Lasting
<1>14. ASSUME NEW o \in Orders, WindowExpires(o) \/ CancelAbandonedOrder(o)
       PROVE  Lasting
  <2>1. \A q \in Orders : orders'[q].cod = orders[q].cod
    BY <1>14, RowLasts DEF OnlyRow, WindowExpires, CancelAbandonedOrder
  <2> QED BY <1>14, <2>1 DEF WindowExpires, CancelAbandonedOrder, gateway, Lasting,
                             RefundsOf
<1>15. ASSUME NEW o \in Orders, NEW p \in Payments, ConfirmCod(o, p)
       PROVE  Lasting
  <2>1. \A q \in Orders : orders'[q].cod = orders[q].cod
    BY <1>15, RowLasts DEF OnlyRow, ConfirmCod
  <2>2. \A q \in Payments : payments[q].order \in Orders =>
          payments'[q].order = payments[q].order
    BY <1>15, InsertLasts, NewAttemptType DEF ConfirmCod
  <2> QED BY <1>15, <2>1, <2>2 DEF ConfirmCod, gateway, Lasting, RefundsOf
<1>16. ASSUME NEW i, Crash(i) PROVE Lasting
  BY <1>16 DEF Crash, rows, gateway, Lasting, RefundsOf
<1>17. ASSUME NEW w \in Workers, Continue(w) PROVE Lasting
  BY <1>17, <1>4, <1>5, <1>6, <1>7, <1>8, <1>9, <1>10, <1>11 DEF Continue, Decides
<1>18. ASSUME Environment PROVE Lasting
  BY <1>18, <1>4, <1>12, <1>13, <1>14, <1>15, <1>16 DEF Environment, Decides
<1> QED BY <1>1, <1>2, <1>3, <1>17, <1>18 DEF Next

\* An order that was paid for stays paid for.
LEMMA PaidForStays ==
  ASSUME Lasting, GatewayBooks, NEW o, PaidFor(o)
  PROVE  PaidFor(o)'
<1>1. PICK p \in PaymentsOf(o) : p \in captured
  BY DEF PaidFor
<1>2. payments[p].order = o /\ o \in Orders /\ p \in Payments
  BY <1>1 DEF PaymentsOf, GatewayBooks
<1> QED BY <1>1, <1>2 DEF Lasting, PaidFor, PaymentsOf

\* The order of an attempt whose money was taken is paid for.
LEMMA CapturedPays ==
  ASSUME TypeInv, NEW p \in captured
  PROVE  PaidFor(payments[p].order)
BY DEF TypeInv, TypeOK, PaidFor, PaymentsOf

-----------------------------------------------------------------------------
(* The gateway's books. *)

\* Nothing but the gateway, and an accepted refund, adds to them.
LEMMA BooksFrame ==
  ASSUME TypeInv, GatewayBooks, Lasting, UNCHANGED <<captured, sent>>,
         \A p \in Payments : RefundsOf(p)' \subseteq RefundsOf(p)
  PROVE  GatewayBooks'
<1>1. \A p \in captured' : payments'[p].order \in Orders
  BY DEF TypeInv, TypeOK, GatewayBooks, Lasting
<1>2. \A p \in Payments : RefundsOf(p)' # {} => p \in captured'
  BY DEF GatewayBooks
<1>3. \A e \in sent' : e.kind \in RefundKinds => RefundsOf(e.payment)' # {}
  BY DEF TypeInv, TypeOK, Event, GatewayBooks, Lasting
<1> QED BY <1>1, <1>2, <1>3 DEF GatewayBooks

\* The steps that can touch them.
LEMMA GatewaySteps ==
  ASSUME [Next]_vars
  PROVE  \/ UNCHANGED gateway
         \/ \E w \in Workers, n \in RefundNumbers : RefundAccepted(w, n)
         \/ \E p \in Payments :
              GatewayAuthorize(p) \/ GatewayCapture(p) \/ GatewayDecline(p)
         \/ \E p \in Payments, n \in RefundNumbers,
               outcome \in {"processed", "failed"} : GatewayRefundEnds(p, n, outcome)
<1>1. ASSUME NEW w \in Workers, Request(w) PROVE UNCHANGED gateway
  BY <1>1 DEF Request, PlaceOnlineOrder, PlaceCodOrder, ReplayPlaceOrder,
       CreatePaymentOrder, RetryPayment, CancelOrder, AdminCancelOrder, VerifyPayment
<1>2. ASSUME NEW w \in Workers, NEW e \in Event, Deliver(w, e) PROVE UNCHANGED gateway
  BY <1>2 DEF Deliver, ReceiveCaptured, ReceiveFailed, ReceiveRefundDone,
       ReceiveRefundFailed
<1>3. ASSUME NEW w \in Workers, Continue(w)
      PROVE  UNCHANGED gateway \/ \E n \in RefundNumbers : RefundAccepted(w, n)
  BY <1>3 DEF Continue, PrepareOnlinePayment, InsertPayment,
       GatewayOrderFails, RejectSignature, MarkPaymentCompleted, PromotePending,
       PromoteVisible, PromoteNothing, ClaimLateCapture, SkipLateCapture,
       MarkPaymentFailed, RefundReadOrder, RefundGuard, RefundCodManually,
       RefundWithoutCapture, RefundPickPayment, RefundRejected, RefundPersist,
       RefundPersistFails, MarkRefunded, MarkRefundFailed, CancelCommit,
       CancelConflict, AdminCancelCommit, AdminCancelConflict, AdminRefundGuard,
       ShipOnce, ShipRead, ShipLock, ShipSave, ShipFails
<1>4. ASSUME NEW o \in Orders, WindowExpires(o) \/ CancelAbandonedOrder(o)
      PROVE  UNCHANGED gateway
  BY <1>4 DEF WindowExpires, CancelAbandonedOrder
<1>5. ASSUME NEW o \in Orders, NEW p \in Payments, ConfirmCod(o, p)
      PROVE  UNCHANGED gateway
  BY <1>5 DEF ConfirmCod
<1>6. ASSUME NEW w \in Workers, DatabaseError(w) \/ Crash(InstanceOf[w])
      PROVE  UNCHANGED gateway
  BY <1>6 DEF DatabaseError, Crash
<1>7. CASE UNCHANGED vars
  BY <1>7 DEF vars, gateway
<1> QED BY <1>1, <1>2, <1>3, <1>4, <1>5, <1>6, <1>7 DEF Next, Environment

LEMMA BooksNext ==
  ASSUME TypeInv, GatewayBooks, Lasting, [Next]_vars PROVE GatewayBooks'
<1>1. ASSUME UNCHANGED gateway PROVE GatewayBooks'
  BY <1>1, BooksFrame DEF gateway, RefundsOf
<1>2. ASSUME NEW w \in Workers, NEW n \in RefundNumbers, RefundAccepted(w, n)
      PROVE  GatewayBooks'
  <2>1. PICK p \in Payments : p = task[w].payment /\ p \in captured
    BY <1>2 DEF RefundAccepted, rows, TypeInv, TypeOK
  <2>2. /\ UNCHANGED <<payments, captured>>
        /\ \A e \in sent' \ sent : e.kind \in Subscribed /\ e.payment = p
    BY <1>2, <2>1 DEF RefundAccepted, Announce, rows
  <2>3. refunds' = [refunds EXCEPT ![p][n] = "pending"]
    BY <1>2, <2>1 DEF RefundAccepted
  <2>4. RefundsOf(p)' # {}
    BY <2>3 DEF RefundsOf, TypeInv, TypeOK
  <2>5. \A q \in Payments \ {p} : RefundsOf(q)' = RefundsOf(q)
    BY <2>3 DEF RefundsOf, TypeInv, TypeOK
  <2>6. \A q \in Payments : RefundsOf(q)' # {} => q \in captured'
    BY <2>1, <2>2, <2>5 DEF GatewayBooks
  <2>7. \A e \in sent' : e.kind \in RefundKinds => RefundsOf(e.payment)' # {}
    BY <2>2, <2>4 DEF GatewayBooks, Lasting, TypeInv, TypeOK, Event
  <2>8. \A e \in sent' : e.kind \notin {"authorized", "failed"} => e.payment \in captured'
    BY <2>1, <2>2 DEF GatewayBooks
  <2> QED BY <2>2, <2>6, <2>7, <2>8 DEF GatewayBooks
<1>3. ASSUME NEW p \in Payments,
             GatewayAuthorize(p) \/ GatewayCapture(p) \/ GatewayDecline(p)
      PROVE  GatewayBooks'
  <2>1. payments[p].order \in Orders /\ UNCHANGED <<payments, refunds>>
    BY <1>3 DEF GatewayAuthorize, GatewayCapture, GatewayDecline, rows, TypeInv,
                TypeOK, PaymentRow
  <2>2. \A e \in sent' \ sent :
          /\ e.kind \in Subscribed /\ e.kind \notin RefundKinds
          /\ e.kind \notin {"authorized", "failed"} => e.payment \in captured'
    BY <1>3 DEF GatewayAuthorize, GatewayCapture, GatewayDecline, Announce,
                PaymentEvent, RefundKinds
  <2>3. captured' \subseteq captured \cup {p}
    BY <1>3 DEF GatewayAuthorize, GatewayCapture, GatewayDecline
  <2>4. \A q \in Payments : RefundsOf(q)' = RefundsOf(q)
    BY <2>1 DEF RefundsOf
  <2>5. \A q \in captured' : payments'[q].order \in Orders
    BY <2>1, <2>3 DEF GatewayBooks
  <2>6. \A q \in Payments : RefundsOf(q)' # {} => q \in captured'
    BY <2>4 DEF GatewayBooks, Lasting
  <2>7. \A e \in sent' : e.kind \in RefundKinds => RefundsOf(e.payment)' # {}
    BY <2>2 DEF GatewayBooks, Lasting, TypeInv, TypeOK, Event
  <2> QED BY <2>2, <2>5, <2>6, <2>7 DEF GatewayBooks, Lasting
<1>4. ASSUME NEW p \in Payments, NEW n \in RefundNumbers,
             NEW outcome \in {"processed", "failed"}, GatewayRefundEnds(p, n, outcome)
      PROVE  GatewayBooks'
  <2>1. UNCHANGED <<payments, captured>> /\ RefundsOf(p) # {}
    BY <1>4 DEF GatewayRefundEnds, rows, RefundsOf
  <2>2. \A q \in Payments : RefundsOf(q)' = RefundsOf(q)
    BY <1>4 DEF GatewayRefundEnds, RefundsOf, TypeInv, TypeOK
  <2>3. \A e \in sent' \ sent : e.kind \in Subscribed /\ e.payment = p
    BY <1>4 DEF GatewayRefundEnds, Announce
  <2>4. p \in captured
    BY <2>1 DEF GatewayBooks
  <2>5. \A e \in sent' : e.kind \in RefundKinds => RefundsOf(e.payment)' # {}
    BY <2>1, <2>2, <2>3 DEF GatewayBooks, TypeInv, TypeOK, Event
  <2> QED BY <2>1, <2>2, <2>3, <2>4, <2>5 DEF GatewayBooks
<1> QED BY <1>1, <1>2, <1>3, <1>4, GatewaySteps

-----------------------------------------------------------------------------
(* The handlers. *)

\* Only a busy handler continues.
LEMMA ContinueBusy ==
  ASSUME NEW w \in Workers, Continue(w) PROVE task[w].pc # "idle"
BY DEF Continue, PrepareOnlinePayment, InsertPayment,
       GatewayOrderFails, RejectSignature, MarkPaymentCompleted, PromotePending,
       PromoteVisible, PromoteNothing, ClaimLateCapture, SkipLateCapture,
       MarkPaymentFailed, RefundReadOrder, RefundGuard, RefundCodManually,
       RefundWithoutCapture, RefundPickPayment, RefundAccepted, RefundRejected,
       RefundPersist, RefundPersistFails, MarkRefunded, MarkRefundFailed, CancelCommit,
       CancelConflict, AdminCancelCommit, AdminCancelConflict, AdminRefundGuard,
       ShipOnce, ShipRead, ShipLock, ShipSave, ShipFails, At

\* What a handler relies on lasts while it waits.
LEMMA TrustLasts ==
  ASSUME GatewayBooks, Lasting, NEW t, Trusted(t),
         t.pc \in ShipLabels => t.order \in Orders
  PROVE  Trusted(t)'
BY PaidForStays DEF Trusted, Lasting, MethodLasts

LEMMA OtherHandlers ==
  ASSUME TypeInv, GatewayBooks, MoneyHandlers, Lasting,
         NEW v \in Workers, task'[v] = task[v]
  PROVE  Trusted(task[v])'
<1>1. Trusted(task[v])
  BY DEF MoneyHandlers
<1>2. task[v].pc \in ShipLabels => task[v].order \in Orders
  BY DEF TypeInv, Busy, ShipLabels
<1> QED BY <1>1, <1>2, TrustLasts

\* No handler moves.
LEMMA NoHandler ==
  ASSUME TypeInv, GatewayBooks, MoneyHandlers, Lasting, UNCHANGED task
  PROVE  MoneyHandlers'
BY OtherHandlers DEF MoneyHandlers

\* One handler moves and the others keep what they rely on.
LEMMA OneHandler ==
  ASSUME TypeInv, GatewayBooks, MoneyHandlers, Lasting, NEW w \in Workers,
         \A v \in Workers \ {w} : task'[v] = task[v],
         \/ task'[w] = IdleTask
         \/ PaidFor(task'[w].order)
         \/ task'[w].order \in Orders /\ Trusted(task'[w])
         \/ Trusted(task[w])'
  PROVE  MoneyHandlers'
<1>1. Trusted(task[w])'
  <2>1. CASE task'[w] = IdleTask
    BY <2>1 DEF Trusted, IdleTask, NoRow, MoneyLabels, ShipLabels, MoneyStatus
  <2>2. CASE PaidFor(task'[w].order)
    BY <2>2, PaidForStays DEF Trusted
  <2>3. CASE task'[w].order \in Orders /\ Trusted(task'[w])
    BY <2>3, TrustLasts
  <2> QED BY <2>1, <2>2, <2>3
<1> QED BY <1>1, OtherHandlers DEF MoneyHandlers

\* A request relies on nothing but the rows it has read.
LEMMA HandlersRequest ==
  ASSUME MoneyInv, Lasting, NEW w \in Workers, Request(w) PROVE MoneyHandlers'
<1> USE DEF MoneyInv
<1>1. ASSUME NEW o \in Orders, NEW label \in {"prepare_payment", "insert_online", "insert_cod"},
             Begin(w, label, o, NoPayment, NoRow)
      PROVE  MoneyHandlers'
  BY <1>1, OneHandler DEF Begin, TypeInv, TypeOK, Trusted, NoRow, MoneyLabels,
                          ShipLabels, MoneyStatus
<1>2. ASSUME NEW o \in Orders, PlaceCodOrder(w, o) PROVE MoneyHandlers'
  <2>1. orders'[o].cod
    BY <1>2 DEF PlaceCodOrder, TypeInv, TypeOK, OrderRow
  <2>2. CASE Begin(w, "ship_read", o, NoPayment, NoRow)
    <3>1. /\ \A v \in Workers \ {w} : task'[v] = task[v]
          /\ task'[w].pc = "ship_read" /\ task'[w].order = o /\ task'[w].view = NoRow
      BY <2>2 DEF Begin, TypeInv, TypeOK
    <3>2. Trusted(task[w])'
      BY <2>1, <3>1 DEF Trusted, NoRow, MoneyLabels, MoneyStatus
    <3> QED BY <3>1, <3>2, OneHandler
  <2>3. CASE UNCHANGED task
    BY <2>3, NoHandler
  <2> QED BY <1>2, <2>2, <2>3 DEF PlaceCodOrder
<1>3. ASSUME NEW o \in Orders, NEW label \in {"cancel", "admin_cancel"},
             Begin(w, label, o, NoPayment, orders[o])
      PROVE  MoneyHandlers'
  <2>1. orders[o].pay \in MoneyStatus => PaidFor(o)
    BY DEF PaidOrdersWereCaptured, NeedsMoney
  <2>2. /\ \A v \in Workers \ {w} : task'[v] = task[v]
        /\ task'[w].pc = label /\ task'[w].order = o /\ task'[w].view = orders[o]
    BY <1>3 DEF Begin, TypeInv, TypeOK
  <2>3. Trusted(task'[w])
    BY <2>1, <2>2 DEF Trusted, MoneyLabels, ShipLabels
  <2> QED BY <2>2, <2>3, OneHandler
<1>4. ASSUME NEW p \in Payments, NEW valid \in BOOLEAN, VerifyPayment(w, p, valid)
      PROVE  MoneyHandlers'
  <2>1. /\ \A v \in Workers \ {w} : task'[v] = task[v]
        /\ task'[w].order = payments[p].order /\ task'[w].view = NoRow
        /\ task'[w].pc = IF valid THEN "capture" ELSE "reject"
    BY <1>4 DEF VerifyPayment, Begin, TypeInv, TypeOK
  <2>2. CASE valid
    BY <1>4, <2>1, <2>2, CapturedPays, OneHandler DEF VerifyPayment
  <2>3. CASE ~valid
    <3>1. Trusted(task'[w])
      BY <2>1, <2>3 DEF Trusted, NoRow, MoneyLabels, ShipLabels, MoneyStatus
    <3>2. task'[w].order \in Orders
      BY <1>4, <2>1 DEF VerifyPayment, TypeInv, TypeOK, PaymentRow
    <3> QED BY <2>1, <3>1, <3>2, OneHandler
  <2> QED BY <2>2, <2>3
<1> QED BY <1>1, <1>2, <1>3, <1>4
        DEF Request, PlaceOnlineOrder, ReplayPlaceOrder, CreatePaymentOrder,
            RetryPayment, CancelOrder, AdminCancelOrder

\* An event that speaks of a capture or a refund is about a captured attempt.
LEMMA HandlersDeliver ==
  ASSUME MoneyInv, Lasting, "authorized" \notin Subscribed,
         NEW w \in Workers, NEW e \in Event, Deliver(w, e)
  PROVE  MoneyHandlers'
<1> USE DEF MoneyInv
<1>1. ASSUME UNCHANGED task PROVE MoneyHandlers'
  BY <1>1, NoHandler
<1>2. ASSUME e \in sent, e.kind \notin {"authorized", "failed"}
      PROVE  PaidFor(payments[e.payment].order)
  BY <1>2, CapturedPays DEF GatewayBooks
<1>3. CASE ReceiveCaptured(w, e)
  <2>1. PaidFor(payments[e.payment].order)
    BY <1>2, <1>3 DEF ReceiveCaptured, LogEvent, CaptureKinds, GatewayBooks
  <2>2. CASE Begin(w, "capture", payments[e.payment].order, e.payment, NoRow)
    BY <2>1, <2>2, OneHandler DEF Begin, TypeInv, TypeOK
  <2> QED BY <1>1, <1>3, <2>2 DEF ReceiveCaptured
<1>4. CASE ReceiveFailed(w, e)
  <2>1. payments[e.payment].order \in Orders
    BY <1>4 DEF ReceiveFailed, LogEvent, TypeInv, TypeOK, PaymentRow, Event
  <2>2. CASE Begin(w, "payment_failed", payments[e.payment].order, e.payment, NoRow)
    <3>1. /\ \A v \in Workers \ {w} : task'[v] = task[v]
          /\ task'[w].order = payments[e.payment].order
          /\ task'[w].pc = "payment_failed" /\ task'[w].view = NoRow
      BY <2>2 DEF Begin, TypeInv, TypeOK
    <3>2. Trusted(task'[w])
      BY <3>1 DEF Trusted, NoRow, MoneyLabels, ShipLabels, MoneyStatus
    <3> QED BY <2>1, <3>1, <3>2, OneHandler
  <2> QED BY <1>1, <1>4, <2>2 DEF ReceiveFailed
<1>5. ASSUME NEW label \in {"refund_processed", "refund_failed"}, e \in sent,
             e.kind \in RefundKinds, BeginRefundEvent(w, label, e)
      PROVE  MoneyHandlers'
  <2>1. PaidFor(payments[e.payment].order)
    BY <1>2, <1>5 DEF RefundKinds
  <2>2. /\ \A v \in Workers \ {w} : task'[v] = task[v]
        /\ task'[w].order = payments[e.payment].order
    BY <1>5 DEF BeginRefundEvent, TypeInv, TypeOK
  <2> QED BY <2>1, <2>2, OneHandler
<1>6. CASE ReceiveRefundDone(w, e) \/ ReceiveRefundFailed(w, e)
  BY <1>1, <1>5, <1>6 DEF ReceiveRefundDone, ReceiveRefundFailed, RefundKinds
<1> QED BY <1>3, <1>4, <1>6 DEF Deliver

\* A handler goes on only where what it relies on allows it to.
LEMMA HandlersContinue ==
  ASSUME MoneyInv, Lasting, NEW w \in Workers, Continue(w) \/ DatabaseError(w)
  PROVE  MoneyHandlers'
<1> USE DEF MoneyInv
<1>0. task[w].pc # "idle" => task[w].order \in Orders
  BY DEF TypeInv, Busy
<1>1. ASSUME Finish(w) PROVE MoneyHandlers'
  BY <1>1, OneHandler DEF Finish, TypeInv, TypeOK
<1>2. ASSUME PaidFor(task[w].order), \E label \in PC : Goto(w, label)
      PROVE  MoneyHandlers'
  <2>1. /\ \A v \in Workers \ {w} : task'[v] = task[v]
        /\ task'[w].order = task[w].order
    BY <1>2 DEF Goto, TypeInv, TypeOK, Task
  <2> QED BY <1>2, <2>1, OneHandler
<1>3. ASSUME task[w].pc # "idle", Goto(w, "insert_online")
      PROVE  MoneyHandlers'
  <2>1. /\ \A v \in Workers \ {w} : task'[v] = task[v]
        /\ task'[w].order = task[w].order /\ task'[w].view = task[w].view
        /\ task'[w].pc = "insert_online"
    BY <1>3 DEF Goto, TypeInv, TypeOK, Task
  <2>2. Trusted(task'[w])
    BY <2>1 DEF MoneyHandlers, Trusted, MoneyLabels, ShipLabels
  <2> QED BY <1>0, <1>3, <2>1, <2>2, OneHandler
<1>4. ASSUME NEW label \in {"ship_read", "ship_save"}, Goto(w, label),
             task[w].pc \in ShipLabels
      PROVE  MoneyHandlers'
  <2>1. /\ \A v \in Workers \ {w} : task'[v] = task[v]
        /\ task'[w].order = task[w].order /\ task'[w].view = task[w].view
        /\ task'[w].pc = label
    BY <1>4 DEF Goto, TypeInv, TypeOK, Task
  <2>2. Trusted(task'[w])
    BY <1>4, <2>1 DEF MoneyHandlers, Trusted, MoneyLabels, ShipLabels
  <2> QED BY <1>0, <1>4, <2>1, <2>2, OneHandler DEF ShipLabels
<1>5. task[w].pc \in MoneyLabels => PaidFor(task[w].order)
  BY DEF MoneyHandlers, Trusted
<1>6. task[w].view.pay \in MoneyStatus => PaidFor(task[w].order)
  BY DEF MoneyHandlers, Trusted
<1>7. CASE \/ PrepareOnlinePayment(w) \/ GatewayOrderFails(w) \/ RejectSignature(w)
           \/ \E p \in Payments : InsertPayment(w, p)
           \/ MarkPaymentFailed(w) \/ SkipLateCapture(w) \/ CancelConflict(w)
           \/ AdminCancelConflict(w) \/ ShipFails(w) \/ ShipSave(w)
           \/ DatabaseError(w)
  BY <1>1, <1>3, <1>7 DEF PrepareOnlinePayment, GatewayOrderFails, RejectSignature,
       InsertPayment, MarkPaymentFailed, SkipLateCapture, CancelConflict,
       AdminCancelConflict, ShipFails, ShipSave, DatabaseError, At
<1>8. CASE \/ MarkPaymentCompleted(w) \/ PromotePending(w) \/ PromoteVisible(w)
           \/ PromoteNothing(w) \/ ClaimLateCapture(w) \/ AdminRefundGuard(w)
  BY <1>1, <1>2, <1>5, <1>8 DEF MarkPaymentCompleted, PromotePending, PromoteVisible,
       PromoteNothing, ClaimLateCapture, AdminRefundGuard, AfterClaim, At, PC,
       MoneyLabels
<1>9. CASE \/ RefundReadOrder(w) \/ RefundGuard(w) \/ RefundCodManually(w)
           \/ RefundWithoutCapture(w) \/ RefundRejected(w) \/ RefundPersist(w)
           \/ RefundPersistFails(w) \/ MarkRefunded(w) \/ MarkRefundFailed(w)
  BY <1>1, <1>2, <1>5, <1>9 DEF RefundReadOrder, RefundGuard, RefundCodManually,
       RefundWithoutCapture, RefundRejected, RefundPersist, RefundPersistFails,
       MarkRefunded, MarkRefundFailed, At, PC, MoneyLabels
<1>10. CASE \/ \E p \in Payments : RefundPickPayment(w, p)
            \/ \E n \in RefundNumbers : RefundAccepted(w, n)
  <2>1. PaidFor(task[w].order)
    BY <1>5, <1>10 DEF RefundPickPayment, RefundAccepted, At, MoneyLabels
  <2>2. /\ \A v \in Workers \ {w} : task'[v] = task[v]
        /\ task'[w].order = task[w].order
    <3>1. CASE \E p \in Payments : RefundPickPayment(w, p)
      BY <3>1 DEF RefundPickPayment, TypeInv, TypeOK, Task
    <3>2. CASE \E n \in RefundNumbers : RefundAccepted(w, n)
      BY <3>2 DEF RefundAccepted, TypeInv, TypeOK, Task
    <3> QED BY <1>10, <3>1, <3>2
  <2> QED BY <2>1, <2>2, OneHandler
<1>11. CASE \/ CancelCommit(w)
            \/ \E restockItems \in BOOLEAN : AdminCancelCommit(w, restockItems)
  BY <1>1, <1>2, <1>6, <1>11 DEF CancelCommit, AdminCancelCommit, AfterCancel, PC,
       MoneyStatus
<1>12. CASE ShipOnce(w) \/ ShipLock(w)
  BY <1>1, <1>4, <1>12 DEF ShipOnce, ShipLock, At, ShipLabels
<1>13. CASE ShipRead(w)
  <2>1. task[w].order \in Orders
    BY <1>0, <1>13 DEF ShipRead, At
  <2>2. orders[task[w].order].pay \in MoneyStatus => PaidFor(task[w].order)
    BY <2>1 DEF PaidOrdersWereCaptured, NeedsMoney
  <2>3. /\ \A v \in Workers \ {w} : task'[v] = task[v]
        /\ task'[w].order = task[w].order /\ task'[w].view = orders[task[w].order]
        /\ task'[w].pc = "ship_lock"
    BY <1>13 DEF ShipRead, TypeInv, TypeOK, Task
  <2>4. PaidFor(task[w].order) \/ orders[task[w].order].cod
    BY <1>13 DEF MoneyHandlers, Trusted, ShipRead, At, ShipLabels
  <2>5. Trusted(task'[w])
    BY <2>2, <2>3, <2>4 DEF Trusted, MoneyLabels
  <2> QED BY <2>1, <2>3, <2>5, OneHandler
<1> QED BY <1>7, <1>8, <1>9, <1>10, <1>11, <1>12, <1>13 DEF Continue

-----------------------------------------------------------------------------
(* The order rows. *)

\* No order row is written.
LEMMA NoRowWritten ==
  ASSUME PaidOrdersWereCaptured, GatewayBooks, Lasting, UNCHANGED orders
  PROVE  PaidOrdersWereCaptured'
BY PaidForStays DEF PaidOrdersWereCaptured, NeedsMoney

\* One order row is written: it was paid for, or needs no more money than before.
LEMMA OneRowWritten ==
  ASSUME PaidOrdersWereCaptured, GatewayBooks, Lasting, NEW o,
         \A q \in Orders : q # o => orders'[q] = orders[q],
         o \in Orders => \/ PaidFor(o)
                         \/ NeedsMoney(orders'[o]) => NeedsMoney(orders[o])
  PROVE  PaidOrdersWereCaptured'
<1> SUFFICES ASSUME NEW q \in Orders, NeedsMoney(orders'[q]) PROVE PaidFor(q)'
  BY DEF PaidOrdersWereCaptured, NeedsMoney
<1>1. CASE q # o
  BY <1>1, PaidForStays DEF PaidOrdersWereCaptured
<1>2. CASE q = o
  BY <1>2, PaidForStays DEF PaidOrdersWereCaptured
<1> QED BY <1>1, <1>2

\* An order is cancelled: it needs no more money than before.
LEMMA CancelWritten ==
  ASSUME MoneyInv, Lasting, NEW o, orders' = [orders EXCEPT ![o].status = "CANCELLED"]
  PROVE  PaidOrdersWereCaptured'
<1>1. \A q \in Orders : q # o => orders'[q] = orders[q]
  BY DEF MoneyInv, TypeInv, TypeOK
<1>2. o \in Orders => (NeedsMoney(orders'[o]) => NeedsMoney(orders[o]))
  BY DEF MoneyInv, TypeInv, TypeOK, OrderRow, NeedsMoney, HoldsStock, MoneyStatus
<1> QED BY <1>1, <1>2, OneRowWritten DEF MoneyInv

LEMMA PaidRequest ==
  ASSUME MoneyInv, Lasting, NEW w \in Workers, Request(w)
  PROVE  PaidOrdersWereCaptured'
<1> USE DEF MoneyInv
<1>1. ASSUME NEW o \in Orders, PlaceOnlineOrder(w, o) PROVE PaidOrdersWereCaptured'
  <2>1. \A q \in Orders : q # o => orders'[q] = orders[q]
    BY <1>1 DEF PlaceOnlineOrder, TypeInv, TypeOK
  <2>2. NeedsMoney(orders'[o]) => NeedsMoney(orders[o])
    BY <1>1 DEF PlaceOnlineOrder, TypeInv, TypeOK, OrderRow, NeedsMoney, HoldsStock,
                MoneyStatus
  <2> QED BY <2>1, <2>2, OneRowWritten
<1>2. ASSUME NEW o \in Orders, PlaceCodOrder(w, o) PROVE PaidOrdersWereCaptured'
  <2>1. /\ \A q \in Orders : q # o => orders'[q] = orders[q]
        /\ orders'[o].cod /\ orders'[o].pay = orders[o].pay
    BY <1>2 DEF PlaceCodOrder, TypeInv, TypeOK, OrderRow
  <2>2. NeedsMoney(orders'[o]) => NeedsMoney(orders[o])
    BY <2>1 DEF NeedsMoney
  <2> QED BY <2>1, <2>2, OneRowWritten
<1> QED BY <1>1, <1>2, NoRowWritten
        DEF Request, ReplayPlaceOrder, CreatePaymentOrder, RetryPayment,
            CancelOrder, AdminCancelOrder, VerifyPayment, rows

LEMMA PaidContinue ==
  ASSUME MoneyInv, Lasting, NEW w \in Workers, Continue(w) \/ DatabaseError(w)
  PROVE  PaidOrdersWereCaptured'
<1> USE DEF MoneyInv
<1>0. task[w].pc # "idle" => task[w].order \in Orders
  BY DEF TypeInv, Busy
<1>1. task[w].pc \in MoneyLabels => PaidFor(task[w].order)
  BY DEF MoneyHandlers, Trusted
<1>2. ASSUME PaidFor(task[w].order),
             \A q \in Orders : q # task[w].order => orders'[q] = orders[q]
      PROVE  PaidOrdersWereCaptured'
  BY <1>2, OneRowWritten
<1>3. CASE PromotePending(w) \/ PromoteVisible(w) \/ ClaimLateCapture(w)
           \/ RefundPersist(w) \/ MarkRefundFailed(w)
  <2>1. PaidFor(task[w].order)
    BY <1>1, <1>3 DEF PromotePending, PromoteVisible, ClaimLateCapture, RefundPersist,
         MarkRefundFailed, At, MoneyLabels
  <2>2. \A q \in Orders : q # task[w].order => orders'[q] = orders[q]
    <3>1. CASE PromotePending(w)
      BY <3>1 DEF PromotePending, TypeInv, TypeOK
    <3>2. CASE \/ PromoteVisible(w) \/ ClaimLateCapture(w) \/ RefundPersist(w)
               \/ MarkRefundFailed(w)
      BY <3>2 DEF PromoteVisible, ClaimLateCapture, RefundPersist, MarkRefundFailed,
                  TypeInv, TypeOK
    <3> QED BY <1>3, <3>1, <3>2
  <2> QED BY <1>2, <2>1, <2>2
<1>4. CASE MarkRefunded(w)
  <2>1. PaidFor(task[w].order) /\ task[w].order \in Orders
    BY <1>0, <1>1, <1>4 DEF MarkRefunded, At, MoneyLabels
  <2>2. CASE orders' = [orders EXCEPT
               ![task[w].order].status =
                 StatusAfterRefund(task[w].view.status, orders[task[w].order].status),
               ![task[w].order].pay = "REFUNDED"]
    <3>1. \A q \in Orders : q # task[w].order => orders'[q] = orders[q]
      BY <2>2 DEF TypeInv, TypeOK
    <3> QED BY <1>2, <2>1, <3>1
  <2> QED BY <1>4, <2>1, <2>2, NoRowWritten DEF MarkRefunded
<1>5. CASE MarkPaymentFailed(w)
  <2>1. task[w].order \in Orders
    BY <1>0, <1>5 DEF MarkPaymentFailed, At
  <2>2. \A q \in Orders : q # task[w].order => orders'[q] = orders[q]
    BY <1>5 DEF MarkPaymentFailed, TypeInv, TypeOK
  <2>3. NeedsMoney(orders'[task[w].order]) => NeedsMoney(orders[task[w].order])
    BY <1>5, <2>1 DEF MarkPaymentFailed, TypeInv, TypeOK, OrderRow, NeedsMoney,
                      MoneyStatus
  <2> QED BY <2>1, <2>2, <2>3, OneRowWritten
<1>6. CASE CancelCommit(w) \/ \E restockItems \in BOOLEAN : AdminCancelCommit(w, restockItems)
  BY <1>6, CancelWritten DEF CancelCommit, AdminCancelCommit
<1>7. CASE ShipSave(w)
  <2>1. /\ task[w].order \in Orders
        /\ PaidFor(task[w].order) \/ orders[task[w].order].cod
    BY <1>0, <1>7 DEF ShipSave, At, MoneyHandlers, Trusted, ShipLabels
  <2>2. \A q \in Orders : q # task[w].order => orders'[q] = orders[q]
    BY <1>7 DEF ShipSave, TypeInv, TypeOK
  <2>3. /\ orders'[task[w].order].pay = orders[task[w].order].pay
        /\ orders'[task[w].order].cod = orders[task[w].order].cod
    BY <1>7, <2>1 DEF ShipSave, TypeInv, TypeOK, OrderRow
  <2> QED BY <2>1, <2>2, <2>3, OneRowWritten DEF NeedsMoney
<1>8. CASE \/ PrepareOnlinePayment(w) \/ GatewayOrderFails(w) \/ RejectSignature(w)
           \/ \E p \in Payments : InsertPayment(w, p)
           \/ MarkPaymentCompleted(w) \/ PromoteNothing(w) \/ SkipLateCapture(w)
           \/ RefundReadOrder(w) \/ RefundGuard(w) \/ RefundCodManually(w)
           \/ RefundWithoutCapture(w) \/ RefundRejected(w) \/ RefundPersistFails(w)
           \/ \E p \in Payments : RefundPickPayment(w, p)
           \/ \E n \in RefundNumbers : RefundAccepted(w, n)
           \/ CancelConflict(w) \/ AdminCancelConflict(w) \/ AdminRefundGuard(w)
           \/ ShipOnce(w) \/ ShipRead(w) \/ ShipLock(w) \/ ShipFails(w)
           \/ DatabaseError(w)
  <2>1. UNCHANGED orders
    BY <1>8 DEF PrepareOnlinePayment, GatewayOrderFails, RejectSignature,
         InsertPayment, MarkPaymentCompleted, PromoteNothing, SkipLateCapture,
         RefundReadOrder, RefundGuard, RefundCodManually, RefundWithoutCapture,
         RefundRejected, RefundPersistFails, RefundPickPayment, RefundAccepted,
         CancelConflict, AdminCancelConflict, AdminRefundGuard, ShipOnce, ShipRead,
         ShipLock, ShipFails, DatabaseError, rows
  <2> QED BY <2>1, NoRowWritten
<1> QED BY <1>3, <1>4, <1>5, <1>6, <1>7, <1>8 DEF Continue

\* The jobs, the gateway, time and crashes.
LEMMA MoneyEnvironment ==
  ASSUME MoneyInv, Lasting, Environment
  PROVE  MoneyHandlers' /\ PaidOrdersWereCaptured'
<1> USE DEF MoneyInv
<1>1. ASSUME UNCHANGED <<orders, task>>
      PROVE  MoneyHandlers' /\ PaidOrdersWereCaptured'
  BY <1>1, NoHandler, NoRowWritten
<1>2. ASSUME NEW o \in Orders, CancelAbandonedOrder(o)
      PROVE  MoneyHandlers' /\ PaidOrdersWereCaptured'
  BY <1>2, NoHandler, CancelWritten DEF CancelAbandonedOrder
<1>3. ASSUME NEW o \in Orders, NEW p \in Payments, ConfirmCod(o, p)
      PROVE  MoneyHandlers' /\ PaidOrdersWereCaptured'
  <2>1. \A q \in Orders : q # o => orders'[q] = orders[q]
    BY <1>3 DEF ConfirmCod, TypeInv, TypeOK
  <2>2. NeedsMoney(orders'[o]) => NeedsMoney(orders[o])
    BY <1>3 DEF ConfirmCod, TypeInv, TypeOK, OrderRow, NeedsMoney, MoneyStatus
  <2> QED BY <1>3, <2>1, <2>2, NoHandler, OneRowWritten DEF ConfirmCod
<1>4. ASSUME NEW i, Crash(i) PROVE MoneyHandlers' /\ PaidOrdersWereCaptured'
  <2>1. ASSUME NEW v \in Workers PROVE Trusted(task[v])'
    <3>1. task'[v] = IdleTask \/ task'[v] = task[v]
      BY <1>4 DEF Crash
    <3>2. CASE task'[v] = IdleTask
      BY <3>2 DEF Trusted, IdleTask, NoRow, MoneyLabels, ShipLabels, MoneyStatus
    <3> QED BY <3>1, <3>2, OtherHandlers
  <2> QED BY <1>4, <2>1, NoRowWritten DEF Crash, rows, MoneyHandlers
<1>5. ASSUME NEW w \in Workers, DatabaseError(w)
      PROVE  MoneyHandlers' /\ PaidOrdersWereCaptured'
  BY <1>5, HandlersContinue, PaidContinue
<1>6. ASSUME NEW p \in Payments,
             GatewayAuthorize(p) \/ GatewayCapture(p) \/ GatewayDecline(p)
      PROVE  UNCHANGED <<orders, task>>
  BY <1>6 DEF GatewayAuthorize, GatewayCapture, GatewayDecline, rows
<1>7. ASSUME NEW p \in Payments, NEW n \in RefundNumbers,
             NEW outcome \in {"processed", "failed"}, GatewayRefundEnds(p, n, outcome)
      PROVE  UNCHANGED <<orders, task>>
  BY <1>7 DEF GatewayRefundEnds, rows
<1>8. ASSUME NEW o \in Orders, WindowExpires(o) PROVE UNCHANGED <<orders, task>>
  BY <1>8 DEF WindowExpires
<1> QED BY <1>1, <1>2, <1>3, <1>4, <1>5, <1>6, <1>7, <1>8 DEF Environment

LEMMA MoneyInit == Init => MoneyInv
<1> SUFFICES ASSUME Init PROVE MoneyInv
  OBVIOUS
<1>1. GatewayBooks
  BY DEF Init, GatewayBooks, RefundsOf
<1>2. MoneyHandlers
  BY DEF Init, MoneyHandlers, Trusted, IdleTask, NoRow, MoneyLabels, ShipLabels,
         MoneyStatus
<1>3. PaidOrdersWereCaptured
  BY DEF Init, PaidOrdersWereCaptured, NeedsMoney, NoRow, MoneyStatus, HoldsStock,
         OrderStatus
<1> QED BY <1>1, <1>2, <1>3, TypeInit DEF MoneyInv

LEMMA MoneyNext ==
  ASSUME MoneyInv, [Next]_vars, "authorized" \notin Subscribed PROVE MoneyInv'
<1>1. Lasting
  BY Lasts DEF MoneyInv
<1>2. TypeInv' /\ GatewayBooks'
  BY <1>1, TypeNext, BooksNext DEF MoneyInv
<1>3. MoneyHandlers' /\ PaidOrdersWereCaptured'
  <2>1. CASE UNCHANGED vars
    BY <1>1, <2>1, NoHandler, NoRowWritten DEF MoneyInv, vars
  <2>2. ASSUME NEW w \in Workers, Request(w)
        PROVE  MoneyHandlers' /\ PaidOrdersWereCaptured'
    BY <1>1, <2>2, HandlersRequest, PaidRequest
  <2>3. ASSUME NEW w \in Workers, Continue(w)
        PROVE  MoneyHandlers' /\ PaidOrdersWereCaptured'
    BY <1>1, <2>3, HandlersContinue, PaidContinue
  <2>4. ASSUME NEW w \in Workers, NEW e \in Event, Deliver(w, e)
        PROVE  MoneyHandlers' /\ PaidOrdersWereCaptured'
    <3>1. UNCHANGED orders
      BY <2>4 DEF Deliver, ReceiveCaptured, ReceiveFailed, ReceiveRefundDone,
                  ReceiveRefundFailed, rows
    <3> QED BY <1>1, <2>4, <3>1, HandlersDeliver, NoRowWritten DEF MoneyInv
  <2> QED BY <1>1, <2>1, <2>2, <2>3, <2>4, MoneyEnvironment DEF Next
<1> QED BY <1>2, <1>3 DEF MoneyInv

\* No order counts as paid, is visible as an online order or is booked with the
\* courier unless the gateway captured one of its attempts, whatever callbacks,
\* webhooks, refunds, cancellations, crashes and failures there are: provided
\* the webhook is not subscribed to payment.authorized, which handleWebhook
\* takes for a capture.
THEOREM PaidCaptured ==
  ASSUME "authorized" \notin Subscribed
  PROVE  Spec => []PaidOrdersWereCaptured
<1>1. MoneyInv /\ [Next]_vars => MoneyInv'
  BY MoneyNext
<1>2. MoneyInv => PaidOrdersWereCaptured
  BY DEF MoneyInv
<1> QED BY MoneyInit, <1>1, <1>2, PTL DEF Spec

-----------------------------------------------------------------------------
(* Where no shipment is created behind a cancellation's back                *)
(* (ShippingConfigured is FALSE), CANCELLED is terminal and money only goes *)
(* back for a cancelled order.  With shipping neither holds: see the run    *)
(* cancel_resurrected.                                                      *)
(*                                                                          *)
(* The invariant follows the decision to refund through the handlers: every *)
(* handler on the way to the gateway's refund call works on an order that   *)
(* is CANCELLED, the attempt it refunds is that order's, and a refund event *)
(* was read together with the cancelled order.                              *)

RefundingLabels ==
  {"refund_order", "refund_guard", "refund_payment", "refund_call", "refund_save",
   "refund_processed", "refund_failed", "admin_refund"}

Cancelled(o) == o \in Orders /\ orders[o].status = "CANCELLED"

\* What a handler that holds `t` may rely on.
Decided(t) ==
  /\ t.pc \notin ShipLabels
  /\ t.pc \in RefundingLabels => Cancelled(t.order)
  /\ t.pc \in {"refund_call", "refund_save"} =>
       t.payment \in Payments /\ payments[t.payment].order = t.order
  /\ t.pc = "refund_processed" => t.view.status = "CANCELLED"

RefundHandlers == \A w \in Workers : Decided(task[w])

RefundInv == TypeInv /\ GatewayBooks /\ RefundHandlers /\ RefundedOrdersAreCancelled

CancelledLasts ==
  \A o \in Orders : orders[o].status = "CANCELLED" => orders'[o].status = "CANCELLED"

-----------------------------------------------------------------------------
(* CANCELLED is terminal. *)

\* Writing paymentStatus leaves the order's status alone.
LEMMA PayKeepsStatus ==
  ASSUME TypeInv, NEW x, NEW m, orders' = [orders EXCEPT ![x].pay = m]
  PROVE  \A q \in Orders : orders'[q].status = orders[q].status
BY DEF TypeInv, TypeOK, OrderRow

\* A step of a request, a job or a customer never reopens a cancelled order.
LEMMA CancelledLastsContinue ==
  ASSUME RefundInv, NEW w \in Workers, Continue(w) PROVE CancelledLasts
<1> USE DEF RefundInv, TypeInv, TypeOK, OrderRow, CancelledLasts
<1>1. Decided(task[w])
  BY DEF RefundHandlers
<1>2. CASE MarkRefunded(w)
  <2>1. StatusAfterRefund(task[w].view.status, orders[task[w].order].status) =
          orders[task[w].order].status
    BY <1>1, <1>2 DEF Decided, MarkRefunded, At, StatusAfterRefund
  <2>2. task[w].order \in Orders
    BY <1>1, <1>2 DEF Decided, Cancelled, MarkRefunded, At, RefundingLabels
  <2>3. CASE orders' = [orders EXCEPT
               ![task[w].order].status =
                 StatusAfterRefund(task[w].view.status, orders[task[w].order].status),
               ![task[w].order].pay = "REFUNDED"]
    BY <2>1, <2>2, <2>3
  <2>4. CASE UNCHANGED orders
    BY <2>4
  <2> QED BY <1>2, <2>2, <2>3, <2>4 DEF MarkRefunded
<1>3. CASE PromotePending(w)
  BY <1>3 DEF PromotePending, ClaimablePending
<1>4. CASE PromoteVisible(w) \/ ClaimLateCapture(w)
  BY <1>4, PayKeepsStatus DEF PromoteVisible, ClaimLateCapture
<1>5. CASE RefundPersist(w) \/ MarkRefundFailed(w) \/ MarkPaymentFailed(w)
  BY <1>5, PayKeepsStatus DEF RefundPersist, MarkRefundFailed, MarkPaymentFailed
<1>6. CASE CancelCommit(w) \/ \E restockItems \in BOOLEAN : AdminCancelCommit(w, restockItems)
  BY <1>6 DEF CancelCommit, AdminCancelCommit
<1>7. ~ShipSave(w)
  BY <1>1 DEF Decided, ShipSave, At, ShipLabels
<1>8. CASE \/ PrepareOnlinePayment(w) \/ GatewayOrderFails(w) \/ RejectSignature(w)
           \/ \E p \in Payments : InsertPayment(w, p)
           \/ MarkPaymentCompleted(w) \/ PromoteNothing(w) \/ SkipLateCapture(w)
           \/ RefundReadOrder(w) \/ RefundGuard(w) \/ RefundCodManually(w)
           \/ RefundWithoutCapture(w) \/ RefundRejected(w) \/ RefundPersistFails(w)
           \/ \E p \in Payments : RefundPickPayment(w, p)
           \/ \E n \in RefundNumbers : RefundAccepted(w, n)
           \/ CancelConflict(w) \/ AdminCancelConflict(w) \/ AdminRefundGuard(w)
           \/ ShipOnce(w) \/ ShipRead(w) \/ ShipLock(w) \/ ShipFails(w)
  <2>1. UNCHANGED orders
    BY <1>8 DEF PrepareOnlinePayment, GatewayOrderFails, RejectSignature,
         InsertPayment, MarkPaymentCompleted, PromoteNothing, SkipLateCapture,
         RefundReadOrder, RefundGuard, RefundCodManually, RefundWithoutCapture,
         RefundRejected, RefundPersistFails, RefundPickPayment, RefundAccepted,
         CancelConflict, AdminCancelConflict, AdminRefundGuard, ShipOnce, ShipRead,
         ShipLock, ShipFails, rows
  <2> QED BY <2>1
<1> QED BY <1>2, <1>3, <1>4, <1>5, <1>6, <1>7, <1>8 DEF Continue

LEMMA CancelledStays == ASSUME RefundInv, [Next]_vars PROVE CancelledLasts
<1> USE DEF RefundInv, TypeInv, TypeOK, OrderRow, CancelledLasts
<1>1. ASSUME NEW w \in Workers, Request(w) PROVE CancelledLasts
  <2>1. ASSUME NEW o \in Orders, PlaceOnlineOrder(w, o) PROVE CancelledLasts
    BY <2>1 DEF PlaceOnlineOrder, Exists
  <2>2. ASSUME NEW o \in Orders, PlaceCodOrder(w, o) PROVE CancelledLasts
    BY <2>2 DEF PlaceCodOrder, Exists
  <2> QED BY <1>1, <2>1, <2>2
          DEF Request, ReplayPlaceOrder, CreatePaymentOrder, RetryPayment,
              CancelOrder, AdminCancelOrder, VerifyPayment, rows
<1>2. ASSUME NEW w \in Workers, NEW e \in Event, Deliver(w, e) PROVE UNCHANGED orders
  BY <1>2 DEF Deliver, ReceiveCaptured, ReceiveFailed, ReceiveRefundDone,
              ReceiveRefundFailed, rows
<1>3. ASSUME NEW o \in Orders, CancelAbandonedOrder(o) PROVE CancelledLasts
  BY <1>3 DEF CancelAbandonedOrder
<1>4. ASSUME NEW o \in Orders, NEW p \in Payments, ConfirmCod(o, p)
      PROVE  CancelledLasts
  BY <1>4 DEF ConfirmCod
<1>5. ASSUME NEW o \in Orders, WindowExpires(o) PROVE UNCHANGED orders
  BY <1>5 DEF WindowExpires
<1>6. ASSUME NEW p \in Payments,
             GatewayAuthorize(p) \/ GatewayCapture(p) \/ GatewayDecline(p)
      PROVE  UNCHANGED orders
  BY <1>6 DEF GatewayAuthorize, GatewayCapture, GatewayDecline, rows
<1>7. ASSUME NEW p \in Payments, NEW n \in RefundNumbers,
             NEW outcome \in {"processed", "failed"}, GatewayRefundEnds(p, n, outcome)
      PROVE  UNCHANGED orders
  BY <1>7 DEF GatewayRefundEnds, rows
<1>8. ASSUME NEW w \in Workers, DatabaseError(w) \/ Crash(InstanceOf[w])
      PROVE  UNCHANGED orders
  BY <1>8 DEF DatabaseError, Crash, rows
<1>9. CASE UNCHANGED vars
  BY <1>9 DEF vars
<1> HIDE DEF RefundInv, TypeInv, TypeOK, OrderRow
<1> QED BY <1>1, <1>2, <1>3, <1>4, <1>5, <1>6, <1>7, <1>8, <1>9,
           CancelledLastsContinue DEF Next, Environment

-----------------------------------------------------------------------------
(* The handlers. *)

\* What a handler relies on lasts while it waits.
LEMMA DecidedLasts ==
  ASSUME Lasting, CancelledLasts, NEW t, Decided(t),
         t.pc \in {"refund_call", "refund_save"} => t.order \in Orders
  PROVE  Decided(t)'
BY DEF Decided, Cancelled, Lasting, CancelledLasts

LEMMA OthersDecided ==
  ASSUME TypeInv, RefundHandlers, Lasting, CancelledLasts,
         NEW v \in Workers, task'[v] = task[v]
  PROVE  Decided(task[v])'
<1>1. Decided(task[v])
  BY DEF RefundHandlers
<1>2. task[v].pc # "idle" => task[v].order \in Orders
  BY DEF TypeInv, Busy
<1> QED BY <1>1, <1>2, DecidedLasts

\* One handler moves and the others keep what they rely on.
LEMMA OneDecides ==
  ASSUME TypeInv, RefundHandlers, Lasting, CancelledLasts, NEW w \in Workers,
         \A v \in Workers \ {w} : task'[v] = task[v],
         \/ task'[w] = IdleTask
         \/ task'[w].order \in Orders /\ Decided(task'[w])
         \/ Decided(task[w])'
  PROVE  RefundHandlers'
<1>1. Decided(task[w])'
  <2>1. CASE task'[w] = IdleTask
    BY <2>1 DEF Decided, IdleTask, ShipLabels, RefundingLabels
  <2>2. CASE task'[w].order \in Orders /\ Decided(task'[w])
    BY <2>2, DecidedLasts
  <2> QED BY <2>1, <2>2
<1> QED BY <1>1, OthersDecided DEF RefundHandlers

LEMMA NoneDecides ==
  ASSUME TypeInv, RefundHandlers, Lasting, CancelledLasts, UNCHANGED task
  PROVE  RefundHandlers'
BY OthersDecided DEF RefundHandlers

\* No request starts with a refund or, without shipping, with a shipment.
LEMMA DecidedRequest ==
  ASSUME RefundInv, Lasting, CancelledLasts, ~ShippingConfigured,
         NEW w \in Workers, Request(w)
  PROVE  RefundHandlers'
<1> USE DEF RefundInv
<1>1. ASSUME NEW label \in {"prepare_payment", "insert_online", "insert_cod", "cancel",
                            "admin_cancel", "capture", "reject"},
             NEW o \in Orders, NEW p, NEW view, Begin(w, label, o, p, view)
      PROVE  RefundHandlers'
  <2>1. /\ \A v \in Workers \ {w} : task'[v] = task[v]
        /\ task'[w].pc = label /\ task'[w].order = o
    BY <1>1 DEF Begin, TypeInv, TypeOK
  <2>2. Decided(task'[w])
    BY <2>1 DEF Decided, ShipLabels, RefundingLabels
  <2> QED BY <2>1, <2>2, OneDecides
<1>2. ASSUME NEW p \in Payments, NEW valid \in BOOLEAN, VerifyPayment(w, p, valid)
      PROVE  RefundHandlers'
  <2>1. payments[p].order \in Orders
    BY <1>2 DEF VerifyPayment, TypeInv, TypeOK, PaymentRow
  <2> QED BY <1>1, <1>2, <2>1 DEF VerifyPayment
<1>3. ASSUME NEW o \in Orders, PlaceCodOrder(w, o) PROVE RefundHandlers'
  BY <1>3, NoneDecides DEF PlaceCodOrder
<1> QED BY <1>1, <1>2, <1>3
        DEF Request, PlaceOnlineOrder, ReplayPlaceOrder, CreatePaymentOrder,
            RetryPayment, CancelOrder, AdminCancelOrder

\* A refund event is about an attempt that was refunded: its order is cancelled.
LEMMA DecidedDeliver ==
  ASSUME RefundInv, Lasting, CancelledLasts, NEW w \in Workers, NEW e \in Event,
         Deliver(w, e)
  PROVE  RefundHandlers'
<1> USE DEF RefundInv
<1>0. payments[e.payment].order \in Orders /\ e.payment \in Payments
  BY DEF Deliver, ReceiveCaptured, ReceiveFailed, ReceiveRefundDone,
         ReceiveRefundFailed, LogEvent, TypeInv, TypeOK, PaymentRow, Event
<1>1. ASSUME UNCHANGED task PROVE RefundHandlers'
  BY <1>1, NoneDecides
<1>2. ASSUME NEW label \in {"capture", "payment_failed"},
             Begin(w, label, payments[e.payment].order, e.payment, NoRow)
      PROVE  RefundHandlers'
  <2>1. /\ \A v \in Workers \ {w} : task'[v] = task[v]
        /\ task'[w].pc = label /\ task'[w].order = payments[e.payment].order
    BY <1>2 DEF Begin, TypeInv, TypeOK
  <2>2. Decided(task'[w])
    BY <2>1 DEF Decided, ShipLabels, RefundingLabels
  <2> QED BY <1>0, <2>1, <2>2, OneDecides
<1>3. ASSUME NEW label \in {"refund_processed", "refund_failed"}, e \in sent,
             e.kind \in RefundKinds, BeginRefundEvent(w, label, e)
      PROVE  RefundHandlers'
  <2>1. orders[payments[e.payment].order].status = "CANCELLED"
    BY <1>0, <1>3 DEF GatewayBooks, RefundedOrdersAreCancelled
  <2>2. /\ \A v \in Workers \ {w} : task'[v] = task[v]
        /\ task'[w].pc = label /\ task'[w].order = payments[e.payment].order
        /\ task'[w].view = orders[payments[e.payment].order]
    BY <1>3 DEF BeginRefundEvent, TypeInv, TypeOK
  <2>3. Decided(task'[w])
    BY <1>0, <2>1, <2>2 DEF Decided, Cancelled, ShipLabels
  <2> QED BY <1>0, <2>2, <2>3, OneDecides
<1>4. CASE ReceiveCaptured(w, e) \/ ReceiveFailed(w, e)
  BY <1>1, <1>2, <1>4 DEF ReceiveCaptured, ReceiveFailed
<1>5. CASE ReceiveRefundDone(w, e) \/ ReceiveRefundFailed(w, e)
  BY <1>1, <1>3, <1>5 DEF ReceiveRefundDone, ReceiveRefundFailed, RefundKinds
<1> QED BY <1>4, <1>5 DEF Deliver

\* A handler turns to a refund only when it finds the order cancelled, or
\* cancels it itself.
LEMMA DecidedContinue ==
  ASSUME RefundInv, Lasting, CancelledLasts, ~ShippingConfigured,
         NEW w \in Workers, Continue(w) \/ DatabaseError(w)
  PROVE  RefundHandlers'
<1> USE DEF RefundInv
<1>0. Decided(task[w]) /\ (task[w].pc # "idle" => task[w].order \in Orders)
  BY DEF RefundHandlers, TypeInv, Busy
<1>1. ASSUME Finish(w) PROVE RefundHandlers'
  BY <1>1, OneDecides DEF Finish, TypeInv, TypeOK
<1>2. ASSUME NEW label \in {"insert_online", "promote", "late_refund"},
             task[w].pc # "idle", Goto(w, label)
      PROVE  RefundHandlers'
  <2>1. /\ \A v \in Workers \ {w} : task'[v] = task[v]
        /\ task'[w].pc = label /\ task'[w].order = task[w].order
    BY <1>2 DEF Goto, TypeInv, TypeOK, Task
  <2>2. Decided(task'[w])
    BY <2>1 DEF Decided, ShipLabels, RefundingLabels
  <2> QED BY <1>0, <1>2, <2>1, <2>2, OneDecides
<1>3. ASSUME NEW label \in {"refund_order", "refund_guard", "refund_payment", "admin_refund"},
             task[w].order \in Orders, Goto(w, label),
             \/ orders[task[w].order].status = "CANCELLED"
             \/ orders'[task[w].order].status = "CANCELLED"
      PROVE  RefundHandlers'
  <2>1. /\ \A v \in Workers \ {w} : task'[v] = task[v]
        /\ task'[w].pc = label /\ task'[w].order = task[w].order
    BY <1>3 DEF Goto, TypeInv, TypeOK, Task
  <2>2. orders'[task[w].order].status = "CANCELLED"
    BY <1>3 DEF CancelledLasts
  <2>3. Decided(task[w])'
    BY <1>3, <2>1, <2>2 DEF Decided, Cancelled, ShipLabels
  <2> QED BY <2>1, <2>3, OneDecides
<1>4. task[w].pc \in RefundingLabels => orders[task[w].order].status = "CANCELLED"
  BY <1>0 DEF Decided, Cancelled
<1>5. CASE \/ PrepareOnlinePayment(w) \/ GatewayOrderFails(w) \/ RejectSignature(w)
           \/ \E p \in Payments : InsertPayment(w, p)
           \/ MarkPaymentCompleted(w) \/ PromotePending(w) \/ PromoteVisible(w)
           \/ PromoteNothing(w) \/ SkipLateCapture(w) \/ MarkPaymentFailed(w)
           \/ CancelConflict(w) \/ AdminCancelConflict(w) \/ DatabaseError(w)
  BY <1>1, <1>2, <1>5 DEF PrepareOnlinePayment, GatewayOrderFails, RejectSignature,
       InsertPayment, MarkPaymentCompleted, PromotePending, PromoteVisible,
       PromoteNothing, SkipLateCapture, MarkPaymentFailed, CancelConflict,
       AdminCancelConflict, DatabaseError, AfterClaim, At
<1>6. CASE \/ ClaimLateCapture(w) \/ RefundReadOrder(w) \/ RefundGuard(w)
           \/ AdminRefundGuard(w)
  BY <1>0, <1>1, <1>3, <1>4, <1>6 DEF ClaimLateCapture, LateCapture, RefundReadOrder,
       RefundGuard, AdminRefundGuard, At, RefundingLabels
<1>7. CASE \/ RefundCodManually(w) \/ RefundWithoutCapture(w) \/ RefundRejected(w)
           \/ RefundPersist(w) \/ RefundPersistFails(w)
           \/ MarkRefunded(w) \/ MarkRefundFailed(w)
  BY <1>1, <1>7 DEF RefundCodManually, RefundWithoutCapture, RefundRejected,
       RefundPersist, RefundPersistFails, MarkRefunded, MarkRefundFailed
<1>8. ASSUME NEW p \in Payments, RefundPickPayment(w, p) PROVE RefundHandlers'
  <2>1. /\ \A v \in Workers \ {w} : task'[v] = task[v]
        /\ task'[w].pc = "refund_call" /\ task'[w].order = task[w].order
        /\ task'[w].payment = p
    BY <1>8 DEF RefundPickPayment, TypeInv, TypeOK, Task
  <2>2. payments[p].order = task[w].order
    BY <1>8 DEF RefundPickPayment, IsCapturedPayment, CompletedPayments, PaymentsOf
  <2>3. Cancelled(task[w].order)
    BY <1>0, <1>8 DEF RefundPickPayment, At, Decided, RefundingLabels
  <2>4. Decided(task'[w])
    BY <2>1, <2>2, <2>3 DEF Decided, ShipLabels
  <2> QED BY <2>1, <2>3, <2>4, OneDecides DEF Cancelled
<1>9. ASSUME NEW n \in RefundNumbers, RefundAccepted(w, n) PROVE RefundHandlers'
  <2>1. /\ \A v \in Workers \ {w} : task'[v] = task[v]
        /\ task'[w].pc = "refund_save" /\ task'[w].order = task[w].order
        /\ task'[w].payment = task[w].payment
    BY <1>9 DEF RefundAccepted, TypeInv, TypeOK, Task
  <2>2. Cancelled(task[w].order)
    BY <1>0, <1>9 DEF RefundAccepted, At, Decided, RefundingLabels
  <2>3. task[w].payment \in Payments /\ payments[task[w].payment].order = task[w].order
    BY <1>0, <1>9 DEF RefundAccepted, At, Decided
  <2>4. Decided(task'[w])
    BY <2>1, <2>2, <2>3 DEF Decided, ShipLabels
  <2> QED BY <2>1, <2>2, <2>4, OneDecides DEF Cancelled
<1>10. CASE CancelCommit(w) \/ \E restockItems \in BOOLEAN : AdminCancelCommit(w, restockItems)
  <2>1. task[w].order \in Orders /\ orders' = [orders EXCEPT ![task[w].order].status = "CANCELLED"]
    BY <1>0, <1>10 DEF CancelCommit, AdminCancelCommit, At
  <2>2. orders'[task[w].order].status = "CANCELLED"
    BY <2>1 DEF TypeInv, TypeOK, OrderRow
  <2>3. Finish(w) \/ \E label \in {"refund_order", "admin_refund"} : Goto(w, label)
    BY <1>10 DEF CancelCommit, AdminCancelCommit, AfterCancel
  <2> QED BY <1>1, <1>3, <2>1, <2>2, <2>3
<1>11. ~(ShipOnce(w) \/ ShipRead(w) \/ ShipLock(w) \/ ShipSave(w) \/ ShipFails(w))
  BY <1>0 DEF Decided, ShipOnce, ShipRead, ShipLock, ShipSave, ShipFails, At, ShipLabels
<1> QED BY <1>5, <1>6, <1>7, <1>8, <1>9, <1>10, <1>11 DEF Continue

-----------------------------------------------------------------------------

\* The gateway is only ever asked to give money back for a cancelled order.
LEMMA RefundedNext ==
  ASSUME RefundInv, Lasting, CancelledLasts, [Next]_vars
  PROVE  RefundedOrdersAreCancelled'
<1> USE DEF RefundInv
<1>1. ASSUME NEW p \in Payments, RefundsOf(p) # {}
      PROVE  orders'[payments'[p].order].status = "CANCELLED"
  <2>1. payments[p].order \in Orders /\ orders[payments[p].order].status = "CANCELLED"
    BY <1>1 DEF GatewayBooks, RefundedOrdersAreCancelled
  <2> QED BY <2>1 DEF Lasting, CancelledLasts
<1>2. ASSUME \A p \in Payments : RefundsOf(p)' # {} => RefundsOf(p) # {}
      PROVE  RefundedOrdersAreCancelled'
  BY <1>1, <1>2 DEF RefundedOrdersAreCancelled
<1>3. CASE UNCHANGED gateway \/ \E p \in Payments :
             GatewayAuthorize(p) \/ GatewayCapture(p) \/ GatewayDecline(p)
  <2>1. UNCHANGED refunds
    BY <1>3 DEF gateway, GatewayAuthorize, GatewayCapture, GatewayDecline
  <2> QED BY <1>2, <2>1 DEF RefundsOf
<1>4. ASSUME NEW p \in Payments, NEW n \in RefundNumbers,
             NEW outcome \in {"processed", "failed"}, GatewayRefundEnds(p, n, outcome)
      PROVE  RefundedOrdersAreCancelled'
  <2>1. \A q \in Payments : RefundsOf(q)' = RefundsOf(q)
    BY <1>4 DEF GatewayRefundEnds, RefundsOf, TypeInv, TypeOK
  <2> QED BY <1>2, <2>1
<1>5. ASSUME NEW w \in Workers, NEW n \in RefundNumbers, RefundAccepted(w, n)
      PROVE  RefundedOrdersAreCancelled'
  <2>1. PICK p \in Payments : p = task[w].payment
    BY <1>5 DEF RefundAccepted, TypeInv, TypeOK
  <2>2. payments[p].order \in Orders /\ orders[payments[p].order].status = "CANCELLED"
    BY <1>5, <2>1 DEF RefundHandlers, Decided, Cancelled, RefundAccepted, At,
                      RefundingLabels
  <2>3. orders'[payments'[p].order].status = "CANCELLED"
    BY <2>2 DEF Lasting, CancelledLasts
  <2>4. \A q \in Payments \ {p} : RefundsOf(q)' = RefundsOf(q)
    BY <1>5, <2>1 DEF RefundAccepted, RefundsOf, TypeInv, TypeOK
  <2> QED BY <1>1, <2>3, <2>4 DEF RefundedOrdersAreCancelled
<1> QED BY <1>3, <1>4, <1>5, GatewaySteps

LEMMA RefundInit == Init => RefundInv
<1> SUFFICES ASSUME Init PROVE RefundInv
  OBVIOUS
<1>1. GatewayBooks
  BY DEF Init, GatewayBooks, RefundsOf
<1>2. RefundHandlers
  BY DEF Init, RefundHandlers, Decided, IdleTask, ShipLabels, RefundingLabels
<1>3. RefundedOrdersAreCancelled
  BY DEF Init, RefundedOrdersAreCancelled, RefundsOf
<1> QED BY <1>1, <1>2, <1>3, TypeInit DEF RefundInv

LEMMA RefundNext ==
  ASSUME RefundInv, [Next]_vars, ~ShippingConfigured PROVE RefundInv' /\ CancelledLasts
<1>1. Lasting /\ CancelledLasts
  BY Lasts, CancelledStays DEF RefundInv
<1>2. TypeInv' /\ GatewayBooks' /\ RefundedOrdersAreCancelled'
  BY <1>1, TypeNext, BooksNext, RefundedNext DEF RefundInv
<1>3. RefundHandlers'
  <2>1. CASE UNCHANGED vars
    BY <1>1, <2>1, NoneDecides DEF RefundInv, vars
  <2>2. ASSUME NEW w \in Workers, Request(w) PROVE RefundHandlers'
    BY <1>1, <2>2, DecidedRequest
  <2>3. ASSUME NEW w \in Workers, Continue(w) \/ DatabaseError(w) PROVE RefundHandlers'
    BY <1>1, <2>3, DecidedContinue
  <2>4. ASSUME NEW w \in Workers, NEW e \in Event, Deliver(w, e) PROVE RefundHandlers'
    BY <1>1, <2>4, DecidedDeliver
  <2>5. ASSUME NEW i, Crash(i) PROVE RefundHandlers'
    <3>1. ASSUME NEW v \in Workers PROVE Decided(task[v])'
      <4>1. CASE task'[v] = IdleTask
        BY <4>1 DEF Decided, IdleTask, ShipLabels, RefundingLabels
      <4>2. task'[v] = IdleTask \/ task'[v] = task[v]
        BY <2>5 DEF Crash
      <4> QED BY <1>1, <4>1, <4>2, OthersDecided DEF RefundInv
    <3> QED BY <3>1 DEF RefundHandlers
  <2>6. ASSUME UNCHANGED task PROVE RefundHandlers'
    BY <1>1, <2>6, NoneDecides DEF RefundInv
  <2>7. ASSUME NEW p \in Payments,
               GatewayAuthorize(p) \/ GatewayCapture(p) \/ GatewayDecline(p)
        PROVE  UNCHANGED task
    BY <2>7 DEF GatewayAuthorize, GatewayCapture, GatewayDecline
  <2>8. ASSUME NEW p \in Payments, NEW n \in RefundNumbers,
               NEW outcome \in {"processed", "failed"}, GatewayRefundEnds(p, n, outcome)
        PROVE  UNCHANGED task
    BY <2>8 DEF GatewayRefundEnds
  <2>9. ASSUME NEW o \in Orders, NEW p \in Payments, ConfirmCod(o, p)
        PROVE  UNCHANGED task
    BY <2>9 DEF ConfirmCod
  <2>10. ASSUME NEW o \in Orders, WindowExpires(o) \/ CancelAbandonedOrder(o)
         PROVE  UNCHANGED task
    BY <2>10 DEF WindowExpires, CancelAbandonedOrder
  <2> QED BY <2>1, <2>2, <2>3, <2>4, <2>5, <2>6, <2>7, <2>8, <2>9, <2>10
          DEF Next, Environment
<1> QED BY <1>1, <1>2, <1>3 DEF RefundInv

LEMMA RefundInvariant == ASSUME ~ShippingConfigured PROVE Spec => []RefundInv
<1>1. RefundInv /\ [Next]_vars => RefundInv'
  BY RefundNext
<1> QED BY RefundInit, <1>1, PTL DEF Spec

\* Money only goes back for an order that was cancelled, and that order holds
\* no goods: late captures, cancellations and refund events included.
THEOREM RefundedCancelled ==
  ASSUME ~ShippingConfigured PROVE Spec => []RefundedOrdersAreCancelled
<1>1. RefundInv => RefundedOrdersAreCancelled
  BY DEF RefundInv
<1> QED BY RefundInvariant, <1>1, PTL

\* Once cancelled, for ever cancelled, whatever callback, webhook, job or
\* refund event comes late.
THEOREM CancelledTerminal ==
  ASSUME ~ShippingConfigured PROVE Spec => CancelledIsTerminal
<1>1. RefundInv /\ [Next]_vars =>
        [\A o \in Orders : orders[o].status = "CANCELLED" =>
            orders'[o].status = "CANCELLED"]_orders
  BY RefundNext DEF CancelledLasts
<1> QED BY RefundInvariant, <1>1, PTL DEF Spec, CancelledIsTerminal

-----------------------------------------------------------------------------
(* What becomes of an order's goods: the unit that it takes from the stock, *)
(* and the parcel that is booked for it.                                    *)

-----------------------------------------------------------------------------
(* No unit of stock is invented, and where no admin cancels orders (who may *)
(* decline to restock) none is lost and the rows implement the ledger.  No  *)
(* shipment is created, for one may reopen a cancelled order; and an admin  *)
(* finds no order that is still hidden, for cancelling one may restock what *)
(* was never taken.                                                         *)

Taken(o) == orders[o].status \notin {"NONE", "PENDING"}

\* What is assumed of the deployment: each part has a counterexample without.
StockAssumption ==
  /\ ~ShippingConfigured
  /\ "adminCancel" \notin Ops \/ "placeOnline" \notin Ops

CancelLabels == {"cancel", "admin_cancel"}

\* What a handler that holds `t` may rely on.
Cancelling(t) ==
  /\ t.pc \in CancelLabels => t.order \in Orders /\ Taken(t.order)
  /\ "adminCancel" \notin Ops => t.pc # "admin_cancel"

StockHandlers == \A w \in Workers : Cancelling(task[w])

CodVisible == \A o \in Orders : orders[o].cod => Taken(o)

\* Without online checkouts no order is ever hidden.
NothingHidden ==
  "placeOnline" \notin Ops => \A o \in Orders : orders[o].status # "PENDING"

StockInv ==
  /\ RefundInv
  /\ StockHandlers
  /\ CodVisible
  /\ NothingHidden
  /\ NoStockInvented
  /\ "adminCancel" \notin Ops => StockConserved

\* Never back to an order that holds nothing.
TakenLasts == \A o \in Orders : Taken(o) => Taken(o)'

-----------------------------------------------------------------------------
(* Steps of the ledger. *)

\* No order changes hands.
LEMMA FateStutter ==
  ASSUME UNCHANGED stock, \A o \in Orders : FateOf(o)' = FateOf(o)
  PROVE  UNCHANGED <<stock, [o \in Orders |-> FateOf(o)]>>
OBVIOUS

\* One order's fate changes the way the ledger has it.
LEMMA FateStep ==
  ASSUME NEW o \in Orders, \A q \in Orders : q # o => FateOf(q)' = FateOf(q),
         \/ FateOf(o) = "open" /\ FateOf(o)' = "held" /\ stock' = stock - 1
         \/ FateOf(o) = "held" /\ FateOf(o)' = "closed" /\ stock' = stock + 1
         \/ FateOf(o) = "open" /\ FateOf(o)' = "closed" /\ UNCHANGED stock
  PROVE  Ledger!LedgerNext
<1> DEFINE fate == [q \in Orders |-> FateOf(q)]
<1>1. \A f : FateOf(o)' = f => fate' = [fate EXCEPT ![o] = f]
  OBVIOUS
<1>2. fate[o] = FateOf(o)
  OBVIOUS
<1>3. CASE FateOf(o) = "open" /\ FateOf(o)' = "held" /\ stock' = stock - 1
  BY <1>1, <1>2, <1>3 DEF Ledger!LedgerNext, Ledger!Take
<1>4. CASE FateOf(o) = "held" /\ FateOf(o)' = "closed" /\ stock' = stock + 1
  BY <1>1, <1>2, <1>4 DEF Ledger!LedgerNext, Ledger!GiveBack
<1>5. CASE FateOf(o) = "open" /\ FateOf(o)' = "closed" /\ UNCHANGED stock
  BY <1>1, <1>2, <1>5 DEF Ledger!LedgerNext, Ledger!Abandon
<1> QED BY <1>3, <1>4, <1>5

Shelf == <<stock, [o \in Orders |-> FateOf(o)]>>

LedgerStepOrStutter == Ledger!LedgerNext \/ UNCHANGED Shelf

\* An admin cancels an order and declines to restock its unit.
WriteOff(o) ==
  /\ "adminCancel" \in Ops
  /\ FateOf(o) = "held" /\ FateOf(o)' = "closed" /\ UNCHANGED stock
  /\ \A q \in Orders : q # o => FateOf(q)' = FateOf(q)

ShelfStep == LedgerStepOrStutter \/ \E o \in Orders : WriteOff(o)

\* Only a status says where a unit is.
LEMMA SameStatus ==
  ASSUME UNCHANGED stock, \A o \in Orders : orders'[o].status = orders[o].status
  PROVE  LedgerStepOrStutter
BY FateStutter DEF FateOf, Shelf, LedgerStepOrStutter

\* A row's status is written.
LEMMA StatusWritten ==
  ASSUME TypeInv, NEW o \in Orders, NEW s,
         \/ orders' = [orders EXCEPT ![o].status = s]
         \/ \E m : orders' = [orders EXCEPT ![o].status = s, ![o].pay = m]
         \/ \E m : orders' = [orders EXCEPT ![o].pay = m, ![o].status = s]
         \/ \E b : orders' = [orders EXCEPT ![o].status = s, ![o].cod = b]
  PROVE  /\ orders'[o].status = s
         /\ \A q \in Orders : q # o => FateOf(q)' = FateOf(q)
<1>1. orders'[o].status = s /\ \A q \in Orders : q # o => orders'[q] = orders[q]
  <2> USE DEF TypeInv, TypeOK, OrderRow
  <2>1. CASE orders' = [orders EXCEPT ![o].status = s]
    BY <2>1
  <2>2. CASE \E m : orders' = [orders EXCEPT ![o].status = s, ![o].pay = m]
    BY <2>2
  <2>3. CASE \E m : orders' = [orders EXCEPT ![o].pay = m, ![o].status = s]
    BY <2>3
  <2>4. CASE \E b : orders' = [orders EXCEPT ![o].status = s, ![o].cod = b]
    BY <2>4
  <2> QED BY <2>1, <2>2, <2>3, <2>4
<1> QED BY <1>1 DEF FateOf

\* Requests: COD takes its unit at checkout, online does not.
LEMMA LedgerRequest ==
  ASSUME StockInv, NEW w \in Workers, Request(w) PROVE LedgerStepOrStutter
<1> USE DEF StockInv, RefundInv
<1>1. ASSUME NEW o \in Orders, PlaceOnlineOrder(w, o) PROVE LedgerStepOrStutter
  <2>1. orders'[o].status = "PENDING" /\ \A q \in Orders : q # o => FateOf(q)' = FateOf(q)
    BY <1>1, StatusWritten DEF PlaceOnlineOrder
  <2>2. FateOf(o)' = FateOf(o)
    BY <1>1, <2>1 DEF PlaceOnlineOrder, Exists, FateOf
  <2> QED BY <1>1, <2>1, <2>2, FateStutter DEF PlaceOnlineOrder, Shelf, LedgerStepOrStutter
<1>2. ASSUME NEW o \in Orders, PlaceCodOrder(w, o) PROVE LedgerStepOrStutter
  <2>1. orders'[o].status = "PLACED" /\ \A q \in Orders : q # o => FateOf(q)' = FateOf(q)
    BY <1>2, StatusWritten DEF PlaceCodOrder
  <2>2. FateOf(o) = "open" /\ FateOf(o)' = "held" /\ stock' = stock - 1
    BY <1>2, <2>1 DEF PlaceCodOrder, Exists, FateOf
  <2> QED BY <2>1, <2>2, FateStep DEF LedgerStepOrStutter
<1>3. UNCHANGED <<orders, stock>> => LedgerStepOrStutter
  BY SameStatus
<1> QED BY <1>1, <1>2, <1>3
        DEF Request, ReplayPlaceOrder, CreatePaymentOrder, RetryPayment,
            CancelOrder, AdminCancelOrder, VerifyPayment, rows

\* Handlers: the promotion takes, a cancellation gives back or writes off.
LEMMA LedgerContinue ==
  ASSUME StockInv, NEW w \in Workers, Continue(w) \/ DatabaseError(w)
  PROVE  ShelfStep
<1> USE DEF StockInv, RefundInv
<1>0. /\ Decided(task[w]) /\ Cancelling(task[w])
      /\ task[w].pc # "idle" => task[w].order \in Orders
  BY DEF RefundHandlers, StockHandlers, TypeInv, Busy
<1>1. CASE PromotePending(w)
  <2>1. task[w].order \in Orders
    BY <1>0, <1>1 DEF PromotePending, At
  <2>2. /\ orders'[task[w].order].status = "PLACED"
        /\ \A q \in Orders : q # task[w].order => FateOf(q)' = FateOf(q)
    BY <1>1, <2>1, StatusWritten DEF PromotePending
  <2>3. PICK o \in Orders : o = task[w].order
    BY <2>1
  <2>4. FateOf(o) = "open" /\ FateOf(o)' = "held" /\ stock' = stock - 1
    BY <1>1, <2>2, <2>3 DEF PromotePending, ClaimablePending, FateOf
  <2> QED BY <2>2, <2>3, <2>4, FateStep DEF ShelfStep, LedgerStepOrStutter
<1>2. CASE CancelCommit(w)
  <2>1. Taken(task[w].order) /\ task[w].order \in Orders
    BY <1>0, <1>2 DEF CancelCommit, At, Cancelling, CancelLabels
  <2>2. /\ orders'[task[w].order].status = "CANCELLED"
        /\ \A q \in Orders : q # task[w].order => FateOf(q)' = FateOf(q)
    BY <1>2, <2>1, StatusWritten DEF CancelCommit
  <2>3. PICK o \in Orders : o = task[w].order
    BY <2>1
  <2>4. FateOf(o) = "held" /\ FateOf(o)' = "closed" /\ stock' = stock + 1
    BY <1>2, <2>1, <2>2, <2>3 DEF CancelCommit, StillCancellable, NonCancellable,
                                  Taken, FateOf
  <2> QED BY <2>2, <2>3, <2>4, FateStep DEF ShelfStep, LedgerStepOrStutter
<1>3. CASE PromoteVisible(w) \/ ClaimLateCapture(w)
  <2>1. \A q \in Orders : orders'[q].status = orders[q].status
    BY <1>3, PayKeepsStatus DEF PromoteVisible, ClaimLateCapture
  <2> QED BY <1>3, <2>1, SameStatus DEF ShelfStep, PromoteVisible, ClaimLateCapture
<1>4. CASE RefundPersist(w) \/ MarkRefundFailed(w) \/ MarkPaymentFailed(w)
  <2>1. \A q \in Orders : orders'[q].status = orders[q].status
    BY <1>4, PayKeepsStatus DEF RefundPersist, MarkRefundFailed, MarkPaymentFailed
  <2> QED BY <1>4, <2>1, SameStatus DEF ShelfStep, RefundPersist, MarkRefundFailed, MarkPaymentFailed
<1>5. CASE MarkRefunded(w)
  <2>1. task[w].order \in Orders /\ task[w].view.status = "CANCELLED"
    BY <1>0, <1>5 DEF MarkRefunded, At, Decided
  <2>2. CASE orders' = [orders EXCEPT
               ![task[w].order].status =
                 StatusAfterRefund(task[w].view.status, orders[task[w].order].status),
               ![task[w].order].pay = "REFUNDED"]
    BY <1>5, <2>1, <2>2, SameStatus DEF ShelfStep, MarkRefunded, StatusAfterRefund, TypeInv,
                                        TypeOK, OrderRow
  <2>3. CASE UNCHANGED orders
    BY <1>5, <2>3, SameStatus DEF ShelfStep, MarkRefunded
  <2> QED BY <1>5, <2>1, <2>2, <2>3 DEF MarkRefunded
<1>6. ~ShipSave(w)
  BY <1>0 DEF ShipSave, At, Decided, ShipLabels
<1>8. ASSUME NEW restockItems \in BOOLEAN, AdminCancelCommit(w, restockItems)
      PROVE  ShelfStep
  <2>1. Taken(task[w].order) /\ task[w].order \in Orders /\ "adminCancel" \in Ops
    BY <1>0, <1>8 DEF AdminCancelCommit, At, Cancelling, CancelLabels
  <2>2. /\ orders'[task[w].order].status = "CANCELLED"
        /\ \A q \in Orders : q # task[w].order => FateOf(q)' = FateOf(q)
    BY <1>8, <2>1, StatusWritten DEF AdminCancelCommit
  <2>3. PICK o \in Orders : o = task[w].order
    BY <2>1
  <2>4. FateOf(o) = "held" /\ FateOf(o)' = "closed"
    BY <1>8, <2>1, <2>2, <2>3 DEF AdminCancelCommit, Taken, FateOf
  <2>5. stock' = stock + 1 \/ UNCHANGED stock
    BY <1>8 DEF AdminCancelCommit
  <2>6. CASE stock' = stock + 1
    BY <2>2, <2>3, <2>4, <2>6, FateStep DEF ShelfStep, LedgerStepOrStutter
  <2>7. CASE UNCHANGED stock
    BY <2>1, <2>2, <2>3, <2>4, <2>7 DEF ShelfStep, WriteOff
  <2> QED BY <2>5, <2>6, <2>7
<1>7. CASE \/ PrepareOnlinePayment(w) \/ GatewayOrderFails(w) \/ RejectSignature(w)
           \/ \E p \in Payments : InsertPayment(w, p)
           \/ MarkPaymentCompleted(w) \/ PromoteNothing(w) \/ SkipLateCapture(w)
           \/ RefundReadOrder(w) \/ RefundGuard(w) \/ RefundCodManually(w)
           \/ RefundWithoutCapture(w) \/ RefundRejected(w) \/ RefundPersistFails(w)
           \/ \E p \in Payments : RefundPickPayment(w, p)
           \/ \E n \in RefundNumbers : RefundAccepted(w, n)
           \/ CancelConflict(w) \/ AdminCancelConflict(w) \/ AdminRefundGuard(w)
           \/ ShipOnce(w) \/ ShipRead(w) \/ ShipLock(w) \/ ShipFails(w)
           \/ DatabaseError(w)
  <2>1. UNCHANGED <<orders, stock>>
    BY <1>7 DEF PrepareOnlinePayment, GatewayOrderFails, RejectSignature,
         InsertPayment, MarkPaymentCompleted, PromoteNothing, SkipLateCapture,
         RefundReadOrder, RefundGuard, RefundCodManually, RefundWithoutCapture,
         RefundRejected, RefundPersistFails, RefundPickPayment, RefundAccepted,
         CancelConflict, AdminCancelConflict, AdminRefundGuard, ShipOnce, ShipRead,
         ShipLock, ShipFails, DatabaseError, rows
  <2> QED BY <2>1, SameStatus DEF ShelfStep
<1> QED BY <1>1, <1>2, <1>3, <1>4, <1>5, <1>6, <1>7, <1>8 DEF Continue

\* Jobs and events: the cleanup job gives nothing back.
LEMMA LedgerNextStep == ASSUME StockInv, [Next]_vars PROVE ShelfStep
<1> SUFFICES ASSUME \A w \in Workers : ~Continue(w) /\ ~DatabaseError(w)
             PROVE  LedgerStepOrStutter
  BY LedgerContinue DEF ShelfStep
<1> USE DEF StockInv, RefundInv
<1>1. ASSUME NEW o \in Orders, CancelAbandonedOrder(o) PROVE LedgerStepOrStutter
  <2>1. orders'[o].status = "CANCELLED" /\ \A q \in Orders : q # o => FateOf(q)' = FateOf(q)
    BY <1>1, StatusWritten DEF CancelAbandonedOrder
  <2>2. FateOf(o) = "open" /\ FateOf(o)' = "closed" /\ UNCHANGED stock
    BY <1>1, <2>1 DEF CancelAbandonedOrder, FateOf
  <2> QED BY <2>1, <2>2, FateStep DEF LedgerStepOrStutter
<1>2. ASSUME NEW o \in Orders, NEW p \in Payments, ConfirmCod(o, p)
      PROVE  LedgerStepOrStutter
  <2>1. orders'[o].status = "PLACED" /\ \A q \in Orders : q # o => FateOf(q)' = FateOf(q)
    BY <1>2, StatusWritten DEF ConfirmCod
  <2>2. FateOf(o)' = FateOf(o)
    BY <1>2, <2>1 DEF ConfirmCod, CodVisible, Taken, FateOf
  <2> QED BY <1>2, <2>1, <2>2, FateStutter DEF ConfirmCod, Shelf, LedgerStepOrStutter
<1>3. ASSUME NEW w \in Workers, NEW e \in Event, Deliver(w, e)
      PROVE  UNCHANGED <<orders, stock>>
  BY <1>3 DEF Deliver, ReceiveCaptured, ReceiveFailed, ReceiveRefundDone,
              ReceiveRefundFailed, rows
<1>4. ASSUME NEW o \in Orders, WindowExpires(o) PROVE UNCHANGED <<orders, stock>>
  BY <1>4 DEF WindowExpires
<1>5. ASSUME NEW p \in Payments,
             GatewayAuthorize(p) \/ GatewayCapture(p) \/ GatewayDecline(p)
      PROVE  UNCHANGED <<orders, stock>>
  BY <1>5 DEF GatewayAuthorize, GatewayCapture, GatewayDecline, rows
<1>6. ASSUME NEW p \in Payments, NEW n \in RefundNumbers,
             NEW outcome \in {"processed", "failed"}, GatewayRefundEnds(p, n, outcome)
      PROVE  UNCHANGED <<orders, stock>>
  BY <1>6 DEF GatewayRefundEnds, rows
<1>7. ASSUME NEW i, Crash(i) PROVE UNCHANGED <<orders, stock>>
  BY <1>7 DEF Crash, rows
<1>8. UNCHANGED <<orders, stock>> => LedgerStepOrStutter
  BY SameStatus
<1>9. CASE UNCHANGED vars
  BY <1>8, <1>9 DEF vars
<1> QED BY <1>1, <1>2, <1>3, <1>4, <1>5, <1>6, <1>7, <1>8, <1>9,
           LedgerRequest DEF Next, Environment

-----------------------------------------------------------------------------
(* The invariant. *)

\* No fate is reopened.
LEMMA TakenStays == ASSUME ShelfStep PROVE TakenLasts
<1> DEFINE fate == [o \in Orders |-> FateOf(o)]
<1>1. CASE LedgerStepOrStutter
  <2>1. \A o \in Orders : fate[o] # "open" => fate'[o] # "open"
    BY <1>1 DEF LedgerStepOrStutter, Shelf, Ledger!LedgerNext, Ledger!Take,
                Ledger!GiveBack, Ledger!Abandon
  <2>2. \A o \in Orders : (fate[o] = FateOf(o)) /\ (fate'[o] = FateOf(o)')
    OBVIOUS
  <2> HIDE DEF fate
  <2> QED BY <2>1, <2>2 DEF FateOf, Taken, TakenLasts
<1>2. CASE \E o \in Orders : WriteOff(o)
  BY <1>2 DEF WriteOff, FateOf, Taken, TakenLasts
<1> QED BY <1>1, <1>2 DEF ShelfStep

\* One handler moves, if any, and the others keep what they rely on.
LEMMA OneCancels ==
  ASSUME StockHandlers, TakenLasts, NEW w,
         \A v \in Workers : v # w => task'[v] = task[v],
         w \in Workers => Cancelling(task'[w])
  PROVE  StockHandlers'
<1>1. \A t : Cancelling(t) => Cancelling(t)'
  BY DEF Cancelling, TakenLasts
<1>2. \A v \in Workers : Cancelling(task'[v])
  BY DEF StockHandlers
<1> QED BY <1>1, <1>2 DEF StockHandlers

\* A customer cancels only what was taken; an admin cancels any order, and then
\* none is hidden.
LEMMA CancellingNext ==
  ASSUME StockInv, TakenLasts, StockAssumption, [Next]_vars
  PROVE  StockHandlers'
<1> USE DEF StockInv, RefundInv, CancelLabels
<1>1. ASSUME UNCHANGED task PROVE StockHandlers'
  <2>1. \A t : Cancelling(t) => Cancelling(t)'
    BY DEF Cancelling, TakenLasts
  <2> QED BY <1>1, <2>1 DEF StockHandlers
<1>2. ASSUME NEW w \in Workers, NEW label \in PC \ CancelLabels,
             NEW o, NEW p, NEW view, Begin(w, label, o, p, view)
      PROVE  StockHandlers'
  <2>1. (\A v \in Workers : v # w => task'[v] = task[v]) /\ task'[w].pc = label
    BY <1>2 DEF Begin, TypeInv, TypeOK
  <2> QED BY <2>1, OneCancels DEF Cancelling
<1>3. ASSUME NEW w \in Workers, NEW o \in Orders, CancelOrder(w, o) PROVE StockHandlers'
  <2>1. /\ \A v \in Workers : v # w => task'[v] = task[v]
        /\ task'[w].pc = "cancel" /\ task'[w].order = o
    BY <1>3 DEF CancelOrder, Begin, TypeInv, TypeOK
  <2>2. Taken(o)
    BY <1>3 DEF CancelOrder, Exists, Taken
  <2> QED BY <2>1, <2>2, OneCancels DEF Cancelling
<1>15. ASSUME NEW w \in Workers, NEW o \in Orders, AdminCancelOrder(w, o)
       PROVE  StockHandlers'
  <2>1. /\ \A v \in Workers : v # w => task'[v] = task[v]
        /\ task'[w].pc = "admin_cancel" /\ task'[w].order = o
    BY <1>15 DEF AdminCancelOrder, Begin, TypeInv, TypeOK
  <2>2. Taken(o) /\ "adminCancel" \in Ops
    BY <1>15 DEF AdminCancelOrder, Exists, Taken, StockAssumption, NothingHidden
  <2> QED BY <2>1, <2>2, OneCancels DEF Cancelling, TakenLasts
<1>4. ASSUME NEW w \in Workers, Finish(w) PROVE StockHandlers'
  <2>1. (\A v \in Workers : v # w => task'[v] = task[v]) /\ task'[w] = IdleTask
    BY <1>4 DEF Finish, TypeInv, TypeOK
  <2> QED BY <2>1, OneCancels DEF Cancelling, IdleTask
<1>5. ASSUME NEW w \in Workers, NEW label \in PC \ CancelLabels,
             Goto(w, label)
      PROVE  StockHandlers'
  <2>1. (\A v \in Workers : v # w => task'[v] = task[v]) /\ task'[w].pc = label
    BY <1>5 DEF Goto, TypeInv, TypeOK, Task
  <2> QED BY <2>1, OneCancels DEF Cancelling
<1>6. ASSUME NEW w \in Workers, Request(w) PROVE StockHandlers'
  <2>1. ASSUME NEW o \in Orders, PlaceOnlineOrder(w, o) \/ PlaceCodOrder(w, o)
               \/ ReplayPlaceOrder(w, o)
        PROVE  StockHandlers'
    BY <1>1, <1>2, <2>1 DEF PlaceOnlineOrder, PlaceCodOrder, ReplayPlaceOrder, PC
  <2>2. ASSUME NEW o \in Orders, NEW online \in BOOLEAN,
               CreatePaymentOrder(w, o, online) \/ RetryPayment(w, o, online)
        PROVE  StockHandlers'
    BY <1>2, <2>2 DEF CreatePaymentOrder, RetryPayment, PC
  <2>3. ASSUME NEW p \in Payments, NEW valid \in BOOLEAN, VerifyPayment(w, p, valid)
        PROVE  StockHandlers'
    BY <1>2, <2>3 DEF VerifyPayment, PC
  <2> QED BY <1>3, <1>6, <1>15, <2>1, <2>2, <2>3 DEF Request
<1>7. ASSUME NEW w \in Workers, NEW e \in Event, Deliver(w, e) PROVE StockHandlers'
  <2>1. CASE ReceiveCaptured(w, e) \/ ReceiveFailed(w, e)
    BY <1>1, <1>2, <2>1 DEF ReceiveCaptured, ReceiveFailed, PC
  <2>2. ASSUME NEW label \in {"refund_processed", "refund_failed"},
               BeginRefundEvent(w, label, e)
        PROVE  StockHandlers'
    <3>1. (\A v \in Workers : v # w => task'[v] = task[v]) /\ task'[w].pc = label
      BY <2>2 DEF BeginRefundEvent, TypeInv, TypeOK
    <3> QED BY <3>1, OneCancels DEF Cancelling
  <2>3. CASE ReceiveRefundDone(w, e) \/ ReceiveRefundFailed(w, e)
    BY <1>1, <2>2, <2>3 DEF ReceiveRefundDone, ReceiveRefundFailed
  <2> QED BY <1>7, <2>1, <2>3 DEF Deliver
<1>8. ASSUME NEW w \in Workers, Continue(w) \/ DatabaseError(w) PROVE StockHandlers'
  <2>1. CASE \/ PrepareOnlinePayment(w) \/ GatewayOrderFails(w) \/ RejectSignature(w)
             \/ \E p \in Payments : InsertPayment(w, p)
             \/ MarkPaymentCompleted(w) \/ PromotePending(w) \/ PromoteVisible(w)
             \/ PromoteNothing(w) \/ ClaimLateCapture(w) \/ SkipLateCapture(w)
             \/ MarkPaymentFailed(w) \/ RefundReadOrder(w) \/ RefundGuard(w)
    BY <1>4, <1>5, <2>1 DEF PrepareOnlinePayment, GatewayOrderFails, RejectSignature,
         InsertPayment, MarkPaymentCompleted, PromotePending, PromoteVisible,
         PromoteNothing, ClaimLateCapture, SkipLateCapture, MarkPaymentFailed,
         RefundReadOrder, RefundGuard, AfterClaim, PC
  <2>2. CASE \/ RefundCodManually(w) \/ RefundWithoutCapture(w) \/ RefundRejected(w)
             \/ RefundPersist(w) \/ RefundPersistFails(w) \/ MarkRefunded(w)
             \/ MarkRefundFailed(w) \/ CancelCommit(w) \/ CancelConflict(w)
             \/ \E restockItems \in BOOLEAN : AdminCancelCommit(w, restockItems)
             \/ AdminCancelConflict(w) \/ AdminRefundGuard(w) \/ DatabaseError(w)
    BY <1>4, <1>5, <2>2 DEF RefundCodManually, RefundWithoutCapture, RefundRejected,
         RefundPersist, RefundPersistFails, MarkRefunded, MarkRefundFailed,
         CancelCommit, CancelConflict, AdminCancelCommit, AdminCancelConflict,
         AdminRefundGuard, DatabaseError, AfterCancel, PC
  <2>3. CASE \/ ShipOnce(w) \/ ShipLock(w) \/ ShipSave(w) \/ ShipFails(w)
    BY <1>4, <1>5, <2>3 DEF ShipOnce, ShipLock, ShipSave, ShipFails, PC
  <2>4. ASSUME NEW p \in Payments, RefundPickPayment(w, p) PROVE StockHandlers'
    <3>1. (\A v \in Workers : v # w => task'[v] = task[v]) /\ task'[w].pc = "refund_call"
      BY <2>4 DEF RefundPickPayment, TypeInv, TypeOK, Task
    <3> QED BY <3>1, OneCancels DEF Cancelling
  <2>5. ASSUME NEW n \in RefundNumbers, RefundAccepted(w, n) PROVE StockHandlers'
    <3>1. (\A v \in Workers : v # w => task'[v] = task[v]) /\ task'[w].pc = "refund_save"
      BY <2>5 DEF RefundAccepted, TypeInv, TypeOK, Task
    <3> QED BY <3>1, OneCancels DEF Cancelling
  <2>6. CASE ShipRead(w)
    <3>1. (\A v \in Workers : v # w => task'[v] = task[v]) /\ task'[w].pc = "ship_lock"
      BY <2>6 DEF ShipRead, TypeInv, TypeOK, Task
    <3> QED BY <3>1, OneCancels DEF Cancelling
  <2> QED BY <1>8, <2>1, <2>2, <2>3, <2>4, <2>5, <2>6 DEF Continue
<1>9. ASSUME NEW i, Crash(i) PROVE StockHandlers'
  <2>1. \A t : Cancelling(t) => Cancelling(t)'
    BY DEF Cancelling, TakenLasts
  <2>2. \A v \in Workers : Cancelling(task'[v])
    BY <1>9 DEF Crash, StockHandlers, Cancelling, IdleTask
  <2> QED BY <2>1, <2>2 DEF StockHandlers
<1>10. ASSUME NEW p \in Payments,
              GatewayAuthorize(p) \/ GatewayCapture(p) \/ GatewayDecline(p)
       PROVE  UNCHANGED task
  BY <1>10 DEF GatewayAuthorize, GatewayCapture, GatewayDecline
<1>11. ASSUME NEW p \in Payments, NEW n \in RefundNumbers,
              NEW outcome \in {"processed", "failed"}, GatewayRefundEnds(p, n, outcome)
       PROVE  UNCHANGED task
  BY <1>11 DEF GatewayRefundEnds
<1>12. ASSUME NEW o \in Orders, WindowExpires(o) \/ CancelAbandonedOrder(o)
       PROVE  UNCHANGED task
  BY <1>12 DEF WindowExpires, CancelAbandonedOrder
<1>13. ASSUME NEW o \in Orders, NEW p \in Payments, ConfirmCod(o, p)
       PROVE  UNCHANGED task
  BY <1>13 DEF ConfirmCod
<1>14. CASE UNCHANGED vars
  BY <1>1, <1>14 DEF vars
<1> QED BY <1>1, <1>6, <1>7, <1>8, <1>9, <1>10, <1>11, <1>12, <1>13, <1>14
        DEF Next, Environment

\* A handler writes the statuses it knows, and never PENDING.
LEMMA HiddenContinue ==
  ASSUME StockInv, NEW w \in Workers, Continue(w), NEW o \in Orders
  PROVE  orders'[o].status \in {orders[o].status, "PLACED", "CANCELLED"}
<1>0. Decided(task[w]) /\ TypeInv
  BY DEF RefundHandlers, StockInv, RefundInv
<1>1. CASE \/ PromotePending(w) \/ PromoteVisible(w) \/ ClaimLateCapture(w)
           \/ MarkPaymentFailed(w) \/ RefundPersist(w) \/ MarkRefundFailed(w)
           \/ CancelCommit(w)
           \/ \E restockItems \in BOOLEAN : AdminCancelCommit(w, restockItems)
  BY SMTT(30), <1>0, <1>1
     DEF PromotePending, PromoteVisible, ClaimLateCapture, MarkPaymentFailed,
         RefundPersist, MarkRefundFailed, CancelCommit, AdminCancelCommit,
         TypeInv, TypeOK, OrderRow
<1>2. CASE MarkRefunded(w)
  BY <1>0, <1>2 DEF MarkRefunded, At, Decided, StatusAfterRefund, TypeInv, TypeOK,
                     OrderRow
<1>3. ~ShipSave(w)
  BY <1>0 DEF ShipSave, At, Decided, ShipLabels
<1>4. ASSUME \/ PrepareOnlinePayment(w) \/ GatewayOrderFails(w) \/ RejectSignature(w)
             \/ \E p \in Payments : InsertPayment(w, p)
             \/ MarkPaymentCompleted(w) \/ PromoteNothing(w) \/ SkipLateCapture(w)
             \/ RefundReadOrder(w) \/ RefundGuard(w) \/ RefundCodManually(w)
             \/ RefundWithoutCapture(w) \/ RefundRejected(w) \/ RefundPersistFails(w)
             \/ \E p \in Payments : RefundPickPayment(w, p)
             \/ \E n \in RefundNumbers : RefundAccepted(w, n)
             \/ CancelConflict(w) \/ AdminCancelConflict(w) \/ AdminRefundGuard(w)
             \/ ShipOnce(w) \/ ShipRead(w) \/ ShipLock(w) \/ ShipFails(w)
      PROVE  orders'[o].status = orders[o].status
  BY <1>4 DEF PrepareOnlinePayment, GatewayOrderFails, RejectSignature,
       InsertPayment, MarkPaymentCompleted, PromoteNothing, SkipLateCapture,
       RefundReadOrder, RefundGuard, RefundCodManually, RefundWithoutCapture,
       RefundRejected, RefundPersistFails, RefundPickPayment, RefundAccepted,
       CancelConflict, AdminCancelConflict, AdminRefundGuard, ShipOnce, ShipRead,
       ShipLock, ShipFails, rows
<1> QED BY <1>1, <1>2, <1>3, <1>4 DEF Continue

\* Only an online checkout hides an order.
LEMMA HiddenNext == ASSUME StockInv, [Next]_vars PROVE NothingHidden'
<1> SUFFICES ASSUME "placeOnline" \notin Ops, NEW o \in Orders,
                    orders[o].status # "PENDING"
             PROVE  orders'[o].status # "PENDING"
  BY DEF StockInv, NothingHidden
<1>0. TypeInv
  BY DEF StockInv, RefundInv
<1>1. ASSUME NEW w \in Workers, Request(w) PROVE orders'[o].status # "PENDING"
  <2>1. ASSUME NEW x \in Orders, PlaceCodOrder(w, x)
        PROVE  orders'[o].status # "PENDING"
    BY <1>0, <2>1 DEF PlaceCodOrder, TypeInv, TypeOK, OrderRow
  <2>2. CASE UNCHANGED orders
    BY <2>2
  <2>3. \A x \in Orders : ~PlaceOnlineOrder(w, x)
    BY DEF PlaceOnlineOrder
  <2> QED BY <1>1, <2>1, <2>2, <2>3
          DEF Request, ReplayPlaceOrder, CreatePaymentOrder, RetryPayment,
              CancelOrder, AdminCancelOrder, VerifyPayment, rows
<1>2. ASSUME NEW w \in Workers, Continue(w) PROVE orders'[o].status # "PENDING"
  BY <1>2, HiddenContinue
<1>3. ASSUME NEW x \in Orders, NEW p \in Payments, ConfirmCod(x, p)
      PROVE  orders'[o].status # "PENDING"
  <2>1. /\ orders'[x].status = "PLACED"
        /\ \A q \in Orders : q # x => orders'[q] = orders[q]
    BY <1>0, <1>3 DEF ConfirmCod, TypeInv, TypeOK, OrderRow
  <2> QED BY <2>1
<1>8. ASSUME NEW x \in Orders, CancelAbandonedOrder(x)
      PROVE  orders'[o].status # "PENDING"
  BY <1>0, <1>8 DEF CancelAbandonedOrder, TypeInv, TypeOK, OrderRow
<1>9. ASSUME NEW x \in Orders, WindowExpires(x) PROVE UNCHANGED orders
  BY <1>9 DEF WindowExpires
<1>10. ASSUME NEW w \in Workers, DatabaseError(w) PROVE UNCHANGED orders
  BY <1>10 DEF DatabaseError, rows
<1>11. ASSUME NEW i, Crash(i) PROVE UNCHANGED orders
  BY <1>11 DEF Crash, rows
<1>4. CASE UNCHANGED orders
  BY <1>4
<1>5. ASSUME NEW w \in Workers, NEW e \in Event, Deliver(w, e)
      PROVE  UNCHANGED orders
  BY <1>5 DEF Deliver, ReceiveCaptured, ReceiveFailed, ReceiveRefundDone,
              ReceiveRefundFailed, rows
<1>6. ASSUME NEW p \in Payments,
             GatewayAuthorize(p) \/ GatewayCapture(p) \/ GatewayDecline(p)
      PROVE  UNCHANGED orders
  BY <1>6 DEF GatewayAuthorize, GatewayCapture, GatewayDecline, rows
<1>7. ASSUME NEW p \in Payments, NEW n \in RefundNumbers,
             NEW outcome \in {"processed", "failed"}, GatewayRefundEnds(p, n, outcome)
      PROVE  UNCHANGED orders
  BY <1>7 DEF GatewayRefundEnds, rows
<1> QED BY <1>1, <1>2, <1>3, <1>4, <1>5, <1>6, <1>7, <1>8, <1>9, <1>10, <1>11
        DEF Next, Environment, vars

\* A COD order is visible from the start.
LEMMA CodNext ==
  ASSUME CodVisible, Lasting, TakenLasts PROVE CodVisible'
BY DEF CodVisible, Lasting, MethodLasts, TakenLasts, Taken

-----------------------------------------------------------------------------
(* The count of units. *)

\* Who holds a unit is what the fates say.
LEMMA HoldersAre ==
  /\ TypeInv => Holders = {o \in Orders : FateOf(o) = "held"}
  /\ TypeInv' => Holders' = {o \in Orders : FateOf(o)' = "held"}
BY DEF Holders, FateOf, HoldsStock, OrderStatus, TypeInv, TypeOK, OrderRow

\* Units on the shelf and units held: a ledger step keeps their sum, a write-off
\* lowers it.
LEMMA ShelfCount ==
  ASSUME TypeInv, TypeInv'
  PROVE  /\ LedgerStepOrStutter =>
              stock' + Cardinality(Holders') = stock + Cardinality(Holders)
         /\ ShelfStep => stock' + Cardinality(Holders') <= stock + Cardinality(Holders)
<1> DEFINE fate == [o \in Orders |-> FateOf(o)]
<1>0. /\ IsFiniteSet(Holders) /\ Cardinality(Holders) \in Nat /\ stock \in Int
      /\ \A o \in Orders : (fate[o] = FateOf(o)) /\ (fate'[o] = FateOf(o)')
      /\ Holders = {o \in Orders : fate[o] = "held"}
      /\ Holders' = {o \in Orders : fate'[o] = "held"}
  <2>1. IsFiniteSet(Holders)
    BY ShopAssumption, FS_Subset DEF Holders
  <2> QED BY <2>1, FS_CardinalityType, HoldersAre DEF TypeInv, TypeOK
<1>1. CASE UNCHANGED Shelf
  <2>1. UNCHANGED <<stock, fate>>
    BY <1>1 DEF Shelf
  <2>2. Holders' = Holders
    BY <1>0, <2>1
  <2>3. stock' + Cardinality(Holders') = stock + Cardinality(Holders)
    BY <2>1, <2>2
  <2> QED BY <1>0, <2>2, <2>3
<1>2. ASSUME NEW o \in Orders, Ledger!Take(o)
      PROVE  stock' + Cardinality(Holders') = stock + Cardinality(Holders)
  <2>1. /\ fate[o] = "open" /\ fate'[o] = "held" /\ stock' = stock - 1
        /\ \A q \in Orders : q # o => fate'[q] = fate[q]
    BY <1>2 DEF Ledger!Take
  <2> HIDE DEF fate
  <2>2. Holders' = Holders \cup {o} /\ o \notin Holders
    BY <1>0, <2>1
  <2>3. Cardinality(Holders') = Cardinality(Holders) + 1
    BY <1>0, <2>2, FS_AddElement
  <2> QED BY <1>0, <2>1, <2>3
\* One order stops holding its unit.
<1>3. ASSUME NEW o \in Orders, fate[o] = "held", fate'[o] = "closed",
             \A q \in Orders : q # o => fate'[q] = fate[q]
      PROVE  Cardinality(Holders') = Cardinality(Holders) - 1
  <2> HIDE DEF fate
  <2>1. Holders' = Holders \ {o} /\ o \in Holders
    BY <1>0, <1>3
  <2> QED BY <1>0, <2>1, FS_RemoveElement
<1>4. ASSUME NEW o \in Orders, Ledger!GiveBack(o)
      PROVE  stock' + Cardinality(Holders') = stock + Cardinality(Holders)
  <2>1. /\ fate[o] = "held" /\ fate'[o] = "closed" /\ stock' = stock + 1
        /\ \A q \in Orders : q # o => fate'[q] = fate[q]
    BY <1>4 DEF Ledger!GiveBack
  <2> HIDE DEF fate
  <2>2. Cardinality(Holders') = Cardinality(Holders) - 1
    BY <1>3, <2>1
  <2> QED BY <1>0, <2>1, <2>2
<1>5. ASSUME NEW o \in Orders, Ledger!Abandon(o)
      PROVE  stock' + Cardinality(Holders') = stock + Cardinality(Holders)
  <2>1. /\ fate[o] = "open" /\ fate'[o] = "closed" /\ stock' = stock
        /\ \A q \in Orders : q # o => fate'[q] = fate[q]
    BY <1>5 DEF Ledger!Abandon
  <2> HIDE DEF fate
  <2>2. Holders' = Holders
    BY <1>0, <2>1
  <2> QED BY <2>1, <2>2
<1>6. LedgerStepOrStutter =>
        stock' + Cardinality(Holders') = stock + Cardinality(Holders)
  BY <1>1, <1>2, <1>4, <1>5 DEF LedgerStepOrStutter, Ledger!LedgerNext
<1>7. ASSUME NEW o \in Orders, WriteOff(o)
      PROVE  stock' + Cardinality(Holders') <= stock + Cardinality(Holders)
  <2>1. /\ fate[o] = "held" /\ fate'[o] = "closed" /\ stock' = stock
        /\ \A q \in Orders : q # o => fate'[q] = fate[q]
    BY <1>0, <1>7 DEF WriteOff
  <2> HIDE DEF fate
  <2>2. Cardinality(Holders') = Cardinality(Holders) - 1
    BY <1>3, <2>1
  <2> QED BY <1>0, <2>1, <2>2
<1>8. IsFiniteSet(Holders') /\ Cardinality(Holders') \in Nat /\ stock' \in Int
  <2>1. Holders' \subseteq Orders
    BY <1>0
  <2> QED BY <2>1, ShopAssumption, FS_Subset, FS_CardinalityType DEF TypeInv, TypeOK
<1> QED BY <1>0, <1>6, <1>7, <1>8 DEF ShelfStep

\* The shelf misses one unit per holder, or more where units are written off.
LEMMA CountNext ==
  ASSUME TypeInv, TypeInv', NoStockInvented, ShelfStep,
         "adminCancel" \notin Ops => StockConserved
  PROVE  /\ NoStockInvented'
         /\ "adminCancel" \notin Ops => StockConserved'
<1>1. /\ IsFiniteSet(Holders) /\ Cardinality(Holders) \in Nat
      /\ InitialStock \in Int /\ stock \in Int /\ stock' \in Int
  BY ShopAssumption, FS_Subset, FS_CardinalityType DEF Holders, TypeInv, TypeOK
<1>2. Cardinality(Holders') \in Nat
  <2>1. IsFiniteSet(Holders')
    BY HoldersAre, ShopAssumption, FS_Subset
  <2> QED BY <2>1, FS_CardinalityType
<1>3. "adminCancel" \notin Ops => LedgerStepOrStutter
  BY DEF ShelfStep, WriteOff
<1>4. NoStockInvented'
  <2>1. stock' + Cardinality(Holders') <= stock + Cardinality(Holders)
    BY ShelfCount
  <2>2. stock <= InitialStock - Cardinality(Holders)
    BY DEF NoStockInvented
  <2>3. stock' <= InitialStock - Cardinality(Holders')
    BY <1>1, <1>2, <2>1, <2>2
  <2> QED BY <2>3 DEF NoStockInvented
<1>5. ASSUME "adminCancel" \notin Ops PROVE StockConserved'
  <2>1. stock' + Cardinality(Holders') = stock + Cardinality(Holders)
    BY <1>3, <1>5, ShelfCount
  <2>2. stock = InitialStock - Cardinality(Holders)
    BY <1>5 DEF StockConserved
  <2>3. stock' = InitialStock - Cardinality(Holders')
    BY <1>1, <1>2, <2>1, <2>2
  <2> QED BY <2>3 DEF StockConserved
<1> QED BY <1>4, <1>5

LEMMA StockInit == Init => StockInv
<1> SUFFICES ASSUME Init PROVE StockInv
  OBVIOUS
<1>1. StockHandlers
  BY DEF Init, StockHandlers, Cancelling, CancelLabels, IdleTask
<1>2. CodVisible /\ NothingHidden
  BY DEF Init, CodVisible, NothingHidden, NoRow
<1>3. Holders = {}
  BY DEF Init, Holders, NoRow, HoldsStock, OrderStatus
<1>4. StockConserved
  BY <1>3, FS_EmptySet, ShopAssumption DEF Init, StockConserved
<1>5. NoStockInvented
  BY <1>3, FS_EmptySet, ShopAssumption DEF Init, NoStockInvented
<1> QED BY <1>1, <1>2, <1>4, <1>5, RefundInit DEF StockInv

LEMMA StockNext ==
  ASSUME StockInv, [Next]_vars, StockAssumption
  PROVE  StockInv' /\ ShelfStep
<1>1. ShelfStep /\ TakenLasts
  BY LedgerNextStep, TakenStays
<1>2. RefundInv' /\ Lasting
  BY RefundNext, Lasts DEF StockInv, RefundInv, StockAssumption
<1>3. StockHandlers' /\ CodVisible' /\ NothingHidden'
  BY <1>1, <1>2, CancellingNext, CodNext, HiddenNext DEF StockInv
<1>4. NoStockInvented' /\ ("adminCancel" \notin Ops => StockConserved')
  BY <1>1, <1>2, CountNext DEF StockInv, RefundInv
<1> QED BY <1>1, <1>2, <1>3, <1>4 DEF StockInv

LEMMA StockInvariant == ASSUME StockAssumption PROVE Spec => []StockInv
<1>1. StockInv /\ [Next]_vars => StockInv'
  BY StockNext
<1> QED BY StockInit, <1>1, PTL DEF Spec

\* Goods are never put back on the shelf that did not leave it, for any number
\* of orders, attempts and handlers, whatever crashes or fails on the way and
\* whichever units an admin writes off.
THEOREM StockIsNeverInvented ==
  ASSUME StockAssumption PROVE Spec => []NoStockInvented
<1>1. StockInv => NoStockInvented
  BY DEF StockInv
<1> QED BY StockInvariant, <1>1, PTL

\* Without cancellations by an admin the shelf misses exactly one unit per order
\* that holds one.
THEOREM StockIsConserved ==
  ASSUME ~ShippingConfigured, "adminCancel" \notin Ops
  PROVE  Spec => []StockConserved
<1>1. StockInv => StockConserved
  BY DEF StockInv
<1>2. StockAssumption
  BY DEF StockAssumption
<1> QED BY StockInvariant, <1>1, <1>2, PTL

\* The shop implements the ledger: every order takes its unit at most once,
\* gives it back at most once and never takes it after it was cancelled.
THEOREM ShopImplementsLedger ==
  ASSUME ~ShippingConfigured, "adminCancel" \notin Ops
  PROVE  Spec => ImplementsLedger
<1>1. Init => Ledger!LedgerInit
  BY DEF Init, NoRow, FateOf, Ledger!LedgerInit
<1>2. StockAssumption
  BY DEF StockAssumption
<1>3. StockInv /\ [Next]_vars =>
        [Ledger!LedgerNext]_<<stock, [o \in Orders |-> FateOf(o)]>>
  BY <1>2, StockNext DEF ShelfStep, WriteOff, LedgerStepOrStutter, Shelf
<1> QED BY StockInvariant, <1>1, <1>2, <1>3, PTL
        DEF Spec, ImplementsLedger, Ledger!LedgerSpec
-----------------------------------------------------------------------------
(* An order that carries an AWB is not cancelled by its customer, by the    *)
(* cleanup job or by a late save of the shipment's own handler.  The        *)
(* cancellations ask for the AWB; the save writes the status it read before *)
(* the courier was called, so what matters is that one handler books an     *)
(* order: whoever is booking is alone, because the order it books was       *)
(* placed for COD or is paid, and is claimed for payment no second time.    *)

\* COD orders cannot be paid online: else the payment books them a second time
\* (README.md, "Divergences").
BookingAssumption == "placeCod" \notin Ops \/ {"createPayment", "retry"} \cap Ops = {}

\* A refund may have begun: the order was cancelled, and maybe booked since.
Undone(o) == orders[o].status = "CANCELLED" \/ orders[o].awb

\* No payment will be claimed for the order.
Settled(o) ==
  orders[o].cod \/ orders[o].pay = "COMPLETED" \/ orders[o].status = "CANCELLED"

RowInOrder(row) ==
  /\ row.status \in {"NONE", "PENDING"} => ~row.awb /\ ~row.cod
  /\ row.cod => "placeCod" \in Ops

RowsInOrder == \A o \in Orders : RowInOrder(orders[o])

\* Money moves for online orders, and back for cancelled ones.
Attempts ==
  /\ \A p \in Payments : payments[p].order \in Orders =>
       /\ Exists(payments[p].order)
       /\ payments[p].online => ~orders[payments[p].order].cod
       /\ RefundsOf(p) # {} => Undone(payments[p].order)
  /\ \A e \in sent : e.kind \in CaptureKinds =>
       payments[e.payment].order \in Orders /\ payments[e.payment].online

\* What a handler that holds `t` may rely on.
Fit(t) ==
  /\ t.pc # "idle" => Exists(t.order)
  /\ t.pc \in {"prepare_payment", "insert_online", "capture", "promote"} =>
       ~orders[t.order].cod
  /\ t.pc \in RefundingLabels \cup {"refund_processed"} => Undone(t.order)
  /\ t.pc \in {"refund_call", "refund_save"} =>
       t.payment \in Payments /\ payments[t.payment].order = t.order
  /\ t.pc = "refund_processed" => t.view.status = "CANCELLED" \/ orders[t.order].awb
  /\ t.pc \in ShipLabels => orders[t.order].status # "PENDING"
  /\ t.pc \in ShipLabels \ {"ship_once"} => ~orders[t.order].awb
  /\ t.pc \in {"ship_lock", "ship_save"} => t.view.status \notin {"NONE", "PENDING"}

Fits == \A w \in Workers : Fit(task[w])

Shipping(w, o) == task[w].order = o /\ task[w].pc \in ShipLabels

\* The handler that books an order is the only one that may.
OneShipper ==
  \A o \in Orders, v \in Workers :
    Shipping(v, o) /\ ~orders[o].awb =>
      Settled(o) /\ \A u \in Workers : Shipping(u, o) => u = v

BookingInv == TypeInv /\ GatewayBooks /\ RowsInOrder /\ Attempts /\ Fits /\ OneShipper
-----------------------------------------------------------------------------
(* How the rows move. *)

Books(w, o) == task[w].order = o /\ ShipSave(w)

\* What every step keeps of an order.
RowKept(o) ==
  /\ RowInOrder(orders'[o])
  /\ Exists(o) => orders'[o].status # "NONE" /\ (orders'[o].cod <=> orders[o].cod)
  /\ Exists(o) /\ orders[o].status # "PENDING" => orders'[o].status # "PENDING"
  /\ orders[o].awb => orders'[o].awb
  /\ orders'[o].awb => orders[o].awb \/ \E w \in Workers : Books(w, o)
  /\ Undone(o) => orders'[o].status = "CANCELLED" \/ orders'[o].awb
  /\ Settled(o) /\ ~orders'[o].awb =>
       \/ orders'[o].cod \/ orders'[o].pay = "COMPLETED"
       \/ orders'[o].status = "CANCELLED"

RowsKept == \A o \in Orders : RowKept(o)

LEMMA SameRowKept == ASSUME RowsInOrder, NEW o \in Orders, orders'[o] = orders[o] PROVE RowKept(o)
BY DEF RowsInOrder, RowKept, Exists, Undone, Settled

LEMMA OneRowKept ==
  ASSUME RowsInOrder, NEW x \in Orders,
         \A o \in Orders : o # x => orders'[o] = orders[o], RowKept(x)
  PROVE  RowsKept
BY SameRowKept DEF RowsKept

LEMMA RowsKeptRequest ==
  ASSUME BookingInv, NEW w \in Workers, Request(w) PROVE RowsKept
<1> USE DEF BookingInv
<1>1. ASSUME NEW o \in Orders, PlaceOnlineOrder(w, o) \/ PlaceCodOrder(w, o)
      PROVE  RowsKept
  <2>1. \A q \in Orders : q # o => orders'[q] = orders[q]
    BY <1>1 DEF PlaceOnlineOrder, PlaceCodOrder, TypeInv, TypeOK
  <2>2. RowInOrder(orders[o]) /\ orders[o].status = "NONE"
    BY <1>1 DEF PlaceOnlineOrder, PlaceCodOrder, Exists, RowsInOrder
  <2>3. RowKept(o)
    <3>1. CASE PlaceOnlineOrder(w, o)
      BY <2>2, <3>1 DEF PlaceOnlineOrder, Exists, TypeInv, TypeOK, OrderRow, RowKept,
           RowInOrder, Undone, Settled
    <3>2. CASE PlaceCodOrder(w, o)
      BY <2>2, <3>2 DEF PlaceCodOrder, Exists, TypeInv, TypeOK, OrderRow, RowKept,
           RowInOrder, Undone, Settled
    <3> QED BY <1>1, <3>1, <3>2
  <2> QED BY <2>1, <2>3, OneRowKept
<1>2. CASE UNCHANGED orders
  BY <1>2, SameRowKept DEF RowsKept
<1>3. \/ \E o \in Orders : PlaceOnlineOrder(w, o) \/ PlaceCodOrder(w, o)
      \/ UNCHANGED orders
  BY DEF Request, ReplayPlaceOrder, CreatePaymentOrder, RetryPayment, CancelOrder,
         AdminCancelOrder, VerifyPayment, rows
<1> QED BY <1>1, <1>2, <1>3

\* The row a busy handler writes, by what it writes there.
LEMMA RowsKeptContinue ==
  ASSUME BookingInv, NEW w \in Workers, Continue(w) PROVE RowsKept
<1> USE DEF BookingInv
<1>0. Fit(task[w]) /\ task[w].pc # "idle"
  BY ContinueBusy DEF Fits
<1>1. PICK o \in Orders : o = task[w].order
  BY <1>0 DEF TypeInv, Busy
<1>2. RowInOrder(orders[o]) /\ Exists(o)
  BY <1>0, <1>1 DEF RowsInOrder, Fit
<1>3. CASE PromotePending(w) \/ PromoteVisible(w) \/ ClaimLateCapture(w)
  <2>1. \A q \in Orders : q # o => orders'[q] = orders[q]
    BY <1>1, <1>3 DEF PromotePending, PromoteVisible, ClaimLateCapture, TypeInv, TypeOK
  <2>2. RowKept(o)
    <3>1. CASE PromotePending(w)
      BY <1>1, <1>2, <3>1 DEF PromotePending, ClaimablePending, TypeInv, TypeOK, OrderRow,
           RowKept, RowInOrder, Exists, Undone, Settled
    <3>2. CASE PromoteVisible(w)
      BY <1>1, <1>2, <3>2 DEF PromoteVisible, ClaimableVisible, TypeInv, TypeOK, OrderRow,
           RowKept, RowInOrder, Exists, Undone, Settled
    <3>3. CASE ClaimLateCapture(w)
      BY <1>1, <1>2, <3>3 DEF ClaimLateCapture, LateCapture, TypeInv, TypeOK, OrderRow,
           RowKept, RowInOrder, Exists, Undone, Settled
    <3> QED BY <1>3, <3>1, <3>2, <3>3
  <2> QED BY <2>1, <2>2, OneRowKept
<1>4. CASE MarkPaymentFailed(w)
  <2>1. \A q \in Orders : q # o => orders'[q] = orders[q]
    BY <1>1, <1>4 DEF MarkPaymentFailed, TypeInv, TypeOK
  <2>2. /\ orders'[o].status = orders[o].status /\ orders'[o].cod = orders[o].cod
        /\ orders'[o].awb = orders[o].awb
        /\ orders[o].pay = "COMPLETED" => orders'[o].pay = "COMPLETED"
    BY <1>1, <1>4 DEF MarkPaymentFailed, TypeInv, TypeOK, OrderRow
  <2>3. RowKept(o)
    BY <1>2, <2>2 DEF RowKept, RowInOrder, Exists, Undone, Settled
  <2> QED BY <2>1, <2>3, OneRowKept
<1>5. CASE RefundPersist(w) \/ MarkRefundFailed(w)
  <2>1. \A q \in Orders : q # o => orders'[q] = orders[q]
    BY <1>1, <1>5 DEF RefundPersist, MarkRefundFailed, TypeInv, TypeOK
  <2>2. /\ orders'[o].status = orders[o].status /\ orders'[o].cod = orders[o].cod
        /\ orders'[o].awb = orders[o].awb
    BY <1>1, <1>5 DEF RefundPersist, MarkRefundFailed, TypeInv, TypeOK, OrderRow
  <2>3. Undone(o)
    BY <1>0, <1>1, <1>5 DEF RefundPersist, MarkRefundFailed, At, Fit, RefundingLabels
  <2>4. RowKept(o)
    BY <1>2, <2>2, <2>3 DEF RowKept, RowInOrder, Exists, Undone, Settled
  <2> QED BY <2>1, <2>4, OneRowKept
<1>6. CASE MarkRefunded(w)
  <2>1. CASE UNCHANGED orders
    BY <2>1, SameRowKept DEF RowsKept
  <2>2. CASE ~UNCHANGED orders
    <3> DEFINE s == StatusAfterRefund(task[w].view.status, orders[o].status)
    <3>1. orders' = [orders EXCEPT ![o].status = s, ![o].pay = "REFUNDED"]
      BY <1>1, <1>6, <2>2 DEF MarkRefunded
    <3>2. \/ s = orders[o].status
          \/ s = "RETURNED" /\ task[w].view.status # "CANCELLED"
      BY DEF StatusAfterRefund
    <3> HIDE DEF s
    <3>3. \A q \in Orders : q # o => orders'[q] = orders[q]
      BY <3>1 DEF TypeInv, TypeOK
    <3>4. /\ orders'[o].status = s /\ orders'[o].cod = orders[o].cod
          /\ orders'[o].awb = orders[o].awb
      BY <3>1 DEF TypeInv, TypeOK, OrderRow
    <3>5. Undone(o) /\ (task[w].view.status = "CANCELLED" \/ orders[o].awb)
      BY <1>0, <1>1, <1>6 DEF MarkRefunded, At, Fit
    <3>6. RowKept(o)
      BY <1>2, <3>2, <3>4, <3>5 DEF RowKept, RowInOrder, Exists, Undone, Settled
    <3> QED BY <3>3, <3>6, OneRowKept
  <2> QED BY <2>1, <2>2
<1>7. CASE CancelCommit(w) \/ \E restockItems \in BOOLEAN : AdminCancelCommit(w, restockItems)
  <2>1. orders' = [orders EXCEPT ![o].status = "CANCELLED"]
    BY <1>1, <1>7 DEF CancelCommit, AdminCancelCommit
  <2>2. \A q \in Orders : q # o => orders'[q] = orders[q]
    BY <2>1 DEF TypeInv, TypeOK
  <2>3. RowKept(o)
    BY <1>2, <2>1 DEF TypeInv, TypeOK, OrderRow, RowKept, RowInOrder, Exists, Undone, Settled
  <2> QED BY <2>2, <2>3, OneRowKept
<1>8. CASE ShipSave(w)
  <2> DEFINE s == PackedFrom(task[w].view.status)
  <2>1. orders' = [orders EXCEPT ![o].awb = TRUE, ![o].status = s]
    BY <1>1, <1>8 DEF ShipSave
  <2>2. s \notin {"NONE", "PENDING"}
    BY <1>0, <1>8 DEF ShipSave, At, Fit, PackedFrom
  <2> HIDE DEF s
  <2>3. \A q \in Orders : q # o => orders'[q] = orders[q]
    BY <2>1 DEF TypeInv, TypeOK
  <2>4. orders'[o].status = s /\ orders'[o].cod = orders[o].cod /\ orders'[o].awb
    BY <2>1 DEF TypeInv, TypeOK, OrderRow
  <2>5. Books(w, o)
    BY <1>1, <1>8 DEF Books
  <2>6. RowKept(o)
    BY <1>2, <2>2, <2>4, <2>5 DEF RowKept, RowInOrder, Exists, Undone, Settled
  <2> QED BY <2>3, <2>6, OneRowKept
<1>9. CASE UNCHANGED orders
  BY <1>9, SameRowKept DEF RowsKept
<1> QED BY <1>3, <1>4, <1>5, <1>6, <1>7, <1>8, <1>9 DEF Continue, PrepareOnlinePayment,
         InsertPayment, GatewayOrderFails, RejectSignature, MarkPaymentCompleted,
         PromoteNothing, SkipLateCapture, RefundReadOrder, RefundGuard, RefundCodManually,
         RefundWithoutCapture, RefundPickPayment, RefundAccepted, RefundRejected,
         RefundPersistFails, CancelConflict, AdminCancelConflict, AdminRefundGuard,
         ShipOnce, ShipRead, ShipLock, ShipFails, rows

LEMMA RowsKeptNext == ASSUME BookingInv, [Next]_vars PROVE RowsKept
<1> USE DEF BookingInv
<1>1. ASSUME NEW w \in Workers, NEW e \in Event, Deliver(w, e) PROVE UNCHANGED orders
  BY <1>1 DEF Deliver, ReceiveCaptured, ReceiveFailed, ReceiveRefundDone,
       ReceiveRefundFailed, rows
<1>2. ASSUME NEW o \in Orders, CancelAbandonedOrder(o) PROVE RowsKept
  <2>1. \A q \in Orders : q # o => orders'[q] = orders[q]
    BY <1>2 DEF CancelAbandonedOrder, TypeInv, TypeOK
  <2>2. RowInOrder(orders[o])
    BY DEF RowsInOrder
  <2>3. RowKept(o)
    BY <1>2, <2>2 DEF CancelAbandonedOrder, TypeInv, TypeOK, OrderRow, RowKept, RowInOrder,
         Exists, Undone, Settled
  <2> QED BY <2>1, <2>3, OneRowKept
<1>3. ASSUME NEW o \in Orders, NEW p \in Payments, ConfirmCod(o, p) PROVE RowsKept
  <2>1. \A q \in Orders : q # o => orders'[q] = orders[q]
    BY <1>3 DEF ConfirmCod, TypeInv, TypeOK
  <2>2. RowInOrder(orders[o])
    BY DEF RowsInOrder
  <2>3. RowKept(o)
    BY <1>3, <2>2 DEF ConfirmCod, TypeInv, TypeOK, OrderRow, RowKept, RowInOrder,
         Exists, Undone, Settled
  <2> QED BY <2>1, <2>3, OneRowKept
<1>4. ASSUME Environment
      PROVE  \/ UNCHANGED orders \/ \E o \in Orders : CancelAbandonedOrder(o)
             \/ \E o \in Orders, p \in Payments : ConfirmCod(o, p)
  BY <1>4 DEF Environment, GatewayAuthorize, GatewayCapture, GatewayDecline,
       GatewayRefundEnds, WindowExpires, DatabaseError, Crash, rows
<1>5. ASSUME UNCHANGED vars PROVE UNCHANGED orders
  BY <1>5 DEF vars
<1>6. CASE UNCHANGED orders
  BY <1>6, SameRowKept DEF RowsKept
<1> QED BY <1>1, <1>2, <1>3, <1>4, <1>5, <1>6, RowsKeptRequest, RowsKeptContinue DEF Next

-----------------------------------------------------------------------------
(* The attempts. *)

\* An attempt's order and method are written when it is inserted.
AttemptKept(p) ==
  \/ payments'[p].order = payments[p].order /\ (payments'[p].online <=> payments[p].online)
  \/ /\ payments[p].order = NoOrder /\ payments'[p].order \in Orders
     /\ Exists(payments'[p].order)
     /\ payments'[p].online => ~orders[payments'[p].order].cod

LEMMA AttemptsKept ==
  ASSUME BookingInv, [Next]_vars PROVE \A p \in Payments : AttemptKept(p)
<1> USE DEF BookingInv
<1> DEFINE Good == \A p \in Payments : AttemptKept(p)
<1>1. ASSUME NEW x, NEW m, payments' = [payments EXCEPT ![x].status = m] PROVE Good
  BY <1>1 DEF AttemptKept, TypeInv, TypeOK, PaymentRow
<1>2. ASSUME NEW x \in UnusedPayments, NEW o \in Orders, Exists(o), NEW online,
             online => ~orders[o].cod,
             payments' = [payments EXCEPT ![x] = NewAttempt(o, online)]
      PROVE  Good
  BY <1>2 DEF AttemptKept, NewAttempt, UnusedPayments, TypeInv, TypeOK
<1>3. ASSUME UNCHANGED payments PROVE Good
  BY <1>3 DEF AttemptKept
<1> HIDE DEF Good
<1>4. ASSUME NEW w \in Workers, Continue(w)
      PROVE  \/ UNCHANGED payments
             \/ \E p \in Payments : InsertPayment(w, p)
             \/ \E x, m : payments' = [payments EXCEPT ![x].status = m]
  BY <1>4 DEF Continue, PrepareOnlinePayment,
       GatewayOrderFails, RejectSignature, MarkPaymentCompleted, PromotePending,
       PromoteVisible, PromoteNothing, ClaimLateCapture, SkipLateCapture,
       MarkPaymentFailed, RefundReadOrder, RefundGuard, RefundCodManually,
       RefundWithoutCapture, RefundPickPayment, RefundAccepted, RefundRejected,
       RefundPersist, RefundPersistFails, MarkRefunded, MarkRefundFailed, CancelCommit,
       CancelConflict, AdminCancelCommit, AdminCancelConflict, AdminRefundGuard,
       ShipOnce, ShipRead, ShipLock, ShipSave, ShipFails, rows
<1>5. ASSUME NEW w \in Workers, NEW p \in Payments, InsertPayment(w, p) PROVE Good
  <2>1. PICK o \in Orders : o = task[w].order /\ Exists(o)
    BY <1>5 DEF InsertPayment, At, TypeInv, Busy, Fits, Fit
  <2>2. At(w, "insert_online") => ~orders[o].cod
    BY <2>1 DEF Fits, Fit, At
  <2> QED BY <1>2, <1>5, <2>1, <2>2 DEF InsertPayment
<1>6. ASSUME NEW o \in Orders, NEW p \in Payments, ConfirmCod(o, p) PROVE Good
  BY <1>2, <1>6 DEF ConfirmCod
<1>7. ASSUME NEW w \in Workers, Request(w) PROVE UNCHANGED payments
  BY <1>7 DEF Request, PlaceOnlineOrder, PlaceCodOrder, ReplayPlaceOrder,
       CreatePaymentOrder, RetryPayment, CancelOrder, AdminCancelOrder, VerifyPayment, rows
<1>8. ASSUME NEW w \in Workers, NEW e \in Event, Deliver(w, e) PROVE UNCHANGED payments
  BY <1>8 DEF Deliver, ReceiveCaptured, ReceiveFailed, ReceiveRefundDone,
       ReceiveRefundFailed, rows
<1>9. ASSUME Environment
      PROVE  UNCHANGED payments \/ \E o \in Orders, p \in Payments : ConfirmCod(o, p)
  BY <1>9 DEF Environment, GatewayAuthorize, GatewayCapture, GatewayDecline,
       GatewayRefundEnds, WindowExpires, CancelAbandonedOrder, DatabaseError, Crash, rows
<1>10. ASSUME UNCHANGED vars PROVE UNCHANGED payments
  BY <1>10 DEF vars
<1>11. Good
  BY <1>1, <1>3, <1>4, <1>5, <1>6, <1>7, <1>8, <1>9, <1>10 DEF Next
<1> QED BY <1>11 DEF Good

\* Only an accepted refund, at a handler that refunds a cancelled order, is new.
LEMMA NewRefunds ==
  ASSUME BookingInv, [Next]_vars, NEW p \in Payments, RefundsOf(p)' # {}
  PROVE  RefundsOf(p) # {} \/ (payments[p].order \in Orders /\ Undone(payments[p].order))
<1> USE DEF BookingInv
<1>1. CASE UNCHANGED gateway
  BY <1>1 DEF gateway, RefundsOf
<1>2. CASE \E q \in Payments : GatewayAuthorize(q) \/ GatewayCapture(q) \/ GatewayDecline(q)
  BY <1>2 DEF GatewayAuthorize, GatewayCapture, GatewayDecline, RefundsOf
<1>3. CASE \E q \in Payments, n \in RefundNumbers,
             outcome \in {"processed", "failed"} : GatewayRefundEnds(q, n, outcome)
  BY <1>3 DEF GatewayRefundEnds, RefundsOf, TypeInv, TypeOK
<1>4. ASSUME NEW w \in Workers, NEW n \in RefundNumbers, RefundAccepted(w, n)
      PROVE  RefundsOf(p) # {} \/ (payments[p].order \in Orders /\ Undone(payments[p].order))
  <2>1. CASE p = task[w].payment
    <3>1. task[w].pc = "refund_call" /\ Fit(task[w]) /\ task[w].order \in Orders
      BY <1>4 DEF RefundAccepted, At, Fits, TypeInv, Busy
    <3> QED BY <2>1, <3>1 DEF Fit, RefundingLabels
  <2>2. CASE p # task[w].payment
    BY <1>4, <2>2 DEF RefundAccepted, RefundsOf, TypeInv, TypeOK
  <2> QED BY <2>1, <2>2
<1> QED BY <1>1, <1>2, <1>3, <1>4, GatewaySteps

\* The gateway tells of authorizations and captures of online attempts only.
LEMMA NewCaptures ==
  ASSUME BookingInv, [Next]_vars, NEW e \in sent', e.kind \in CaptureKinds
  PROVE  \/ e \in sent
         \/ payments[e.payment].order \in Orders /\ payments[e.payment].online
<1> USE DEF BookingInv
<1>1. CASE UNCHANGED gateway
  BY <1>1 DEF gateway
<1>2. ASSUME NEW q \in Payments,
             GatewayAuthorize(q) \/ GatewayCapture(q) \/ GatewayDecline(q)
      PROVE  \/ e \in sent
             \/ payments[e.payment].order \in Orders /\ payments[e.payment].online
  <2>1. payments[q].order \in Orders /\ payments[q].online
    BY <1>2 DEF GatewayAuthorize, GatewayCapture, GatewayDecline, TypeInv, TypeOK, PaymentRow
  <2>2. \A x \in sent' \ sent : x.payment = q
    BY <1>2 DEF GatewayAuthorize, GatewayCapture, GatewayDecline, Announce, PaymentEvent
  <2> QED BY <2>1, <2>2
<1>3. CASE \E q \in Payments, n \in RefundNumbers,
             outcome \in {"processed", "failed"} : GatewayRefundEnds(q, n, outcome)
  BY <1>3 DEF GatewayRefundEnds, Announce, CaptureKinds
<1>4. CASE \E w \in Workers, n \in RefundNumbers : RefundAccepted(w, n)
  BY <1>4 DEF RefundAccepted, Announce, CaptureKinds
<1> QED BY <1>1, <1>2, <1>3, <1>4, GatewaySteps

LEMMA AttemptsNext == ASSUME BookingInv, RowsKept, [Next]_vars PROVE Attempts'
<1> USE DEF BookingInv
<1>1. ASSUME NEW p \in Payments, payments'[p].order \in Orders
      PROVE  /\ orders'[payments'[p].order].status # "NONE"
             /\ payments'[p].online => ~orders'[payments'[p].order].cod
             /\ RefundsOf(p)' # {} =>
                  \/ orders'[payments'[p].order].status = "CANCELLED"
                  \/ orders'[payments'[p].order].awb
  <2>1. PICK o \in Orders : o = payments'[p].order
    BY <1>1
  <2>2. RowKept(o)
    BY DEF RowsKept
  <2>3. CASE payments[p].order = o /\ (payments'[p].online <=> payments[p].online)
    <3>1. /\ Exists(o)
          /\ payments[p].online => ~orders[o].cod
          /\ RefundsOf(p) # {} => Undone(o)
      BY <2>3 DEF Attempts
    <3>2. RefundsOf(p)' # {} => Undone(o)
      BY <2>3, <3>1, NewRefunds
    <3>3. orders'[o].status # "NONE" /\ (payments'[p].online => ~orders'[o].cod)
      BY <2>2, <2>3, <3>1 DEF RowKept
    <3>4. RefundsOf(p)' # {} => orders'[o].status = "CANCELLED" \/ orders'[o].awb
      BY <2>2, <3>2 DEF RowKept
    <3> QED BY <2>1, <3>3, <3>4
  <2>4. CASE payments[p].order = NoOrder /\ Exists(o) /\ (payments'[p].online => ~orders[o].cod)
    <3>1. NoOrder \notin Orders
      BY ShopAssumption
    <3>2. RefundsOf(p)' = {}
      BY <2>4, <3>1, NewRefunds DEF GatewayBooks
    <3> QED BY <2>1, <2>2, <2>4, <3>2 DEF RowKept
  <2> QED BY <2>1, <2>3, <2>4, AttemptsKept DEF AttemptKept
<1>2. ASSUME NEW e \in sent', e.kind \in CaptureKinds
      PROVE  payments'[e.payment].order \in Orders /\ payments'[e.payment].online
  <2>1. payments[e.payment].order \in Orders /\ payments[e.payment].online
    BY <1>2, NewCaptures DEF Attempts
  <2>2. e.payment \in Payments
    BY <1>2, TypeNext DEF TypeInv, TypeOK, Event
  <2>3. NoOrder \notin Orders
    BY ShopAssumption
  <2> QED BY <2>1, <2>2, <2>3, AttemptsKept DEF AttemptKept
<1> QED BY <1>1, <1>2 DEF Attempts, Exists, Undone

-----------------------------------------------------------------------------
(* The handlers. *)

OthersWait(w) == \A v \in Workers \ {w} : task'[v] = task[v]

\* What a handler relies on lasts, but for another handler's booking.
LEMMA FitStays ==
  ASSUME BookingInv, RowsKept, Lasting, NEW t, t.pc # "idle" => t.order \in Orders, Fit(t),
         t.pc \in ShipLabels \ {"ship_once"} => ~orders'[t.order].awb
  PROVE  Fit(t)'
<1>1. CASE t.pc = "idle"
  BY <1>1 DEF Fit, ShipLabels, RefundingLabels
<1>2. ASSUME t.pc # "idle", NEW o \in Orders, o = t.order PROVE Fit(t)'
  <2>1. RowKept(o) /\ Exists(o)
    BY <1>2 DEF RowsKept, Fit
  <2>2. orders'[o].status # "NONE" /\ (orders'[o].cod <=> orders[o].cod)
    BY <2>1 DEF RowKept
  <2>3. /\ Undone(o) => orders'[o].status = "CANCELLED" \/ orders'[o].awb
        /\ orders[o].awb => orders'[o].awb
        /\ orders[o].status # "PENDING" => orders'[o].status # "PENDING"
    BY <2>1 DEF RowKept
  <2>4. t.pc \in {"refund_call", "refund_save"} =>
          t.payment \in Payments /\ payments'[t.payment].order = t.order
    BY <1>2 DEF Fit, Lasting
  <2> QED BY <1>2, <2>2, <2>3, <2>4 DEF Fit, Exists, Undone
<1> QED BY <1>1, <1>2

\* While a handler waits on an order that carries no AWB, no other books it.
LEMMA BookedByOne ==
  ASSUME BookingInv, RowsKept, NEW v \in Workers, task'[v] = task[v],
         task[v].pc \in ShipLabels \ {"ship_once"}
  PROVE  ~orders'[task[v].order].awb
<1> USE DEF BookingInv
<1>1. PICK o \in Orders : o = task[v].order
  BY DEF TypeInv, Busy, ShipLabels
<1>2. ~orders[o].awb /\ Shipping(v, o)
  BY <1>1 DEF Fits, Fit, Shipping
<1>3. ASSUME NEW w \in Workers, Books(w, o) PROVE FALSE
  <2>1. Shipping(w, o)
    BY <1>3 DEF Books, ShipSave, At, Shipping, ShipLabels
  <2>2. w = v
    BY <1>2, <2>1 DEF OneShipper
  <2>3. task'[w].pc = "idle"
    BY <1>3 DEF Books, ShipSave, Finish, TypeInv, TypeOK, IdleTask
  <2> QED BY <2>2, <2>3 DEF ShipLabels
<1> QED BY <1>1, <1>2, <1>3 DEF RowsKept, RowKept

LEMMA OtherFit ==
  ASSUME BookingInv, RowsKept, Lasting, NEW v \in Workers, task'[v] = task[v]
  PROVE  Fit(task[v])'
<1>1. ASSUME NEW t, t = task[v] PROVE Fit(t)'
  <2>1. Fit(t) /\ (t.pc # "idle" => t.order \in Orders)
    BY <1>1 DEF BookingInv, Fits, TypeInv, Busy
  <2>2. t.pc \in ShipLabels \ {"ship_once"} => ~orders'[t.order].awb
    BY <1>1, BookedByOne
  <2> QED BY <2>1, <2>2, FitStays
<1>2. ASSUME NEW t, t = task'[v], Fit(t)' PROVE Fit(task[v])'
  BY <1>2 DEF Fit, Exists, Undone
<1> QED BY <1>1, <1>2

LEMMA OneFit ==
  ASSUME BookingInv, RowsKept, Lasting, NEW w \in Workers, OthersWait(w), Fit(task[w])'
  PROVE  Fits'
BY OtherFit DEF Fits, OthersWait

\* The handler that moves: to idle, or to where it may rely on what it found.
LEMMA MovedFit ==
  ASSUME BookingInv, RowsKept, Lasting, NEW w \in Workers,
         \/ task'[w] = IdleTask
         \/ /\ task'[w].order \in Orders /\ Fit(task'[w])
            /\ task'[w].pc \in ShipLabels \ {"ship_once"} => ~orders'[task'[w].order].awb
  PROVE  Fit(task[w])'
<1>1. CASE task'[w] = IdleTask
  BY <1>1 DEF Fit, IdleTask, ShipLabels, RefundingLabels
<1>2. ASSUME NEW t, t = task'[w], t.order \in Orders, Fit(t),
             t.pc \in ShipLabels \ {"ship_once"} => ~orders'[t.order].awb
      PROVE  Fit(task[w])'
  <2>1. Fit(t)'
    BY <1>2, FitStays
  <2> QED BY <1>2, <2>1 DEF Fit, Exists, Undone
<1> QED BY <1>1, <1>2

\* The handler was booking the order before, or nobody is: the order is placed
\* for COD or was claimed for its payment in this step.
Admitted(w) ==
  \A o \in Orders :
    task'[w].order = o /\ task'[w].pc \in ShipLabels =>
      \/ Shipping(w, o)
      \/ orders[o].awb
      \/ /\ \A u \in Workers : ~Shipping(u, o)
         /\ orders'[o].cod \/ orders'[o].pay = "COMPLETED"

Moves(w) == OthersWait(w) /\ Fit(task[w])' /\ Admitted(w)

\* A new handler relies on what it has just read.
LEMMA MovesRequest ==
  ASSUME BookingInv, BookingAssumption, RowsKept, Lasting, NEW w \in Workers, Request(w)
  PROVE  Moves(w)
<1> USE DEF BookingInv
<1>1. ASSUME UNCHANGED task, At(w, "idle") PROVE Moves(w)
  BY <1>1, OtherFit DEF Moves, OthersWait, Admitted, At, ShipLabels
<1>2. ASSUME NEW label, NEW o \in Orders, NEW p, NEW view, Begin(w, label, o, p, view)
      PROVE  /\ OthersWait(w)
             /\ task'[w].pc = label /\ task'[w].order = o /\ task'[w].payment = p
             /\ task'[w].view = view
  BY <1>2 DEF Begin, OthersWait, TypeInv, TypeOK
<1>3. ASSUME NEW label \in {"prepare_payment", "insert_online", "insert_cod", "cancel",
                            "admin_cancel", "capture", "reject"},
             NEW o \in Orders, NEW p, NEW view, Begin(w, label, o, p, view), Exists(o),
             label \in {"prepare_payment", "insert_online", "capture"} => ~orders[o].cod
      PROVE  Moves(w)
  <2>1. ASSUME NEW t, t = task'[w] PROVE Fit(t) /\ t.order = o /\ t.pc = label
    BY <1>2, <1>3, <2>1 DEF Fit, ShipLabels, RefundingLabels
  <2>2. Fit(task[w])'
    BY <2>1, MovedFit DEF ShipLabels
  <2> QED BY <1>2, <1>3, <2>1, <2>2 DEF Moves, Admitted, ShipLabels
<1>4. ASSUME NEW o \in Orders, PlaceOnlineOrder(w, o) PROVE Moves(w)
  <2>1. OthersWait(w) /\ task'[w].pc = "prepare_payment" /\ task'[w].order = o
    BY <1>2, <1>4 DEF PlaceOnlineOrder
  <2>2. orders'[o].status = "PENDING" /\ ~orders'[o].cod
    BY <1>4 DEF PlaceOnlineOrder, Exists, TypeInv, TypeOK, OrderRow, RowsInOrder, RowInOrder
  <2>3. Fit(task[w])'
    BY <2>1, <2>2 DEF Fit, Exists, Undone, ShipLabels, RefundingLabels
  <2> QED BY <2>1, <2>3 DEF Moves, Admitted, ShipLabels
<1>5. ASSUME NEW o \in Orders, PlaceCodOrder(w, o) PROVE Moves(w)
  <2>1. CASE UNCHANGED task /\ At(w, "idle")
    BY <1>1, <2>1
  <2>2. CASE Begin(w, "ship_read", o, NoPayment, NoRow)
    <3>1. OthersWait(w) /\ task'[w].pc = "ship_read" /\ task'[w].order = o
      BY <1>2, <2>2
    <3>2. orders'[o].status = "PLACED" /\ orders'[o].cod /\ ~orders'[o].awb
      BY <1>5 DEF PlaceCodOrder, Exists, TypeInv, TypeOK, OrderRow, RowsInOrder, RowInOrder
    <3>3. \A u \in Workers : ~Shipping(u, o)
      BY <1>5 DEF PlaceCodOrder, Shipping, ShipLabels, Fits, Fit
    <3>4. Fit(task[w])'
      BY <3>1, <3>2 DEF Fit, Exists, Undone, ShipLabels, RefundingLabels
    <3> QED BY <3>1, <3>2, <3>3, <3>4 DEF Moves, Admitted
  <2> QED BY <1>5, <2>1, <2>2 DEF PlaceCodOrder
<1>6. ASSUME NEW o \in Orders, ReplayPlaceOrder(w, o) PROVE Moves(w)
  <2>1. Exists(o) /\ ~orders[o].cod
    BY <1>6 DEF ReplayPlaceOrder, Exists, RowsInOrder, RowInOrder
  <2> QED BY <1>3, <1>6, <2>1 DEF ReplayPlaceOrder
<1>7. ASSUME NEW o \in Orders, NEW online \in BOOLEAN,
             CreatePaymentOrder(w, o, online) \/ RetryPayment(w, o, online)
      PROVE  Moves(w)
  <2>1. Exists(o) /\ ~orders[o].cod
    BY <1>7 DEF CreatePaymentOrder, RetryPayment, Payable, BookingAssumption, RowsInOrder,
         RowInOrder
  <2>2. \E label \in {"insert_online", "insert_cod"} : Begin(w, label, o, NoPayment, NoRow)
    BY <1>7 DEF CreatePaymentOrder, RetryPayment
  <2> QED BY <1>3, <2>1, <2>2
<1>8. ASSUME NEW o \in Orders, CancelOrder(w, o) \/ AdminCancelOrder(w, o) PROVE Moves(w)
  BY <1>3, <1>8 DEF CancelOrder, AdminCancelOrder
<1>9. ASSUME NEW p \in Payments, NEW valid \in BOOLEAN, VerifyPayment(w, p, valid)
      PROVE  Moves(w)
  <2>1. PICK o \in Orders : o = payments[p].order
    BY <1>9 DEF VerifyPayment, TypeInv, TypeOK, PaymentRow
  <2>2. Exists(o) /\ ~orders[o].cod
    BY <1>9, <2>1 DEF VerifyPayment, Attempts
  <2>3. \E label \in {"capture", "reject"} : Begin(w, label, o, p, NoRow)
    BY <1>9, <2>1 DEF VerifyPayment
  <2> QED BY <1>3, <2>2, <2>3
<1> QED BY <1>4, <1>5, <1>6, <1>7, <1>8, <1>9 DEF Request

LEMMA MovesDeliver ==
  ASSUME BookingInv, RowsKept, Lasting, NEW w \in Workers, NEW e \in Event, Deliver(w, e)
  PROVE  Moves(w)
<1> USE DEF BookingInv
<1>1. PICK p \in Payments, o \in Orders : p = e.payment /\ o = payments[p].order
  BY DEF Deliver, ReceiveCaptured, ReceiveFailed, ReceiveRefundDone,
       ReceiveRefundFailed, LogEvent, Event, TypeInv, TypeOK, PaymentRow
<1>2. Exists(o)
  BY <1>1 DEF Attempts
<1>3. ASSUME UNCHANGED task, At(w, "idle") PROVE Moves(w)
  BY <1>3, OtherFit DEF Moves, OthersWait, Admitted, At, ShipLabels
<1>4. ASSUME NEW t, t.order = o, t.pc \notin ShipLabels, Fit(t),
             task' = [task EXCEPT ![w] = t]
      PROVE  Moves(w)
  <2>1. OthersWait(w) /\ task'[w] = t
    BY <1>4 DEF OthersWait, TypeInv, TypeOK
  <2>2. Fit(task[w])'
    BY <1>4, <2>1, MovedFit
  <2> QED BY <1>4, <2>1, <2>2 DEF Moves, Admitted
<1>5. ASSUME NEW label \in {"capture", "payment_failed"}, Begin(w, label, o, p, NoRow),
             label = "capture" => ~orders[o].cod
      PROVE  Moves(w)
  <2> DEFINE t == [pc |-> label, order |-> o, payment |-> p, refund |-> 0, view |-> NoRow]
  <2>1. task' = [task EXCEPT ![w] = t]
    BY <1>5 DEF Begin
  <2>2. t.pc = label /\ t.order = o
    OBVIOUS
  <2> HIDE DEF t
  <2>3. Fit(t)
    BY <1>2, <1>5, <2>2 DEF Fit, ShipLabels, RefundingLabels
  <2> QED BY <1>4, <1>5, <2>1, <2>2, <2>3 DEF ShipLabels
<1>6. ASSUME NEW label \in {"refund_processed", "refund_failed"},
             BeginRefundEvent(w, label, e), e \in sent, e.kind \in RefundKinds
      PROVE  Moves(w)
  <2> DEFINE t == [pc |-> label, order |-> payments[e.payment].order,
                   payment |-> e.payment, refund |-> e.refund,
                   view |-> orders[payments[e.payment].order]]
  <2>1. task' = [task EXCEPT ![w] = t]
    BY <1>6 DEF BeginRefundEvent
  <2>2. t.pc = label /\ t.order = o /\ t.view = orders[o]
    BY <1>1
  <2> HIDE DEF t
  <2>3. Undone(o)
    BY <1>1, <1>6 DEF GatewayBooks, Attempts
  <2>4. Fit(t)
    BY <1>2, <1>6, <2>2, <2>3 DEF Fit, Undone, ShipLabels, RefundingLabels
  <2> QED BY <1>4, <1>6, <2>1, <2>2, <2>4 DEF ShipLabels
<1>7. CASE ReceiveCaptured(w, e)
  <2>1. ~orders[o].cod
    BY <1>1, <1>7 DEF ReceiveCaptured, LogEvent, Attempts
  <2> QED BY <1>1, <1>3, <1>5, <1>7, <2>1 DEF ReceiveCaptured
<1>8. CASE ReceiveFailed(w, e)
  BY <1>1, <1>3, <1>5, <1>8 DEF ReceiveFailed
<1>9. CASE ReceiveRefundDone(w, e) \/ ReceiveRefundFailed(w, e)
  BY <1>3, <1>6, <1>9 DEF ReceiveRefundDone, ReceiveRefundFailed, RefundKinds
<1> QED BY <1>7, <1>8, <1>9 DEF Deliver

LEMMA MovesContinue ==
  ASSUME BookingInv, RowsKept, Lasting, NEW w \in Workers, Continue(w) \/ DatabaseError(w)
  PROVE  Moves(w)
<1> USE DEF BookingInv
<1>1. PICK o \in Orders : o = task[w].order
  BY ContinueBusy DEF TypeInv, Busy, DatabaseError
<1>2. Fit(task[w]) /\ task[w].pc # "idle" /\ Exists(o)
  BY <1>1, ContinueBusy DEF Fits, Fit, DatabaseError
<1>3. ASSUME Finish(w) PROVE Moves(w)
  <2>1. OthersWait(w) /\ task'[w] = IdleTask
    BY <1>3 DEF Finish, OthersWait, TypeInv, TypeOK
  <2>2. Fit(task[w])'
    BY <2>1, MovedFit
  <2> QED BY <2>1, <2>2 DEF Moves, Admitted, IdleTask, ShipLabels
<1>4. ASSUME NEW label, Goto(w, label)
      PROVE  /\ OthersWait(w) /\ task'[w].pc = label /\ task'[w].order = o
             /\ task'[w].payment = task[w].payment /\ task'[w].view = task[w].view
  BY <1>1, <1>4 DEF Goto, OthersWait, TypeInv, TypeOK, Task
<1>5. ASSUME NEW label \in {"insert_online", "promote", "late_refund", "refund_order",
                            "refund_guard", "refund_payment"}, Goto(w, label),
             label \in {"insert_online", "promote"} => ~orders[o].cod,
             label \in RefundingLabels => Undone(o)
      PROVE  Moves(w)
  <2>1. ASSUME NEW t, t = task'[w] PROVE Fit(t) /\ t.order = o /\ t.pc = label
    BY <1>2, <1>4, <1>5, <2>1 DEF Fit, ShipLabels, RefundingLabels
  <2>2. Fit(task[w])'
    BY <2>1, <1>5, MovedFit DEF ShipLabels
  <2> QED BY <1>4, <1>5, <2>2 DEF Moves, Admitted, ShipLabels
<1>6. CASE \/ GatewayOrderFails(w) \/ RejectSignature(w) \/ \E p \in Payments : InsertPayment(w, p)
           \/ SkipLateCapture(w) \/ MarkPaymentFailed(w) \/ RefundCodManually(w)
           \/ RefundWithoutCapture(w) \/ RefundRejected(w) \/ RefundPersist(w)
           \/ RefundPersistFails(w) \/ MarkRefunded(w) \/ MarkRefundFailed(w)
           \/ CancelConflict(w) \/ AdminCancelConflict(w) \/ ShipSave(w) \/ ShipFails(w)
           \/ DatabaseError(w)
  BY <1>3, <1>6 DEF GatewayOrderFails, RejectSignature, InsertPayment, SkipLateCapture,
       MarkPaymentFailed, RefundCodManually, RefundWithoutCapture, RefundRejected,
       RefundPersist, RefundPersistFails, MarkRefunded, MarkRefundFailed, CancelConflict,
       AdminCancelConflict, ShipSave, ShipFails, DatabaseError
<1>7. CASE PrepareOnlinePayment(w) \/ MarkPaymentCompleted(w) \/ PromoteNothing(w)
  <2>1. task[w].pc \in {"prepare_payment", "capture"} => ~orders[o].cod
    BY <1>1, <1>2 DEF Fit
  <2> QED BY <1>3, <1>5, <1>7, <2>1 DEF PrepareOnlinePayment, MarkPaymentCompleted,
            PromoteNothing, At, RefundingLabels
<1>8. CASE ClaimLateCapture(w) \/ RefundReadOrder(w) \/ RefundGuard(w) \/ AdminRefundGuard(w)
  <2>1. Undone(o)
    BY <1>1, <1>2, <1>8 DEF ClaimLateCapture, LateCapture, RefundReadOrder, RefundGuard,
         AdminRefundGuard, At, Fit, Undone, RefundingLabels
  <2> QED BY <1>3, <1>5, <1>8, <2>1 DEF ClaimLateCapture, RefundReadOrder, RefundGuard,
            AdminRefundGuard
<1>9. ASSUME NEW p \in Payments, RefundPickPayment(w, p) PROVE Moves(w)
  <2>1. /\ OthersWait(w) /\ task'[w].pc = "refund_call" /\ task'[w].order = o
        /\ task'[w].payment = p
    BY <1>1, <1>9 DEF RefundPickPayment, OthersWait, TypeInv, TypeOK, Task
  <2>2. payments[p].order = o
    BY <1>1, <1>9 DEF RefundPickPayment, IsCapturedPayment, CompletedPayments, PaymentsOf
  <2>3. Undone(o)
    BY <1>1, <1>2, <1>9 DEF RefundPickPayment, At, Fit, RefundingLabels
  <2>4. ASSUME NEW t, t = task'[w] PROVE Fit(t)
    BY <1>2, <2>1, <2>2, <2>3, <2>4 DEF Fit, ShipLabels, RefundingLabels
  <2>5. Fit(task[w])'
    BY <2>1, <2>4, MovedFit DEF ShipLabels
  <2> QED BY <2>1, <2>5 DEF Moves, Admitted, ShipLabels
<1>10. ASSUME NEW n \in RefundNumbers, RefundAccepted(w, n) PROVE Moves(w)
  <2>1. /\ OthersWait(w) /\ task'[w].pc = "refund_save" /\ task'[w].order = o
        /\ task'[w].payment = task[w].payment
    BY <1>1, <1>10 DEF RefundAccepted, OthersWait, TypeInv, TypeOK, Task
  <2>2. /\ task[w].payment \in Payments /\ payments[task[w].payment].order = o
        /\ Undone(o)
    BY <1>1, <1>2, <1>10 DEF RefundAccepted, At, Fit, RefundingLabels
  <2>3. ASSUME NEW t, t = task'[w] PROVE Fit(t)
    BY <1>2, <2>1, <2>2, <2>3 DEF Fit, ShipLabels, RefundingLabels
  <2>4. Fit(task[w])'
    BY <2>1, <2>3, MovedFit DEF ShipLabels
  <2> QED BY <2>1, <2>4 DEF Moves, Admitted, ShipLabels
<1>11. CASE CancelCommit(w) \/ \E restockItems \in BOOLEAN : AdminCancelCommit(w, restockItems)
  <2>1. orders'[o].status = "CANCELLED"
    BY <1>1, <1>11 DEF CancelCommit, AdminCancelCommit, TypeInv, TypeOK, OrderRow
  <2>2. ASSUME NEW label \in {"refund_order", "admin_refund"}, Goto(w, label) PROVE Moves(w)
    <3>1. OthersWait(w) /\ task'[w].pc = label /\ task'[w].order = o
      BY <1>4, <2>2
    <3>2. Fit(task[w])'
      BY <2>1, <2>2, <3>1 DEF Fit, Exists, Undone, ShipLabels, RefundingLabels
    <3> QED BY <2>2, <3>1, <3>2 DEF Moves, Admitted, ShipLabels
  <2> QED BY <1>3, <1>11, <2>2 DEF CancelCommit, AdminCancelCommit, AfterCancel
<1>12. CASE PromotePending(w) \/ PromoteVisible(w)
  <2>1. ~orders[o].cod
    BY <1>1, <1>2, <1>12 DEF PromotePending, PromoteVisible, At, Fit
  <2>2. /\ orders'[o].status \notin {"NONE", "PENDING"} /\ orders'[o].pay = "COMPLETED"
        /\ ~Settled(o)
    BY <1>1, <1>12, <2>1 DEF PromotePending, PromoteVisible, ClaimablePending,
         ClaimableVisible, Settled, TypeInv, TypeOK, OrderRow
  <2>3. orders[o].awb \/ \A u \in Workers : ~Shipping(u, o)
    BY <2>2 DEF OneShipper
  <2>4. ASSUME Goto(w, "ship_once") PROVE Moves(w)
    <3>1. OthersWait(w) /\ task'[w].pc = "ship_once" /\ task'[w].order = o
      BY <1>4, <2>4
    <3>2. Fit(task[w])'
      BY <2>2, <3>1 DEF Fit, Exists, Undone, ShipLabels, RefundingLabels
    <3> QED BY <2>2, <2>3, <3>1, <3>2 DEF Moves, Admitted
  <2> QED BY <1>3, <1>12, <2>4 DEF PromotePending, PromoteVisible, AfterClaim
<1>13. ASSUME NEW label \in ShipLabels, UNCHANGED orders, task[w].pc \in ShipLabels,
              OthersWait(w), task'[w].pc = label, task'[w].order = o,
              label # "ship_once" => ~orders[o].awb,
              label \in {"ship_lock", "ship_save"} => task'[w].view.status \notin {"NONE", "PENDING"}
       PROVE  Moves(w)
  <2>1. orders[o].status # "PENDING"
    BY <1>1, <1>2, <1>13 DEF Fit
  <2>2. ASSUME NEW t, t = task'[w] PROVE Fit(t)
    BY <1>2, <1>13, <2>1, <2>2 DEF Fit, ShipLabels, RefundingLabels
  <2>3. Fit(task[w])'
    BY <1>13, <2>2, MovedFit
  <2>4. Shipping(w, o)
    BY <1>1, <1>13 DEF Shipping
  <2> QED BY <1>13, <2>3, <2>4 DEF Moves, Admitted
<1>14. CASE ShipOnce(w)
  BY <1>1, <1>3, <1>4, <1>13, <1>14 DEF ShipOnce, At, ShipLabels, rows
<1>15. CASE ShipRead(w)
  <2>1. /\ OthersWait(w) /\ task'[w].pc = "ship_lock" /\ task'[w].order = o
        /\ task'[w].view = orders[o]
    BY <1>1, <1>15 DEF ShipRead, OthersWait, TypeInv, TypeOK, Task
  <2>2. ~orders[o].awb /\ orders[o].status \notin {"NONE", "PENDING"}
    BY <1>1, <1>2, <1>15 DEF ShipRead, At, Fit, ShipLabels, Exists
  <2> QED BY <1>13, <1>15, <2>1, <2>2 DEF ShipRead, At, ShipLabels, rows
<1>16. CASE ShipLock(w)
  <2>1. ~orders[o].awb /\ task[w].view.status \notin {"NONE", "PENDING"}
    BY <1>1, <1>2, <1>16 DEF ShipLock, At, Fit, ShipLabels
  <2> QED BY <1>3, <1>4, <1>13, <1>16, <2>1 DEF ShipLock, At, ShipLabels, rows
<1> QED BY <1>6, <1>7, <1>8, <1>9, <1>10, <1>11, <1>12, <1>14, <1>15, <1>16 DEF Continue

\* A step of one handler, of all that die with their process, or of none.
LEMMA HandlersNext ==
  ASSUME BookingInv, BookingAssumption, RowsKept, Lasting, [Next]_vars
  PROVE  /\ Fits'
         /\ \A v \in Workers :
              task'[v] \in {task[v], IdleTask} \/ (Admitted(v) /\ OthersWait(v))
<1> DEFINE Good == /\ Fits'
                   /\ \A v \in Workers :
                        task'[v] \in {task[v], IdleTask} \/ (Admitted(v) /\ OthersWait(v))
<1>1. ASSUME NEW w \in Workers, Moves(w) PROVE Good
  BY <1>1, OneFit DEF Moves, OthersWait
<1>2. ASSUME UNCHANGED task PROVE Good
  BY <1>2, OtherFit DEF Fits
<1>3. ASSUME NEW i, Crash(i) PROVE Good
  <2>1. \A v \in Workers : task'[v] = task[v] \/ task'[v] = IdleTask
    BY <1>3 DEF Crash
  <2>2. ASSUME NEW v \in Workers PROVE Fit(task[v])'
    BY <2>1, OtherFit, MovedFit
  <2> QED BY <2>1, <2>2 DEF Fits
<1> HIDE DEF Good
<1>4. ASSUME Environment
      PROVE  UNCHANGED task \/ \E w \in Workers : DatabaseError(w) \/ Crash(InstanceOf[w])
  BY <1>4 DEF Environment, GatewayAuthorize, GatewayCapture, GatewayDecline,
       GatewayRefundEnds, WindowExpires, CancelAbandonedOrder, ConfirmCod
<1>5. ASSUME UNCHANGED vars PROVE UNCHANGED task
  BY <1>5 DEF vars
<1>6. Good
  BY <1>1, <1>2, <1>3, <1>4, <1>5, MovesRequest, MovesDeliver, MovesContinue DEF Next
<1> QED BY <1>6 DEF Good

\* Who books an order stays alone: it is settled, so nobody is admitted.
LEMMA OneShipperNext ==
  ASSUME BookingInv, BookingAssumption, RowsKept, Lasting, [Next]_vars
  PROVE  OneShipper'
<1> USE DEF BookingInv
<1> SUFFICES ASSUME NEW o \in Orders, NEW v \in Workers, Shipping(v, o)', ~orders'[o].awb
             PROVE  /\ \/ orders'[o].cod \/ orders'[o].pay = "COMPLETED"
                       \/ orders'[o].status = "CANCELLED"
                    /\ \A u \in Workers : Shipping(u, o)' => u = v
  BY DEF OneShipper, Settled
<1>1. ~orders[o].awb /\ RowKept(o)
  BY DEF RowsKept, RowKept
<1>2. \A u \in Workers : Shipping(u, o)' =>
        \/ Shipping(u, o) /\ Settled(o)
        \/ /\ OthersWait(u) /\ \A x \in Workers : ~Shipping(x, o)
           /\ orders'[o].cod \/ orders'[o].pay = "COMPLETED"
  <2> SUFFICES ASSUME NEW u \in Workers, Shipping(u, o)'
               PROVE  \/ Shipping(u, o) /\ Settled(o)
                      \/ /\ OthersWait(u) /\ \A x \in Workers : ~Shipping(x, o)
                         /\ orders'[o].cod \/ orders'[o].pay = "COMPLETED"
    OBVIOUS
  <2>1. task'[u] # IdleTask
    BY DEF Shipping, IdleTask, ShipLabels
  <2>2. CASE task'[u] = task[u]
    BY <1>1, <2>2 DEF Shipping, OneShipper
  <2>3. CASE Admitted(u) /\ OthersWait(u)
    BY <1>1, <2>3 DEF Admitted, Shipping, OneShipper
  <2> QED BY <2>1, <2>2, <2>3, HandlersNext
<1>3. \A u \in Workers : Shipping(u, o)' => u = v
  <2> SUFFICES ASSUME NEW u \in Workers, Shipping(u, o)', u # v PROVE FALSE
    OBVIOUS
  <2>1. CASE Shipping(u, o) /\ Shipping(v, o)
    BY <1>1, <2>1 DEF OneShipper
  <2>2. ASSUME NEW x \in {u, v}, OthersWait(x), \A y \in Workers : ~Shipping(y, o) PROVE FALSE
    BY <2>2 DEF OthersWait, Shipping
  <2> QED BY <1>2, <2>1, <2>2
<1>4. \/ orders'[o].cod \/ orders'[o].pay = "COMPLETED" \/ orders'[o].status = "CANCELLED"
  BY <1>1, <1>2 DEF RowKept
<1> QED BY <1>3, <1>4

LEMMA BookingInit == Init => BookingInv
<1> SUFFICES ASSUME Init PROVE BookingInv
  OBVIOUS
<1>1. GatewayBooks
  BY DEF Init, GatewayBooks, RefundsOf
<1>2. RowsInOrder
  BY DEF Init, RowsInOrder, RowInOrder, NoRow
<1>3. Attempts
  BY ShopAssumption DEF Init, Attempts, NoAttempt
<1>4. Fits /\ OneShipper
  BY DEF Init, Fits, Fit, OneShipper, Shipping, IdleTask, ShipLabels, RefundingLabels
<1> QED BY <1>1, <1>2, <1>3, <1>4, TypeInit DEF BookingInv

LEMMA BookingNext ==
  ASSUME BookingInv, BookingAssumption, [Next]_vars PROVE BookingInv'
<1>1. Lasting /\ RowsKept
  BY Lasts, RowsKeptNext DEF BookingInv
<1>2. TypeInv' /\ GatewayBooks'
  BY <1>1, TypeNext, BooksNext DEF BookingInv
<1>3. RowsInOrder'
  BY <1>1 DEF RowsKept, RowKept, RowsInOrder
<1>4. Attempts' /\ Fits' /\ OneShipper'
  BY <1>1, AttemptsNext, HandlersNext, OneShipperNext
<1> QED BY <1>2, <1>3, <1>4 DEF BookingInv

LEMMA BookingInvariant == ASSUME BookingAssumption PROVE Spec => []BookingInv
<1>1. BookingInv /\ [Next]_vars => BookingInv'
  BY BookingNext
<1> QED BY BookingInit, <1>1, PTL DEF Spec

-----------------------------------------------------------------------------

\* Only an admin's cancellation cancels an order that carries an AWB.
LEMMA BookedStands ==
  ASSUME BookingInv, [Next]_vars, NEW o \in Orders, orders[o].awb,
         orders[o].status # "CANCELLED", orders'[o].status = "CANCELLED"
  PROVE  \E w \in Workers, restockItems \in BOOLEAN : AdminCancelCommit(w, restockItems)
<1> USE DEF BookingInv
<1>0. RowInOrder(orders[o])
  BY DEF RowsInOrder
<1>1. ASSUME orders'[o].status = orders[o].status PROVE FALSE
  BY <1>1
<1>2. ASSUME NEW w \in Workers, Request(w) PROVE FALSE
  <2>1. CASE \E q \in Orders : PlaceOnlineOrder(w, q) \/ PlaceCodOrder(w, q)
    BY <2>1 DEF PlaceOnlineOrder, PlaceCodOrder, TypeInv, TypeOK, OrderRow
  <2>2. CASE UNCHANGED orders
    BY <2>2
  <2> QED BY <1>2, <2>1, <2>2 DEF Request, ReplayPlaceOrder, CreatePaymentOrder,
            RetryPayment, CancelOrder, AdminCancelOrder, VerifyPayment, rows
<1>3. ASSUME NEW w \in Workers, NEW e \in Event, Deliver(w, e) PROVE UNCHANGED orders
  BY <1>3 DEF Deliver, ReceiveCaptured, ReceiveFailed, ReceiveRefundDone,
       ReceiveRefundFailed, rows
<1>4. ASSUME NEW w \in Workers, Continue(w),
             ~\E restockItems \in BOOLEAN : AdminCancelCommit(w, restockItems)
      PROVE  FALSE
  <2>1. PICK x \in Orders : x = task[w].order
    BY <1>4, ContinueBusy DEF TypeInv, Busy
  <2>2. CASE PromotePending(w) \/ PromoteVisible(w) \/ ClaimLateCapture(w)
    BY <2>1, <2>2 DEF PromotePending, PromoteVisible, ClaimLateCapture, TypeInv, TypeOK, OrderRow
  <2>3. CASE MarkPaymentFailed(w) \/ RefundPersist(w) \/ MarkRefundFailed(w)
    <3>1. orders'[o].status = orders[o].status
      BY <2>1, <2>3 DEF MarkPaymentFailed, RefundPersist, MarkRefundFailed, TypeInv, TypeOK, OrderRow
    <3> QED BY <3>1
  <2>4. CASE MarkRefunded(w)
    <3> DEFINE s == StatusAfterRefund(task[w].view.status, orders[x].status)
    <3>1. s = orders[x].status \/ s = "RETURNED"
      BY DEF StatusAfterRefund
    <3>2. UNCHANGED orders \/ orders' = [orders EXCEPT ![x].status = s, ![x].pay = "REFUNDED"]
      BY <2>1, <2>4 DEF MarkRefunded
    <3> HIDE DEF s
    <3> QED BY <3>1, <3>2 DEF TypeInv, TypeOK, OrderRow
  <2>5. CASE CancelCommit(w)
    BY <2>1, <2>5 DEF CancelCommit, StillCancellable, TypeInv, TypeOK, OrderRow
  <2>6. CASE ShipSave(w)
    <3>1. ~orders[x].awb
      BY <2>1, <2>6 DEF ShipSave, At, Fits, Fit, ShipLabels
    <3>2. orders'[o] = orders[o]
      BY <2>1, <2>6, <3>1 DEF ShipSave, TypeInv, TypeOK
    <3> QED BY <3>2
  <2>7. CASE UNCHANGED orders
    BY <2>7
  <2> QED BY <1>4, <2>2, <2>3, <2>4, <2>5, <2>6, <2>7 DEF Continue, PrepareOnlinePayment,
         InsertPayment, GatewayOrderFails, RejectSignature, MarkPaymentCompleted,
         PromoteNothing, SkipLateCapture, RefundReadOrder, RefundGuard, RefundCodManually,
         RefundWithoutCapture, RefundPickPayment, RefundAccepted, RefundRejected,
         RefundPersistFails, CancelConflict, AdminCancelConflict, AdminRefundGuard,
         ShipOnce, ShipRead, ShipLock, ShipFails, rows
<1>5. ASSUME Environment PROVE FALSE
  <2>1. CASE \E x \in Orders : CancelAbandonedOrder(x)
    BY <2>1 DEF CancelAbandonedOrder, TypeInv, TypeOK, OrderRow
  <2>2. CASE \E x \in Orders, p \in Payments : ConfirmCod(x, p)
    BY <2>2 DEF ConfirmCod, TypeInv, TypeOK, OrderRow
  <2>3. CASE UNCHANGED orders
    BY <2>3
  <2> QED BY <1>5, <2>1, <2>2, <2>3 DEF Environment, GatewayAuthorize, GatewayCapture,
            GatewayDecline, GatewayRefundEnds, WindowExpires, DatabaseError, Crash, rows
<1>6. ASSUME UNCHANGED vars PROVE FALSE
  BY <1>6 DEF vars
<1> QED BY <1>2, <1>3, <1>4, <1>5, <1>6 DEF Next

\* Whatever customer, cleanup job, callbacks, events and shipment handlers do,
\* and wherever a process dies, an order that carries an AWB is not cancelled by
\* anybody but an admin.
THEOREM BookedStay == ASSUME BookingAssumption PROVE Spec => BookedOrdersStand
<1> DEFINE Stands ==
      \A o \in Orders :
        orders[o].awb /\ orders[o].status # "CANCELLED"
        => \/ orders'[o].status # "CANCELLED"
           \/ \E w \in Workers, restockItems \in BOOLEAN : AdminCancelCommit(w, restockItems)
<1>1. BookingInv /\ [Next]_vars => [Stands]_vars
  BY BookedStands
<1> QED BY BookingInvariant, <1>1, PTL DEF Spec, BookedOrdersStand

-----------------------------------------------------------------------------
(* What becomes of money that was captured: an order is refunded at most    *)
(* once, and none of its money is stranded.                                 *)

-----------------------------------------------------------------------------
(* Where no shipment is created behind a cancellation's back, at most one   *)
(* refund of an order is on its way or done, however many handlers want to  *)
(* refund it, whatever events come late and wherever they crash.            *)
(*                                                                          *)
(* No lock that survives a process serialises them.  Whoever claims a       *)
(* refund finds or makes the order CANCELLED and paid, and while it is both *)
(* nobody else can claim it; once it is not, an audit row stops every later *)
(* handler at the live-refund guard.  A refund is Open from the gateway's   *)
(* acceptance until the shop has dealt with its failure, if it ever fails.  *)

BeforeGuard == {"admin_refund", "refund_order", "refund_guard"}
PastGuard   == {"refund_payment", "refund_call", "refund_save"}
RefundChain == BeforeGuard \cup PastGuard

\* The handlers that may end with a refund of the order.
Refunding(o) == {w \in Workers : task[w].order = o /\ task[w].pc \in RefundChain}

Returned(o) == \E a \in AuditsOf(o) : a.status = "REFUNDED"

FailedEvent(p, n) == [kind |-> "refundFailed", payment |-> p, refund |-> n]

Settling(w, p, n) ==
  task[w].pc = "refund_failed" /\ task[w].payment = p /\ task[w].refund = n

Open(p, n) ==
  /\ refunds[p][n] # "none"
  /\ FailedEvent(p, n) \notin logged \/ \E w \in Workers : Settling(w, p, n)

\* The shop hears of a failure after it happened.
FailuresTold ==
  /\ \A p \in Payments, n \in RefundNumbers :
       FailedEvent(p, n) \in sent \cup logged => refunds[p][n] = "failed"
  /\ \A e \in sent : e.kind = "refundFailed" => e.refund \in RefundNumbers

\* Whoever is refunding a paid order is alone, or will be stopped.
OneRefunds ==
  \A w \in Workers :
    task[w].pc \in RefundChain =>
      \/ Returned(task[w].order)
      \/ /\ orders[task[w].order].pay = "COMPLETED"
         /\ \A v \in Refunding(task[w].order) : v = w

OnePasses ==
  \A v, w \in Workers :
    /\ task[v].pc \in PastGuard /\ task[w].pc \in PastGuard
    /\ task[v].order = task[w].order
    => v = w

\* Behind the guard, no refund of the order is open.
NothingOpen ==
  \A w \in Workers, p \in Payments, n \in RefundNumbers :
    /\ task[w].pc \in {"refund_payment", "refund_call"}
    /\ payments[p].order = task[w].order
    => ~Open(p, n)

\* An open refund stops everybody at the guard, or at the claim.
Guarded(o) ==
  \/ LiveAudits(o) # {}
  \/ /\ orders[o].pay = "COMPLETED"
     /\ \A w \in Refunding(o) : task[w].pc = "refund_save"

OpenIsGuarded ==
  \A p \in Payments, n \in RefundNumbers : Open(p, n) => Guarded(payments[p].order)

OneOpen ==
  \A p, q \in Payments, m, n \in RefundNumbers :
    Open(p, m) /\ Open(q, n) /\ payments[p].order = payments[q].order
    => p = q /\ m = n

\* A failure is dealt with by one handler.
Settles(v) ==
  /\ task[v].payment \in Payments /\ task[v].refund \in RefundNumbers
  /\ payments[task[v].payment].order = task[v].order
  /\ FailedEvent(task[v].payment, task[v].refund) \in logged
  /\ \A w \in Workers : Settling(w, task[v].payment, task[v].refund) => v = w

SettlesOnce == \A v \in Workers : task[v].pc = "refund_failed" => Settles(v)

\* A cancellation that saw the order paid finds it paid when it commits.
CancelsPaid ==
  \A w \in Workers :
    task[w].pc \in CancelLabels /\ task[w].view.pay = "COMPLETED" =>
      \/ orders[task[w].order].status = "CANCELLED"
      \/ orders[task[w].order].pay = "COMPLETED"

PayoutHandlers ==
  /\ OneRefunds /\ OnePasses /\ NothingOpen /\ OpenIsGuarded /\ OneOpen
  /\ SettlesOnce /\ CancelsPaid

PayoutInv == RefundInv /\ FailuresTold /\ PayoutHandlers

-----------------------------------------------------------------------------
(* Steps that open no refund and let nobody in. *)

CalmHandler(v) ==
  /\ task'[v].pc \in RefundChain =>
       /\ task'[v].order = task[v].order
       /\ \/ task'[v].pc = task[v].pc
          \/ task'[v].pc \in BeforeGuard /\ task[v].pc \in BeforeGuard
  /\ task'[v].pc = "refund_failed" => task'[v] = task[v]
  /\ task'[v].pc \in CancelLabels =>
       \/ task'[v] = task[v]
       \/ task'[v].order \in Orders /\ task'[v].view = orders[task'[v].order]

Calm ==
  /\ audits \subseteq audits' /\ logged \subseteq logged'
  /\ \A p \in Payments, n \in RefundNumbers :
       refunds'[p][n] # "none" => refunds[p][n] # "none"
  /\ \A o \in Orders : orders[o].pay = "COMPLETED" => orders'[o].pay = "COMPLETED"
  /\ \A v \in Workers : CalmHandler(v)

\* An open refund is of an order that exists.
LEMMA OpenOf ==
  ASSUME RefundInv, NEW p \in Payments, NEW n \in RefundNumbers, Open(p, n)
  PROVE  payments[p].order \in Orders /\ orders[payments[p].order].status = "CANCELLED"
BY DEF RefundInv, GatewayBooks, RefundedOrdersAreCancelled, RefundsOf, Open

\* A handler on the way to a refund works on a cancelled order.
LEMMA ChainCancelled ==
  ASSUME RefundInv, NEW w \in Workers, task[w].pc \in RefundChain
  PROVE  task[w].order \in Orders /\ orders[task[w].order].status = "CANCELLED"
BY DEF RefundInv, RefundHandlers, Decided, Cancelled, RefundChain, BeforeGuard,
       PastGuard, RefundingLabels

\* Audits that stay keep an order refunded and guarded.
LEMMA AuditsStay ==
  ASSUME audits \subseteq audits'
  PROVE  \A o : /\ Returned(o) => Returned(o)'
                /\ LiveAudits(o) # {} => LiveAudits(o)' # {}
                /\ AuditsOf(o) # {} => AuditsOf(o)' # {}
BY DEF Returned, LiveAudits, AuditsOf

\* What is open was open, of the same order, unless it is opened.
LEMMA OpenBefore ==
  ASSUME RefundInv, RefundInv', Lasting, logged \subseteq logged',
         \A p \in Payments, n \in RefundNumbers :
           refunds'[p][n] # "none" => refunds[p][n] # "none",
         \A v \in Workers : task'[v].pc = "refund_failed" => task'[v] = task[v]
  PROVE  \A p \in Payments, n \in RefundNumbers :
           Open(p, n)' => Open(p, n) /\ payments'[p].order = payments[p].order
<1> SUFFICES ASSUME NEW p \in Payments, NEW n \in RefundNumbers, Open(p, n)'
             PROVE  Open(p, n) /\ payments'[p].order = payments[p].order
  OBVIOUS
<1>1. refunds[p][n] # "none"
  BY DEF Open
<1>2. Open(p, n)
  BY <1>1 DEF Open, Settling, FailedEvent
<1> QED BY <1>2, OpenOf DEF Lasting

LEMMA CalmNext ==
  ASSUME PayoutInv, RefundInv', Lasting, CancelledLasts, Calm
  PROVE  PayoutHandlers'
<1> USE DEF PayoutInv, PayoutHandlers
<1>1. \A p \in Payments, n \in RefundNumbers :
        Open(p, n)' => Open(p, n) /\ payments'[p].order = payments[p].order
  BY OpenBefore DEF Calm, CalmHandler
<1>2. \A o : Refunding(o)' \subseteq Refunding(o)
  BY DEF Calm, CalmHandler, Refunding, RefundChain
<1>3. OneRefunds'
  <2>1. ASSUME NEW w \in Workers, NEW o, task'[w].pc \in RefundChain, o = task'[w].order
        PROVE  \/ Returned(o)'
               \/ orders'[o].pay = "COMPLETED" /\ \A v \in Refunding(o)' : v = w
    <3>1. task[w].pc \in RefundChain /\ task[w].order = o
      BY <2>1 DEF Calm, CalmHandler, RefundChain
    <3>2. CASE Returned(o)
      BY <3>2, AuditsStay DEF Calm
    <3>3. CASE orders[o].pay = "COMPLETED" /\ \A v \in Refunding(o) : v = w
      BY <1>2, <3>1, <3>3, ChainCancelled DEF Calm
    <3> QED BY <3>1, <3>2, <3>3 DEF OneRefunds
  <2> QED BY <2>1 DEF OneRefunds
<1>4. OnePasses'
  BY DEF OnePasses, Calm, CalmHandler, PastGuard, BeforeGuard, RefundChain
<1>5. NothingOpen'
  <2>1. ASSUME NEW w \in Workers, NEW p \in Payments, NEW n \in RefundNumbers,
               task'[w].pc \in {"refund_payment", "refund_call"},
               payments'[p].order = task'[w].order, Open(p, n)'
        PROVE  FALSE
    <3>1. task[w].pc \in {"refund_payment", "refund_call"} /\ task[w].order = task'[w].order
      BY <2>1 DEF Calm, CalmHandler, PastGuard, BeforeGuard, RefundChain
    <3> QED BY <1>1, <2>1, <3>1 DEF NothingOpen
  <2> QED BY <2>1 DEF NothingOpen
<1>6. OpenIsGuarded'
  <2>1. ASSUME NEW p \in Payments, NEW n \in RefundNumbers, NEW o, Open(p, n)',
               o = payments'[p].order
        PROVE  Guarded(o)'
    <3>1. Guarded(o) /\ o \in Orders
      BY <1>1, <2>1, OpenOf DEF OpenIsGuarded
    <3>2. CASE LiveAudits(o) # {}
      BY <3>2, AuditsStay DEF Calm, Guarded
    <3>3. CASE /\ orders[o].pay = "COMPLETED"
               /\ \A w \in Refunding(o) : task[w].pc = "refund_save"
      <4>1. \A w \in Refunding(o)' : task'[w].pc = "refund_save"
        BY <1>2, <3>3 DEF Calm, CalmHandler, Refunding, BeforeGuard
      <4> QED BY <3>1, <3>3, <4>1 DEF Calm, Guarded
    <3> QED BY <3>1, <3>2, <3>3 DEF Guarded
  <2> QED BY <2>1 DEF OpenIsGuarded
<1>7. OneOpen'
  BY <1>1 DEF OneOpen
<1>8. SettlesOnce'
  <2>1. ASSUME NEW v \in Workers, task'[v].pc = "refund_failed" PROVE Settles(v)'
    <3>1. task'[v] = task[v] /\ Settles(v)
      BY <2>1 DEF Calm, CalmHandler, SettlesOnce
    <3>2. payments[task[v].payment].order \in Orders
      BY <2>1, <3>1 DEF Settles, RefundInv, TypeInv, Busy
    <3>3. payments'[task[v].payment].order = task[v].order
      BY <3>1, <3>2 DEF Settles, Lasting
    <3>4. \A w \in Workers : Settling(w, task[v].payment, task[v].refund)' => v = w
      BY <3>1 DEF Settles, Settling, Calm, CalmHandler
    <3> QED BY <3>1, <3>3, <3>4 DEF Settles, Calm, FailedEvent
  <2> QED BY <2>1 DEF SettlesOnce
<1>9. CancelsPaid'
  <2>1. SUFFICES ASSUME NEW w \in Workers, task'[w].pc \in CancelLabels,
                        task'[w].view.pay = "COMPLETED"
                 PROVE  \/ orders'[task'[w].order].status = "CANCELLED"
                        \/ orders'[task'[w].order].pay = "COMPLETED"
    BY DEF CancelsPaid
  <2>2. CASE task'[w] = task[w]
    <3>1. task[w].order \in Orders
      BY <2>1, <2>2 DEF RefundInv, TypeInv, Busy, CancelLabels
    <3> QED BY <2>1, <2>2, <3>1 DEF CancelsPaid, Calm, CancelledLasts
  <2>3. CASE task'[w].order \in Orders /\ task'[w].view = orders[task'[w].order]
    BY <2>1, <2>3 DEF Calm
  <2> QED BY <2>1, <2>2, <2>3 DEF Calm, CalmHandler
<1> QED BY <1>3, <1>4, <1>5, <1>6, <1>7, <1>8, <1>9

-----------------------------------------------------------------------------
(* The calm steps: all but those of a handler that claims, passes the guard, *)
(* asks the gateway, or writes down how a refund went.                       *)

Keeps(w) == \A v \in Workers : v # w => task'[v] = task[v]

\* A label that the invariant says nothing about.
Plain == PC \ (RefundChain \cup CancelLabels \cup {"refund_failed"})

LEMMA CalmMove ==
  ASSUME NEW w \in Workers, Keeps(w), task'[w].pc \in Plain \/ CalmHandler(w)
  PROVE  \A v \in Workers : CalmHandler(v)
BY DEF Keeps, Plain, CalmHandler

LEMMA CalmMoves ==
  ASSUME TypeInv, NEW w \in Workers,
         \/ Finish(w)
         \/ \E label \in Plain : Goto(w, label)
         \/ \E label \in Plain : \E o, p, view : Begin(w, label, o, p, view)
         \/ UNCHANGED task
  PROVE  \A v \in Workers : CalmHandler(v)
<1> USE DEF TypeInv, TypeOK, Keeps
<1>1. CASE Finish(w)
  <2>1. Keeps(w) /\ task'[w].pc \in Plain
    BY <1>1 DEF Finish, IdleTask, Plain, PC, RefundChain, BeforeGuard, PastGuard,
                CancelLabels
  <2> QED BY <2>1, CalmMove
<1>2. CASE \E label \in Plain : Goto(w, label)
  <2>1. Keeps(w) /\ task'[w].pc \in Plain
    BY <1>2 DEF Goto, Task
  <2> QED BY <2>1, CalmMove
<1>3. CASE \E label \in Plain : \E o, p, view : Begin(w, label, o, p, view)
  <2>1. Keeps(w) /\ task'[w].pc \in Plain
    BY <1>3 DEF Begin
  <2> QED BY <2>1, CalmMove
<1>4. CASE UNCHANGED task
  BY <1>4 DEF CalmHandler
<1> QED BY <1>1, <1>2, <1>3, <1>4

\* Writing the status of an order, or its method, leaves its paymentStatus alone.
LEMMA StatusKeepsPay ==
  ASSUME TypeInv, NEW x,
         \/ \E s : orders' = [orders EXCEPT ![x].status = s]
         \/ \E s, b : orders' = [orders EXCEPT ![x].status = s, ![x].cod = b]
  PROVE  \A q \in Orders : orders'[q].pay = orders[q].pay
<1> USE DEF TypeInv, TypeOK, OrderRow
<1>1. CASE \E s : orders' = [orders EXCEPT ![x].status = s]
  BY <1>1
<1>2. ASSUME NEW s, NEW b, orders' = [orders EXCEPT ![x].status = s, ![x].cod = b]
      PROVE  \A q \in Orders : orders'[q].pay = orders[q].pay
  BY <1>2
<1> QED BY <1>1, <1>2

\* A request at most opens a cancellation, with the row it has just read.
LEMMA CalmRequest ==
  ASSUME RefundInv, NEW w \in Workers, Request(w) PROVE Calm
<1> USE DEF RefundInv
<1>1. UNCHANGED <<audits, logged, refunds>>
  BY DEF Request, PlaceOnlineOrder, PlaceCodOrder, ReplayPlaceOrder,
         CreatePaymentOrder, RetryPayment, CancelOrder, AdminCancelOrder,
         VerifyPayment, rows, gateway
<1>2. \A o \in Orders : orders[o].pay = "COMPLETED" => orders'[o].pay = "COMPLETED"
  <2>1. ASSUME NEW o \in Orders, PlaceOnlineOrder(w, o) \/ PlaceCodOrder(w, o)
        PROVE  \A q \in Orders : orders'[q].pay = orders[q].pay
    BY <2>1, StatusKeepsPay DEF PlaceOnlineOrder, PlaceCodOrder
  <2> QED BY <2>1 DEF Request, ReplayPlaceOrder, CreatePaymentOrder, RetryPayment,
                      CancelOrder, AdminCancelOrder, VerifyPayment, rows
<1>3. ASSUME NEW label \in CancelLabels, NEW o \in Orders, NEW p,
             Begin(w, label, o, p, orders[o])
      PROVE  \A v \in Workers : CalmHandler(v)
  <2>1. Keeps(w) /\ task'[w].pc = label /\ task'[w].order = o /\ task'[w].view = orders[o]
    BY <1>3 DEF Begin, Keeps, TypeInv, TypeOK
  <2> QED BY <2>1, CalmMove DEF CalmHandler, CancelLabels, RefundChain, BeforeGuard,
                                PastGuard
<1>4. /\ {"prepare_payment", "insert_online", "insert_cod", "capture", "reject",
           "ship_read"} \subseteq Plain
      /\ CancelLabels = {"cancel", "admin_cancel"}
  BY DEF Plain, PC, RefundChain, BeforeGuard, PastGuard, CancelLabels
<1>5. \A v \in Workers : CalmHandler(v)
  <2>1. ASSUME NEW o \in Orders, CancelOrder(w, o) \/ AdminCancelOrder(w, o)
        PROVE  \A v \in Workers : CalmHandler(v)
    BY <1>3, <1>4, <2>1 DEF CancelOrder, AdminCancelOrder
  <2>2. ASSUME NEW o \in Orders,
               PlaceOnlineOrder(w, o) \/ PlaceCodOrder(w, o) \/ ReplayPlaceOrder(w, o)
        PROVE  \A v \in Workers : CalmHandler(v)
    BY <1>4, <2>2, CalmMoves DEF PlaceOnlineOrder, PlaceCodOrder, ReplayPlaceOrder
  <2>3. ASSUME NEW o \in Orders, NEW online \in BOOLEAN,
               CreatePaymentOrder(w, o, online) \/ RetryPayment(w, o, online)
        PROVE  \A v \in Workers : CalmHandler(v)
    BY <1>4, <2>3, CalmMoves DEF CreatePaymentOrder, RetryPayment
  <2>4. ASSUME NEW p \in Payments, NEW valid \in BOOLEAN, VerifyPayment(w, p, valid)
        PROVE  \A v \in Workers : CalmHandler(v)
    BY <1>4, <2>4, CalmMoves DEF VerifyPayment
  <2> QED BY <2>1, <2>2, <2>3, <2>4 DEF Request
<1> QED BY <1>1, <1>2, <1>5 DEF Calm

\* An event other than a failed refund starts no refund and settles none.
LEMMA CalmDeliver ==
  ASSUME RefundInv, NEW w \in Workers, NEW e \in Event,
         ReceiveCaptured(w, e) \/ ReceiveFailed(w, e) \/ ReceiveRefundDone(w, e)
  PROVE  Calm
<1> USE DEF RefundInv
<1>1. UNCHANGED <<orders, audits, refunds>> /\ logged \subseteq logged'
  BY DEF ReceiveCaptured, ReceiveFailed, ReceiveRefundDone, LogEvent, rows, gateway
<1>2. {"capture", "payment_failed", "refund_processed"} \subseteq Plain
  BY DEF Plain, PC, RefundChain, BeforeGuard, PastGuard, CancelLabels
<1>3. CASE ReceiveCaptured(w, e) \/ ReceiveFailed(w, e)
  BY <1>1, <1>2, <1>3, CalmMoves DEF ReceiveCaptured, ReceiveFailed, Calm
<1>4. CASE ReceiveRefundDone(w, e)
  <2>1. CASE UNCHANGED task
    BY <1>1, <2>1, CalmMoves DEF Calm
  <2>2. CASE BeginRefundEvent(w, "refund_processed", e)
    <3>1. Keeps(w) /\ task'[w].pc = "refund_processed"
      BY <2>2 DEF BeginRefundEvent, Keeps, TypeInv, TypeOK
    <3> QED BY <1>1, <1>2, <3>1, CalmMove DEF Calm
  <2> QED BY <1>4, <2>1, <2>2 DEF ReceiveRefundDone
<1> QED BY <1>3, <1>4

\* Writing paymentStatus so that no COMPLETED is overwritten.
LEMMA PayWritten ==
  ASSUME TypeInv, NEW x, NEW m, m = "COMPLETED" \/ orders[x].pay # "COMPLETED",
         \/ orders' = [orders EXCEPT ![x].pay = m]
         \/ \E s : orders' = [orders EXCEPT ![x].status = s, ![x].pay = m]
         \/ \E s : orders' = [orders EXCEPT ![x].pay = m, ![x].status = s]
  PROVE  \A q \in Orders : orders[q].pay = "COMPLETED" => orders'[q].pay = "COMPLETED"
<1> USE DEF TypeInv, TypeOK, OrderRow
<1>1. CASE orders' = [orders EXCEPT ![x].pay = m]
  BY <1>1
<1>2. ASSUME NEW s, \/ orders' = [orders EXCEPT ![x].status = s, ![x].pay = m]
                   \/ orders' = [orders EXCEPT ![x].pay = m, ![x].status = s]
      PROVE  \A q \in Orders : orders[q].pay = "COMPLETED" => orders'[q].pay = "COMPLETED"
  <2>1. CASE orders' = [orders EXCEPT ![x].status = s, ![x].pay = m]
    BY <2>1
  <2>2. CASE orders' = [orders EXCEPT ![x].pay = m, ![x].status = s]
    BY <2>2
  <2> QED BY <1>2, <2>1, <2>2
<1> QED BY <1>1, <1>2

\* Handlers that promote, that give up, or that stand before the guard.
LEMMA CalmContinue ==
  ASSUME RefundInv, ~ShippingConfigured, NEW w \in Workers,
         \/ PrepareOnlinePayment(w) \/ GatewayOrderFails(w) \/ RejectSignature(w)
         \/ \E p \in Payments : InsertPayment(w, p)
         \/ MarkPaymentCompleted(w) \/ PromotePending(w) \/ PromoteVisible(w)
         \/ PromoteNothing(w) \/ SkipLateCapture(w) \/ MarkPaymentFailed(w)
         \/ RefundReadOrder(w) \/ RefundCodManually(w) \/ RefundWithoutCapture(w)
         \/ RefundRejected(w) \/ RefundPersistFails(w) \/ AdminRefundGuard(w)
         \/ CancelConflict(w) \/ AdminCancelConflict(w) \/ DatabaseError(w)
  PROVE  Calm
<1> USE DEF RefundInv
<1>1. UNCHANGED refunds /\ UNCHANGED logged /\ audits \subseteq audits'
  BY DEF PrepareOnlinePayment, GatewayOrderFails, RejectSignature, InsertPayment,
         MarkPaymentCompleted, PromotePending, PromoteVisible, PromoteNothing,
         SkipLateCapture, MarkPaymentFailed, RefundReadOrder, RefundCodManually,
         RefundWithoutCapture, RefundRejected, RefundPersistFails, AdminRefundGuard,
         CancelConflict, AdminCancelConflict, DatabaseError, AddAudit, rows, gateway
<1>2. \A o \in Orders : orders[o].pay = "COMPLETED" => orders'[o].pay = "COMPLETED"
  <2>1. CASE PromotePending(w) \/ PromoteVisible(w) \/ MarkPaymentFailed(w)
    BY <2>1, PayWritten DEF PromotePending, PromoteVisible, MarkPaymentFailed
  <2>2. CASE ~(PromotePending(w) \/ PromoteVisible(w) \/ MarkPaymentFailed(w))
    BY <2>2 DEF PrepareOnlinePayment, GatewayOrderFails, RejectSignature, InsertPayment,
         MarkPaymentCompleted, PromoteNothing,
         SkipLateCapture, RefundReadOrder, RefundCodManually,
         RefundWithoutCapture, RefundRejected, RefundPersistFails, AdminRefundGuard,
         CancelConflict, AdminCancelConflict, DatabaseError, rows
  <2> QED BY <2>1, <2>2
<1>3. \A v \in Workers : CalmHandler(v)
  <2>1. {"insert_online", "promote", "late_refund"} \subseteq Plain
    BY DEF Plain, PC, RefundChain, BeforeGuard, PastGuard, CancelLabels
  <2>2. CASE \/ PrepareOnlinePayment(w) \/ GatewayOrderFails(w) \/ RejectSignature(w)
             \/ \E p \in Payments : InsertPayment(w, p)
             \/ MarkPaymentCompleted(w) \/ PromotePending(w) \/ PromoteVisible(w)
             \/ PromoteNothing(w) \/ SkipLateCapture(w) \/ MarkPaymentFailed(w)
    BY <2>1, <2>2, CalmMoves DEF PrepareOnlinePayment, GatewayOrderFails,
         RejectSignature, InsertPayment, MarkPaymentCompleted, PromotePending,
         PromoteVisible, PromoteNothing, SkipLateCapture, MarkPaymentFailed, AfterClaim
  <2>3. CASE \/ RefundCodManually(w) \/ RefundWithoutCapture(w) \/ RefundRejected(w)
             \/ RefundPersistFails(w) \/ CancelConflict(w) \/ AdminCancelConflict(w)
             \/ DatabaseError(w)
    BY <2>3, CalmMoves DEF RefundCodManually, RefundWithoutCapture, RefundRejected,
         RefundPersistFails, CancelConflict, AdminCancelConflict, DatabaseError
  <2>4. CASE RefundReadOrder(w) \/ AdminRefundGuard(w)
    <3>1. CASE Finish(w)
      BY <3>1, CalmMoves
    <3>2. CASE Goto(w, "refund_guard") \/ Goto(w, "refund_order")
      <4>1. /\ Keeps(w) /\ task'[w].order = task[w].order
            /\ task'[w].pc \in {"refund_guard", "refund_order"}
        BY <3>2 DEF Goto, Keeps, TypeInv, TypeOK, Task
      <4>2. CalmHandler(w)
        BY <2>4, <4>1 DEF CalmHandler, RefundReadOrder, AdminRefundGuard, At,
             BeforeGuard, CancelLabels
      <4> QED BY <4>1, <4>2, CalmMove
    <3> QED BY <2>4, <3>1, <3>2 DEF RefundReadOrder, AdminRefundGuard
  <2> QED BY <2>2, <2>3, <2>4
<1> QED BY <1>1, <1>2, <1>3 DEF Calm

\* The gateway, the jobs, COD and a crash.
LEMMA CalmEnvironment ==
  ASSUME RefundInv, Environment, \A w \in Workers : ~DatabaseError(w) PROVE Calm
<1> USE DEF RefundInv
<1>1. ASSUME NEW p \in Payments,
             GatewayAuthorize(p) \/ GatewayCapture(p) \/ GatewayDecline(p)
      PROVE  Calm
  BY <1>1, CalmMoves DEF GatewayAuthorize, GatewayCapture, GatewayDecline, rows, Calm,
       CalmHandler
<1>2. ASSUME NEW p \in Payments, NEW n \in RefundNumbers,
             NEW outcome \in {"processed", "failed"}, GatewayRefundEnds(p, n, outcome)
      PROVE  Calm
  <2>1. \A q \in Payments, m \in RefundNumbers :
          refunds'[q][m] # "none" => refunds[q][m] # "none"
    BY <1>2 DEF GatewayRefundEnds, TypeInv, TypeOK
  <2>2. UNCHANGED <<orders, audits, logged, task>>
    BY <1>2 DEF GatewayRefundEnds, rows
  <2> QED BY <2>1, <2>2 DEF Calm, CalmHandler
<1>3. ASSUME NEW o \in Orders, WindowExpires(o) PROVE Calm
  BY <1>3 DEF WindowExpires, gateway, Calm, CalmHandler
<1>4. ASSUME NEW o \in Orders, CancelAbandonedOrder(o) PROVE Calm
  <2>1. \A q \in Orders : orders'[q].pay = orders[q].pay
    BY <1>4, StatusKeepsPay DEF CancelAbandonedOrder
  <2> QED BY <1>4, <2>1 DEF CancelAbandonedOrder, gateway, Calm, CalmHandler
<1>5. ASSUME NEW o \in Orders, NEW p \in Payments, ConfirmCod(o, p) PROVE Calm
  <2>1. \A q \in Orders : orders[q].pay = "COMPLETED" => orders'[q].pay = "COMPLETED"
    BY <1>5, PayWritten DEF ConfirmCod
  <2> QED BY <1>5, <2>1 DEF ConfirmCod, gateway, Calm, CalmHandler
<1>6. ASSUME NEW i, Crash(i) PROVE Calm
  <2>1. UNCHANGED <<orders, audits, refunds, logged>>
    BY <1>6 DEF Crash, rows, gateway
  <2>2. \A v \in Workers : task'[v] = task[v] \/ task'[v] = IdleTask
    BY <1>6 DEF Crash
  <2>3. \A v \in Workers : CalmHandler(v)
    BY <2>2 DEF CalmHandler, IdleTask, RefundChain, BeforeGuard, PastGuard, CancelLabels
  <2> QED BY <2>1, <2>3 DEF Calm
<1> QED BY <1>1, <1>2, <1>3, <1>4, <1>5, <1>6 DEF Environment

-----------------------------------------------------------------------------
(* The other steps. *)

\* Nobody but w moves, to a label of the chain or out of it; no refund opens.
LEMMA ChainMove ==
  ASSUME PayoutInv, RefundInv', Lasting, CancelledLasts,
         NEW w \in Workers, Keeps(w),
         UNCHANGED <<refunds, logged>>,
         task'[w].pc \notin {"refund_failed"} \cup CancelLabels,
         \A o \in Orders : \/ orders[o].pay = "COMPLETED" => orders'[o].pay = "COMPLETED"
                          \/ orders[o].status = "CANCELLED"
  PROVE  /\ OneOpen' /\ SettlesOnce' /\ CancelsPaid'
         /\ \A p \in Payments, n \in RefundNumbers :
              Open(p, n)' => Open(p, n) /\ payments'[p].order = payments[p].order
<1> USE DEF PayoutInv, PayoutHandlers, Keeps
<1>1. \A p \in Payments, n \in RefundNumbers :
        Open(p, n)' => Open(p, n) /\ payments'[p].order = payments[p].order
  BY OpenBefore
<1>2. OneOpen'
  BY <1>1 DEF OneOpen
<1>3. SettlesOnce'
  <2>1. ASSUME NEW v \in Workers, task'[v].pc = "refund_failed" PROVE Settles(v)'
    <3>1. task'[v] = task[v] /\ Settles(v)
      BY <2>1 DEF SettlesOnce
    <3>2. payments[task[v].payment].order \in Orders
      BY <2>1, <3>1 DEF Settles, RefundInv, TypeInv, Busy
    <3>3. payments'[task[v].payment].order = task[v].order
      BY <3>1, <3>2 DEF Settles, Lasting
    <3>4. \A u \in Workers : Settling(u, task[v].payment, task[v].refund)' => v = u
      BY <3>1 DEF Settles, Settling
    <3> QED BY <3>1, <3>3, <3>4 DEF Settles, FailedEvent
  <2> QED BY <2>1 DEF SettlesOnce
<1>4. CancelsPaid'
  <2>1. ASSUME NEW v \in Workers, task'[v].pc \in CancelLabels,
               task'[v].view.pay = "COMPLETED"
        PROVE  \/ orders'[task'[v].order].status = "CANCELLED"
               \/ orders'[task'[v].order].pay = "COMPLETED"
    <3>1. task'[v] = task[v]
      BY <2>1
    <3>2. task[v].order \in Orders
      BY <2>1, <3>1 DEF RefundInv, TypeInv, Busy, CancelLabels
    <3> QED BY <2>1, <3>1, <3>2 DEF CancelsPaid, CancelledLasts
  <2> QED BY <2>1 DEF CancelsPaid
<1> QED BY <1>1, <1>2, <1>3, <1>4

\* A claim: of an order that was not both cancelled and paid, and now is.
LEMMA JoinNext ==
  ASSUME PayoutInv, RefundInv', Lasting, CancelledLasts,
         NEW w \in Workers, Keeps(w), NEW o \in Orders,
         UNCHANGED <<audits, refunds, logged>>,
         task[w].pc \notin RefundChain,
         task'[w].pc \in {"refund_order", "admin_refund"}, task'[w].order = o,
         orders[o].status = "CANCELLED" => orders[o].pay # "COMPLETED",
         orders'[o].pay = "COMPLETED",
         \A q \in Orders : orders[q].pay = "COMPLETED" => orders'[q].pay = "COMPLETED"
  PROVE  PayoutHandlers'
<1> USE DEF PayoutInv, PayoutHandlers, Keeps
<1>1. /\ OneOpen' /\ SettlesOnce' /\ CancelsPaid'
      /\ \A p \in Payments, n \in RefundNumbers :
           Open(p, n)' => Open(p, n) /\ payments'[p].order = payments[p].order
  BY ChainMove DEF CancelLabels
<1>2. Refunding(o) # {} => Returned(o)
  BY ChainCancelled DEF Refunding, OneRefunds
<1>3. \A q : Returned(q) => Returned(q)'
  BY AuditsStay
<1>4. \A q : q # o => Refunding(q)' = Refunding(q)
  BY DEF Refunding
<1>5. Refunding(o)' = Refunding(o) \cup {w}
  BY DEF Refunding, RefundChain, BeforeGuard
<1>6. OneRefunds'
  <2>1. ASSUME NEW v \in Workers, NEW q, task'[v].pc \in RefundChain, q = task'[v].order
        PROVE  \/ Returned(q)'
               \/ orders'[q].pay = "COMPLETED" /\ \A u \in Refunding(q)' : u = v
    <3>1. CASE v = w
      BY <1>2, <1>3, <1>5, <2>1, <3>1
    <3>2. CASE v # w /\ q = o
      BY <1>2, <1>3, <2>1, <3>2 DEF Refunding
    <3>3. CASE v # w /\ q # o
      BY <1>3, <1>4, <2>1, <3>3, ChainCancelled DEF OneRefunds
    <3> QED BY <3>1, <3>2, <3>3
  <2> QED BY <2>1 DEF OneRefunds
<1>7. OnePasses'
  BY DEF OnePasses, PastGuard
<1>8. NothingOpen'
  BY <1>1 DEF NothingOpen
<1>9. OpenIsGuarded'
  <2>1. ASSUME NEW p \in Payments, NEW n \in RefundNumbers, NEW q, Open(p, n)',
               q = payments'[p].order
        PROVE  Guarded(q)'
    <3>1. /\ Guarded(q) /\ q \in Orders /\ orders[q].status = "CANCELLED"
      BY <1>1, <2>1, OpenOf DEF OpenIsGuarded
    <3>2. CASE LiveAudits(q) # {}
      BY <3>2, AuditsStay DEF Guarded
    <3>3. CASE LiveAudits(q) = {}
      BY <1>4, <3>1, <3>3 DEF Guarded, Refunding
    <3> QED BY <3>2, <3>3
  <2> QED BY <2>1 DEF OpenIsGuarded
<1> QED BY <1>1, <1>6, <1>7, <1>8, <1>9

\* A handler finds no live refund, or picks the attempt to refund.
LEMMA PassNext ==
  ASSUME PayoutInv, RefundInv', Lasting, CancelledLasts, NEW w \in Workers,
         \/ RefundGuard(w) /\ LiveAudits(task[w].order) = {}
         \/ \E p \in Payments : RefundPickPayment(w, p)
  PROVE  PayoutHandlers'
<1> USE DEF PayoutInv, PayoutHandlers
<1>0. /\ Keeps(w) /\ task'[w].order = task[w].order
      /\ UNCHANGED <<orders, audits, refunds, logged>>
      /\ \/ /\ task[w].pc = "refund_guard" /\ task'[w].pc = "refund_payment"
            /\ LiveAudits(task[w].order) = {}
         \/ task[w].pc = "refund_payment" /\ task'[w].pc = "refund_call"
  BY DEF RefundGuard, RefundPickPayment, Goto, At, Keeps, RefundInv, TypeInv, TypeOK,
         Task, rows, gateway
<1> USE DEF Keeps
<1>1. /\ OneOpen' /\ SettlesOnce' /\ CancelsPaid'
      /\ \A p \in Payments, n \in RefundNumbers :
           Open(p, n)' => Open(p, n) /\ payments'[p].order = payments[p].order
  BY <1>0, ChainMove DEF CancelLabels
<1>2. \A q : Refunding(q)' = Refunding(q) /\ (Returned(q) => Returned(q)')
  BY <1>0, AuditsStay DEF Refunding, RefundChain, BeforeGuard, PastGuard
<1>3. OneRefunds'
  <2>1. ASSUME NEW v \in Workers, NEW q, task'[v].pc \in RefundChain, q = task'[v].order
        PROVE  \/ Returned(q)'
               \/ orders'[q].pay = "COMPLETED" /\ \A u \in Refunding(q)' : u = v
    <3>1. task[v].pc \in RefundChain /\ q = task[v].order
      BY <1>0, <2>1 DEF RefundChain, BeforeGuard, PastGuard
    <3> QED BY <1>0, <1>2, <3>1 DEF OneRefunds
  <2> QED BY <2>1 DEF OneRefunds
<1>4. \A p \in Payments, n \in RefundNumbers :
        payments[p].order = task[w].order => ~Open(p, n)
  <2>1. CASE task[w].pc = "refund_payment"
    BY <2>1 DEF NothingOpen
  <2>2. CASE task[w].pc = "refund_guard" /\ LiveAudits(task[w].order) = {}
    BY <2>2 DEF OpenIsGuarded, Guarded, Refunding, RefundChain, BeforeGuard
  <2> QED BY <1>0, <2>1, <2>2
<1>5. OnePasses'
  <2>1. ASSUME NEW v \in Workers, v # w, task[v].pc \in PastGuard,
               task[v].order = task[w].order
        PROVE  FALSE
    <3>1. CASE task[w].pc = "refund_payment"
      BY <2>1, <3>1 DEF OnePasses, PastGuard
    <3>2. CASE task[w].pc = "refund_guard" /\ LiveAudits(task[w].order) = {}
      <4>1. ~Returned(task[w].order)
        BY <3>2 DEF LiveAudits, Returned
      <4> QED BY <2>1, <3>2, <4>1 DEF OneRefunds, Refunding, RefundChain, BeforeGuard,
                                      PastGuard
    <3> QED BY <1>0, <3>1, <3>2
  <2> QED BY <1>0, <2>1 DEF OnePasses
<1>6. NothingOpen'
  <2>1. ASSUME NEW v \in Workers, NEW p \in Payments, NEW n \in RefundNumbers,
               task'[v].pc \in {"refund_payment", "refund_call"},
               payments'[p].order = task'[v].order, Open(p, n)'
        PROVE  FALSE
    BY <1>0, <1>1, <1>4, <2>1 DEF NothingOpen
  <2> QED BY <2>1 DEF NothingOpen
<1>7. OpenIsGuarded'
  <2>1. ASSUME NEW p \in Payments, NEW n \in RefundNumbers, NEW q, Open(p, n)',
               q = payments'[p].order
        PROVE  Guarded(q)'
    <3>1. Guarded(q) /\ q \in Orders /\ q # task[w].order
      BY <1>1, <1>4, <2>1, OpenOf DEF OpenIsGuarded
    <3>2. CASE LiveAudits(q) # {}
      BY <1>0, <3>2, AuditsStay DEF Guarded
    <3>3. CASE LiveAudits(q) = {}
      BY <1>0, <1>2, <3>1, <3>3 DEF Guarded, Refunding
    <3> QED BY <3>2, <3>3
  <2> QED BY <2>1 DEF OpenIsGuarded
<1> QED BY <1>1, <1>3, <1>5, <1>6, <1>7

\* A late capture's claim, and the two cancellations.
LEMMA ClaimsNext ==
  ASSUME PayoutInv, RefundInv', Lasting, CancelledLasts, NEW w \in Workers,
         \/ ClaimLateCapture(w) \/ CancelCommit(w)
         \/ \E restockItems \in BOOLEAN : AdminCancelCommit(w, restockItems)
  PROVE  PayoutHandlers'
<1> USE DEF PayoutInv, RefundInv, TypeInv
<1>1. /\ UNCHANGED <<audits, refunds, logged>>
      /\ task[w].pc \in {"late_refund"} \cup CancelLabels
      /\ Keeps(w)
  BY DEF ClaimLateCapture, CancelCommit, AdminCancelCommit, AfterCancel, Finish, Goto,
         At, gateway, CancelLabels, Keeps, TypeOK
<1>2. task[w].order \in Orders
  BY <1>1 DEF Busy, CancelLabels
<1>3. \A q \in Orders : orders[q].pay = "COMPLETED" => orders'[q].pay = "COMPLETED"
  <2>1. CASE ClaimLateCapture(w)
    BY <2>1, PayWritten DEF ClaimLateCapture
  <2>2. CASE \/ CancelCommit(w)
             \/ \E restockItems \in BOOLEAN : AdminCancelCommit(w, restockItems)
    BY <2>2, StatusKeepsPay DEF CancelCommit, AdminCancelCommit
  <2> QED BY <2>1, <2>2
<1>4. CASE Finish(w)
  <2>1. \A v \in Workers : CalmHandler(v)
    BY <1>4, CalmMoves
  <2> QED BY <1>1, <1>3, <2>1, CalmNext DEF Calm
<1>5. CASE ~Finish(w)
  <2>1. \/ ClaimLateCapture(w)
        \/ /\ task[w].pc \in CancelLabels /\ task[w].view.pay = "COMPLETED"
           /\ orders[task[w].order].status # "CANCELLED"
    BY <1>5 DEF CancelCommit, AdminCancelCommit, AfterCancel, At, CancelLabels,
         StillCancellable, NonCancellable
  <2>2. orders'[task[w].order].pay = "COMPLETED"
    <3>1. CASE ClaimLateCapture(w)
      BY <1>2, <3>1 DEF ClaimLateCapture, TypeOK, OrderRow
    <3> QED BY <1>2, <1>3, <2>1, <3>1 DEF PayoutHandlers, CancelsPaid
  <2>3. /\ task'[w].pc \in {"refund_order", "admin_refund"}
        /\ task'[w].order = task[w].order
    BY <1>5 DEF ClaimLateCapture, CancelCommit, AdminCancelCommit, AfterCancel, Goto,
         TypeOK, Task
  <2>4. orders[task[w].order].status = "CANCELLED" => orders[task[w].order].pay # "COMPLETED"
    BY <2>1 DEF ClaimLateCapture, LateCapture
  <2>5. task[w].pc \notin RefundChain
    BY <1>1 DEF CancelLabels, RefundChain, BeforeGuard, PastGuard
  <2> QED BY <1>1, <1>2, <1>3, <2>2, <2>3, <2>4, <2>5, JoinNext
<1> QED BY <1>4, <1>5

\* The gateway accepts a refund: none was open, and nobody else may ask.
LEMMA AcceptedNext ==
  ASSUME PayoutInv, RefundInv', Lasting, CancelledLasts, NEW w \in Workers,
         NEW n \in RefundNumbers, RefundAccepted(w, n)
  PROVE  PayoutHandlers'
<1> USE DEF PayoutInv, PayoutHandlers
<1>1. PICK p \in Payments : p = task[w].payment /\ payments[p].order = task[w].order
  BY DEF RefundAccepted, At, RefundInv, RefundHandlers, Decided
<1>2. PICK o \in Orders : o = task[w].order
  BY ChainCancelled DEF RefundAccepted, At, RefundChain, PastGuard
<1>3. /\ UNCHANGED <<orders, payments, audits, logged>> /\ Keeps(w)
      /\ task[w].pc = "refund_call" /\ task'[w].pc = "refund_save" /\ task'[w].order = o
  BY <1>2 DEF RefundAccepted, At, rows, Keeps, RefundInv, TypeInv, TypeOK, Task
<1> USE DEF Keeps
<1>4. \A q \in Payments, m \in RefundNumbers :
        Open(q, m)' => Open(q, m) \/ (q = p /\ m = n)
  <2>1. \A q \in Payments, m \in RefundNumbers :
          refunds'[q][m] # "none" => refunds[q][m] # "none" \/ (q = p /\ m = n)
    BY <1>1 DEF RefundAccepted, RefundInv, TypeInv, TypeOK
  <2> QED BY <1>3, <2>1 DEF Open, Settling, FailedEvent
<1>5. \A q : Refunding(q)' = Refunding(q) /\ (Returned(q) <=> Returned(q)')
  BY <1>2, <1>3 DEF Refunding, Returned, AuditsOf, RefundChain, PastGuard
<1>6. OneRefunds'
  <2>1. ASSUME NEW v \in Workers, NEW q, task'[v].pc \in RefundChain, q = task'[v].order
        PROVE  \/ Returned(q)'
               \/ orders'[q].pay = "COMPLETED" /\ \A u \in Refunding(q)' : u = v
    <3>1. task[v].pc \in RefundChain /\ q = task[v].order
      BY <1>2, <1>3, <2>1 DEF RefundChain, PastGuard
    <3> QED BY <1>3, <1>5, <3>1 DEF OneRefunds
  <2> QED BY <2>1 DEF OneRefunds
<1>7. OnePasses'
  BY <1>2, <1>3 DEF OnePasses, PastGuard
<1>8. NothingOpen'
  <2>1. ASSUME NEW v \in Workers, NEW q \in Payments, NEW m \in RefundNumbers,
               task'[v].pc \in {"refund_payment", "refund_call"},
               payments'[q].order = task'[v].order, Open(q, m)'
        PROVE  FALSE
    <3>1. task'[v] = task[v] /\ v # w
      BY <1>3, <2>1
    <3>2. CASE Open(q, m)
      BY <1>3, <2>1, <3>1, <3>2 DEF NothingOpen
    <3>3. CASE q = p /\ m = n
      BY <1>1, <1>3, <2>1, <3>1, <3>3 DEF OnePasses, PastGuard
    <3> QED BY <1>4, <2>1, <3>2, <3>3
  <2> QED BY <2>1 DEF NothingOpen
<1>9. OpenIsGuarded'
  <2>1. ASSUME NEW x, x = o PROVE Guarded(x)'
    <3>1. CASE Returned(x)
      BY <1>3, <3>1 DEF Guarded, Returned, LiveAudits, AuditsOf
    <3>2. CASE orders[x].pay = "COMPLETED" /\ \A v \in Refunding(x) : v = w
      BY <1>3, <1>5, <3>2 DEF Guarded
    <3> QED BY <1>2, <1>3, <2>1, <3>1, <3>2 DEF OneRefunds, RefundChain, PastGuard
  <2>2. ASSUME NEW q \in Payments, NEW m \in RefundNumbers, NEW x, Open(q, m),
               x = payments[q].order
        PROVE  Guarded(x)'
    <3>1. Guarded(x)
      BY <2>2 DEF OpenIsGuarded
    <3>2. CASE LiveAudits(x) # {}
      BY <1>3, <3>2, AuditsStay DEF Guarded
    <3>3. CASE LiveAudits(x) = {}
      BY <1>3, <1>5, <3>1, <3>3 DEF Guarded, Refunding
    <3> QED BY <3>2, <3>3
  <2>3. ASSUME NEW q \in Payments, NEW m \in RefundNumbers, NEW x, Open(q, m)',
               x = payments'[q].order
        PROVE  Guarded(x)'
    <3>1. CASE q = p /\ m = n
      BY <1>1, <1>2, <1>3, <2>1, <2>3, <3>1
    <3>2. CASE Open(q, m)
      BY <1>3, <2>2, <2>3, <3>2
    <3> QED BY <1>4, <2>3, <3>1, <3>2
  <2> QED BY <2>3 DEF OpenIsGuarded
<1>10. OneOpen'
  <2>1. \A q \in Payments, m \in RefundNumbers :
          payments[q].order = o => ~Open(q, m)
    BY <1>2, <1>3 DEF NothingOpen
  <2> QED BY <1>1, <1>2, <1>3, <1>4, <2>1 DEF OneOpen
<1>11. SettlesOnce'
  <2>1. ASSUME NEW v \in Workers, task'[v].pc = "refund_failed" PROVE Settles(v)'
    <3>1. task'[v] = task[v] /\ Settles(v)
      BY <1>3, <2>1 DEF SettlesOnce
    <3>2. \A u \in Workers : Settling(u, task[v].payment, task[v].refund)' => v = u
      BY <1>3, <3>1 DEF Settles, Settling
    <3> QED BY <1>3, <3>1, <3>2 DEF Settles, FailedEvent
  <2> QED BY <2>1 DEF SettlesOnce
<1>12. CancelsPaid'
  BY <1>3 DEF CancelsPaid, CancelLabels
<1> QED BY <1>6, <1>7, <1>8, <1>9, <1>10, <1>11, <1>12

\* The refund is written down: a live audit guards the order from now on.
LEMMA BankedNext ==
  ASSUME PayoutInv, RefundInv', Lasting, CancelledLasts,
         NEW w \in Workers, Keeps(w), task'[w] = IdleTask, NEW o \in Orders,
         UNCHANGED <<refunds, logged>>, orders[o].status = "CANCELLED",
         LiveAudits(o)' # {},
         Returned(o)' \/ \A v \in Refunding(o) : v = w,
         \A q : q # o => AuditsOf(q)' = AuditsOf(q),
         \A q \in Orders : q # o => orders'[q].pay = orders[q].pay
  PROVE  PayoutHandlers'
<1> USE DEF PayoutInv, PayoutHandlers, Keeps
<1>1. /\ OneOpen' /\ SettlesOnce' /\ CancelsPaid'
      /\ \A p \in Payments, n \in RefundNumbers :
           Open(p, n)' => Open(p, n) /\ payments'[p].order = payments[p].order
  <2>1. task'[w].pc \notin {"refund_failed"} \cup CancelLabels
    BY DEF IdleTask, CancelLabels
  <2>2. \A q \in Orders : \/ orders[q].pay = "COMPLETED" => orders'[q].pay = "COMPLETED"
                          \/ orders[q].status = "CANCELLED"
    OBVIOUS
  <2> QED BY <2>1, <2>2, ChainMove
<1>2. task'[w].pc \notin RefundChain
  BY DEF IdleTask, RefundChain, BeforeGuard, PastGuard
<1>3. \A q : Refunding(q)' \subseteq Refunding(q) \ {w}
  BY <1>2 DEF Refunding
<1>4. OneRefunds'
  <2>1. ASSUME NEW v \in Workers, NEW q, task'[v].pc \in RefundChain, q = task'[v].order
        PROVE  \/ Returned(q)'
               \/ orders'[q].pay = "COMPLETED" /\ \A u \in Refunding(q)' : u = v
    <3>1. v # w /\ task'[v] = task[v]
      BY <1>2, <2>1
    <3>2. CASE q = o
      BY <2>1, <3>1, <3>2 DEF Refunding
    <3>3. CASE q # o
      <4>1. q \in Orders
        BY <2>1, <3>1, ChainCancelled
      <4>2. Returned(q) => Returned(q)'
        BY <3>3 DEF Returned
      <4> QED BY <1>3, <2>1, <3>1, <3>3, <4>1, <4>2 DEF OneRefunds
    <3> QED BY <3>2, <3>3
  <2> QED BY <2>1 DEF OneRefunds
<1>5. OnePasses'
  BY <1>2 DEF OnePasses, RefundChain
<1>6. NothingOpen'
  <2>1. ASSUME NEW v \in Workers, NEW p \in Payments, NEW n \in RefundNumbers,
               task'[v].pc \in {"refund_payment", "refund_call"},
               payments'[p].order = task'[v].order, Open(p, n)'
        PROVE  FALSE
    BY <1>1, <1>2, <2>1 DEF NothingOpen, RefundChain, PastGuard
  <2> QED BY <2>1 DEF NothingOpen
<1>7. OpenIsGuarded'
  <2>1. ASSUME NEW p \in Payments, NEW n \in RefundNumbers, NEW q, Open(p, n)',
               q = payments'[p].order, q # o
        PROVE  Guarded(q)'
    <3>1. Guarded(q) /\ q \in Orders
      BY <1>1, <2>1, OpenOf DEF OpenIsGuarded
    <3>2. CASE LiveAudits(q) # {}
      BY <2>1, <3>2 DEF Guarded, LiveAudits
    <3>3. CASE LiveAudits(q) = {}
      BY <1>3, <2>1, <3>1, <3>3 DEF Guarded, Refunding
    <3> QED BY <3>2, <3>3
  <2>2. ASSUME NEW q, q = o PROVE Guarded(q)'
    BY <2>2 DEF Guarded
  <2>3. ASSUME NEW p \in Payments, NEW n \in RefundNumbers, NEW q, Open(p, n)',
               q = payments'[p].order
        PROVE  Guarded(q)'
    BY <2>1, <2>2, <2>3
  <2> QED BY <2>3 DEF OpenIsGuarded
<1> QED BY <1>1, <1>4, <1>5, <1>6, <1>7

LEMMA PersistNext ==
  ASSUME PayoutInv, RefundInv', Lasting, CancelledLasts, NEW w \in Workers,
         RefundPersist(w)
  PROVE  PayoutHandlers'
<1> USE DEF PayoutInv, PayoutHandlers
<1>1. PICK o \in Orders : o = task[w].order /\ orders[o].status = "CANCELLED"
  BY ChainCancelled DEF RefundPersist, At, RefundChain, PastGuard
<1>2. /\ Keeps(w) /\ task'[w] = IdleTask /\ UNCHANGED <<refunds, logged>>
      /\ task[w].pc = "refund_save"
  BY DEF RefundPersist, Finish, Keeps, RefundInv, TypeInv, TypeOK, gateway, At
<1>3. PICK a : /\ audits' = audits \cup {a}
               /\ a.order = o /\ a.status = "REFUND_INITIATED"
  <2> DEFINE row == [order |-> task[w].order, payment |-> task[w].payment,
                     refund |-> task[w].refund, status |-> "REFUND_INITIATED"]
  <2>1. audits' = audits \cup {row}
    BY DEF RefundPersist, AddAudit
  <2>2. row.order = o /\ row.status = "REFUND_INITIATED"
    BY <1>1
  <2> HIDE DEF row
  <2> QED BY <2>1, <2>2
<1>4. LiveAudits(o)' # {}
  BY <1>3 DEF LiveAudits, AuditsOf
<1>5. \A q : q # o => AuditsOf(q)' = AuditsOf(q)
  BY <1>3 DEF AuditsOf
<1>6. \A q \in Orders : q # o => orders'[q].pay = orders[q].pay
  BY <1>1 DEF RefundPersist, RefundInv, TypeInv, TypeOK
<1>7. Returned(o)' \/ \A v \in Refunding(o) : v = w
  <2>1. Returned(o) \/ \A v \in Refunding(o) : v = w
    BY <1>1, <1>2 DEF OneRefunds, RefundChain, PastGuard
  <2> QED BY <1>3, <2>1, AuditsStay
<1> QED BY <1>1, <1>2, <1>4, <1>5, <1>6, <1>7, BankedNext

\* A refund event that changes the rows settles an audit of its order only, and
\* never one of a refund that came back.
LEMMA AuditSettled ==
  ASSUME NEW t, NEW status, SettleAudit(t, status)
  PROVE  /\ \A q : q # t.order => AuditsOf(q)' = AuditsOf(q)
         /\ \A q : Returned(q) => Returned(q)'
         /\ status = "REFUNDED" => Returned(t.order)'
<1>1. PICK a : /\ a.order = t.order /\ a.status = status
               /\ \/ audits' = audits \cup {a}
                  \/ \E b \in AuditsOf(t.order) :
                       b.status = "REFUND_INITIATED" /\ audits' = (audits \ {b}) \cup {a}
  <2> DEFINE a == [order |-> t.order, payment |-> t.payment, refund |-> t.refund,
                   status |-> status]
  <2> QED BY DEF SettleAudit
<1>2. \A c \in audits : c \notin audits' => c.order = t.order /\ c.status # "REFUNDED"
  BY <1>1 DEF AuditsOf
<1>3. \A c \in audits' : c \notin audits => c = a
  BY <1>1
<1>4. a \in audits'
  BY <1>1
<1>5. \A q : q # t.order => AuditsOf(q)' = AuditsOf(q)
  BY <1>1, <1>2, <1>3 DEF AuditsOf
<1>6. \A q : Returned(q) => Returned(q)'
  BY <1>2 DEF Returned, AuditsOf
<1>7. status = "REFUNDED" => Returned(t.order)'
  BY <1>1, <1>4 DEF Returned, AuditsOf
<1> QED BY <1>5, <1>6, <1>7

LEMMA RefundedNextStep ==
  ASSUME PayoutInv, RefundInv', Lasting, CancelledLasts, NEW w \in Workers,
         MarkRefunded(w)
  PROVE  PayoutHandlers'
<1> USE DEF PayoutInv
<1>1. PICK o \in Orders : o = task[w].order /\ orders[o].status = "CANCELLED"
  BY DEF MarkRefunded, At, RefundInv, RefundHandlers, Decided, Cancelled, RefundingLabels
<1>2. /\ Keeps(w) /\ task'[w] = IdleTask /\ UNCHANGED <<refunds, logged>> /\ Finish(w)
  BY DEF MarkRefunded, Finish, Keeps, RefundInv, TypeInv, TypeOK, gateway
<1>3. CASE AuditFor(task[w], "REFUNDED")
  <2>1. UNCHANGED <<orders, audits>>
    BY <1>3 DEF MarkRefunded
  <2>2. \A v \in Workers : CalmHandler(v)
    BY <1>2, CalmMoves DEF RefundInv
  <2> QED BY <1>2, <2>1, <2>2, CalmNext DEF Calm
<1>4. CASE ~AuditFor(task[w], "REFUNDED")
  <2>1. SettleAudit(task[w], "REFUNDED")
    BY <1>4 DEF MarkRefunded
  <2>2. /\ \A q : q # o => AuditsOf(q)' = AuditsOf(q)
        /\ Returned(o)'
    <3>1. ASSUME NEW t, t = task[w], NEW q, q = t.order
          PROVE  /\ \A x : x # q => AuditsOf(x)' = AuditsOf(x)
                 /\ Returned(q)'
      <4>1. SettleAudit(t, "REFUNDED")
        BY <2>1, <3>1
      <4> QED BY <3>1, <4>1, AuditSettled
    <3> QED BY <1>1, <3>1
  <2>3. LiveAudits(o)' # {}
    BY <2>2 DEF Returned, LiveAudits
  <2>4. \A q \in Orders : q # o => orders'[q].pay = orders[q].pay
    BY <1>1, <1>4 DEF MarkRefunded, RefundInv, TypeInv, TypeOK
  <2> QED BY <1>1, <1>2, <2>2, <2>3, <2>4, BankedNext
<1> QED BY <1>3, <1>4

\* The failed refund was the open one of its order, and is not open any more.
LEMMA FailedNext ==
  ASSUME PayoutInv, RefundInv', Lasting, CancelledLasts, NEW w \in Workers,
         MarkRefundFailed(w)
  PROVE  PayoutHandlers'
<1> USE DEF PayoutInv, PayoutHandlers
<1>1. PICK o \in Orders : o = task[w].order /\ orders[o].status = "CANCELLED"
  BY DEF MarkRefundFailed, At, RefundInv, RefundHandlers, Decided, Cancelled,
         RefundingLabels
<1>2. PICK p \in Payments, n \in RefundNumbers :
        /\ p = task[w].payment /\ n = task[w].refund /\ payments[p].order = o
        /\ FailedEvent(p, n) \in logged
        /\ \A u \in Workers : Settling(u, p, n) => w = u
  BY <1>1 DEF SettlesOnce, Settles, MarkRefundFailed, At
<1>3. /\ Keeps(w) /\ task'[w] = IdleTask /\ UNCHANGED <<refunds, logged>>
      /\ task[w].pc = "refund_failed"
  BY DEF MarkRefundFailed, Finish, Keeps, RefundInv, TypeInv, TypeOK, gateway, At
<1>4. task'[w].pc \notin RefundChain \cup {"refund_failed"} \cup CancelLabels
  BY <1>3 DEF IdleTask, RefundChain, BeforeGuard, PastGuard, CancelLabels
<1>5. \A q \in Orders : orders[q].pay = "COMPLETED" => orders'[q].pay = "COMPLETED"
  <2>1. CASE orders[o].pay = "COMPLETED"
    BY <1>1, <2>1, PayWritten DEF MarkRefundFailed, Reopen, RefundInv
  <2>2. CASE orders[o].pay # "COMPLETED"
    BY <1>1, <2>2, PayWritten DEF MarkRefundFailed, RefundInv
  <2> QED BY <2>1, <2>2
<1>6. /\ \A q : q # o => AuditsOf(q)' = AuditsOf(q)
      /\ \A q : Returned(q) => Returned(q)'
  <2>1. ASSUME NEW t, t = task[w], NEW q, q = t.order
        PROVE  /\ \A x : x # q => AuditsOf(x)' = AuditsOf(x)
               /\ \A x : Returned(x) => Returned(x)'
    <3>1. SettleAudit(t, "FAILED")
      BY <2>1 DEF MarkRefundFailed
    <3> QED BY <2>1, <3>1, AuditSettled
  <2> QED BY <1>1, <2>1
<1> USE DEF Keeps
<1>7. /\ OneOpen' /\ SettlesOnce' /\ CancelsPaid'
      /\ \A q \in Payments, m \in RefundNumbers :
           Open(q, m)' => Open(q, m) /\ payments'[q].order = payments[q].order
  BY <1>3, <1>4, <1>5, ChainMove
<1>8. \A q \in Payments, m \in RefundNumbers :
        Open(q, m)' => payments'[q].order # o
  <2>1. ~Open(p, n)'
    BY <1>2, <1>3, <1>4 DEF Open, Settling, FailedEvent
  <2>2. Open(p, n)
    BY <1>2, <1>3 DEF Open, Settling, FailuresTold
  <2> QED BY <1>2, <1>7, <2>1, <2>2 DEF OneOpen
<1>9. \A q : Refunding(q)' \subseteq Refunding(q)
  BY <1>3, <1>4 DEF Refunding
<1>10. OneRefunds'
  <2>1. ASSUME NEW v \in Workers, NEW q, task'[v].pc \in RefundChain, q = task'[v].order
        PROVE  \/ Returned(q)'
               \/ orders'[q].pay = "COMPLETED" /\ \A u \in Refunding(q)' : u = v
    <3>1. v # w /\ task'[v] = task[v] /\ q \in Orders
      BY <1>3, <1>4, <2>1, ChainCancelled
    <3> QED BY <1>5, <1>6, <1>9, <2>1, <3>1 DEF OneRefunds
  <2> QED BY <2>1 DEF OneRefunds
<1>11. OnePasses'
  BY <1>3, <1>4 DEF OnePasses, RefundChain
<1>12. NothingOpen'
  <2>1. ASSUME NEW v \in Workers, NEW q \in Payments, NEW m \in RefundNumbers,
               task'[v].pc \in {"refund_payment", "refund_call"},
               payments'[q].order = task'[v].order, Open(q, m)'
        PROVE  FALSE
    BY <1>3, <1>4, <1>7, <2>1 DEF NothingOpen, RefundChain, PastGuard
  <2> QED BY <2>1 DEF NothingOpen
<1>13. OpenIsGuarded'
  <2>1. ASSUME NEW q \in Payments, NEW m \in RefundNumbers, NEW x, Open(q, m)',
               x = payments'[q].order
        PROVE  Guarded(x)'
    <3>1. Guarded(x) /\ x \in Orders /\ x # o
      BY <1>7, <1>8, <2>1, OpenOf DEF OpenIsGuarded
    <3>2. CASE LiveAudits(x) # {}
      BY <1>6, <3>1, <3>2 DEF Guarded, LiveAudits
    <3>3. CASE LiveAudits(x) = {}
      BY <1>3, <1>5, <1>9, <3>1, <3>3 DEF Guarded, Refunding
    <3> QED BY <3>2, <3>3
  <2> QED BY <2>1 DEF OpenIsGuarded
<1> QED BY <1>7, <1>10, <1>11, <1>12, <1>13

\* The news of a failure: nobody else has it, so nothing else is opened by it.
LEMMA FailureHeardNext ==
  ASSUME PayoutInv, RefundInv', Lasting, CancelledLasts, NEW w \in Workers,
         NEW e \in Event, ReceiveRefundFailed(w, e)
  PROVE  PayoutHandlers'
<1> USE DEF PayoutInv, PayoutHandlers
<1>1. /\ UNCHANGED <<orders, payments, audits, refunds>>
      /\ logged' = logged \cup {e} /\ e \in sent \ logged /\ e.kind = "refundFailed"
      /\ task[w].pc = "idle"
  BY DEF ReceiveRefundFailed, BeginRefundEvent, At, rows, gateway
<1>2. CASE UNCHANGED task
  BY <1>1, <1>2, CalmMoves, CalmNext DEF Calm, RefundInv
<1>3. CASE BeginRefundEvent(w, "refund_failed", e)
  <2>1. /\ Keeps(w) /\ task'[w].pc = "refund_failed" /\ task'[w].payment = e.payment
        /\ task'[w].refund = e.refund /\ task'[w].order = payments[e.payment].order
    BY <1>3 DEF BeginRefundEvent, Keeps, RefundInv, TypeInv, TypeOK
  <2> USE DEF Keeps
  <2>2. /\ e.payment \in Payments /\ e.refund \in RefundNumbers
        /\ \A q \in Payments, m \in RefundNumbers :
             FailedEvent(q, m) = e <=> q = e.payment /\ m = e.refund
    BY <1>1 DEF Event, FailuresTold, FailedEvent
  <2>3. \A q \in Payments, m \in RefundNumbers : Open(q, m)' <=> Open(q, m)
    <3>1. ASSUME NEW q \in Payments, NEW m \in RefundNumbers, Open(q, m)'
          PROVE  Open(q, m)
      BY <1>1, <2>1, <2>2, <3>1 DEF Open, Settling, FailedEvent
    <3>2. ASSUME NEW q \in Payments, NEW m \in RefundNumbers, Open(q, m)
          PROVE  Open(q, m)'
      <4>1. CASE FailedEvent(q, m) = e
        BY <1>1, <2>1, <2>2, <3>2, <4>1 DEF Open, Settling
      <4>2. CASE FailedEvent(q, m) # e /\ FailedEvent(q, m) \notin logged
        BY <1>1, <3>2, <4>2 DEF Open, FailedEvent
      <4>3. CASE \E v \in Workers : Settling(v, q, m)
        BY <1>1, <2>1, <3>2, <4>3 DEF Open, Settling
      <4> QED BY <3>2, <4>1, <4>2, <4>3 DEF Open
    <3> QED BY <3>1, <3>2
  <2>4. \A q : /\ Refunding(q)' = Refunding(q)
               /\ Returned(q)' <=> Returned(q)
               /\ (LiveAudits(q) # {})' <=> LiveAudits(q) # {}
    BY <1>1, <2>1 DEF Refunding, Returned, LiveAudits, AuditsOf, RefundChain,
         BeforeGuard, PastGuard
  <2>5. OneRefunds'
    <3>1. ASSUME NEW v \in Workers, NEW q, task'[v].pc \in RefundChain, q = task'[v].order
          PROVE  \/ Returned(q)'
                 \/ orders'[q].pay = "COMPLETED" /\ \A u \in Refunding(q)' : u = v
      <4>1. task'[v] = task[v]
        BY <2>1, <3>1 DEF RefundChain, BeforeGuard, PastGuard
      <4> QED BY <1>1, <2>4, <3>1, <4>1 DEF OneRefunds
    <3> QED BY <3>1 DEF OneRefunds
  <2>6. OnePasses'
    BY <2>1 DEF OnePasses, PastGuard
  <2>7. NothingOpen'
    <3>1. ASSUME NEW v \in Workers, NEW q \in Payments, NEW m \in RefundNumbers,
                 task'[v].pc \in {"refund_payment", "refund_call"},
                 payments'[q].order = task'[v].order, Open(q, m)'
          PROVE  FALSE
      <4>1. task'[v] = task[v]
        BY <2>1, <3>1
      <4> QED BY <1>1, <2>3, <3>1, <4>1 DEF NothingOpen
    <3> QED BY <3>1 DEF NothingOpen
  <2>8. OpenIsGuarded'
    <3>1. ASSUME NEW q \in Payments, NEW m \in RefundNumbers, NEW x, Open(q, m)',
                 x = payments'[q].order
          PROVE  Guarded(x)'
      <4>1. Guarded(x)
        BY <1>1, <2>3, <3>1 DEF OpenIsGuarded
      <4>2. CASE LiveAudits(x) # {}
        BY <2>4, <4>2 DEF Guarded
      <4>3. CASE LiveAudits(x) = {}
        BY <1>1, <2>1, <2>4, <4>1, <4>3 DEF Guarded, Refunding, RefundChain
      <4> QED BY <4>2, <4>3
    <3> QED BY <3>1 DEF OpenIsGuarded
  <2>9. OneOpen'
    BY <1>1, <2>3 DEF OneOpen
  <2>10. SettlesOnce'
    <3>1. ASSUME NEW v \in Workers, task'[v].pc = "refund_failed", v # w
          PROVE  Settles(v)'
      <4>1. task'[v] = task[v] /\ Settles(v)
        BY <2>1, <3>1 DEF SettlesOnce
      <4>2. FailedEvent(task[v].payment, task[v].refund) # e
        BY <1>1, <4>1 DEF Settles
      <4>3. \A u \in Workers : Settling(u, task[v].payment, task[v].refund)' => v = u
        BY <2>1, <2>2, <4>1, <4>2 DEF Settles, Settling
      <4> QED BY <1>1, <4>1, <4>3 DEF Settles, FailedEvent
    <3>2. ASSUME NEW v \in Workers, v = w PROVE Settles(v)'
      <4>1. ASSUME NEW u \in Workers, u # w, Settling(u, e.payment, e.refund)'
            PROVE  FALSE
        <5>1. task[u].pc = "refund_failed" /\ task[u].payment = e.payment
              /\ task[u].refund = e.refund
          BY <2>1, <4>1 DEF Settling
        <5> QED BY <1>1, <2>2, <5>1 DEF SettlesOnce, Settles
      <4>2. FailedEvent(e.payment, e.refund) \in logged'
        BY <1>1, <2>2
      <4> QED BY <1>1, <2>1, <2>2, <3>2, <4>1, <4>2 DEF Settles, FailedEvent, Settling
    <3> QED BY <3>1, <3>2 DEF SettlesOnce
  <2>11. CancelsPaid'
    BY <1>1, <2>1 DEF CancelsPaid, CancelLabels
  <2> QED BY <2>5, <2>6, <2>7, <2>8, <2>9, <2>10, <2>11
<1> QED BY <1>2, <1>3 DEF ReceiveRefundFailed

-----------------------------------------------------------------------------
(* All steps. *)

\* Only a delivery logs an event, and it logs one.
LEMMA LoggedByDelivery ==
  ASSUME [Next]_vars
  PROVE  \/ UNCHANGED logged
         \/ \E w \in Workers, e \in Event : Deliver(w, e) /\ logged' = logged \cup {e}
<1>1. ASSUME NEW w \in Workers, Request(w) PROVE UNCHANGED logged
  BY <1>1 DEF Request, PlaceOnlineOrder, PlaceCodOrder, ReplayPlaceOrder,
       CreatePaymentOrder, RetryPayment, CancelOrder, AdminCancelOrder, VerifyPayment
<1>2. ASSUME NEW w \in Workers, NEW e \in Event, Deliver(w, e)
      PROVE  logged' = logged \cup {e}
  BY <1>2 DEF Deliver, ReceiveCaptured, ReceiveFailed, ReceiveRefundDone,
       ReceiveRefundFailed, LogEvent
<1>3. ASSUME NEW w \in Workers, Continue(w) PROVE UNCHANGED logged
  BY <1>3 DEF Continue, PrepareOnlinePayment, InsertPayment,
       GatewayOrderFails, RejectSignature, MarkPaymentCompleted, PromotePending,
       PromoteVisible, PromoteNothing, ClaimLateCapture, SkipLateCapture,
       MarkPaymentFailed, RefundReadOrder, RefundGuard, RefundCodManually,
       RefundWithoutCapture, RefundPickPayment, RefundAccepted, RefundRejected,
       RefundPersist, RefundPersistFails, MarkRefunded, MarkRefundFailed, CancelCommit,
       CancelConflict, AdminCancelCommit, AdminCancelConflict, AdminRefundGuard,
       ShipOnce, ShipRead, ShipLock, ShipSave, ShipFails
<1>4. ASSUME Environment PROVE UNCHANGED logged
  BY <1>4 DEF Environment, GatewayAuthorize, GatewayCapture, GatewayDecline,
       GatewayRefundEnds, WindowExpires, CancelAbandonedOrder, ConfirmCod,
       DatabaseError, Crash
<1>5. CASE UNCHANGED vars
  BY <1>5 DEF vars
<1> QED BY <1>1, <1>2, <1>3, <1>4, <1>5 DEF Next

\* An event is logged after it was sent.
LEMMA LoggedGrows == ASSUME [Next]_vars PROVE logged' \subseteq logged \cup sent
<1>1. ASSUME NEW w \in Workers, NEW e \in Event, Deliver(w, e) PROVE e \in sent
  BY <1>1 DEF Deliver, ReceiveCaptured, ReceiveFailed, ReceiveRefundDone,
       ReceiveRefundFailed, LogEvent
<1> QED BY <1>1, LoggedByDelivery

LEMMA FailuresNext ==
  ASSUME TypeInv, FailuresTold, [Next]_vars PROVE FailuresTold'
<1> USE DEF FailuresTold
<1>1. ASSUME \A p \in Payments, n \in RefundNumbers :
               refunds[p][n] = "failed" => refunds'[p][n] = "failed",
             \A e \in sent' \ sent : e.kind = "refundFailed" =>
               e.refund \in RefundNumbers /\ refunds'[e.payment][e.refund] = "failed"
      PROVE  FailuresTold'
  <2>1. ASSUME NEW p \in Payments, NEW n \in RefundNumbers,
               FailedEvent(p, n) \in sent' \cup logged'
        PROVE  refunds'[p][n] = "failed"
    <3>1. CASE FailedEvent(p, n) \in sent \cup logged
      BY <1>1, <3>1
    <3>2. CASE FailedEvent(p, n) \in sent' \ sent
      BY <1>1, <3>2 DEF FailedEvent
    <3> QED BY <2>1, <3>1, <3>2, LoggedGrows
  <2> QED BY <1>1, <2>1 DEF FailedEvent
<1>2. CASE UNCHANGED gateway
  BY <1>1, <1>2 DEF gateway
<1>3. ASSUME NEW w \in Workers, NEW n \in RefundNumbers, RefundAccepted(w, n)
      PROVE  FailuresTold'
  <2>1. \A e \in sent' \ sent : e.kind # "refundFailed"
    BY <1>3 DEF RefundAccepted, Announce
  <2>2. task[w].payment \in Payments
    BY <1>3 DEF RefundAccepted, TypeInv, TypeOK
  <2>3. \A p \in Payments, m \in RefundNumbers :
          refunds[p][m] = "failed" => refunds'[p][m] = "failed"
    BY <1>3, <2>2 DEF RefundAccepted, TypeInv, TypeOK
  <2> QED BY <1>1, <2>1, <2>3
<1>4. ASSUME NEW p \in Payments,
             GatewayAuthorize(p) \/ GatewayCapture(p) \/ GatewayDecline(p)
      PROVE  FailuresTold'
  <2>1. UNCHANGED refunds /\ \A e \in sent' \ sent : e.kind # "refundFailed"
    BY <1>4 DEF GatewayAuthorize, GatewayCapture, GatewayDecline, Announce, PaymentEvent
  <2> QED BY <1>1, <2>1
<1>5. ASSUME NEW p \in Payments, NEW n \in RefundNumbers,
             NEW outcome \in {"processed", "failed"}, GatewayRefundEnds(p, n, outcome)
      PROVE  FailuresTold'
  <2>1. refunds'[p][n] = outcome
    BY <1>5 DEF GatewayRefundEnds, TypeInv, TypeOK
  <2>2. \A e \in sent' \ sent : e.kind = "refundFailed" =>
          e.payment = p /\ e.refund = n /\ outcome = "failed"
    BY <1>5 DEF GatewayRefundEnds, Announce
  <2>3. \A q \in Payments, m \in RefundNumbers :
          refunds[q][m] = "failed" => refunds'[q][m] = "failed"
    BY <1>5 DEF GatewayRefundEnds, TypeInv, TypeOK
  <2> QED BY <1>1, <2>1, <2>2, <2>3
<1> QED BY <1>2, <1>3, <1>4, <1>5, GatewaySteps

LEMMA PayoutInit == Init => PayoutInv
<1> SUFFICES ASSUME Init PROVE PayoutInv
  OBVIOUS
<1>1. /\ \A w \in Workers : task[w].pc = "idle"
      /\ \A p \in Payments, n \in RefundNumbers : refunds[p][n] = "none"
      /\ sent = {} /\ logged = {}
  BY DEF Init, IdleTask
<1>2. FailuresTold
  BY <1>1 DEF FailuresTold
<1>3. PayoutHandlers
  BY <1>1 DEF PayoutHandlers, OneRefunds, OnePasses, NothingOpen, OpenIsGuarded, OneOpen,
       SettlesOnce, CancelsPaid, Open, Settling, RefundChain, BeforeGuard, PastGuard,
       CancelLabels
<1> QED BY <1>2, <1>3, RefundInit DEF PayoutInv

LEMMA PayoutNext ==
  ASSUME PayoutInv, [Next]_vars, ~ShippingConfigured PROVE PayoutInv'
<1> USE DEF PayoutInv
<1>1. RefundInv' /\ CancelledLasts /\ Lasting
  BY RefundNext, Lasts DEF RefundInv
<1>2. FailuresTold'
  BY FailuresNext DEF RefundInv
<1>3. ASSUME Calm PROVE PayoutHandlers'
  BY <1>1, <1>3, CalmNext
<1>4. ASSUME NEW w \in Workers, Continue(w) PROVE PayoutHandlers'
  <2>1. CASE \/ ClaimLateCapture(w) \/ CancelCommit(w)
             \/ \E restockItems \in BOOLEAN : AdminCancelCommit(w, restockItems)
    BY <1>1, <2>1, ClaimsNext
  <2>2. CASE RefundGuard(w) /\ LiveAudits(task[w].order) = {}
    BY <1>1, <2>2, PassNext
  <2>3. CASE RefundGuard(w) /\ LiveAudits(task[w].order) # {}
    <3>1. Finish(w) /\ UNCHANGED <<orders, audits, refunds, logged>>
      BY <2>3 DEF RefundGuard, rows, gateway
    <3>2. \A v \in Workers : CalmHandler(v)
      BY <3>1, CalmMoves DEF RefundInv
    <3> QED BY <1>3, <3>1, <3>2 DEF Calm
  <2>4. CASE \E p \in Payments : RefundPickPayment(w, p)
    BY <1>1, <2>4, PassNext
  <2>5. CASE \E n \in RefundNumbers : RefundAccepted(w, n)
    BY <1>1, <2>5, AcceptedNext
  <2>6. CASE RefundPersist(w) \/ MarkRefunded(w) \/ MarkRefundFailed(w)
    BY <1>1, <2>6, PersistNext, RefundedNextStep, FailedNext
  <2>7. CASE ShipOnce(w) \/ ShipRead(w) \/ ShipLock(w) \/ ShipSave(w) \/ ShipFails(w)
    BY <2>7 DEF RefundInv, RefundHandlers, Decided, ShipLabels, ShipOnce, ShipRead,
         ShipLock, ShipSave, ShipFails, At
  <2> QED BY <1>3, <1>4, <2>1, <2>2, <2>3, <2>4, <2>5, <2>6, <2>7, CalmContinue
          DEF Continue
<1>5. ASSUME NEW w \in Workers, NEW e \in Event, Deliver(w, e) PROVE PayoutHandlers'
  BY <1>1, <1>3, <1>5, CalmDeliver, FailureHeardNext DEF Deliver
<1>6. ASSUME NEW w \in Workers, Request(w) PROVE PayoutHandlers'
  BY <1>3, <1>6, CalmRequest
<1>7. ASSUME Environment PROVE PayoutHandlers'
  <2>1. ASSUME NEW w \in Workers, DatabaseError(w) PROVE PayoutHandlers'
    BY <1>3, <2>1, CalmContinue
  <2> QED BY <1>3, <1>7, <2>1, CalmEnvironment
<1>8. ASSUME UNCHANGED vars PROVE PayoutHandlers'
  BY <1>3, <1>8 DEF vars, Calm, CalmHandler
<1> QED BY <1>1, <1>2, <1>4, <1>5, <1>6, <1>7, <1>8 DEF Next

LEMMA PayoutInvariant == ASSUME ~ShippingConfigured PROVE Spec => []PayoutInv
<1>1. PayoutInv /\ [Next]_vars => PayoutInv'
  BY PayoutNext
<1> QED BY PayoutInit, <1>1, PTL DEF Spec

\* At most one refund of an order is pending or processed at the gateway: the
\* paymentStatus check, the live-refund guard and the callers' claims let no two
\* handlers through, with any number of requests, processes, crashes and events.
THEOREM OneRefundIsLive ==
  ASSUME ~ShippingConfigured PROVE Spec => []OneLiveRefund
<1>1. PayoutInv => OneLiveRefund
  <2>1. ASSUME PayoutInv, NEW p \in Payments, NEW n \in RefundNumbers, Live(p, n)
        PROVE  Open(p, n)
    BY <2>1 DEF PayoutInv, FailuresTold, Live, Open
  <2> QED BY <2>1 DEF OneLiveRefund, PayoutInv, PayoutHandlers, OneOpen
<1> QED BY PayoutInvariant, <1>1, PTL

-----------------------------------------------------------------------------
(* Once nothing is in flight for an order, its captured money is accounted   *)
(* for.  The invariant says who still owes the answer: the gateway's event  *)
(* is waiting, a handler is answering it, the order stands and is paid, or  *)
(* it is cancelled and refunded, flagged, or about to be.                   *)
(*                                                                          *)
(* The assumptions are the operations without a counterexample (README.md,  *)
(* "Divergences"): no shipment creation, no fault that ends a handler       *)
(* half-way, no admin cancellation, no customer's cancellation of a COD     *)
(* order, and a webhook that hears of captures.                             *)

SettlementAssumption ==
  /\ ~ShippingConfigured
  /\ {"crash", "db"} \cap Faults = {}
  /\ "adminCancel" \notin Ops
  /\ "placeCod" \notin Ops \/ "cancel" \notin Ops
  /\ {"captured", "orderPaid"} \cap Subscribed # {}

\* A handler that knows of a capture and has not answered it.
OnItsWay == {"capture", "promote", "late_refund"}

Answering(o) == \E w \in Workers : task[w].order = o /\ task[w].pc \in OnItsWay

Standing(o) == orders[o].status = "PLACED" /\ orders[o].pay = "COMPLETED"

\* Refunded or flagged, or a handler is about to.
Kept(o) == AuditsOf(o) # {} \/ Refunding(o) # {}

Accounted(o) ==
  \/ Answering(o)
  \/ Standing(o)
  \/ orders[o].status = "CANCELLED" /\ Kept(o)

CapturesHeard ==
  \A p \in captured :
    \/ Accounted(payments[p].order)
    \/ \E kind \in {"captured", "orderPaid"} : PaymentEvent(kind, p) \in sent \ logged

\* A redelivered capture is dropped when its attempt is COMPLETED: rightly so.
MarkedAccounted ==
  \A p \in Payments :
    payments[p].status = "COMPLETED" =>
      payments[p].order \in Orders /\ Accounted(payments[p].order)

\* A late capture is skipped when the order's money is being refunded: rightly so.
PaidCancelled ==
  \A o \in Orders :
    orders[o].status = "CANCELLED" /\ orders[o].pay \in MoneyStatus => Kept(o)

\* Without a courier, these are the rows there are.
RowReached(row) ==
  /\ row.status \in {"NONE", "PENDING", "PLACED", "CANCELLED"}
  /\ row.status = "PLACED" => row.cod \/ row.pay = "COMPLETED"
  /\ row.status \in {"NONE", "PENDING"} => row.pay # "COMPLETED"
  /\ row.cod => "placeCod" \in Ops

RowsReached == \A o \in Orders : RowReached(orders[o])

AttemptsOfOrders ==
  \A p \in Payments : payments[p].order \in Orders => Exists(payments[p].order)

\* What a handler that holds `t` may rely on.
Briefed(t) ==
  /\ t.pc # "idle" => Exists(t.order)
  /\ t.pc = "capture" => t.payment \in Payments /\ payments[t.payment].order = t.order
  /\ t.pc = "late_refund" => orders[t.order].status = "CANCELLED" \/ Standing(t.order)
  /\ t.pc = "cancel" => t.view.pay = "COMPLETED"
  /\ t.pc \notin {"admin_cancel", "admin_refund"}

Briefs == \A w \in Workers : Briefed(task[w])

Told == logged \subseteq sent

SettlementInv ==
  /\ PayoutInv /\ CapturesHeard /\ MarkedAccounted /\ PaidCancelled
  /\ RowsReached /\ AttemptsOfOrders /\ Briefs /\ Told

-----------------------------------------------------------------------------
(* How the rows move. *)

Refunds(o) == \E w \in Workers : task'[w].order = o /\ task'[w].pc = "refund_order"

SameRow(o) ==
  /\ orders'[o].status = orders[o].status /\ orders'[o].pay = orders[o].pay
  /\ orders'[o].cod = orders[o].cod

\* The order is placed, or becomes visible and paid, or a COD order is confirmed.
Opens(o) ==
  /\ orders[o].status # "CANCELLED"
  /\ \/ /\ orders[o].status = "NONE" /\ orders'[o].status = "PENDING"
        /\ orders'[o].pay = orders[o].pay /\ orders'[o].cod = orders[o].cod
     \/ /\ orders[o].status = "NONE" /\ orders'[o].status = "PLACED"
        /\ "placeCod" \in Ops /\ orders'[o].cod
     \/ /\ orders[o].status # "NONE" /\ orders'[o].status = "PLACED"
        /\ orders'[o].pay = "COMPLETED" /\ orders'[o].cod = orders[o].cod
     \/ /\ orders[o].status # "NONE" /\ orders'[o].status = "PLACED"
        /\ orders[o].pay # "COMPLETED" /\ orders[o].cod /\ orders'[o].cod

\* A failed attempt makes an unpaid order FAILED.
Fails(o) ==
  /\ orders[o].pay # "COMPLETED" /\ orders'[o].pay = "FAILED"
  /\ orders'[o].status = orders[o].status /\ orders'[o].cod = orders[o].cod

\* The order is cancelled: hidden and unpaid, or paid and to be refunded.
Closes(o) ==
  /\ orders[o].status # "CANCELLED" /\ orders'[o].status = "CANCELLED"
  /\ orders'[o].pay = orders[o].pay /\ orders'[o].cod = orders[o].cod
  /\ \/ orders[o].status = "PENDING" /\ orders[o].pay \in {"PENDING", "FAILED"}
     \/ Refunds(o)

\* The money of a cancelled order is claimed, or what became of it is recorded.
Repays(o) ==
  /\ orders[o].status = "CANCELLED" /\ orders'[o].status = "CANCELLED"
  /\ orders'[o].cod = orders[o].cod
  /\ Refunds(o) \/ AuditsOf(o)' # {}

RowMoves ==
  \A o \in Orders : SameRow(o) \/ Opens(o) \/ Fails(o) \/ Closes(o) \/ Repays(o)

\* Steps that leave the rows alone.
LEMMA RowsStay == ASSUME UNCHANGED orders PROVE RowMoves
BY DEF RowMoves, SameRow

\* Steps that write one row.
LEMMA RowMovesAt ==
  ASSUME TypeInv, NEW x \in Orders,
         \A o \in Orders : o # x => orders'[o] = orders[o],
         SameRow(x) \/ Opens(x) \/ Fails(x) \/ Closes(x) \/ Repays(x)
  PROVE  RowMoves
<1>1. \A o \in Orders : o # x => SameRow(o)
  BY DEF SameRow
<1> QED BY <1>1 DEF RowMoves

LEMMA RowMovesRequest ==
  ASSUME SettlementInv, ~ShippingConfigured, NEW w \in Workers, Request(w)
  PROVE  RowMoves
<1> USE DEF SettlementInv, PayoutInv, RefundInv
<1>1. ASSUME NEW o \in Orders, PlaceOnlineOrder(w, o) \/ PlaceCodOrder(w, o)
      PROVE  RowMoves
  <2>1. \A q \in Orders : q # o => orders'[q] = orders[q]
    BY <1>1 DEF PlaceOnlineOrder, PlaceCodOrder, TypeInv, TypeOK
  <2>2. Opens(o)
    <3>1. CASE PlaceOnlineOrder(w, o)
      BY <3>1 DEF PlaceOnlineOrder, Exists, TypeInv, TypeOK, OrderRow, Opens
    <3>2. CASE PlaceCodOrder(w, o)
      BY <3>2 DEF PlaceCodOrder, Exists, TypeInv, TypeOK, OrderRow, Opens
    <3> QED BY <1>1, <3>1, <3>2
  <2> QED BY <2>1, <2>2, RowMovesAt
<1>2. \/ \E o \in Orders : PlaceOnlineOrder(w, o) \/ PlaceCodOrder(w, o)
      \/ UNCHANGED orders
  BY DEF Request, ReplayPlaceOrder, CreatePaymentOrder, RetryPayment, CancelOrder,
         AdminCancelOrder, VerifyPayment, rows
<1> QED BY <1>1, <1>2, RowsStay

\* A settled audit is an audit of the order.
LEMMA SettledAudits ==
  ASSUME NEW t, NEW status, SettleAudit(t, status)
  PROVE  \A q : AuditsOf(q) # {} \/ q = t.order => AuditsOf(q)' # {}
<1>1. PICK a : a.order = t.order /\ a \in audits'
  <2> DEFINE row == [order |-> t.order, payment |-> t.payment, refund |-> t.refund,
                     status |-> status]
  <2>1. row \in audits' /\ row.order = t.order
    BY DEF SettleAudit
  <2> HIDE DEF row
  <2> QED BY <2>1
<1>2. \A q : q # t.order => AuditsOf(q)' = AuditsOf(q)
  BY AuditSettled
<1>3. AuditsOf(t.order)' # {}
  BY <1>1 DEF AuditsOf
<1>4. ASSUME NEW q, q = t.order PROVE AuditsOf(q)' # {}
  BY <1>1, <1>4 DEF AuditsOf
<1> QED BY <1>2, <1>4

\* Audits are replaced, never lost.
LEMMA AuditsLast ==
  ASSUME [Next]_vars PROVE \A o : AuditsOf(o) # {} => AuditsOf(o)' # {}
<1>1. ASSUME audits \subseteq audits' PROVE \A o : AuditsOf(o) # {} => AuditsOf(o)' # {}
  BY <1>1, AuditsStay
<1>2. ASSUME NEW w \in Workers, NEW t, NEW status, SettleAudit(t, status)
      PROVE  \A o : AuditsOf(o) # {} => AuditsOf(o)' # {}
  BY <1>2, SettledAudits
<1>3. ASSUME NEW w \in Workers, Request(w) PROVE UNCHANGED audits
  BY <1>3 DEF Request, PlaceOnlineOrder, PlaceCodOrder, ReplayPlaceOrder,
       CreatePaymentOrder, RetryPayment, CancelOrder, AdminCancelOrder, VerifyPayment, rows
<1>4. ASSUME NEW w \in Workers, NEW e \in Event, Deliver(w, e) PROVE UNCHANGED audits
  BY <1>4 DEF Deliver, ReceiveCaptured, ReceiveFailed, ReceiveRefundDone,
       ReceiveRefundFailed, rows
<1>5. ASSUME NEW w \in Workers, Continue(w)
      PROVE  \/ audits \subseteq audits'
             \/ \E t, status : SettleAudit(t, status)
  BY <1>5 DEF Continue, PrepareOnlinePayment, InsertPayment,
       GatewayOrderFails, RejectSignature, MarkPaymentCompleted, PromotePending,
       PromoteVisible, PromoteNothing, ClaimLateCapture, SkipLateCapture,
       MarkPaymentFailed, RefundReadOrder, RefundGuard, RefundCodManually,
       RefundWithoutCapture, RefundPickPayment, RefundAccepted, RefundRejected,
       RefundPersist, RefundPersistFails, MarkRefunded, MarkRefundFailed, CancelCommit,
       CancelConflict, AdminCancelCommit, AdminCancelConflict, AdminRefundGuard,
       ShipOnce, ShipRead, ShipLock, ShipSave, ShipFails, AddAudit, rows
<1>6. ASSUME Environment PROVE UNCHANGED audits
  BY <1>6 DEF Environment, GatewayAuthorize, GatewayCapture, GatewayDecline,
       GatewayRefundEnds, WindowExpires, CancelAbandonedOrder, ConfirmCod,
       DatabaseError, Crash, rows
<1>7. ASSUME UNCHANGED vars PROVE UNCHANGED audits
  BY <1>7 DEF vars
<1> QED BY <1>1, <1>2, <1>3, <1>4, <1>5, <1>6, <1>7 DEF Next

LEMMA RowMovesContinue ==
  ASSUME SettlementInv, RefundInv', CancelledLasts, NEW w \in Workers, Continue(w)
  PROVE  RowMoves
<1> USE DEF SettlementInv, PayoutInv, RefundInv
<1>0. Briefed(task[w]) /\ Decided(task[w])
  BY DEF Briefs, RefundHandlers
<1>1. PICK o \in Orders : o = task[w].order
  BY ContinueBusy DEF TypeInv, Busy
<1>2. RowReached(orders[o])
  BY DEF RowsReached
<1>3. CASE PromotePending(w) \/ PromoteVisible(w)
  <2>2. \A q \in Orders : q # o => orders'[q] = orders[q]
    BY <1>1, <1>3 DEF PromotePending, PromoteVisible, TypeInv, TypeOK
  <2>3. Opens(o)
    <3>1. CASE PromotePending(w)
      BY <1>1, <3>1 DEF PromotePending, ClaimablePending, Opens, TypeInv, TypeOK, OrderRow
    <3>2. CASE PromoteVisible(w)
      BY <1>1, <1>2, <3>2 DEF PromoteVisible, ClaimableVisible, Opens, TypeInv, TypeOK, OrderRow,
           RowReached
    <3> QED BY <1>3, <3>1, <3>2
  <2> QED BY <2>2, <2>3, RowMovesAt
<1>4. CASE ClaimLateCapture(w)
  <2>2. \A q \in Orders : q # o => orders'[q] = orders[q]
    BY <1>1, <1>4 DEF ClaimLateCapture, TypeInv, TypeOK
  <2>3. Refunds(o)
    BY <1>1, <1>4 DEF ClaimLateCapture, Goto, Refunds, TypeInv, TypeOK, Task
  <2>4. Repays(o)
    BY <1>1, <1>4, <2>3 DEF ClaimLateCapture, LateCapture, Repays, TypeInv, TypeOK, OrderRow
  <2> QED BY <2>2, <2>4, RowMovesAt
<1>5. CASE MarkPaymentFailed(w)
  <2>2. \A q \in Orders : q # o => orders'[q] = orders[q]
    BY <1>1, <1>5 DEF MarkPaymentFailed, TypeInv, TypeOK
  <2>3. SameRow(o) \/ Fails(o)
    BY <1>1, <1>5 DEF MarkPaymentFailed, SameRow, Fails, TypeInv, TypeOK, OrderRow
  <2> QED BY <2>2, <2>3, RowMovesAt
<1>6. CASE RefundPersist(w) \/ MarkRefunded(w) \/ MarkRefundFailed(w)
  <2>1. orders[o].status = "CANCELLED"
    BY <1>0, <1>1, <1>6 DEF RefundPersist, MarkRefunded, MarkRefundFailed, At, Decided, Cancelled,
         RefundingLabels
  <2>2. CASE UNCHANGED orders
    BY <2>2, RowsStay
  <2>3. CASE ~UNCHANGED orders
    <3>1. \A q \in Orders : q # o => orders'[q] = orders[q]
      BY <1>1, <1>6 DEF RefundPersist, MarkRefunded, MarkRefundFailed, TypeInv, TypeOK
    <3>2. orders'[o].cod = orders[o].cod
      <4>1. CASE RefundPersist(w) \/ MarkRefundFailed(w)
        BY <1>1, <4>1 DEF RefundPersist, MarkRefundFailed, TypeInv, TypeOK, OrderRow
      <4>2. CASE MarkRefunded(w)
        BY <1>1, <2>3, <4>2 DEF MarkRefunded, TypeInv, TypeOK, OrderRow
      <4> QED BY <1>6, <4>1, <4>2
    <3>3. AuditsOf(o)' # {}
      <4>1. CASE RefundPersist(w)
        <5> DEFINE row == [order |-> o, payment |-> task[w].payment,
                           refund |-> task[w].refund, status |-> "REFUND_INITIATED"]
        <5>1. row \in audits' /\ row.order = o
          BY <1>1, <4>1 DEF RefundPersist, AddAudit
        <5> HIDE DEF row
        <5> QED BY <5>1 DEF AuditsOf
      <4>2. CASE MarkRefunded(w) \/ MarkRefundFailed(w)
        <5>1. ASSUME NEW t, t = task[w], NEW q, q = t.order PROVE AuditsOf(q)' # {}
          <6>1. \E status : SettleAudit(t, status)
            BY <2>3, <4>2, <5>1 DEF MarkRefunded, MarkRefundFailed
          <6> QED BY <5>1, <6>1, SettledAudits
        <5> QED BY <1>1, <5>1
      <4> QED BY <1>6, <4>1, <4>2
    <3>4. Repays(o)
      BY <2>1, <3>2, <3>3 DEF Repays, CancelledLasts
    <3> QED BY <3>1, <3>4, RowMovesAt
  <2> QED BY <2>2, <2>3
<1>7. CASE CancelCommit(w)
  <2>2. \A q \in Orders : q # o => orders'[q] = orders[q]
    BY <1>1, <1>7 DEF CancelCommit, TypeInv, TypeOK
  <2>3. Refunds(o)
    BY <1>0, <1>1, <1>7 DEF CancelCommit, AfterCancel, At, Briefed, Goto, Refunds, TypeInv,
         TypeOK, Task
  <2>4. Closes(o)
    BY <1>1, <1>7, <2>3 DEF CancelCommit, StillCancellable, NonCancellable, Closes,
         TypeInv, TypeOK, OrderRow
  <2> QED BY <2>2, <2>4, RowMovesAt
<1>8. CASE UNCHANGED orders
  BY <1>8, RowsStay
<1>9. \/ UNCHANGED orders \/ PromotePending(w) \/ PromoteVisible(w) \/ ClaimLateCapture(w)
      \/ MarkPaymentFailed(w) \/ RefundPersist(w) \/ MarkRefunded(w) \/ MarkRefundFailed(w)
      \/ CancelCommit(w)
  <2>1. /\ ~ShipSave(w)
        /\ \A restockItems \in BOOLEAN : ~AdminCancelCommit(w, restockItems)
    BY <1>0 DEF Decided, ShipSave, At, ShipLabels, Briefed, AdminCancelCommit
  <2> QED BY <2>1 DEF Continue, PrepareOnlinePayment, InsertPayment, GatewayOrderFails,
         RejectSignature, MarkPaymentCompleted, PromoteNothing, SkipLateCapture,
         RefundReadOrder, RefundGuard, RefundCodManually, RefundWithoutCapture,
         RefundPickPayment, RefundAccepted, RefundRejected, RefundPersistFails,
         CancelConflict, AdminCancelConflict, AdminRefundGuard, ShipOnce, ShipRead,
         ShipLock, ShipFails, rows
<1> QED BY <1>3, <1>4, <1>5, <1>6, <1>7, <1>8, <1>9

LEMMA RowMovesNext ==
  ASSUME SettlementInv, RefundInv', CancelledLasts, ~ShippingConfigured, [Next]_vars
  PROVE  RowMoves
<1> USE DEF SettlementInv, PayoutInv, RefundInv
<1>1. ASSUME NEW w \in Workers, NEW e \in Event, Deliver(w, e) PROVE UNCHANGED orders
  BY <1>1 DEF Deliver, ReceiveCaptured, ReceiveFailed, ReceiveRefundDone,
       ReceiveRefundFailed, rows
<1>2. ASSUME NEW o \in Orders, CancelAbandonedOrder(o) PROVE RowMoves
  <2>1. \A q \in Orders : q # o => orders'[q] = orders[q]
    BY <1>2 DEF CancelAbandonedOrder, TypeInv, TypeOK
  <2>2. Closes(o)
    BY <1>2 DEF CancelAbandonedOrder, Closes, TypeInv, TypeOK, OrderRow
  <2> QED BY <2>1, <2>2, RowMovesAt
<1>3. ASSUME NEW o \in Orders, NEW p \in Payments, ConfirmCod(o, p) PROVE RowMoves
  <2>1. \A q \in Orders : q # o => orders'[q] = orders[q]
    BY <1>3 DEF ConfirmCod, TypeInv, TypeOK
  <2>2. Opens(o)
    BY <1>3 DEF ConfirmCod, Exists, Opens, TypeInv, TypeOK, OrderRow
  <2> QED BY <2>1, <2>2, RowMovesAt
<1>4. ASSUME Environment
      PROVE  \/ UNCHANGED orders \/ \E o \in Orders : CancelAbandonedOrder(o)
             \/ \E o \in Orders, p \in Payments : ConfirmCod(o, p)
  BY <1>4 DEF Environment, GatewayAuthorize, GatewayCapture, GatewayDecline,
       GatewayRefundEnds, WindowExpires, DatabaseError, Crash, rows
<1>5. ASSUME UNCHANGED vars PROVE UNCHANGED orders
  BY <1>5 DEF vars
<1> QED BY <1>1, <1>2, <1>3, <1>4, <1>5, RowsStay, RowMovesRequest, RowMovesContinue DEF Next

\* The rows that are reached, and what their moves keep.
LEMMA ReachedNext ==
  ASSUME RowsReached, RowMoves
  PROVE  /\ RowsReached'
         /\ \A o \in Orders : Exists(o) => Exists(o)'
         /\ \A o \in Orders : Standing(o) => Standing(o)' \/ orders'[o].status = "CANCELLED"
<1>1. ASSUME NEW o \in Orders
      PROVE  /\ RowReached(orders[o])'
             /\ Exists(o) => Exists(o)'
             /\ Standing(o) => Standing(o)' \/ orders'[o].status = "CANCELLED"
  <2>1. RowReached(orders[o])
    BY DEF RowsReached
  <2>2. SameRow(o) \/ Opens(o) \/ Fails(o) \/ Closes(o) \/ Repays(o)
    BY DEF RowMoves
  <2>3. CASE SameRow(o)
    BY <2>1, <2>3 DEF SameRow, RowReached, Exists, Standing
  <2>4. CASE Opens(o)
    BY <2>1, <2>4 DEF Opens, RowReached, Exists, Standing
  <2>5. CASE Fails(o)
    BY <2>1, <2>5 DEF Fails, RowReached, Exists, Standing
  <2>6. CASE Closes(o) \/ Repays(o)
    BY <2>1, <2>6 DEF Closes, Repays, RowReached, Exists, Standing
  <2> QED BY <2>2, <2>3, <2>4, <2>5, <2>6
<1> QED BY <1>1 DEF RowsReached

-----------------------------------------------------------------------------
(* How the handlers move. *)

\* The facts a step starts from, and what lasts.
Stepping ==
  /\ SettlementInv /\ SettlementAssumption
  /\ RefundInv' /\ Lasting /\ CancelledLasts /\ RowMoves
  /\ \A o : AuditsOf(o) # {} => AuditsOf(o)' # {}

\* What a handler that does not move was told stays true.
LEMMA BriefedStays ==
  ASSUME Stepping, NEW v \in Workers, task'[v] = task[v] PROVE Briefed(task[v])'
<1> USE DEF Stepping, SettlementInv
<1>1. ASSUME task[v].pc # "idle" PROVE task[v].order \in Orders
  BY <1>1 DEF PayoutInv, RefundInv, TypeInv, Busy
<1>2. Briefed(task[v])
  BY DEF Briefs
<1>3. \A o \in Orders : /\ Exists(o) => Exists(o)'
                        /\ Standing(o) => Standing(o)' \/ orders'[o].status = "CANCELLED"
  BY ReachedNext
<1>4. ASSUME NEW t, t = task[v], NEW o, o = t.order, t.pc # "idle"
      PROVE  /\ Exists(o)'
             /\ t.pc = "capture" => t.payment \in Payments /\ payments'[t.payment].order = o
             /\ t.pc = "late_refund" => orders'[o].status = "CANCELLED" \/ Standing(o)'
  BY <1>1, <1>2, <1>3, <1>4 DEF Briefed, CancelledLasts, Lasting
<1>5. ASSUME NEW t, t = task[v] PROVE Briefed(t)'
  BY <1>2, <1>4, <1>5 DEF Briefed, Exists, Standing
<1> QED BY <1>5 DEF Briefed, Exists, Standing

\* A new handler is told what is so.
LEMMA BriefedRequest ==
  ASSUME Stepping, NEW w \in Workers, Request(w)
  PROVE  Keeps(w) /\ task[w].pc = "idle" /\ Briefed(task[w])'
<1> USE DEF Stepping, SettlementInv, PayoutInv, RefundInv
<1>1. ASSUME UNCHANGED task, At(w, "idle")
      PROVE  Keeps(w) /\ task[w].pc = "idle" /\ Briefed(task[w])'
  BY <1>1, BriefedStays DEF Keeps, At
<1>2. ASSUME NEW label, NEW o \in Orders, NEW p, NEW view, Begin(w, label, o, p, view),
             label \notin {"late_refund", "admin_cancel", "admin_refund"}, Exists(o)',
             label = "capture" => p \in Payments /\ payments'[p].order = o,
             label = "cancel" => view.pay = "COMPLETED"
      PROVE  Keeps(w) /\ task[w].pc = "idle" /\ Briefed(task[w])'
  BY <1>2 DEF Begin, At, Keeps, TypeInv, TypeOK, Briefed, Exists
<1>3. \A o \in Orders : Exists(o) => Exists(o)'
  BY ReachedNext
<1>4. ASSUME NEW o \in Orders, PlaceOnlineOrder(w, o)
      PROVE  Keeps(w) /\ task[w].pc = "idle" /\ Briefed(task[w])'
  <2>1. Exists(o)'
    BY <1>4 DEF PlaceOnlineOrder, Exists, TypeInv, TypeOK, OrderRow
  <2> QED BY <1>2, <1>4, <2>1 DEF PlaceOnlineOrder
<1>5. ASSUME NEW o \in Orders, PlaceCodOrder(w, o)
      PROVE  Keeps(w) /\ task[w].pc = "idle" /\ Briefed(task[w])'
  BY <1>1, <1>5 DEF PlaceCodOrder, SettlementAssumption
<1>6. ASSUME NEW o \in Orders, NEW online \in BOOLEAN,
             ReplayPlaceOrder(w, o) \/ CreatePaymentOrder(w, o, online)
             \/ RetryPayment(w, o, online)
      PROVE  Keeps(w) /\ task[w].pc = "idle" /\ Briefed(task[w])'
  <2>1. Exists(o)
    BY <1>6 DEF ReplayPlaceOrder, CreatePaymentOrder, RetryPayment, Payable, Exists
  <2> QED BY <1>2, <1>3, <1>6, <2>1 DEF ReplayPlaceOrder, CreatePaymentOrder, RetryPayment
<1>7. ASSUME NEW o \in Orders, CancelOrder(w, o)
      PROVE  Keeps(w) /\ task[w].pc = "idle" /\ Briefed(task[w])'
  <2>1. orders[o].pay = "COMPLETED"
    BY <1>7 DEF CancelOrder, Exists, NonCancellable, RowsReached, RowReached,
         SettlementAssumption
  <2> QED BY <1>2, <1>3, <1>7, <2>1 DEF CancelOrder
<1>8. ASSUME NEW p \in Payments, NEW valid \in BOOLEAN, VerifyPayment(w, p, valid)
      PROVE  Keeps(w) /\ task[w].pc = "idle" /\ Briefed(task[w])'
  <2>1. PICK o \in Orders : o = payments[p].order
    BY <1>8 DEF VerifyPayment, TypeInv, TypeOK, PaymentRow
  <2>2. Exists(o)' /\ payments'[p].order = o
    BY <1>3, <2>1 DEF AttemptsOfOrders, Lasting
  <2> QED BY <1>2, <1>8, <2>1, <2>2 DEF VerifyPayment
<1>9. \A o \in Orders : ~AdminCancelOrder(w, o)
  BY DEF AdminCancelOrder, SettlementAssumption
<1>10. \A o \in Orders : ReplayPlaceOrder(w, o) =>
         Keeps(w) /\ task[w].pc = "idle" /\ Briefed(task[w])'
  BY <1>6
<1> QED BY <1>4, <1>5, <1>6, <1>7, <1>8, <1>9, <1>10 DEF Request

LEMMA BriefedDeliver ==
  ASSUME Stepping, NEW w \in Workers, NEW e \in Event, Deliver(w, e)
  PROVE  Keeps(w) /\ task[w].pc = "idle" /\ Briefed(task[w])'
<1> USE DEF Stepping, SettlementInv, PayoutInv, RefundInv
<1>1. CASE UNCHANGED task /\ At(w, "idle")
  BY <1>1, BriefedStays DEF Keeps, At
<1>2. PICK p \in Payments, o \in Orders : p = e.payment /\ o = payments[p].order
  BY DEF Deliver, ReceiveCaptured, ReceiveFailed, ReceiveRefundDone,
       ReceiveRefundFailed, LogEvent, Event, TypeInv, TypeOK, PaymentRow
<1>3. \A q \in Orders : Exists(q) => Exists(q)'
  BY ReachedNext
<1>4. Exists(o)' /\ payments'[p].order = o
  BY <1>2, <1>3 DEF AttemptsOfOrders, Lasting
<1>5. ASSUME NEW label \in {"capture", "payment_failed", "refund_processed", "refund_failed"},
             NEW t, t.pc = label, t.order = o, t.payment = p, task[w].pc = "idle",
             task' = [task EXCEPT ![w] = t]
      PROVE  Keeps(w) /\ task[w].pc = "idle" /\ Briefed(task[w])'
  BY <1>4, <1>5 DEF Keeps, TypeInv, TypeOK, Briefed, Exists
<1>6. CASE \E label \in {"capture", "payment_failed"} : Begin(w, label, o, p, NoRow)
  <2>1. PICK label \in {"capture", "payment_failed"} : Begin(w, label, o, p, NoRow)
    BY <1>6
  <2> DEFINE t == [pc |-> label, order |-> o, payment |-> p, refund |-> 0, view |-> NoRow]
  <2>2. task' = [task EXCEPT ![w] = t] /\ task[w].pc = "idle"
    BY <2>1 DEF Begin, At
  <2>3. t.pc = label /\ t.order = o /\ t.payment = p
    OBVIOUS
  <2> HIDE DEF t
  <2> QED BY <1>5, <2>2, <2>3
<1>7. CASE \E label \in {"refund_processed", "refund_failed"} : BeginRefundEvent(w, label, e)
  <2>1. PICK label \in {"refund_processed", "refund_failed"} : BeginRefundEvent(w, label, e)
    BY <1>7
  <2> DEFINE t == [pc |-> label, order |-> payments[e.payment].order,
                   payment |-> e.payment, refund |-> e.refund,
                   view |-> orders[payments[e.payment].order]]
  <2>2. task' = [task EXCEPT ![w] = t] /\ task[w].pc = "idle"
    BY <2>1 DEF BeginRefundEvent, At
  <2>3. t.pc = label /\ t.order = o /\ t.payment = p
    BY <1>2
  <2> HIDE DEF t
  <2> QED BY <1>5, <2>2, <2>3
<1> QED BY <1>1, <1>2, <1>6, <1>7 DEF Deliver, ReceiveCaptured, ReceiveFailed,
          ReceiveRefundDone, ReceiveRefundFailed

\* A handler that goes on keeps its order, or ends.
LEMMA ContinueMoves ==
  ASSUME Stepping, NEW w \in Workers, Continue(w)
  PROVE  /\ Keeps(w)
         /\ \/ task'[w] = IdleTask
            \/ /\ task'[w].order = task[w].order
               /\ task'[w].pc \in {"insert_online", "promote", "late_refund"} \cup RefundChain
               /\ task'[w].pc # "admin_refund"
         /\ task'[w].pc = "late_refund" => PromoteNothing(w)
<1> USE DEF Stepping, SettlementInv, PayoutInv, RefundInv
<1>1. Briefed(task[w]) /\ Decided(task[w])
  BY DEF Briefs, RefundHandlers
<1>2. CASE Finish(w)
  BY <1>2 DEF Finish, Keeps, TypeInv, TypeOK, IdleTask
<1>3. ASSUME NEW label, Goto(w, label)
      PROVE  Keeps(w) /\ task'[w].order = task[w].order /\ task'[w].pc = label
  BY <1>3 DEF Goto, Keeps, TypeInv, TypeOK, Task
<1>4. ASSUME NEW p, RefundPickPayment(w, p)
      PROVE  Keeps(w) /\ task'[w].order = task[w].order /\ task'[w].pc = "refund_call"
  BY <1>4 DEF RefundPickPayment, Keeps, TypeInv, TypeOK, Task
<1>5. ASSUME NEW n, RefundAccepted(w, n)
      PROVE  Keeps(w) /\ task'[w].order = task[w].order /\ task'[w].pc = "refund_save"
  BY <1>5 DEF RefundAccepted, Keeps, TypeInv, TypeOK, Task
<1>6. /\ ~ShipOnce(w) /\ ~ShipRead(w) /\ ~ShipLock(w) /\ ~ShipSave(w) /\ ~ShipFails(w)
      /\ \A restockItems \in BOOLEAN : ~AdminCancelCommit(w, restockItems)
      /\ ~AdminCancelConflict(w) /\ ~AdminRefundGuard(w)
  BY <1>1 DEF Decided, ShipOnce, ShipRead, ShipLock, ShipSave, ShipFails, At, ShipLabels,
       Briefed, AdminCancelCommit, AdminCancelConflict, AdminRefundGuard
<1>7. \/ Finish(w)
      \/ \E label \in {"insert_online", "promote", "refund_order", "refund_guard",
                       "refund_payment"} : Goto(w, label)
      \/ PromoteNothing(w)
      \/ \E p \in Payments : RefundPickPayment(w, p)
      \/ \E n \in RefundNumbers : RefundAccepted(w, n)
  BY <1>6 DEF Continue, SettlementAssumption, PrepareOnlinePayment, InsertPayment,
       GatewayOrderFails, RejectSignature, MarkPaymentCompleted, PromotePending,
       PromoteVisible, ClaimLateCapture, SkipLateCapture, AfterClaim, AfterCancel,
       MarkPaymentFailed, RefundReadOrder, RefundGuard, RefundCodManually,
       RefundWithoutCapture, RefundRejected, RefundPersist, RefundPersistFails,
       MarkRefunded, MarkRefundFailed, CancelCommit, CancelConflict
<1>8. CASE PromoteNothing(w)
  BY <1>3, <1>8 DEF PromoteNothing
<1>9. ASSUME NEW label \in {"insert_online", "promote", "refund_order", "refund_guard",
                       "refund_payment"}, Goto(w, label)
      PROVE  /\ Keeps(w) /\ task'[w].order = task[w].order /\ task'[w].pc = label
             /\ label \in {"insert_online", "promote"} \cup RefundChain
  BY <1>3, <1>9 DEF RefundChain, BeforeGuard, PastGuard
<1> QED BY <1>2, <1>4, <1>5, <1>7, <1>8, <1>9 DEF RefundChain, PastGuard, IdleTask

LEMMA BriefedContinue ==
  ASSUME Stepping, NEW w \in Workers, Continue(w)
  PROVE  Keeps(w) /\ Briefed(task[w])'
<1> USE DEF Stepping, SettlementInv
<1>1. PICK o \in Orders : o = task[w].order
  BY ContinueBusy DEF PayoutInv, RefundInv, TypeInv, Busy
<1>2. Exists(o) /\ Exists(o)'
  BY <1>1, ContinueBusy, ReachedNext DEF Briefs, Briefed
<1>3. CASE task'[w] = IdleTask
  BY <1>3, ContinueMoves DEF Briefed, IdleTask
<1>4. CASE PromoteNothing(w)
  <2>1. RowReached(orders[o])
    BY DEF RowsReached
  <2>2. orders[o].status = "CANCELLED" \/ Standing(o)
    BY <1>1, <1>2, <1>4, <2>1 DEF PromoteNothing, ClaimablePending, ClaimableVisible,
         RowReached, Exists, Standing
  <2>3. orders'[o].status = "CANCELLED" \/ Standing(o)'
    BY <2>2, ReachedNext DEF CancelledLasts
  <2>4. task'[w].pc = "late_refund" /\ task'[w].order = o
    BY <1>1, <1>4 DEF PromoteNothing, Goto, PayoutInv, RefundInv, TypeInv, TypeOK, Task
  <2> QED BY <1>2, <2>3, <2>4, ContinueMoves DEF Briefed, Exists, Standing
<1>5. CASE task'[w] # IdleTask /\ ~PromoteNothing(w)
  <2>1. /\ task'[w].order = o /\ task'[w].pc \in {"insert_online", "promote"} \cup RefundChain
        /\ task'[w].pc # "admin_refund" /\ Keeps(w)
    BY <1>1, <1>5, ContinueMoves
  <2> QED BY <1>2, <2>1 DEF Briefed, Exists, RefundChain, BeforeGuard, PastGuard
<1> QED BY <1>3, <1>4, <1>5

\* Nothing ends a handler half-way: a step is of one handler, or of none.
LEMMA OneMoves ==
  ASSUME Stepping, [Next]_vars
  PROVE  \/ UNCHANGED task
         \/ \E w \in Workers :
              Request(w) \/ Continue(w) \/ \E e \in Event : Deliver(w, e)
<1>1. ASSUME Environment PROVE UNCHANGED task
  BY <1>1 DEF Environment, GatewayAuthorize, GatewayCapture, GatewayDecline,
       GatewayRefundEnds, WindowExpires, CancelAbandonedOrder, ConfirmCod,
       DatabaseError, Crash, Stepping, SettlementAssumption
<1>2. ASSUME UNCHANGED vars PROVE UNCHANGED task
  BY <1>2 DEF vars
<1> QED BY <1>1, <1>2 DEF Next

LEMMA BriefsNext == ASSUME Stepping, [Next]_vars PROVE Briefs'
<1>1. CASE UNCHANGED task
  BY <1>1, BriefedStays DEF Briefs
<1>2. ASSUME NEW w \in Workers, Keeps(w), Briefed(task[w])' PROVE Briefs'
  BY <1>2, BriefedStays DEF Briefs, Keeps
<1>3. CASE \E w \in Workers :
             Request(w) \/ Continue(w) \/ \E e \in Event : Deliver(w, e)
  BY <1>2, <1>3, BriefedRequest, BriefedDeliver, BriefedContinue
<1> QED BY <1>1, <1>3, OneMoves

-----------------------------------------------------------------------------
(* Nothing that is accounted for is dropped. *)

\* A handler that refunds ends with an audit, or because another one refunds.
LEMMA RefundContinue ==
  ASSUME Stepping, NEW w \in Workers, Continue(w), task[w].pc \in RefundChain,
         NEW o \in Orders, o = task[w].order
  PROVE  Kept(o)'
<1> USE DEF Stepping, SettlementInv, PayoutInv
<1>1. Keeps(w)
  BY ContinueMoves
<1>2. CASE AuditsOf(o) # {}
  BY <1>2 DEF Kept
<1>3. CASE task'[w].pc \in RefundChain
  BY <1>3, ContinueMoves DEF Kept, Refunding, IdleTask, RefundChain, BeforeGuard, PastGuard
<1>4. CASE RefundReadOrder(w) /\ HeldBySibling(w, o, RefundLabels)
  <2>1. PICK v \in Workers : v # w /\ task[v].order = o /\ task[v].pc \in RefundLabels
    BY <1>4 DEF HeldBySibling
  <2>2. v \in Refunding(o)'
    BY <1>1, <2>1 DEF Keeps, Refunding, RefundLabels, RefundChain, BeforeGuard, PastGuard
  <2> QED BY <2>2 DEF Kept
<1>5. CASE RefundReadOrder(w) /\ orders[o].pay # "COMPLETED"
  <2>1. Returned(o)
    BY <1>5 DEF PayoutHandlers, OneRefunds
  <2> QED BY <1>2, <2>1 DEF Returned
<1>6. CASE RefundGuard(w) /\ LiveAudits(o) # {}
  BY <1>2, <1>6 DEF LiveAudits
<1>7. ASSUME NEW q, NEW n, NEW status, AddAudit(o, q, n, status) PROVE Kept(o)'
  <2> DEFINE row == [order |-> o, payment |-> q, refund |-> n, status |-> status]
  <2>1. row \in audits' /\ row.order = o
    BY <1>7 DEF AddAudit
  <2> HIDE DEF row
  <2> QED BY <2>1 DEF Kept, AuditsOf
<1>8. CASE \/ RefundCodManually(w) \/ RefundWithoutCapture(w) \/ RefundRejected(w)
           \/ RefundPersist(w)
  BY <1>7, <1>8 DEF RefundCodManually, RefundWithoutCapture, RefundRejected,
       RefundPersist, SettlementAssumption
<1>9. CASE \/ RefundReadOrder(w) /\ Goto(w, "refund_guard")
           \/ RefundGuard(w) /\ Goto(w, "refund_payment")
           \/ \E p \in Payments : RefundPickPayment(w, p)
           \/ \E n \in RefundNumbers : RefundAccepted(w, n)
  <2>1. task'[w].pc \in {"refund_guard", "refund_payment", "refund_call", "refund_save"}
    <3> USE DEF RefundInv, TypeInv, TypeOK, Task
    <3>1. CASE Goto(w, "refund_guard") \/ Goto(w, "refund_payment")
      BY <3>1 DEF Goto
    <3>2. CASE \E p \in Payments : RefundPickPayment(w, p)
      BY <3>2 DEF RefundPickPayment
    <3>3. CASE \E n \in RefundNumbers : RefundAccepted(w, n)
      BY <3>3 DEF RefundAccepted
    <3> QED BY <1>9, <3>1, <3>2, <3>3
  <2> QED BY <1>3, <2>1 DEF RefundChain, BeforeGuard, PastGuard
<1>10. \/ RefundReadOrder(w) \/ RefundGuard(w) \/ RefundCodManually(w)
       \/ RefundWithoutCapture(w) \/ RefundRejected(w) \/ RefundPersist(w)
       \/ \E p \in Payments : RefundPickPayment(w, p)
       \/ \E n \in RefundNumbers : RefundAccepted(w, n)
  <2>1. task[w].pc # "admin_refund"
    BY DEF Briefs, Briefed
  <2> QED BY <2>1 DEF Continue, RefundChain, BeforeGuard, PastGuard, SettlementAssumption,
         PrepareOnlinePayment, InsertPayment, GatewayOrderFails, RejectSignature,
         MarkPaymentCompleted, PromotePending, PromoteVisible, PromoteNothing,
         ClaimLateCapture, SkipLateCapture, MarkPaymentFailed, RefundPersistFails,
         MarkRefunded, MarkRefundFailed, CancelCommit, CancelConflict,
         AdminCancelCommit, AdminCancelConflict, AdminRefundGuard, ShipOnce, ShipRead,
         ShipLock, ShipSave, ShipFails, At
<1>11. RefundReadOrder(w) => \/ HeldBySibling(w, o, RefundLabels)
                             \/ orders[o].pay # "COMPLETED" \/ Goto(w, "refund_guard")
  BY DEF RefundReadOrder
<1>12. RefundGuard(w) => LiveAudits(o) # {} \/ Goto(w, "refund_payment")
  BY DEF RefundGuard
<1> QED BY <1>4, <1>5, <1>6, <1>8, <1>9, <1>10, <1>11, <1>12

LEMMA KeptNext ==
  ASSUME Stepping, [Next]_vars, NEW o \in Orders, Kept(o) PROVE Kept(o)'
<1>1. CASE AuditsOf(o) # {}
  BY <1>1 DEF Kept, Stepping
<1>2. CASE Refunding(o) # {}
  <2>1. PICK v \in Workers : task[v].order = o /\ task[v].pc \in RefundChain
    BY <1>2 DEF Refunding
  <2>2. CASE task'[v] = task[v]
    BY <2>1, <2>2 DEF Kept, Refunding
  <2>3. CASE Continue(v)
    BY <2>1, <2>3, RefundContinue
  <2>4. ASSUME NEW w \in Workers,
               Request(w) \/ Continue(w) \/ \E e \in Event : Deliver(w, e)
        PROVE  task'[v] = task[v] \/ Continue(v)
    <3>1. Keeps(w) /\ (task[w].pc = "idle" \/ Continue(w))
      BY <2>4, BriefedRequest, BriefedDeliver, BriefedContinue
    <3> QED BY <2>1, <2>4, <3>1, BriefedRequest, BriefedDeliver
            DEF Keeps, RefundChain, BeforeGuard, PastGuard
  <2> QED BY <2>2, <2>3, <2>4, OneMoves
<1> QED BY <1>1, <1>2 DEF Kept

\* An answer ends with an order that stands, or with one that is refunded.
LEMMA AnswerContinue ==
  ASSUME Stepping, [Next]_vars, NEW w \in Workers, Continue(w), task[w].pc \in OnItsWay,
         NEW o \in Orders, o = task[w].order
  PROVE  Accounted(o)'
<1> USE DEF Stepping, SettlementInv
<1> USE DEF PayoutInv, RefundInv
<1>1. CASE MarkPaymentCompleted(w) \/ PromoteNothing(w)
  <2>1. task'[w].order = o /\ task'[w].pc \in {"promote", "late_refund"}
    BY <1>1 DEF MarkPaymentCompleted, PromoteNothing, Goto, TypeInv, TypeOK, Task
  <2> QED BY <2>1 DEF Accounted, Answering, OnItsWay
<1>2. CASE PromotePending(w) \/ PromoteVisible(w)
  <2>1. RowReached(orders[o])
    BY DEF RowsReached
  <2>2. orders'[o].status = "PLACED" /\ orders'[o].pay = "COMPLETED"
    <3>1. CASE PromotePending(w)
      BY <3>1 DEF PromotePending, TypeInv, TypeOK, OrderRow
    <3>2. CASE PromoteVisible(w)
      BY <2>1, <3>2 DEF PromoteVisible, ClaimableVisible, RowReached, TypeInv, TypeOK, OrderRow
    <3> QED BY <1>2, <3>1, <3>2
  <2> QED BY <2>2 DEF Accounted, Standing
<1>3. CASE ClaimLateCapture(w)
  <2>1. task'[w].order = o /\ task'[w].pc = "refund_order"
    BY <1>3 DEF ClaimLateCapture, Goto, TypeInv, TypeOK, Task
  <2>2. orders'[o].status = "CANCELLED"
    BY <1>3 DEF ClaimLateCapture, LateCapture, CancelledLasts
  <2> QED BY <2>1, <2>2 DEF Accounted, Kept, Refunding, RefundChain, BeforeGuard
<1>4. CASE SkipLateCapture(w)
  <2>1. orders[o].status = "CANCELLED" \/ Standing(o)
    BY <1>4 DEF SkipLateCapture, At, Briefs, Briefed
  <2>2. CASE Standing(o)
    BY <1>4, <2>2 DEF SkipLateCapture, Standing, Accounted, rows
  <2>3. CASE orders[o].status = "CANCELLED"
    <3>1. Kept(o)
      BY <1>4, <2>3 DEF SkipLateCapture, LateCapture, PaidCancelled, MoneyStatus
    <3> QED BY <2>3, <3>1, KeptNext DEF Accounted, CancelledLasts
  <2> QED BY <2>1, <2>2, <2>3
<1>5. \/ MarkPaymentCompleted(w) \/ PromotePending(w) \/ PromoteVisible(w)
      \/ PromoteNothing(w) \/ ClaimLateCapture(w) \/ SkipLateCapture(w)
  BY DEF Continue, OnItsWay, PrepareOnlinePayment, InsertPayment, GatewayOrderFails,
       RejectSignature, MarkPaymentFailed, RefundReadOrder, RefundGuard,
       RefundCodManually, RefundWithoutCapture, RefundPickPayment, RefundAccepted,
       RefundRejected, RefundPersist, RefundPersistFails, MarkRefunded,
       MarkRefundFailed, CancelCommit, CancelConflict, AdminCancelCommit,
       AdminCancelConflict, AdminRefundGuard, ShipOnce, ShipRead, ShipLock, ShipSave,
       ShipFails, At
<1> QED BY <1>1, <1>2, <1>3, <1>4, <1>5

LEMMA AccountedNext ==
  ASSUME Stepping, [Next]_vars, NEW o \in Orders, Accounted(o) PROVE Accounted(o)'
<1>1. CASE orders[o].status = "CANCELLED" /\ Kept(o)
  BY <1>1, KeptNext DEF Accounted, Stepping, CancelledLasts
<1>2. CASE Standing(o)
  <2>1. CASE Standing(o)'
    BY <2>1 DEF Accounted
  <2>2. CASE ~Standing(o)'
    <3>1. orders[o].status # "CANCELLED" /\ orders'[o].status = "CANCELLED"
      BY <1>2, <2>2, ReachedNext DEF Standing, Stepping, SettlementInv
    <3>2. Closes(o)
      <4>1. SameRow(o) \/ Opens(o) \/ Fails(o) \/ Closes(o) \/ Repays(o)
        BY DEF Stepping, RowMoves
      <4> QED BY <3>1, <4>1 DEF SameRow, Opens, Fails, Repays
    <3>3. Refunds(o)
      BY <1>2, <3>2 DEF Closes, Standing
    <3> QED BY <3>1, <3>3 DEF Refunds, Accounted, Kept, Refunding, RefundChain, BeforeGuard
  <2> QED BY <2>1, <2>2
<1>3. CASE Answering(o)
  <2>1. PICK v \in Workers : task[v].order = o /\ task[v].pc \in OnItsWay
    BY <1>3 DEF Answering
  <2>2. CASE task'[v] = task[v]
    BY <2>1, <2>2 DEF Accounted, Answering
  <2>3. CASE Continue(v)
    BY <2>1, <2>3, AnswerContinue
  <2>4. ASSUME NEW w \in Workers,
               Request(w) \/ Continue(w) \/ \E e \in Event : Deliver(w, e)
        PROVE  task'[v] = task[v] \/ Continue(v)
    BY <2>1, <2>4, BriefedRequest, BriefedDeliver, BriefedContinue DEF Keeps, OnItsWay
  <2> QED BY <2>2, <2>3, <2>4, OneMoves
<1> QED BY <1>1, <1>2, <1>3 DEF Accounted

LEMMA PaidCancelledNext ==
  ASSUME Stepping, [Next]_vars PROVE PaidCancelled'
<1>1. ASSUME NEW o \in Orders, orders'[o].status = "CANCELLED",
             orders'[o].pay \in MoneyStatus
      PROVE  Kept(o)'
  <2>1. SameRow(o) \/ Opens(o) \/ Fails(o) \/ Closes(o) \/ Repays(o)
    BY DEF Stepping, RowMoves
  <2>2. CASE Refunds(o) \/ AuditsOf(o)' # {}
    BY <2>2 DEF Refunds, Kept, Refunding, RefundChain, BeforeGuard
  <2>3. CASE SameRow(o)
    BY <1>1, <2>3, KeptNext DEF SameRow, Stepping, SettlementInv, PaidCancelled
  <2>4. ~Opens(o) /\ ~Fails(o)
    BY <1>1 DEF Opens, Fails, MoneyStatus
  <2> QED BY <1>1, <2>1, <2>2, <2>3, <2>4 DEF Closes, Repays, MoneyStatus
<1> QED BY <1>1 DEF PaidCancelled

-----------------------------------------------------------------------------
(* The attempts. *)

\* An attempt's order is the one it was opened for.
LEMMA AttemptsOfOrdersNext == ASSUME Stepping, [Next]_vars PROVE AttemptsOfOrders'
<1> USE DEF Stepping, SettlementInv
<1> USE DEF PayoutInv, RefundInv
<1>1. \A o \in Orders : Exists(o) => Exists(o)'
  BY ReachedNext
<1>2. ASSUME \A p \in Payments : \/ payments'[p].order = payments[p].order
                                 \/ /\ payments'[p].order \in Orders
                                    /\ Exists(payments'[p].order)
      PROVE  AttemptsOfOrders'
  BY <1>1, <1>2 DEF AttemptsOfOrders, Exists
<1>3. ASSUME NEW x, NEW m, payments' = [payments EXCEPT ![x].status = m]
      PROVE  AttemptsOfOrders'
  BY <1>2, <1>3 DEF TypeInv, TypeOK, PaymentRow
<1>4. ASSUME NEW x, NEW o \in Orders, Exists(o), NEW online,
             payments' = [payments EXCEPT ![x] = NewAttempt(o, online)]
      PROVE  AttemptsOfOrders'
  BY <1>2, <1>4 DEF NewAttempt, TypeInv, TypeOK
<1>5. CASE UNCHANGED payments
  BY <1>2, <1>5
<1>6. ASSUME NEW w \in Workers, Continue(w)
      PROVE  \/ UNCHANGED payments
             \/ \E p \in Payments : InsertPayment(w, p)
             \/ \E x, m : payments' = [payments EXCEPT ![x].status = m]
  BY <1>6 DEF Continue, PrepareOnlinePayment,
       GatewayOrderFails, RejectSignature, MarkPaymentCompleted, PromotePending,
       PromoteVisible, PromoteNothing, ClaimLateCapture, SkipLateCapture,
       MarkPaymentFailed, RefundReadOrder, RefundGuard, RefundCodManually,
       RefundWithoutCapture, RefundPickPayment, RefundAccepted, RefundRejected,
       RefundPersist, RefundPersistFails, MarkRefunded, MarkRefundFailed, CancelCommit,
       CancelConflict, AdminCancelCommit, AdminCancelConflict, AdminRefundGuard,
       ShipOnce, ShipRead, ShipLock, ShipSave, ShipFails, rows
<1>7. ASSUME NEW w \in Workers, NEW p \in Payments, InsertPayment(w, p)
      PROVE  AttemptsOfOrders'
  <2>1. PICK o \in Orders : o = task[w].order /\ Exists(o)
    BY <1>7 DEF InsertPayment, At, TypeInv, Busy, Briefs, Briefed
  <2> QED BY <1>4, <1>7, <2>1 DEF InsertPayment
<1>8. ASSUME NEW o \in Orders, NEW p \in Payments, ConfirmCod(o, p)
      PROVE  AttemptsOfOrders'
  BY <1>4, <1>8 DEF ConfirmCod
<1>9. ASSUME NEW w \in Workers, Request(w) PROVE UNCHANGED payments
  BY <1>9 DEF Request, PlaceOnlineOrder, PlaceCodOrder, ReplayPlaceOrder,
       CreatePaymentOrder, RetryPayment, CancelOrder, AdminCancelOrder, VerifyPayment, rows
<1>10. ASSUME NEW w \in Workers, NEW e \in Event, Deliver(w, e) PROVE UNCHANGED payments
  BY <1>10 DEF Deliver, ReceiveCaptured, ReceiveFailed, ReceiveRefundDone,
       ReceiveRefundFailed, rows
<1>11. ASSUME Environment
       PROVE  UNCHANGED payments \/ \E o \in Orders, p \in Payments : ConfirmCod(o, p)
  BY <1>11 DEF Environment, GatewayAuthorize, GatewayCapture, GatewayDecline,
       GatewayRefundEnds, WindowExpires, CancelAbandonedOrder, DatabaseError, Crash, rows
<1>12. ASSUME UNCHANGED vars PROVE UNCHANGED payments
  BY <1>12 DEF vars
<1> QED BY <1>3, <1>5, <1>6, <1>7, <1>8, <1>9, <1>10, <1>11, <1>12 DEF Next

\* An attempt becomes COMPLETED when its capture is being answered, or again
\* when its refund failed.
LEMMA MarkedNext == ASSUME Stepping, [Next]_vars PROVE MarkedAccounted'
<1> USE DEF Stepping, SettlementInv
<1> USE DEF PayoutInv, RefundInv
<1>1. ASSUME NEW p \in Payments, payments[p].status = "COMPLETED", NEW o,
             o = payments'[p].order
      PROVE  o \in Orders /\ Accounted(o)'
  BY <1>1, AccountedNext DEF MarkedAccounted, Lasting
<1>2. ASSUME NEW w \in Workers, MarkPaymentCompleted(w), NEW p \in Payments,
             p = task[w].payment, NEW o, o = payments'[p].order
      PROVE  o \in Orders /\ Accounted(o)'
  <2>1. o = task[w].order /\ o \in Orders
    BY <1>2 DEF MarkPaymentCompleted, At, Briefs, Briefed, TypeInv, Busy, Lasting
  <2>2. task'[w].order = o /\ task'[w].pc = "promote"
    BY <1>2, <2>1 DEF MarkPaymentCompleted, Goto, TypeInv, TypeOK, Task
  <2> QED BY <2>1, <2>2 DEF Accounted, Answering, OnItsWay
<1>3. ASSUME NEW w \in Workers, MarkRefundFailed(w), NEW p \in Payments,
             p = task[w].payment, NEW o, o = payments'[p].order
      PROVE  o \in Orders /\ Accounted(o)'
  <2>1. o = task[w].order /\ o \in Orders /\ orders[o].status = "CANCELLED"
    BY <1>3 DEF MarkRefundFailed, At, PayoutHandlers, SettlesOnce, Settles, RefundHandlers,
         Decided, Cancelled, RefundingLabels, Lasting
  <2>2. AuditsOf(o)' # {}
    <3>1. ASSUME NEW t, t = task[w] PROVE SettleAudit(t, "FAILED") /\ o = t.order
      BY <1>3, <2>1, <3>1 DEF MarkRefundFailed
    <3>2. ASSUME NEW t, t = task[w] PROVE AuditsOf(o)' # {}
      BY <3>1, <3>2, SettledAudits
    <3> QED BY <3>2
  <2> QED BY <2>1, <2>2 DEF Accounted, Kept, CancelledLasts
<1>4. ASSUME \A p \in Payments : payments'[p].status = "COMPLETED" =>
               payments[p].status = "COMPLETED"
      PROVE  MarkedAccounted'
  <2>1. ASSUME NEW p \in Payments, NEW o, o = payments'[p].order,
               payments'[p].status = "COMPLETED"
        PROVE  o \in Orders /\ Accounted(o)'
    BY <1>1, <1>4, <2>1
  <2> QED BY <2>1 DEF MarkedAccounted
<1>5. ASSUME NEW w \in Workers, MarkPaymentCompleted(w) \/ MarkRefundFailed(w)
      PROVE  MarkedAccounted'
  <2>1. \A p \in Payments : p # task[w].payment => payments'[p] = payments[p]
    BY <1>5 DEF MarkPaymentCompleted, MarkRefundFailed, TypeInv, TypeOK
  <2>2. ASSUME NEW p \in Payments, NEW o, o = payments'[p].order,
               payments'[p].status = "COMPLETED"
        PROVE  o \in Orders /\ Accounted(o)'
    BY <1>1, <1>2, <1>3, <1>5, <2>1, <2>2
  <2> QED BY <2>2 DEF MarkedAccounted
<1>6. ASSUME NEW x, NEW m, m # "COMPLETED", payments' = [payments EXCEPT ![x].status = m]
      PROVE  MarkedAccounted'
  BY <1>4, <1>6 DEF TypeInv, TypeOK, PaymentRow
<1>7. ASSUME NEW x, NEW o, NEW online,
             payments' = [payments EXCEPT ![x] = NewAttempt(o, online)]
      PROVE  MarkedAccounted'
  BY <1>4, <1>7 DEF NewAttempt, TypeInv, TypeOK
<1>8. CASE UNCHANGED payments
  BY <1>4, <1>8
<1>9. ASSUME NEW w \in Workers, Continue(w)
      PROVE  \/ UNCHANGED payments
             \/ MarkPaymentCompleted(w) \/ MarkRefundFailed(w)
             \/ \E x, o, online : payments' = [payments EXCEPT ![x] = NewAttempt(o, online)]
             \/ \E x, m : m # "COMPLETED" /\ payments' = [payments EXCEPT ![x].status = m]
  BY <1>9 DEF Continue, PrepareOnlinePayment, InsertPayment,
       GatewayOrderFails, RejectSignature, PromotePending,
       PromoteVisible, PromoteNothing, ClaimLateCapture, SkipLateCapture,
       MarkPaymentFailed, RefundReadOrder, RefundGuard, RefundCodManually,
       RefundWithoutCapture, RefundPickPayment, RefundAccepted, RefundRejected,
       RefundPersist, RefundPersistFails, MarkRefunded, CancelCommit,
       CancelConflict, AdminCancelCommit, AdminCancelConflict, AdminRefundGuard,
       ShipOnce, ShipRead, ShipLock, ShipSave, ShipFails, rows
<1>10. ASSUME NEW w \in Workers, Request(w) PROVE UNCHANGED payments
  BY <1>10 DEF Request, PlaceOnlineOrder, PlaceCodOrder, ReplayPlaceOrder,
       CreatePaymentOrder, RetryPayment, CancelOrder, AdminCancelOrder, VerifyPayment, rows
<1>11. ASSUME NEW w \in Workers, NEW e \in Event, Deliver(w, e) PROVE UNCHANGED payments
  BY <1>11 DEF Deliver, ReceiveCaptured, ReceiveFailed, ReceiveRefundDone,
       ReceiveRefundFailed, rows
<1>12. ASSUME Environment
       PROVE  UNCHANGED payments \/ \E o \in Orders, p \in Payments : ConfirmCod(o, p)
  BY <1>12 DEF Environment, GatewayAuthorize, GatewayCapture, GatewayDecline,
       GatewayRefundEnds, WindowExpires, CancelAbandonedOrder, DatabaseError, Crash, rows
<1>13. ASSUME UNCHANGED vars PROVE UNCHANGED payments
  BY <1>13 DEF vars
<1>14. ASSUME NEW o \in Orders, NEW p \in Payments, ConfirmCod(o, p)
       PROVE  MarkedAccounted'
  BY <1>7, <1>14 DEF ConfirmCod
<1> QED BY <1>5, <1>6, <1>7, <1>8, <1>9, <1>10, <1>11, <1>12, <1>13, <1>14 DEF Next

-----------------------------------------------------------------------------
(* The events. *)

\* What the gateway said stays said.
LEMMA SentStays == ASSUME [Next]_vars PROVE sent \subseteq sent'
<1>1. CASE UNCHANGED gateway
  BY <1>1 DEF gateway
<1>2. CASE ~UNCHANGED gateway
  BY <1>2, GatewaySteps DEF RefundAccepted, GatewayAuthorize, GatewayCapture,
     GatewayDecline, GatewayRefundEnds, Announce
<1> QED BY <1>1, <1>2

\* Only the gateway captures.
LEMMA CapturedByGateway ==
  ASSUME TypeInv, [Next]_vars, NEW p \in captured', p \notin captured
  PROVE  GatewayCapture(p)
<1>1. ASSUME NEW q \in Payments, GatewayCapture(q) PROVE q = p
  BY <1>1 DEF GatewayCapture
<1>2. \E q \in Payments : GatewayCapture(q)
  BY GatewaySteps DEF gateway, RefundAccepted, GatewayAuthorize, GatewayDecline,
     GatewayRefundEnds
<1> QED BY <1>1, <1>2

\* A capture's event is taken from the queue by a handler that answers it, or
\* when its attempt is COMPLETED already.
LEMMA HeardNext == ASSUME Stepping, [Next]_vars PROVE CapturesHeard'
<1> USE DEF Stepping, SettlementInv
<1> USE DEF PayoutInv, RefundInv
<1> DEFINE Waits(p) ==
      \E kind \in {"captured", "orderPaid"} : PaymentEvent(kind, p) \in sent \ logged
<1>1. captured' \subseteq Payments
  BY DEF TypeInv, TypeOK
<1>2. ASSUME NEW p \in captured, NEW o, o = payments'[p].order, Accounted(payments[p].order)
      PROVE  Accounted(o)'
  BY <1>2, AccountedNext DEF GatewayBooks, Lasting, TypeInv, TypeOK
<1>3. ASSUME NEW p \in captured, Waits(p), ~Waits(p)', NEW o, o = payments'[p].order
      PROVE  Accounted(o)'
  <2>1. PICK kind \in {"captured", "orderPaid"} : PaymentEvent(kind, p) \in sent \ logged
    BY <1>3
  <2> DEFINE e == PaymentEvent(kind, p)
  <2>2. e.payment = p /\ e.kind = kind /\ e \in sent \ logged
    BY <2>1 DEF PaymentEvent
  <2>3. e \in logged'
    <3>1. sent \subseteq sent'
      BY SentStays
    <3> QED BY <1>3, <2>1, <3>1
  <2> HIDE DEF e
  <2>4. PICK w \in Workers, f \in Event : Deliver(w, f) /\ logged' = logged \cup {f}
    BY <2>2, <2>3, LoggedByDelivery
  <2>5. f = e
    BY <2>2, <2>3, <2>4
  <2>6. ReceiveCaptured(w, e)
    BY <2>2, <2>4, <2>5 DEF Deliver, ReceiveFailed, ReceiveRefundDone, ReceiveRefundFailed
  <2>7. o = payments[p].order /\ o \in Orders
    BY <1>3 DEF GatewayBooks, Lasting, TypeInv, TypeOK
  <2>8. CASE payments[p].status = "COMPLETED"
    BY <1>1, <1>2, <1>3, <2>7, <2>8 DEF MarkedAccounted, TypeInv, TypeOK
  <2>9. CASE payments[p].status # "COMPLETED"
    <3>1. task'[w].order = o /\ task'[w].pc = "capture"
      BY <2>2, <2>6, <2>7, <2>9 DEF ReceiveCaptured, Begin, TypeInv, TypeOK
    <3> QED BY <3>1 DEF Accounted, Answering, OnItsWay
  <2> QED BY <2>8, <2>9
<1>4. ASSUME NEW p \in captured', p \notin captured PROVE Waits(p)'
  <2>1. GatewayCapture(p)
    BY <1>4, CapturedByGateway
  <2>2. PICK kind \in {"captured", "orderPaid"} : kind \in Subscribed
    BY DEF SettlementAssumption
  <2>3. PaymentEvent(kind, p) \in sent'
    BY <2>1, <2>2 DEF GatewayCapture, Announce, PaymentEvent
  <2>4. PaymentEvent(kind, p) \notin sent
    BY <1>4 DEF GatewayBooks, PaymentEvent
  <2>5. PaymentEvent(kind, p) \notin logged'
    BY <2>1, <2>4 DEF GatewayCapture, Told
  <2> QED BY <2>2, <2>3, <2>5 DEF PaymentEvent
<1>5. ASSUME NEW p \in captured', NEW o, o = payments'[p].order
      PROVE  Accounted(o)' \/ Waits(p)'
  <2>1. CASE p \notin captured
    BY <1>4, <2>1
  <2>2. CASE p \in captured /\ Accounted(payments[p].order)
    BY <1>2, <1>5, <2>2
  <2>3. CASE p \in captured /\ Waits(p)
    BY <1>3, <1>5, <2>3
  <2> QED BY <2>1, <2>2, <2>3 DEF CapturesHeard
<1> QED BY <1>5 DEF CapturesHeard

-----------------------------------------------------------------------------

LEMMA SettlementInit == Init => SettlementInv
<1> SUFFICES ASSUME Init PROVE SettlementInv
  OBVIOUS
<1>1. /\ captured = {} /\ logged = {} /\ sent = {}
      /\ \A p \in Payments : payments[p].status = "PENDING" /\ payments[p].order = NoOrder
      /\ \A o \in Orders : orders[o] = NoRow
      /\ \A w \in Workers : task[w].pc = "idle"
  BY DEF Init, NoAttempt, IdleTask
<1>2. CapturesHeard /\ MarkedAccounted /\ Told
  BY <1>1 DEF CapturesHeard, MarkedAccounted, Told
<1>3. PaidCancelled /\ RowsReached
  BY <1>1 DEF PaidCancelled, RowsReached, RowReached, NoRow
<1>4. AttemptsOfOrders
  BY <1>1, ShopAssumption DEF AttemptsOfOrders
<1>5. Briefs
  BY <1>1 DEF Briefs, Briefed
<1> QED BY <1>2, <1>3, <1>4, <1>5, PayoutInit DEF SettlementInv

LEMMA SettlementNext ==
  ASSUME SettlementInv, SettlementAssumption, [Next]_vars PROVE SettlementInv'
<1>1. Stepping
  <2>1. RefundInv' /\ CancelledLasts /\ Lasting
    BY RefundNext, Lasts DEF SettlementInv, PayoutInv, RefundInv, SettlementAssumption
  <2> QED BY <2>1, RowMovesNext, AuditsLast DEF Stepping, SettlementAssumption
<1>2. PayoutInv'
  BY PayoutNext DEF SettlementInv, SettlementAssumption
<1>3. RowsReached'
  BY <1>1, ReachedNext DEF Stepping, SettlementInv
<1>4. Told'
  BY LoggedGrows, SentStays DEF SettlementInv, Told
<1> QED BY <1>1, <1>2, <1>3, <1>4, HeardNext, MarkedNext, PaidCancelledNext, AttemptsOfOrdersNext,
          BriefsNext DEF SettlementInv

LEMMA SettlementInvariant ==
  ASSUME SettlementAssumption PROVE Spec => []SettlementInv
<1>1. SettlementInv /\ [Next]_vars => SettlementInv'
  BY SettlementNext
<1> QED BY SettlementInit, <1>1, PTL DEF Spec

\* Once no handler works on an order and no event about it waits, what the
\* gateway captured for it is accounted for: the order stands and is paid, or it
\* is cancelled and a RefundAudit row says so, with any number of attempts,
\* requests and late, repeated or reordered events.
THEOREM MoneyIsAnswered ==
  ASSUME SettlementAssumption PROVE Spec => []NoStrandedMoney
<1>1. SettlementInv => NoStrandedMoney
  <2>1. SUFFICES ASSUME SettlementInv, NEW o \in Orders, Quiet(o), PaidFor(o)
                 PROVE  \/ orders[o].status \in HoldsStock /\ orders[o].pay = "COMPLETED"
                        \/ orders[o].status = "CANCELLED" /\ AuditsOf(o) # {}
    BY DEF NoStrandedMoney
  <2>2. PICK p \in captured : payments[p].order = o
    BY <2>1 DEF PaidFor, PaymentsOf
  <2>3. ~\E kind \in {"captured", "orderPaid"} : PaymentEvent(kind, p) \in sent \ logged
    BY <2>1, <2>2 DEF Quiet, PaymentEvent
  <2>4. Accounted(o)
    BY <2>1, <2>2, <2>3 DEF SettlementInv, CapturesHeard
  <2> QED BY <2>1, <2>4 DEF Accounted, Answering, Standing, Kept, Refunding, Quiet,
            HoldsStock, OrderStatus
<1> QED BY SettlementInvariant, <1>1, PTL
=============================================================================
