----------------------------- MODULE ShopState -----------------------------
(* The rows, the gateway's books and the request handlers that the order    *)
(* and payment services share.  Each service module EXTENDS this one and    *)
(* adds its actions; module Shop composes them.                             *)
(*                                                                          *)
(* Every order buys one unit of one stock row (the variant, or the product  *)
(* when the item has no variant).  A handler is a worker that runs one      *)
(* request from its first read to its last write; each await that another   *)
(* handler can be scheduled in is a step of its own.                        *)
EXTENDS Integers, FiniteSets

CONSTANTS
  Orders,             \* orders that may be placed (one per idempotency key)
  Payments,           \* payment attempts: BOUND on the rows of Payment
  Workers,            \* requests in flight: BOUND on concurrency
  InstanceOf,         \* the server process each worker runs in
  InitialStock,       \* units on the shelf
  MaxRefunds,         \* BOUND on the gateway refunds of one payment
  ShippingConfigured, \* the @Optional() ShippingService is injected
  Ops,                \* the endpoints and jobs that are exercised
  Subscribed,         \* the event kinds the gateway's webhook is subscribed to
  Faults,             \* "crash", "db" and "gateway" failures that may occur
  NoOrder, NoPayment  \* null ids

EventKind ==
  {"authorized", "captured", "orderPaid", "failed", "refundCreated",
   "refundProcessed", "refundFailed"}

ASSUME ShopAssumption ==
  /\ NoOrder \notin Orders
  /\ NoPayment \notin Payments
  /\ IsFiniteSet(Orders)
  /\ IsFiniteSet(Payments)
  /\ InitialStock \in Nat
  /\ MaxRefunds \in Nat
  /\ ShippingConfigured \in BOOLEAN
  /\ Subscribed \subseteq EventKind

VARIABLES
  orders,    \* the Order rows
  payments,  \* the Payment rows
  stock,     \* Product.stock / ProductVariant.stock, negative when oversold
  audits,    \* the RefundAudit rows
  expired,   \* orders older than the 30-minute payment window
  captured,  \* attempts whose money the gateway took
  refunds,   \* the gateway's refunds, by payment and number
  sent,      \* webhook events the gateway has produced
  logged,    \* webhook events in WebhookLog / the Redis idempotency key
  task       \* what each worker is doing

rows    == <<orders, payments, stock, audits, expired>>
gateway == <<captured, refunds, sent>>
vars    == <<orders, payments, stock, audits, expired, captured, refunds, sent,
             logged, task>>

-----------------------------------------------------------------------------
(* Types *)

OrderStatus ==
  {"PENDING", "PLACED", "PROCESSING", "PACKED", "SHIPPED", "OUT_FOR_DELIVERY",
   "DELIVERED", "CANCELLED", "RETURNED", "RETURN_INITIATED", "RTO_INITIATED",
   "RTO_IN_TRANSIT", "RTO_DELIVERED"}

PaymentStatus ==
  {"PENDING", "COMPLETED", "FAILED", "REFUND_INITIATED", "REFUNDED"}

AuditStatus == {"REFUND_INITIATED", "REFUNDED", "FAILED"}

\* "NONE": the row does not exist yet.
OrderRow ==
  [status: OrderStatus \cup {"NONE"}, pay: PaymentStatus, cod: BOOLEAN,
   awb: BOOLEAN]

\* `online`: the row carries a razorpayOrderId; `at`: its place in createdAt order.
PaymentRow ==
  [order: Orders \cup {NoOrder}, status: PaymentStatus, online: BOOLEAN,
   at: Nat]

RefundNumbers == 1..MaxRefunds
RefundState   == {"none", "pending", "processed", "failed"}

\* providerRefundId: the payment and the number of the refund; number 0 is null.
AuditRow ==
  [order: Orders, payment: Payments \cup {NoPayment},
   refund: RefundNumbers \cup {0}, status: AuditStatus]

Event == [kind: EventKind, payment: Payments, refund: RefundNumbers \cup {0}]

PC ==
  {"idle", "prepare_payment", "insert_online", "insert_cod", "reject", "capture",
   "promote", "late_refund", "payment_failed", "refund_order", "refund_guard",
   "refund_payment", "refund_call", "refund_save", "refund_processed",
   "refund_failed", "cancel", "admin_cancel", "admin_refund", "ship_once",
   "ship_read", "ship_lock", "ship_save"}

\* A handler: where it is, what it works on and the order row it last read.
Task ==
  [pc: PC, order: Orders \cup {NoOrder}, payment: Payments \cup {NoPayment},
   refund: RefundNumbers \cup {0}, view: OrderRow]

NoRow     == [status |-> "NONE", pay |-> "PENDING", cod |-> FALSE, awb |-> FALSE]
NoAttempt == [order |-> NoOrder, status |-> "PENDING", online |-> FALSE, at |-> 0]
IdleTask  == [pc |-> "idle", order |-> NoOrder, payment |-> NoPayment,
              refund |-> 0, view |-> NoRow]

TypeOK ==
  /\ orders   \in [Orders -> OrderRow]
  /\ payments \in [Payments -> PaymentRow]
  /\ stock    \in Int
  /\ audits   \subseteq AuditRow
  /\ expired  \subseteq Orders
  /\ captured \subseteq Payments
  /\ refunds  \in [Payments -> [RefundNumbers -> RefundState]]
  /\ sent     \subseteq Event
  /\ logged   \subseteq Event
  /\ task     \in [Workers -> Task]

Init ==
  /\ orders   = [o \in Orders |-> NoRow]
  /\ payments = [p \in Payments |-> NoAttempt]
  /\ stock    = InitialStock
  /\ audits   = {}
  /\ expired  = {}
  /\ captured = {}
  /\ refunds  = [p \in Payments |-> [n \in RefundNumbers |-> "none"]]
  /\ sent     = {}
  /\ logged   = {}
  /\ task     = [w \in Workers |-> IdleTask]

-----------------------------------------------------------------------------
(* Handlers *)

At(w, label) == task[w].pc = label

Begin(w, label, o, p, view) ==
  /\ At(w, "idle")
  /\ task' = [task EXCEPT ![w] =
               [pc |-> label, order |-> o, payment |-> p, refund |-> 0,
                view |-> view]]

Goto(w, label) == task' = [task EXCEPT ![w].pc = label]

Finish(w) == task' = [task EXCEPT ![w] = IdleTask]

\* Another request of the same process holds `o` at one of the labels.
HeldBySibling(w, o, labels) ==
  \E v \in Workers \ {w} :
    /\ InstanceOf[v] = InstanceOf[w]
    /\ task[v].order = o
    /\ task[v].pc \in labels

-----------------------------------------------------------------------------
(* Rows *)

Exists(o) == orders[o].status # "NONE"

PaymentsOf(o) == {p \in Payments : payments[p].order = o}

UnusedPayments == {p \in Payments : payments[p].order = NoOrder}

\* Rows that may still be claimed by a handler about to insert one: BOUND.
RowsLeft ==
  Cardinality(UnusedPayments) >
    Cardinality({w \in Workers : task[w].pc \in {"insert_online", "insert_cod"}})

NewAttempt(o, online) ==
  [order |-> o, status |-> "PENDING", online |-> online,
   at |-> Cardinality(Payments \ UnusedPayments) + 1]

\* The gateway queues the events its webhook is subscribed to.
Announce(events) == sent' = sent \cup {e \in events : e.kind \in Subscribed}

AuditsOf(o) == {a \in audits : a.order = o}

\* The RefundAudit rows that still stand for money on its way back.
LiveAudits(o) ==
  {a \in AuditsOf(o) : a.status \in {"REFUND_INITIATED", "REFUNDED"}}
=============================================================================
