-------------------------- MODULE FulfilmentState --------------------------
(* What happens to an order after it was placed and, unless it is paid on   *)
(* delivery, paid: the rows that the courier's webhook, the tracking sync,  *)
(* the admin's shipping and return endpoints and the customer's return      *)
(* share, and the courier's own books.  Placing, paying and refunding in    *)
(* detail are module Shop's; a refund is one step here (RefundOrder).       *)
(*                                                                          *)
(* BOUND: one return row per order, and one scan per stage and leg.         *)
EXTENDS Integers, FiniteSets

CONSTANTS
  Orders,          \* the orders
  Workers,         \* requests and jobs in flight: BOUND on concurrency
  InitialOrders,   \* the order rows that the runs start from
  HasVariant,      \* whether the item is a variant: the stock row checkout took
  Ops,             \* the endpoints and jobs that are exercised
  AdminStatuses,   \* the statuses an admin chooses from: BOUND
  AdminPayments,   \* the payment statuses an admin chooses from, or "none": BOUND
  Faults,          \* {"crash"} or {}
  MaxOverrides,    \* BOUND on the status overrides of admins
  MaxRestocks,     \* BOUND: a return is received again while fewer were restocked
  NoOrder          \* the null id

VARIABLES
  orders,     \* the Order rows
  attempt,    \* the status of the order's Payment row, "none" without one
  returns,    \* the OrderReturn rows
  audits,     \* the statuses of the order's RefundAudit rows
  gone,       \* refunds the gateway accepted, per order
  payouts,    \* COD refunds paid out by hand, per order
  shelf,      \* units put back on the shelf, per order: product and variant row
  parcel,     \* the courier's parcel, per order and leg
  scans,      \* the scans the courier has produced
  scanLog,    \* the scans in WebhookLog
  overrides,  \* status overrides so far
  job         \* what each worker is doing

books   == <<orders, attempt, returns, audits, gone, payouts, shelf>>
courier == <<parcel, scans>>
fvars   == <<orders, attempt, returns, audits, gone, payouts, shelf, parcel,
             scans, scanLog, overrides, job>>

-----------------------------------------------------------------------------
(* Types *)

OrderStatus ==
  {"PENDING", "PLACED", "PROCESSING", "PACKED", "SHIPPED", "OUT_FOR_DELIVERY",
   "DELIVERED", "CANCELLED", "RETURNED", "RETURN_INITIATED", "RTO_INITIATED",
   "RTO_IN_TRANSIT", "RTO_DELIVERED"}

PaymentStatus ==
  {"PENDING", "COMPLETED", "FAILED", "REFUND_INITIATED", "REFUNDED"}

\* An order paid on delivery has a Payment row only once the customer confirmed
\* it (PaymentsService.confirmCod); checkout writes none.
AttemptStatus == PaymentStatus \cup {"none"}

\* `provider`: courierPartner and shippingProvider are both filled in.
OrderRow ==
  [status: OrderStatus, pay: PaymentStatus, cod: BOOLEAN, awb: BOOLEAN,
   provider: BOOLEAN]

ReturnStatus ==
  {"NONE", "INITIATED", "PICKUP_SCHEDULED", "PICKED_UP", "IN_TRANSIT",
   "RETURN_RECEIVED", "REFUNDED", "COD_REFUND_PENDING", "COD_REFUNDED",
   "RETURN_REJECTED"}

\* `pickup`: the row carries a returnAwb.
ReturnRow ==
  [status: ReturnStatus, qc: {"none", "PENDING", "PASSED", "FAILED"},
   pickup: BOOLEAN]

AuditStatus == {"REFUND_INITIATED", "COD_REFUNDED"}

Leg == {"forward", "return"}

\* What a scan says, as EKART_STATUS_MAP and the sync's stages tell it apart.
Stage ==
  {"PACKED", "SHIPPED", "OUT_FOR_DELIVERY", "DELIVERED", "CANCELLED",
   "RTO_INITIATED", "RTO_IN_TRANSIT", "RTO_DELIVERED", "RETURNED"}

Scan == [order: Orders, leg: Leg, stage: Stage]

\* How a handler's decision is carried from its reads to its write.
Decision == OrderStatus \cup ReturnStatus \cup {"PASSED"}

JobPC ==
  {"idle", "scan_save", "rto_read", "rto_restock", "rto_refund", "sync_save",
   "sync_payments", "return_sync_save", "assign_save", "status_save",
   "status_payments", "return_save", "return_pickup", "receive_save", "qc_save",
   "qc_refund", "payout_save", "cancel_save", "cancel_refund"}

NoRow == [status |-> "PENDING", pay |-> "PENDING", cod |-> FALSE, awb |-> FALSE,
          provider |-> FALSE]

NoReturn == [status |-> "NONE", qc |-> "none", pickup |-> FALSE]

\* A handler: its step, its order, the order row it last read and its decision.
Job ==
  [pc: JobPC, order: Orders \cup {NoOrder}, leg: Leg, view: OrderRow,
   decision: Decision, pay: PaymentStatus \cup {"none"}]

IdleJob == [pc |-> "idle", order |-> NoOrder, leg |-> "forward", view |-> NoRow,
            decision |-> "NONE", pay |-> "none"]

ASSUME FulfilmentAssumption ==
  /\ NoOrder \notin Orders
  /\ IsFiniteSet(Orders)
  /\ InitialOrders \subseteq OrderRow
  /\ \A row \in InitialOrders : row.awb => row.status \in Stage
  /\ AdminStatuses \subseteq OrderStatus
  /\ AdminPayments \subseteq PaymentStatus \cup {"none"}
  /\ HasVariant \in BOOLEAN
  /\ MaxOverrides \in Nat
  /\ MaxRestocks \in Nat

FulfilmentTypeOK ==
  /\ orders    \in [Orders -> OrderRow]
  /\ attempt   \in [Orders -> AttemptStatus]
  /\ returns   \in [Orders -> ReturnRow]
  /\ audits    \in [Orders -> SUBSET AuditStatus]
  /\ gone      \in [Orders -> Nat]
  /\ payouts   \in [Orders -> Nat]
  /\ shelf     \in [Orders -> [product: Nat, variant: Nat]]
  /\ parcel    \in [Orders -> [Leg -> Stage \cup {"NONE"}]]
  /\ scans     \subseteq Scan
  /\ scanLog   \subseteq Scan
  /\ overrides \in Nat
  /\ job       \in [Workers -> Job]

\* A placed order: an online order's money was captured (module Shop), and an
\* order paid on delivery was confirmed or was not.
FulfilmentInit ==
  /\ orders    \in [Orders -> InitialOrders]
  /\ attempt   \in [Orders -> AttemptStatus]
  /\ \A o \in Orders :
       attempt[o] # orders[o].pay => orders[o].cod /\ attempt[o] = "none"
  /\ returns   = [o \in Orders |-> NoReturn]
  /\ audits    = [o \in Orders |-> {}]
  /\ gone      = [o \in Orders |-> 0]
  /\ payouts   = [o \in Orders |-> 0]
  /\ shelf     = [o \in Orders |-> [product |-> 0, variant |-> 0]]
  /\ parcel    = [o \in Orders |-> [l \in Leg |->
                     IF l = "forward" /\ orders[o].awb THEN orders[o].status ELSE "NONE"]]
  /\ scans     = {}
  /\ scanLog   = {}
  /\ overrides = 0
  /\ job       = [w \in Workers |-> IdleJob]

-----------------------------------------------------------------------------
(* Handlers *)

Doing(w, label) == job[w].pc = label

\* A handler starts and keeps the row it read and what it was asked to do.
StartAsked(w, label, o, leg, decision, pay) ==
  /\ Doing(w, "idle")
  /\ job' = [job EXCEPT ![w] =
              [pc |-> label, order |-> o, leg |-> leg, view |-> orders[o],
               decision |-> decision, pay |-> pay]]

Start(w, label, o, leg, decision) == StartAsked(w, label, o, leg, decision, "none")

Continue(w, label) == job' = [job EXCEPT ![w].pc = label]

Done(w) == job' = [job EXCEPT ![w] = IdleJob]

-----------------------------------------------------------------------------
(* Effects several handlers share *)

\* Restocking an item increments the product row, and the variant row as well
\* when the item has one.
Restocked(s) ==
  [product |-> s.product + 1,
   variant |-> IF HasVariant THEN s.variant + 1 ELSE s.variant]

\* Mutant: the payment row is forgotten.
ForgetAttempt(o) == UNCHANGED attempt

\* The payment row, where there is one, follows an order paid on delivery.
SettleAttempt(o) ==
  attempt' = IF attempt[o] = "PENDING" THEN [attempt EXCEPT ![o] = "COMPLETED"]
             ELSE attempt

\* PaymentsService.initiateRefundForOrder, in one step: an order that counts as
\* paid and has no live refund record is refunded by the gateway; a COD order
\* only gets a record.  RefundService has its steps and failures.
MayRefund(o) == orders[o].pay = "COMPLETED" /\ audits[o] = {}

RefundOrder(o) ==
  \/ /\ MayRefund(o)
     /\ orders[o].cod
     /\ audits' = [audits EXCEPT ![o] = @ \cup {"REFUND_INITIATED"}]
     /\ UNCHANGED <<gone, orders, attempt>>
  \/ /\ MayRefund(o)
     /\ ~orders[o].cod /\ attempt[o] = "COMPLETED"
     /\ gone'    = [gone EXCEPT ![o] = @ + 1]
     /\ audits'  = [audits EXCEPT ![o] = @ \cup {"REFUND_INITIATED"}]
     /\ orders'  = [orders EXCEPT ![o].pay = "REFUND_INITIATED"]
     /\ attempt' = [attempt EXCEPT ![o] = "REFUND_INITIATED"]
  \/ /\ MayRefund(o) => ~orders[o].cod /\ attempt[o] # "COMPLETED"
     /\ UNCHANGED <<gone, audits, orders, attempt>>
=============================================================================
