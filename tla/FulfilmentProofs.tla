-------------------------- MODULE FulfilmentProofs --------------------------
(* Type correctness of Fulfilment, and that a return is paid out at most    *)
(* once, for every value of the constants.  The types are inductive only    *)
(* together with what a handler under way may have decided: a scan carries  *)
(* a stage, a return's poll a return status, the others an order status.    *)
EXTENDS Fulfilment, TLAPS

Sensible(j) ==
  /\ j.pc # "idle" => j.order \in Orders
  /\ j.pc = "scan_save" => j.decision \in Stage
  /\ j.pc \in {"sync_save", "assign_save", "status_save"} => j.decision \in OrderStatus
  /\ j.pc = "return_sync_save" => j.decision \in ReturnStatus

SensibleJobs == job \in [Workers -> Job] /\ \A w \in Workers : Sensible(job[w])

RowsTyped ==
  /\ orders  \in [Orders -> OrderRow]
  /\ attempt \in [Orders -> AttemptStatus]
  /\ returns \in [Orders -> ReturnRow]
  /\ audits  \in [Orders -> SUBSET AuditStatus]
  /\ gone    \in [Orders -> Nat]
  /\ payouts \in [Orders -> Nat]
  /\ shelf   \in [Orders -> [product: Nat, variant: Nat]]

CourierTyped ==
  /\ parcel  \in [Orders -> [Leg -> Stage \cup {"NONE"}]]
  /\ scans   \subseteq Scan
  /\ scanLog \subseteq Scan

FulfilmentInv == RowsTyped /\ CourierTyped /\ overrides \in Nat /\ SensibleJobs

-----------------------------------------------------------------------------
(* What the helpers do to the types. *)

\* A handler begins with a decision that its first step can use.
LEMMA BeginsSensibly ==
  ASSUME FulfilmentInv, NEW w \in Workers, NEW label \in JobPC, NEW o \in Orders,
         NEW leg \in Leg, NEW decision \in Decision, NEW pay \in PaymentStatus \cup {"none"},
         StartAsked(w, label, o, leg, decision, pay),
         label = "scan_save" => decision \in Stage,
         label \in {"sync_save", "assign_save", "status_save"} => decision \in OrderStatus,
         label = "return_sync_save" => decision \in ReturnStatus
  PROVE  SensibleJobs'
<1>1. [pc |-> label, order |-> o, leg |-> leg, view |-> orders[o],
       decision |-> decision, pay |-> pay] \in Job
  BY DEF FulfilmentInv, RowsTyped, Job
<1> QED
  BY <1>1 DEF FulfilmentInv, SensibleJobs, Sensible, StartAsked

\* The steps at which a handler still needs its decision are its first ones.
LaterPC == JobPC \ {"scan_save", "sync_save", "assign_save", "status_save", "return_sync_save"}

LEMMA ContinuesSensibly ==
  ASSUME FulfilmentInv, NEW w \in Workers, NEW label \in LaterPC,
         job[w].pc # "idle", Continue(w, label)
  PROVE  SensibleJobs'
BY DEF FulfilmentInv, SensibleJobs, Sensible, Continue, LaterPC, Job

LEMMA EndsSensibly ==
  ASSUME FulfilmentInv, NEW w \in Workers, Done(w)
  PROVE  SensibleJobs'
<1>1. IdleJob \in Job /\ Sensible(IdleJob)
  BY DEF IdleJob, NoRow, Job, JobPC, OrderRow, OrderStatus, PaymentStatus, Leg, Decision,
         ReturnStatus, Sensible
<1> QED
  BY <1>1 DEF FulfilmentInv, SensibleJobs, Done

LEMMA SameJobs ==
  ASSUME FulfilmentInv, UNCHANGED job PROVE SensibleJobs'
BY DEF FulfilmentInv, SensibleJobs, Sensible

\* A handler under way has an order.
LEMMA HasOrder ==
  ASSUME FulfilmentInv, NEW w \in Workers, job[w].pc # "idle"
  PROVE  job[w].order \in Orders
BY DEF FulfilmentInv, SensibleJobs, Sensible

\* Writing columns of an order row.
LEMMA WritesOrderRow ==
  ASSUME NEW row \in OrderRow, NEW s \in OrderStatus, NEW p \in PaymentStatus,
         NEW a \in BOOLEAN, NEW b \in BOOLEAN
  PROVE  /\ [row EXCEPT !.status = s] \in OrderRow
         /\ [row EXCEPT !.pay = p] \in OrderRow
         /\ [row EXCEPT !.status = s, !.pay = p] \in OrderRow
         /\ [row EXCEPT !.awb = a, !.status = s] \in OrderRow
         /\ [row EXCEPT !.awb = a, !.provider = b, !.status = s, !.pay = p] \in OrderRow
<1>1. [row EXCEPT !.status = s] \in OrderRow
  BY DEF OrderRow
<1>2. [row EXCEPT !.pay = p] \in OrderRow
  BY DEF OrderRow
<1>3. [row EXCEPT !.status = s, !.pay = p] \in OrderRow
  BY DEF OrderRow
<1>4. [row EXCEPT !.awb = a, !.status = s] \in OrderRow
  BY DEF OrderRow
<1>5. [row EXCEPT !.awb = a, !.provider = b, !.status = s, !.pay = p] \in OrderRow
  BY DEF OrderRow
<1> QED BY <1>1, <1>2, <1>3, <1>4, <1>5

\* Writing columns of a return row.
LEMMA WritesReturnRow ==
  ASSUME NEW f \in [Orders -> ReturnRow], NEW o \in Orders, NEW s \in ReturnStatus,
         NEW q \in {"none", "PENDING", "PASSED", "FAILED"}
  PROVE  /\ [f EXCEPT ![o].status = s, ![o].qc = q] \in [Orders -> ReturnRow]
         /\ [f EXCEPT ![o].qc = q, ![o].status = s] \in [Orders -> ReturnRow]
<1>1. f[o] \in ReturnRow
  OBVIOUS
<1>2. [f[o] EXCEPT !.status = s, !.qc = q] \in ReturnRow
  BY <1>1 DEF ReturnRow
<1>3. [f[o] EXCEPT !.qc = q, !.status = s] \in ReturnRow
  BY <1>1 DEF ReturnRow
<1> QED BY <1>2, <1>3

LEMMA RestocksTyped ==
  ASSUME NEW f \in [Orders -> [product: Nat, variant: Nat]], NEW o \in Orders
  PROVE  [f EXCEPT ![o] = Restocked(@)] \in [Orders -> [product: Nat, variant: Nat]]
BY DEF Restocked

LEMMA SettlesTyped ==
  ASSUME RowsTyped, NEW o \in Orders, SettleAttempt(o)
  PROVE  attempt' \in [Orders -> AttemptStatus]
BY DEF RowsTyped, SettleAttempt, AttemptStatus, PaymentStatus

LEMMA RefundsTyped ==
  ASSUME RowsTyped, NEW o \in Orders, RefundOrder(o), UNCHANGED <<returns, payouts, shelf>>
  PROVE  RowsTyped'
<1>1. CASE UNCHANGED <<gone, orders, attempt>> /\
           audits' = [audits EXCEPT ![o] = @ \cup {"REFUND_INITIATED"}]
  BY <1>1 DEF RowsTyped, AuditStatus
<1>2. CASE /\ gone'    = [gone EXCEPT ![o] = @ + 1]
           /\ audits'  = [audits EXCEPT ![o] = @ \cup {"REFUND_INITIATED"}]
           /\ orders'  = [orders EXCEPT ![o].pay = "REFUND_INITIATED"]
           /\ attempt' = [attempt EXCEPT ![o] = "REFUND_INITIATED"]
  <2>1. orders' \in [Orders -> OrderRow]
    <3>1. /\ orders \in [Orders -> OrderRow] /\ orders[o] \in OrderRow /\ TRUE \in BOOLEAN
          /\ "PLACED" \in OrderStatus /\ "REFUND_INITIATED" \in PaymentStatus
      BY DEF RowsTyped, OrderStatus, PaymentStatus
    <3>2. [orders[o] EXCEPT !.pay = "REFUND_INITIATED"] \in OrderRow
      BY <3>1, WritesOrderRow, Zenon
    <3>3. orders' = [orders EXCEPT ![o] = [orders[o] EXCEPT !.pay = "REFUND_INITIATED"]]
      BY <1>2
    <3> QED BY <3>1, <3>2, <3>3, Zenon
  <2> QED BY <1>2, <2>1 DEF RowsTyped, AuditStatus, AttemptStatus, PaymentStatus
<1>3. CASE UNCHANGED <<gone, audits, orders, attempt>>
  BY <1>3 DEF RowsTyped
<1> QED BY <1>1, <1>2, <1>3 DEF RefundOrder

-----------------------------------------------------------------------------
(* The initial state, and every step. *)

LEMMA FulfilmentInitTyped == FulfilmentInit => FulfilmentInv
<1> SUFFICES ASSUME FulfilmentInit PROVE FulfilmentInv
  OBVIOUS
<1> USE FulfilmentAssumption DEF FulfilmentInit
<1>1. orders \in [Orders -> OrderRow] /\ \A o \in Orders : orders[o] \in InitialOrders
  OBVIOUS
<1>2. NoReturn \in ReturnRow
  BY DEF NoReturn, ReturnRow, ReturnStatus
<1>3. RowsTyped
  BY <1>1, <1>2 DEF RowsTyped, OrderRow
<1>4. \A o \in Orders : orders[o].awb => orders[o].status \in Stage
  BY <1>1
<1>5. CourierTyped
  BY <1>4 DEF CourierTyped, Leg
<1>6. IdleJob \in Job /\ Sensible(IdleJob)
  BY DEF IdleJob, NoRow, Job, JobPC, OrderRow, OrderStatus, PaymentStatus, Leg, Decision,
         ReturnStatus, Sensible
<1>7. SensibleJobs
  BY <1>6 DEF SensibleJobs
<1> QED BY <1>3, <1>5, <1>7 DEF FulfilmentInv

\* The courier's webhook.
LEMMA WebhookTyped ==
  ASSUME FulfilmentInv, NEW w \in Workers,
         \/ \E e \in scans : ReceiveScan(w, e)
         \/ ScanSave(w) \/ ScanDuplicate(w) \/ RtoRead(w) \/ RtoRestock(w) \/ RtoRefund(w)
  PROVE  FulfilmentInv'
<1> DEFINE o == job[w].order
<1>1. ASSUME NEW e \in scans, ReceiveScan(w, e) PROVE FulfilmentInv'
  <2>1. e \in Scan
    BY DEF FulfilmentInv, CourierTyped
  <2>2. SensibleJobs'
    BY <1>1, <2>1, BeginsSensibly, Zenon DEF ReceiveScan, Start, Scan, JobPC, Decision, Stage, OrderStatus
  <2> QED BY <1>1, <2>2 DEF ReceiveScan, FulfilmentInv, RowsTyped, CourierTyped, books, courier
<1>2. CASE ScanSave(w)
  <2> USE <1>2 DEF ScanSave
  <2>1. o \in Orders /\ job[w] \in Job /\ job[w].decision \in Stage
    BY HasOrder DEF FulfilmentInv, SensibleJobs, Sensible, Doing
  <2>2. ScanOf(w) \in Scan
    BY <2>1 DEF ScanOf, Scan, Job
  <2>3. orders[o] \in OrderRow
    BY <2>1 DEF FulfilmentInv, RowsTyped
  <2>4. ScanUpdate(w, orders[o]) \in OrderRow
    <3>1. /\ (orders[o].awb \/ ~job[w].view.awb) \in BOOLEAN
          /\ (orders[o].provider \/ ~job[w].view.provider) \in BOOLEAN
      OBVIOUS
    <3>2. (IF Advances(w) THEN job[w].decision ELSE orders[o].status) \in OrderStatus
      BY <2>1, <2>3 DEF OrderRow, Stage, OrderStatus
    <3>3. (IF Advances(w) /\ CollectsCash(w) THEN "COMPLETED" ELSE orders[o].pay) \in PaymentStatus
      BY <2>3 DEF OrderRow, PaymentStatus
    <3> HIDE <1>2
    <3> QED BY <2>3, <3>1, <3>2, <3>3, WritesOrderRow, ZenonT(60) DEF ScanUpdate
  <2>5. orders' \in [Orders -> OrderRow]
    BY <2>1, <2>4 DEF FulfilmentInv, RowsTyped
  <2>6. attempt' \in [Orders -> AttemptStatus]
    BY <2>1, SettlesTyped DEF FulfilmentInv, RowsTyped
  <2>7. SensibleJobs'
    BY <2>1, ContinuesSensibly, EndsSensibly DEF LaterPC, JobPC, Doing
  <2> QED BY <2>2, <2>5, <2>6, <2>7 DEF FulfilmentInv, RowsTyped, CourierTyped, courier
<1>3. CASE ScanDuplicate(w)
  BY <1>3, EndsSensibly
  DEF ScanDuplicate, FulfilmentInv, RowsTyped, CourierTyped, books, courier
<1>4. CASE RtoRead(w)
  <2> USE <1>4 DEF RtoRead
  <2>1. o \in Orders /\ job \in [Workers -> Job] /\ job[w].pc = "rto_read"
    BY HasOrder DEF FulfilmentInv, SensibleJobs, Doing
  <2>2. orders[o] \in OrderRow
    BY <2>1 DEF FulfilmentInv, RowsTyped
  <2>3. [job[w] EXCEPT !.pc = "rto_restock", !.view = orders[o]] \in Job
    BY ZenonT(30), <2>1, <2>2 DEF Job, JobPC
  <2>4. Sensible([job[w] EXCEPT !.pc = "rto_restock", !.view = orders[o]])
    BY <2>1 DEF Sensible, Job
  <2>5. job' = [job EXCEPT ![w] = [job[w] EXCEPT !.pc = "rto_restock", !.view = orders[o]]]
    BY <2>1
  <2>6. SensibleJobs'
    <3> HIDE DEF o
    <3> HIDE <1>4
    <3> QED BY <2>3, <2>4, <2>5 DEF FulfilmentInv, SensibleJobs
  <2> QED BY <2>6 DEF FulfilmentInv, RowsTyped, CourierTyped, books, courier
<1>5. CASE RtoRestock(w)
  <2> USE <1>5 DEF RtoRestock
  <2>1. o \in Orders
    BY HasOrder DEF Doing
  <2>2. shelf' \in [Orders -> [product: Nat, variant: Nat]]
    BY <2>1, RestocksTyped DEF FulfilmentInv, RowsTyped
  <2>3. orders' \in [Orders -> OrderRow]
    <3>1. "PLACED" \in OrderStatus /\ TRUE \in BOOLEAN /\ "REFUND_INITIATED" \in PaymentStatus
      BY DEF OrderStatus, PaymentStatus
    <3>2. orders[o] \in OrderRow
      BY <2>1 DEF FulfilmentInv, RowsTyped
    <3>3. [orders[o] EXCEPT !.pay = "REFUND_INITIATED"] \in OrderRow
      <4> HIDE <1>5
      <4> QED BY <3>1, <3>2, WritesOrderRow, Zenon
    <3> QED BY <2>1, <3>3 DEF FulfilmentInv, RowsTyped
  <2>4. SensibleJobs'
    BY ContinuesSensibly, EndsSensibly DEF LaterPC, JobPC, Doing
  <2> QED BY <2>2, <2>3, <2>4 DEF FulfilmentInv, RowsTyped, CourierTyped, courier
<1>6. CASE RtoRefund(w)
  BY <1>6, HasOrder, RefundsTyped, EndsSensibly
  DEF RtoRefund, Doing, FulfilmentInv, CourierTyped, courier
<1> QED BY <1>1, <1>2, <1>3, <1>4, <1>5, <1>6

\* The tracking sync.
LEMMA SyncTyped ==
  ASSUME FulfilmentInv, NEW w \in Workers,
         \/ \E o \in Orders : SyncOrderTracking(w, o) \/ SyncReturn(w, o)
         \/ SyncSave(w) \/ SyncLost(w) \/ SyncPayments(w) \/ SyncReturnSave(w)
  PROVE  FulfilmentInv'
<1> DEFINE d == job[w].order
<1>1. ASSUME NEW o \in Orders, SyncOrderTracking(w, o) PROVE FulfilmentInv'
  <2> USE <1>1 DEF SyncOrderTracking
  <2>1. PICK target \in ForwardTargets(Reported(o, "forward")) :
          Start(w, "sync_save", o, "forward", target)
    OBVIOUS
  <2>2. target \in OrderStatus
    BY DEF ForwardTargets, ForwardRank, OrderStatus
  <2>3. SensibleJobs'
    <3>1. /\ "sync_save" \in JobPC /\ "forward" \in Leg /\ "none" \in PaymentStatus \cup {"none"}
          /\ target \in Decision
      BY <2>2 DEF JobPC, Leg, Decision
    <3> QED BY <2>1, <2>2, <3>1, BeginsSensibly DEF Start
  <2> QED BY <2>3 DEF FulfilmentInv, RowsTyped, CourierTyped, books, courier
<1>2. ASSUME NEW o \in Orders, SyncReturn(w, o) PROVE FulfilmentInv'
  <2> DEFINE to == DeriveReturnStatus[parcel[o]["return"]]
  <2>1. Start(w, "return_sync_save", o, "return", to) /\ to \in ReturnStatus
    BY <1>2 DEF SyncReturn, DeriveReturnStatus, ReturnStatus
  <2>2. SensibleJobs'
    <3>1. /\ "return_sync_save" \in JobPC /\ "return" \in Leg
          /\ "none" \in PaymentStatus \cup {"none"} /\ to \in Decision
      BY <2>1 DEF JobPC, Leg, Decision
    <3> HIDE DEF to
    <3> QED BY <2>1, <3>1, BeginsSensibly DEF Start
  <2> QED BY <1>2, <2>2 DEF SyncReturn, FulfilmentInv, RowsTyped, CourierTyped, books, courier
<1>3. CASE SyncSave(w)
  <2> USE <1>3 DEF SyncSave
  <2>1. d \in Orders /\ job[w].decision \in OrderStatus
    BY HasOrder DEF FulfilmentInv, SensibleJobs, Sensible, Doing
  <2>2. orders[d] \in OrderRow /\ "COMPLETED" \in PaymentStatus
    BY <2>1 DEF FulfilmentInv, RowsTyped, PaymentStatus
  <2>3. (IF CollectsCash(w) THEN "COMPLETED" ELSE orders[d].pay) \in PaymentStatus
    BY <2>2 DEF OrderRow
  <2>4. [orders[d] EXCEPT !.status = job[w].decision,
                          !.pay = IF CollectsCash(w) THEN "COMPLETED" ELSE orders[d].pay] \in OrderRow
    <3> HIDE <1>3
    <3> QED BY <2>1, <2>2, <2>3, WritesOrderRow, Zenon
  <2>5. orders' \in [Orders -> OrderRow]
    BY <2>1, <2>4 DEF FulfilmentInv, RowsTyped
  <2>6. SensibleJobs'
    BY ContinuesSensibly, EndsSensibly DEF LaterPC, JobPC, Doing
  <2> QED BY <2>5, <2>6 DEF FulfilmentInv, RowsTyped, CourierTyped, courier
<1>4. CASE SyncLost(w)
  BY <1>4, EndsSensibly DEF SyncLost, FulfilmentInv, RowsTyped, CourierTyped, books, courier
<1>5. CASE SyncPayments(w)
  BY <1>5, HasOrder, SettlesTyped, EndsSensibly
  DEF SyncPayments, Doing, FulfilmentInv, RowsTyped, CourierTyped, courier
<1>6. CASE SyncReturnSave(w)
  <2> USE <1>6 DEF SyncReturnSave
  <2>1. d \in Orders /\ job[w].decision \in ReturnStatus
    BY HasOrder DEF FulfilmentInv, SensibleJobs, Sensible, Doing
  <2>2. returns' \in [Orders -> ReturnRow]
    BY ZenonT(60), <2>1 DEF FulfilmentInv, RowsTyped, ReturnRow
  <2> QED BY <2>2, EndsSensibly DEF FulfilmentInv, RowsTyped, CourierTyped, courier
<1> QED BY <1>1, <1>2, <1>3, <1>4, <1>5, <1>6

\* The admin's hand on an order.
LEMMA ShippingAdminTyped ==
  ASSUME FulfilmentInv, NEW w \in Workers,
         \/ \E o \in Orders :
              \/ AssignCourier(w, o) \/ AdminCancel(w, o)
              \/ \E status \in AdminStatuses, pay \in AdminPayments :
                   UpdateOrderStatus(w, o, status, pay)
         \/ AssignSave(w) \/ UpdateOrderStatusSave(w) \/ UpdateOrderStatusPayments(w)
         \/ \E restockItems \in BOOLEAN : AdminCancelSave(w, restockItems)
         \/ AdminCancelRefund(w)
  PROVE  FulfilmentInv'
<1> DEFINE d == job[w].order
<1>1. ASSUME NEW o \in Orders, AssignCourier(w, o) PROVE FulfilmentInv'
  <2>1. ShippedFrom(orders[o].status) \in OrderStatus
    BY DEF ShippedFrom, FulfilmentInv, RowsTyped, OrderRow, OrderStatus
  <2>2. /\ "assign_save" \in JobPC /\ "forward" \in Leg /\ "none" \in PaymentStatus \cup {"none"}
        /\ ShippedFrom(orders[o].status) \in Decision
    BY <2>1 DEF JobPC, Leg, Decision
  <2>3. SensibleJobs'
    BY <1>1, <2>1, <2>2, BeginsSensibly DEF AssignCourier, Start
  <2> QED BY <1>1, <2>3 DEF AssignCourier, FulfilmentInv, RowsTyped, CourierTyped, books, courier
<1>2. ASSUME NEW o \in Orders, AdminCancel(w, o) PROVE FulfilmentInv'
  <2>1. /\ "cancel_save" \in JobPC /\ "forward" \in Leg /\ "none" \in PaymentStatus \cup {"none"}
        /\ "NONE" \in Decision
    BY DEF JobPC, Leg, Decision, ReturnStatus
  <2>2. SensibleJobs'
    BY <1>2, <2>1, BeginsSensibly DEF AdminCancel, Start
  <2> QED BY <1>2, <2>2 DEF AdminCancel, FulfilmentInv, RowsTyped, CourierTyped, books, courier
<1>3. ASSUME NEW o \in Orders, NEW status \in AdminStatuses, NEW pay \in AdminPayments,
             UpdateOrderStatus(w, o, status, pay)
      PROVE  FulfilmentInv'
  <2>1. /\ "status_save" \in JobPC /\ "forward" \in Leg /\ pay \in PaymentStatus \cup {"none"}
        /\ status \in OrderStatus /\ status \in Decision
    BY FulfilmentAssumption DEF JobPC, Leg, Decision
  <2>2. SensibleJobs'
    BY <1>3, <2>1, BeginsSensibly DEF UpdateOrderStatus
  <2>3. overrides' \in Nat
    BY <1>3 DEF UpdateOrderStatus, Overrides, FulfilmentInv
  <2> QED BY <1>3, <2>2, <2>3
      DEF UpdateOrderStatus, FulfilmentInv, RowsTyped, CourierTyped, books, courier
<1>4. CASE AssignSave(w)
  <2> USE <1>4 DEF AssignSave
  <2>1. d \in Orders /\ job[w].decision \in OrderStatus
    BY HasOrder DEF FulfilmentInv, SensibleJobs, Sensible, Doing
  <2>2. orders' \in [Orders -> OrderRow]
    BY ZenonT(30), <2>1 DEF FulfilmentInv, RowsTyped, OrderRow
  <2>3. parcel' \in [Orders -> [Leg -> Stage \cup {"NONE"}]]
    BY <2>1 DEF BookParcel, FulfilmentInv, CourierTyped, Stage, Leg
  <2> QED BY <2>2, <2>3, EndsSensibly DEF FulfilmentInv, RowsTyped, CourierTyped
<1>5. CASE UpdateOrderStatusSave(w)
  <2> USE <1>5 DEF UpdateOrderStatusSave
  <2>1. /\ d \in Orders /\ job[w].decision \in OrderStatus
        /\ job \in [Workers -> Job] /\ job[w].pay \in PaymentStatus \cup {"none"}
    BY HasOrder DEF FulfilmentInv, SensibleJobs, Sensible, Doing, Job
  <2>2. TargetPayment(w) \in PaymentStatus \cup {"none"}
    BY <2>1 DEF TargetPayment, PaymentStatus
  <2>3. orders' \in [Orders -> OrderRow]
    <3> DEFINE p == IF TargetPayment(w) = "none" THEN orders[d].pay ELSE TargetPayment(w)
    <3>1. orders[d] \in OrderRow
      BY <2>1 DEF FulfilmentInv, RowsTyped
    <3>2. p \in PaymentStatus
      BY <2>2, <3>1 DEF OrderRow
    <3>3. [orders[d] EXCEPT !.status = job[w].decision, !.pay = p] \in OrderRow
      <4> HIDE <1>5
      <4> HIDE DEF p
      <4> QED BY <2>1, <3>1, <3>2, WritesOrderRow, Zenon
    <3> QED BY <2>1, <3>3 DEF FulfilmentInv, RowsTyped
  <2>4. [job[w] EXCEPT !.pc = "status_payments", !.pay = TargetPayment(w)] \in Job
    BY ZenonT(30), <2>1, <2>2 DEF Job, JobPC
  <2>5. Sensible([job[w] EXCEPT !.pc = "status_payments", !.pay = TargetPayment(w)])
    BY <2>1 DEF Sensible, Job
  <2>6. SensibleJobs'
    BY <2>1, <2>4, <2>5 DEF FulfilmentInv, SensibleJobs
  <2> QED BY <2>3, <2>6 DEF FulfilmentInv, RowsTyped, CourierTyped, courier
<1>6. CASE UpdateOrderStatusPayments(w)
  <2> USE <1>6 DEF UpdateOrderStatusPayments
  <2>1. d \in Orders
    BY HasOrder DEF Doing
  <2>2. attempt' \in [Orders -> AttemptStatus]
    BY <2>1 DEF FulfilmentInv, RowsTyped, AttemptAfter, AttemptStatus, PaymentStatus
  <2> QED BY <2>2, EndsSensibly DEF FulfilmentInv, RowsTyped, CourierTyped, courier
<1>7. ASSUME NEW restockItems \in BOOLEAN, AdminCancelSave(w, restockItems)
      PROVE  FulfilmentInv'
  <2> USE <1>7 DEF AdminCancelSave
  <2>1. d \in Orders
    BY HasOrder DEF Doing
  <2>2. CASE orders[d].status = "CANCELLED"
    BY <2>2, EndsSensibly DEF FulfilmentInv, RowsTyped, CourierTyped, courier
  <2>3. CASE orders[d].status # "CANCELLED"
    <3>1. orders' = [orders EXCEPT ![d].status = "CANCELLED"]
      BY <2>3
    <3>2. orders' \in [Orders -> OrderRow]
      <4> HIDE <1>7
      <4> QED BY SMTT(30), <2>1, <3>1 DEF FulfilmentInv, RowsTyped, OrderRow, OrderStatus
    <3>3. shelf' = IF restockItems THEN [shelf EXCEPT ![d] = Restocked(@)] ELSE shelf
      BY <2>3
    <3>4. shelf' \in [Orders -> [product: Nat, variant: Nat]]
      <4> HIDE <1>7
      <4> QED BY <2>1, <3>3, RestocksTyped DEF FulfilmentInv, RowsTyped
    <3>5. SensibleJobs'
      BY <2>3, ContinuesSensibly DEF LaterPC, JobPC, Doing
    <3> QED BY <3>2, <3>4, <3>5 DEF FulfilmentInv, RowsTyped, CourierTyped, courier
  <2> QED BY <2>2, <2>3
<1>8. CASE AdminCancelRefund(w)
  <2>1. RowsTyped'
    BY <1>8, HasOrder, RefundsTyped DEF AdminCancelRefund, Doing, FulfilmentInv, RowsTyped
  <2> QED BY <1>8, <2>1, EndsSensibly DEF AdminCancelRefund, FulfilmentInv, CourierTyped, courier
<1> QED BY <1>1, <1>2, <1>3, <1>4, <1>5, <1>6, <1>7, <1>8

\* The customer's return and the warehouse.
LEMMA ReturnsTyped ==
  ASSUME FulfilmentInv, NEW w \in Workers,
         \/ \E o \in Orders :
              \/ ReturnOrder(w, o) \/ ConfirmReturnReceived(w, o) \/ ConfirmCodRefund(w, o)
              \/ \E verdict \in {"PASSED", "RETURN_REJECTED"} : ProcessReturnQc(w, o, verdict)
         \/ ReturnSave(w) \/ ReturnConflict(w) \/ ReturnPickup(w) \/ ReturnPickupFails(w)
         \/ ConfirmReturnReceivedSave(w) \/ QcRefund(w) \/ QcFailed(w)
         \/ \E restockItems \in BOOLEAN : QcPassed(w, restockItems)
         \/ ConfirmCodRefundSave(w) \/ ConfirmCodRefundConflict(w)
  PROVE  FulfilmentInv'
<1> DEFINE d == job[w].order
<1>a. /\ {"return_save", "receive_save", "qc_save", "payout_save"} \subseteq LaterPC
      /\ {"return_pickup", "qc_refund"} \subseteq LaterPC
      /\ LaterPC \subseteq JobPC
  BY DEF LaterPC, JobPC
<1>b. {"NONE", "RETURN_RECEIVED", "PASSED", "RETURN_REJECTED"} \subseteq Decision
  BY DEF Decision, ReturnStatus
<1>c. ASSUME NEW label \in LaterPC, NEW o \in Orders, NEW decision \in Decision,
             Start(w, label, o, "return", decision)
      PROVE  SensibleJobs'
  <2>1. label \in JobPC /\ "return" \in Leg /\ "none" \in PaymentStatus \cup {"none"}
    BY <1>a DEF Leg
  <2> QED BY <1>c, <2>1, BeginsSensibly DEF Start, LaterPC
<1>1. ASSUME NEW o \in Orders, ReturnOrder(w, o) PROVE FulfilmentInv'
  <2>1. SensibleJobs'
    BY <1>1, <1>a, <1>b, <1>c DEF ReturnOrder
  <2> QED BY <1>1, <2>1 DEF ReturnOrder, FulfilmentInv, RowsTyped, CourierTyped, books, courier
<1>2. ASSUME NEW o \in Orders, ConfirmReturnReceived(w, o) PROVE FulfilmentInv'
  <2>1. SensibleJobs'
    BY <1>2, <1>a, <1>b, <1>c DEF ConfirmReturnReceived
  <2> QED BY <1>2, <2>1
      DEF ConfirmReturnReceived, FulfilmentInv, RowsTyped, CourierTyped, books, courier
<1>3. ASSUME NEW o \in Orders, ConfirmCodRefund(w, o) PROVE FulfilmentInv'
  <2>1. SensibleJobs'
    BY <1>3, <1>a, <1>b, <1>c DEF ConfirmCodRefund
  <2> QED BY <1>3, <2>1
      DEF ConfirmCodRefund, FulfilmentInv, RowsTyped, CourierTyped, books, courier
<1>4. ASSUME NEW o \in Orders, NEW verdict \in {"PASSED", "RETURN_REJECTED"},
             ProcessReturnQc(w, o, verdict)
      PROVE  FulfilmentInv'
  <2>1. SensibleJobs'
    BY <1>4, <1>a, <1>b, <1>c DEF ProcessReturnQc
  <2> QED BY <1>4, <2>1
      DEF ProcessReturnQc, FulfilmentInv, RowsTyped, CourierTyped, books, courier
<1>5. CASE ReturnSave(w)
  <2> USE <1>5 DEF ReturnSave
  <2>1. d \in Orders
    BY HasOrder DEF Doing
  <2>2. orders' \in [Orders -> OrderRow]
    BY ZenonT(60), <2>1 DEF FulfilmentInv, RowsTyped, OrderRow, OrderStatus
  <2>3. [NoReturn EXCEPT !.status = "INITIATED"] \in ReturnRow
    BY DEF NoReturn, ReturnRow, ReturnStatus
  <2>4. returns' \in [Orders -> ReturnRow]
    BY <2>1, <2>3 DEF FulfilmentInv, RowsTyped
  <2>5. SensibleJobs'
    BY <1>a, ContinuesSensibly DEF Doing
  <2> QED BY <2>2, <2>4, <2>5 DEF FulfilmentInv, RowsTyped, CourierTyped, courier
<1>6. CASE ReturnConflict(w) \/ ReturnPickupFails(w) \/ ConfirmCodRefundConflict(w)
  BY <1>6, EndsSensibly
  DEF ReturnConflict, ReturnPickupFails, ConfirmCodRefundConflict, FulfilmentInv, RowsTyped,
      CourierTyped, books, courier
<1>7. CASE ReturnPickup(w)
  <2> USE <1>7 DEF ReturnPickup
  <2>1. d \in Orders
    BY HasOrder DEF Doing
  <2>2. returns' \in [Orders -> ReturnRow]
    BY <2>1 DEF FulfilmentInv, RowsTyped, ReturnRow, ReturnStatus
  <2>3. parcel' \in [Orders -> [Leg -> Stage \cup {"NONE"}]]
    BY <2>1 DEF FulfilmentInv, CourierTyped, Stage, Leg
  <2> QED BY <2>2, <2>3, EndsSensibly DEF FulfilmentInv, RowsTyped, CourierTyped
<1>8. CASE ConfirmReturnReceivedSave(w)
  <2> USE <1>8 DEF ConfirmReturnReceivedSave
  <2>1. d \in Orders
    BY HasOrder DEF Doing
  <2>2. returns' \in [Orders -> ReturnRow]
    BY SMTT(30), <2>1 DEF FulfilmentInv, RowsTyped, ReturnRow, ReturnStatus
  <2> QED BY <2>2, EndsSensibly DEF FulfilmentInv, RowsTyped, CourierTyped, courier
<1>9. CASE QcRefund(w)
  BY <1>9, HasOrder, RefundsTyped, EndsSensibly
  DEF QcRefund, Doing, FulfilmentInv, CourierTyped, courier
<1>10. CASE QcFailed(w)
  <2> USE <1>10 DEF QcFailed
  <2>1. d \in Orders
    BY HasOrder DEF Doing
  <2>2. returns' \in [Orders -> ReturnRow]
    BY ZenonT(60), <2>1, WritesReturnRow DEF FulfilmentInv, RowsTyped, ReturnStatus
  <2> QED BY <2>2, EndsSensibly DEF FulfilmentInv, RowsTyped, CourierTyped, courier
<1>11. ASSUME NEW restockItems \in BOOLEAN, QcPassed(w, restockItems) PROVE FulfilmentInv'
  <2> USE <1>11 DEF QcPassed
  <2>1. d \in Orders
    BY HasOrder DEF Doing
  <2>2. returns' \in [Orders -> ReturnRow]
    <3> DEFINE q == IF orders[d].cod THEN "COD_REFUND_PENDING" ELSE "REFUNDED"
    <3>1. returns' = [returns EXCEPT ![d].qc = "PASSED", ![d].status = q]
      OBVIOUS
    <3>2. q \in ReturnStatus /\ returns \in [Orders -> ReturnRow]
      BY DEF FulfilmentInv, RowsTyped, ReturnStatus
    <3>3. "PASSED" \in {"none", "PENDING", "PASSED", "FAILED"}
      OBVIOUS
    <3> HIDE <1>11
    <3> HIDE DEF q
    <3> QED BY <2>1, <3>1, <3>2, <3>3, WritesReturnRow, Zenon
  <2>3. shelf' \in [Orders -> [product: Nat, variant: Nat]]
    BY <2>1, RestocksTyped DEF FulfilmentInv, RowsTyped
  <2>4. orders[d] \in OrderRow
    BY <2>1 DEF FulfilmentInv, RowsTyped
  <2>5. ReturnedOnline(orders[d]) \in OrderRow
    BY <2>4 DEF ReturnedOnline, OrderRow, OrderStatus, PaymentStatus
  <2>6. orders' \in [Orders -> OrderRow]
    BY <2>1, <2>5 DEF FulfilmentInv, RowsTyped
  <2>7. SensibleJobs'
    BY <1>a, ContinuesSensibly, EndsSensibly DEF Doing
  <2> QED BY <2>2, <2>3, <2>6, <2>7 DEF FulfilmentInv, RowsTyped, CourierTyped, courier
<1>12. CASE ConfirmCodRefundSave(w)
  <2> USE <1>12 DEF ConfirmCodRefundSave
  <2>1. d \in Orders
    BY HasOrder DEF Doing
  <2>2. orders' \in [Orders -> OrderRow]
    <3>1. /\ orders[d] \in OrderRow /\ TRUE \in BOOLEAN
          /\ "RETURNED" \in OrderStatus /\ "REFUNDED" \in PaymentStatus
      BY <2>1 DEF FulfilmentInv, RowsTyped, OrderStatus, PaymentStatus
    <3>2. [orders[d] EXCEPT !.status = "RETURNED", !.pay = "REFUNDED"] \in OrderRow
      <4> HIDE <1>12
      <4> QED BY <3>1, WritesOrderRow, Zenon
    <3> QED BY <2>1, <3>2 DEF FulfilmentInv, RowsTyped
  <2>3. returns' \in [Orders -> ReturnRow]
    BY ZenonT(30), <2>1 DEF FulfilmentInv, RowsTyped, ReturnRow, ReturnStatus
  <2>4. audits' \in [Orders -> SUBSET AuditStatus] /\ payouts' \in [Orders -> Nat]
    BY <2>1 DEF FulfilmentInv, RowsTyped, AuditStatus
  <2> QED BY <2>2, <2>3, <2>4, EndsSensibly DEF FulfilmentInv, RowsTyped, CourierTyped, courier
<1> QED BY <1>1, <1>2, <1>3, <1>4, <1>5, <1>6, <1>7, <1>8, <1>9, <1>10, <1>11, <1>12

LEMMA ProcessRefundTyped ==
  ASSUME FulfilmentInv, NEW o \in Orders, ProcessRefund(o)
  PROVE  FulfilmentInv'
<1> USE DEF ProcessRefund
<1>1. returns' \in [Orders -> ReturnRow]
  BY ZenonT(60) DEF FulfilmentInv, RowsTyped, ReturnRow, ReturnStatus
<1>2. audits' \in [Orders -> SUBSET AuditStatus]
  BY DEF FulfilmentInv, RowsTyped, AuditStatus
<1> QED BY <1>1, <1>2, SameJobs DEF FulfilmentInv, RowsTyped, CourierTyped, courier

LEMMA UpdateShipmentStatusTyped ==
  ASSUME FulfilmentInv, NEW o \in Orders, NEW status \in AdminStatuses,
         UpdateShipmentStatus(o, status)
  PROVE  FulfilmentInv'
<1>1. orders' \in [Orders -> OrderRow]
  BY SMTT(30), FulfilmentAssumption DEF UpdateShipmentStatus, FulfilmentInv, RowsTyped, OrderRow
<1>2. overrides' \in Nat
  BY DEF UpdateShipmentStatus, Overrides, FulfilmentInv
<1> QED BY <1>1, <1>2, SameJobs
    DEF UpdateShipmentStatus, FulfilmentInv, RowsTyped, CourierTyped, courier

LEMMA CourierMovesTyped ==
  ASSUME FulfilmentInv, NEW o \in Orders, NEW leg \in Leg, NEW stage \in Stage,
         CourierMoves(o, leg, stage)
  PROVE  FulfilmentInv'
<1>1. parcel' \in [Orders -> [Leg -> Stage \cup {"NONE"}]]
  BY DEF CourierMoves, FulfilmentInv, CourierTyped
<1>2. scans' \subseteq Scan
  BY DEF CourierMoves, FulfilmentInv, CourierTyped, Scan
<1> QED BY <1>1, <1>2, SameJobs DEF CourierMoves, FulfilmentInv, RowsTyped, CourierTyped, books

LEMMA FulfilmentNextTyped == FulfilmentInv /\ [FulfilmentNext]_fvars => FulfilmentInv'
<1> SUFFICES ASSUME FulfilmentInv, [FulfilmentNext]_fvars PROVE FulfilmentInv'
  OBVIOUS
<1>1. ASSUME NEW w \in Workers, Arrives(w) PROVE FulfilmentInv'
  <2> USE <1>1 DEF Arrives
  <2>1. CASE \E e \in scans : ReceiveScan(w, e)
    BY <2>1, WebhookTyped
  <2>2. CASE \E o \in Orders : SyncOrderTracking(w, o) \/ SyncReturn(w, o)
    BY <2>2, SyncTyped
  <2>3. CASE \E o \in Orders :
               \/ AssignCourier(w, o) \/ AdminCancel(w, o)
               \/ \E status \in AdminStatuses, pay \in AdminPayments :
                    UpdateOrderStatus(w, o, status, pay)
    BY <2>3, ShippingAdminTyped
  <2>4. CASE \E o \in Orders :
               \/ ReturnOrder(w, o) \/ ConfirmReturnReceived(w, o) \/ ConfirmCodRefund(w, o)
               \/ \E verdict \in {"PASSED", "RETURN_REJECTED"} : ProcessReturnQc(w, o, verdict)
    BY <2>4, ReturnsTyped
  <2> QED BY <2>1, <2>2, <2>3, <2>4
<1>2. ASSUME NEW w \in Workers, GoesOn(w) PROVE FulfilmentInv'
  BY <1>2, WebhookTyped, SyncTyped, ShippingAdminTyped, ReturnsTyped DEF GoesOn
<1>3. ASSUME NEW w \in Workers, FulfilmentCrash(w) PROVE FulfilmentInv'
  BY <1>3, EndsSensibly
  DEF FulfilmentCrash, FulfilmentInv, RowsTyped, CourierTyped, books, courier
<1>4. ASSUME NEW o \in Orders, NEW status \in AdminStatuses, UpdateShipmentStatus(o, status)
      PROVE  FulfilmentInv'
  BY <1>4, UpdateShipmentStatusTyped
<1>5. ASSUME NEW o \in Orders, ProcessRefund(o) PROVE FulfilmentInv'
  BY <1>5, ProcessRefundTyped
<1>6. ASSUME NEW o \in Orders, NEW leg \in Leg, NEW stage \in Stage, CourierMoves(o, leg, stage)
      PROVE  FulfilmentInv'
  BY <1>6, CourierMovesTyped
<1>7. CASE UNCHANGED fvars
  BY <1>7, SameJobs DEF fvars, FulfilmentInv, RowsTyped, CourierTyped
<1> QED BY <1>1, <1>2, <1>3, <1>4, <1>5, <1>6, <1>7 DEF FulfilmentNext

-----------------------------------------------------------------------------
(* Theorems *)

LEMMA FulfilmentInvariant == FulfilmentSpec => []FulfilmentInv
BY FulfilmentInitTyped, FulfilmentNextTyped, PTL DEF FulfilmentSpec

\* Whatever webhook, sync, admin and customer do at once, every row and every
\* handler keeps its type.
THEOREM FulfilmentTyped == FulfilmentSpec => []FulfilmentTypeOK
<1>1. FulfilmentInv => FulfilmentTypeOK
  BY DEF FulfilmentInv, RowsTyped, CourierTyped, SensibleJobs, FulfilmentTypeOK
<1> QED BY FulfilmentInvariant, <1>1, PTL

\* Once the cash was paid out there is a record, whose key is unique, and no
\* handler deletes it.
PayoutsOnRecord ==
  \A o \in Orders :
    /\ payouts[o] <= 1
    /\ payouts[o] = 1 => "COD_REFUNDED" \in audits[o]

\* Only confirmCodRefund pays out; the other handlers add to the records at most.
LEMMA RecordsStay ==
  ASSUME FulfilmentInv, [FulfilmentNext]_fvars
  PROVE  \/ \E w \in Workers : ConfirmCodRefundSave(w)
         \/ UNCHANGED payouts /\ \A o \in Orders : audits[o] \subseteq audits'[o]
<1> DEFINE Stay == UNCHANGED payouts /\ \A o \in Orders : audits[o] \subseteq audits'[o]
<1>1. ASSUME NEW o \in Orders, RefundOrder(o), UNCHANGED payouts PROVE Stay
  BY <1>1 DEF RefundOrder, FulfilmentInv, RowsTyped
<1>2. ASSUME NEW w \in Workers, Arrives(w) PROVE Stay
  BY <1>2 DEF Arrives, ReceiveScan, SyncOrderTracking, SyncReturn, AssignCourier, UpdateOrderStatus,
     AdminCancel, ReturnOrder, ConfirmReturnReceived, ProcessReturnQc, ConfirmCodRefund, books
<1>3. ASSUME NEW w \in Workers, GoesOn(w), ~ConfirmCodRefundSave(w) PROVE Stay
  <2>1. CASE RtoRefund(w) \/ QcRefund(w) \/ AdminCancelRefund(w)
    BY <2>1, <1>1, HasOrder DEF RtoRefund, QcRefund, AdminCancelRefund, Doing
  <2>2. CASE ~(RtoRefund(w) \/ QcRefund(w) \/ AdminCancelRefund(w))
    BY <1>3, <2>2 DEF GoesOn, ScanSave, ScanDuplicate, RtoRead, RtoRestock, SyncSave, SyncLost,
       SyncPayments, SyncReturnSave, AssignSave, UpdateOrderStatusSave, UpdateOrderStatusPayments,
       AdminCancelSave, ReturnSave, ReturnConflict, ReturnPickup, ReturnPickupFails,
       ConfirmReturnReceivedSave, QcPassed, QcFailed, ConfirmCodRefundConflict, books
  <2> QED BY <2>1, <2>2
<1>4. ASSUME NEW w \in Workers, FulfilmentCrash(w) PROVE Stay
  BY <1>4 DEF FulfilmentCrash, books
<1>5. ASSUME NEW o \in Orders, NEW status \in AdminStatuses, UpdateShipmentStatus(o, status)
      PROVE  Stay
  BY <1>5 DEF UpdateShipmentStatus
<1>6. ASSUME NEW o \in Orders, ProcessRefund(o) PROVE Stay
  BY <1>6 DEF ProcessRefund, FulfilmentInv, RowsTyped
<1>7. ASSUME NEW o \in Orders, NEW leg \in Leg, NEW stage \in Stage, CourierMoves(o, leg, stage)
      PROVE  Stay
  BY <1>7 DEF CourierMoves, books
<1>8. CASE UNCHANGED fvars
  BY <1>8 DEF fvars
<1> QED BY <1>2, <1>3, <1>4, <1>5, <1>6, <1>7, <1>8 DEF FulfilmentNext

\* A COD refund is paid out at most once per order, for any number of admins
\* that confirm it at once, of statuses set back and of returns received again.
THEOREM PaidOutOnce == FulfilmentSpec => []OneCodPayout
<1>1. FulfilmentInit => PayoutsOnRecord
  BY DEF FulfilmentInit, PayoutsOnRecord
<1>2. FulfilmentInv /\ PayoutsOnRecord /\ [FulfilmentNext]_fvars => PayoutsOnRecord'
  <2> SUFFICES ASSUME FulfilmentInv, PayoutsOnRecord, [FulfilmentNext]_fvars
               PROVE  PayoutsOnRecord'
    OBVIOUS
  <2>1. ASSUME NEW w \in Workers, ConfirmCodRefundSave(w) PROVE PayoutsOnRecord'
    <3> DEFINE d == job[w].order
    <3>1. d \in Orders
      BY <2>1, HasOrder DEF ConfirmCodRefundSave, Doing
    <3>2. payouts[d] = 0
      <4>1. "COD_REFUNDED" \notin audits[d]
        BY <2>1 DEF ConfirmCodRefundSave, PayoutAllowed
      <4>2. payouts[d] \in Nat /\ payouts[d] <= 1 /\ payouts[d] # 1
        BY <3>1, <4>1 DEF PayoutsOnRecord, FulfilmentInv, RowsTyped
      <4> QED BY <4>2
    <3> QED BY <2>1, <3>1, <3>2
        DEF ConfirmCodRefundSave, PayoutsOnRecord, FulfilmentInv, RowsTyped
  <2>2. CASE UNCHANGED payouts /\ \A o \in Orders : audits[o] \subseteq audits'[o]
    BY <2>2 DEF PayoutsOnRecord
  <2> QED BY <2>1, <2>2, RecordsStay
<1>3. PayoutsOnRecord => OneCodPayout
  BY DEF PayoutsOnRecord, OneCodPayout
<1> QED BY FulfilmentInvariant, <1>1, <1>2, <1>3, PTL DEF FulfilmentSpec

\* The tracking sync carries a decision that is good for the row it read.
Decided(j) == j.pc = "sync_save" => CanAdvanceStatus(j.view.status, j.decision)

LEMMA DecisionsStay ==
  ASSUME FulfilmentInv, \A w \in Workers : Decided(job[w]), [FulfilmentNext]_fvars
  PROVE  \A w \in Workers : Decided(job'[w])
<1>1. ASSUME NEW w \in Workers, NEW j, job' = [job EXCEPT ![w] = j], Decided(j)
      PROVE  \A v \in Workers : Decided(job'[v])
  BY <1>1 DEF FulfilmentInv, SensibleJobs
<1>2. ASSUME NEW w \in Workers, NEW label, label # "sync_save", Continue(w, label)
      PROVE  \A v \in Workers : Decided(job'[v])
  <2>1. job[w] \in Job
    BY DEF FulfilmentInv, SensibleJobs
  <2>2. [job[w] EXCEPT !.pc = label].pc = label
    BY <2>1 DEF Job
  <2> QED BY <1>1, <1>2, <2>2 DEF Continue, Decided
<1>3. ASSUME NEW w \in Workers, Done(w) PROVE \A v \in Workers : Decided(job'[v])
  BY <1>1, <1>3 DEF Done, Decided, IdleJob
<1>4. ASSUME NEW w \in Workers, NEW label, label # "sync_save", NEW o, NEW leg, NEW decision, NEW pay,
             StartAsked(w, label, o, leg, decision, pay)
      PROVE  \A v \in Workers : Decided(job'[v])
  BY <1>1, <1>4 DEF StartAsked, Decided
<1>5. ASSUME NEW w \in Workers, NEW o \in Orders, SyncOrderTracking(w, o)
      PROVE  \A v \in Workers : Decided(job'[v])
  <2>1. PICK target \in ForwardTargets(Reported(o, "forward")) :
          /\ CanAdvanceStatus(orders[o].status, target)
          /\ Start(w, "sync_save", o, "forward", target)
    BY <1>5 DEF SyncOrderTracking
  <2> QED BY <1>1, <2>1 DEF Start, StartAsked, Decided
<1>6. ASSUME NEW w \in Workers, Arrives(w), \A o \in Orders : ~SyncOrderTracking(w, o)
      PROVE  \A v \in Workers : Decided(job'[v])
  BY <1>4, <1>6 DEF Arrives, ReceiveScan, SyncReturn, AssignCourier, UpdateOrderStatus, AdminCancel,
     ReturnOrder, ConfirmReturnReceived, ProcessReturnQc, ConfirmCodRefund, Start
<1>7. ASSUME NEW w \in Workers, GoesOn(w) PROVE \A v \in Workers : Decided(job'[v])
  <2>1. job[w] \in Job
    BY DEF FulfilmentInv, SensibleJobs
  <2>2. CASE RtoRead(w)
    <3>1. Decided([job[w] EXCEPT !.pc = "rto_restock", !.view = orders[job[w].order]])
      BY <2>1 DEF Decided, Job
    <3> QED BY <1>1, <2>2, <3>1 DEF RtoRead
  <2>3. CASE UpdateOrderStatusSave(w)
    <3>1. Decided([job[w] EXCEPT !.pc = "status_payments", !.pay = TargetPayment(w)])
      BY <2>1 DEF Decided, Job
    <3> QED BY <1>1, <2>3, <3>1 DEF UpdateOrderStatusSave
  <2>4. CASE ~RtoRead(w) /\ ~UpdateOrderStatusSave(w)
    BY <1>2, <1>3, <1>7, <2>4 DEF GoesOn, ScanSave, ScanDuplicate, RtoRestock, RtoRefund, SyncSave,
       SyncLost, SyncPayments, SyncReturnSave, AssignSave, UpdateOrderStatusPayments,
       AdminCancelSave, AdminCancelRefund, ReturnSave, ReturnConflict, ReturnPickup,
       ReturnPickupFails, ConfirmReturnReceivedSave, QcPassed, QcRefund, QcFailed,
       ConfirmCodRefundSave, ConfirmCodRefundConflict
  <2> QED BY <2>2, <2>3, <2>4
<1>8. ASSUME NEW w \in Workers, FulfilmentCrash(w) PROVE \A v \in Workers : Decided(job'[v])
  BY <1>3, <1>8 DEF FulfilmentCrash
<1>9. CASE UNCHANGED job
  BY <1>9
<1> QED BY <1>5, <1>6, <1>7, <1>8, <1>9
    DEF FulfilmentNext, UpdateShipmentStatus, ProcessRefund, CourierMoves, fvars

AllDecided == \A w \in Workers : Decided(job[w])

LEMMA DecidedAdvances == ASSUME FulfilmentInv, AllDecided PROVE SyncStepAdvances
<1> SUFFICES ASSUME NEW w \in Workers, SyncSave(w)
             PROVE  CanAdvanceStatus(orders[job[w].order].status, orders'[job[w].order].status)
  BY DEF SyncStepAdvances
<1> DEFINE d == job[w].order
<1>1. d \in Orders
  BY HasOrder DEF SyncSave, Doing
<1>2. orders'[d].status = job[w].decision
  BY <1>1 DEF SyncSave, FulfilmentInv, RowsTyped, OrderRow
<1>3. CanAdvanceStatus(job[w].view.status, job[w].decision)
  BY DEF SyncSave, Doing, Decided, AllDecided
<1> QED BY <1>2, <1>3 DEF SyncSave, UnmovedSinceRead

LEMMA SyncBegins == ASSUME FulfilmentInit PROVE AllDecided
BY DEF FulfilmentInit, Decided, AllDecided, IdleJob

LEMMA SyncStays == ASSUME FulfilmentInv, AllDecided, [FulfilmentNext]_fvars PROVE AllDecided'
BY DecisionsStay DEF AllDecided

\* Whatever moved the order while the courier was asked, the tracking sync
\* never writes it back: its update only finds the row it decided on.
THEOREM SyncMovesForward == FulfilmentSpec => SyncOnlyAdvances
<1>1. FulfilmentInit => AllDecided
  BY SyncBegins
<1>2. FulfilmentInv /\ AllDecided /\ [FulfilmentNext]_fvars => AllDecided'
  BY SyncStays
<1>3. FulfilmentInv /\ AllDecided => SyncStepAdvances
  BY DecidedAdvances
<1>4. []FulfilmentInv /\ []AllDecided => SyncOnlyAdvances
  BY <1>3, PTL DEF SyncOnlyAdvances
<1> QED BY FulfilmentInvariant, <1>1, <1>2, <1>4, PTL DEF FulfilmentSpec

-----------------------------------------------------------------------------
(* An order that came back is restocked once. *)

\* Orders are booked with Ekart before their scans come, and nobody restocks by
\* hand: an admin's cancellation and a passed check put units back as well.
CourierAlone ==
  /\ {"qc", "adminCancel"} \cap Ops = {}
  /\ \A row \in InitialOrders : row.awb /\ row.provider

Filled(row) == row.awb /\ row.provider

Restorer(j) == j.pc \in {"rto_read", "rto_restock"}

\* A handler of a scan read a filled row, and a return pickup never comes back.
Courierly(j) ==
  /\ j.pc \notin {"qc_save", "cancel_save"}
  /\ j.pc = "scan_save" =>
       Filled(j.view) /\ (j.leg = "return" => j.decision # "RTO_DELIVERED")

\* The scan that brought an order back has one handler, which restocks the order
\* or dies first; before that scan there is none, and after it no other.
RestockInv ==
  /\ \A o \in Orders : Filled(orders[o])
  /\ \A e \in scans : e.leg = "return" => e.stage # "RTO_DELIVERED"
  /\ \A w \in Workers : Courierly(job[w])
  /\ RestockedByCourierOnce
  /\ \A w \in Workers : Restorer(job[w]) =>
       RtoScan(job[w].order) \in scanLog /\ shelf[job[w].order].product = 0
  /\ \A v, w \in Workers :
       Restorer(job[v]) /\ Restorer(job[w]) /\ job[v].order = job[w].order => v = w

\* What no handler does to a row: change how it is paid, or empty an AWB or a
\* provider.
Keeps(row, new) == new.cod = row.cod /\ (Filled(row) => Filled(new))

CountsAsPaid(w) == ScanSave(w) \/ SyncSave(w) \/ UpdateOrderStatusSave(w)

LEMMA RowsKeep ==
  ASSUME FulfilmentInv, [FulfilmentNext]_fvars
  PROVE  /\ \A o \in Orders : Keeps(orders[o], orders'[o])
         /\ \/ \E w \in Workers : CountsAsPaid(w)
            \/ \A o \in Orders : orders'[o].pay = "COMPLETED" => orders[o].pay = "COMPLETED"
<1> DEFINE Kept == \A o \in Orders : Keeps(orders[o], orders'[o])
           Unpaid == \A o \in Orders : orders'[o].pay = "COMPLETED" => orders[o].pay = "COMPLETED"
           Good == Kept /\ Unpaid
<1>0. orders \in [Orders -> OrderRow]
  BY DEF FulfilmentInv, RowsTyped
<1>k. ASSUME NEW d \in Orders, NEW row, orders' = [orders EXCEPT ![d] = row], Keeps(orders[d], row)
      PROVE  Kept
  BY <1>0, <1>k DEF FulfilmentInv, RowsTyped, Keeps
<1>2. ASSUME UNCHANGED orders PROVE Good
  BY <1>0, <1>2 DEF Keeps
<1>g. Good <=> Kept /\ Unpaid
  OBVIOUS
<1> HIDE DEF Kept, Unpaid, Good
<1>4. ASSUME NEW o \in Orders, RefundOrder(o) PROVE Good
  <2>1. CASE orders' = [orders EXCEPT ![o].pay = "REFUND_INITIATED"]
    BY <1>0, <2>1 DEF Good, Kept, Unpaid, Keeps, Filled, OrderRow
  <2> QED BY <1>2, <1>4, <2>1 DEF RefundOrder
<1>5. ASSUME NEW w \in Workers, GoesOn(w) PROVE Kept /\ (CountsAsPaid(w) \/ Unpaid)
  <2> DEFINE d == job[w].order
  <2>1. CASE ScanSave(w)
    <3>1. d \in Orders
      BY <2>1, HasOrder DEF ScanSave, Doing
    <3>2. orders' = [orders EXCEPT ![d] = ScanUpdate(w, orders[d])]
      BY <2>1 DEF ScanSave
    <3>3. Keeps(orders[d], ScanUpdate(w, orders[d]))
      BY <1>0, <3>1 DEF ScanUpdate, Filled, Keeps, OrderRow
    <3>4. Kept
      BY <1>k, <3>1, <3>2, <3>3
    <3> QED BY <2>1, <3>4 DEF CountsAsPaid
  <2>2. CASE RtoRestock(w)
    <3>1. d \in Orders
      BY <2>2, HasOrder DEF RtoRestock, Doing
    <3>2. UNCHANGED orders \/ orders' = [orders EXCEPT ![d] = [orders[d] EXCEPT !.pay = "REFUND_INITIATED"]]
      BY <2>2 DEF RtoRestock
    <3>3. ASSUME orders' = [orders EXCEPT ![d] = [orders[d] EXCEPT !.pay = "REFUND_INITIATED"]] PROVE Good
      BY <1>0, <3>1, <3>3 DEF Good, Kept, Unpaid, Keeps, Filled, OrderRow
    <3> QED BY <1>2, <1>g, <3>2, <3>3
  <2>3. CASE RtoRefund(w) \/ QcRefund(w) \/ AdminCancelRefund(w)
    BY <2>3, <1>2, <1>4, <1>g, HasOrder DEF RtoRefund, QcRefund, AdminCancelRefund, Doing
  <2>4. CASE SyncSave(w)
    <3>1. d \in Orders
      BY <2>4, HasOrder DEF SyncSave, Doing
    <3> DEFINE p == IF CollectsCash(w) THEN "COMPLETED" ELSE orders[d].pay
    <3>2. orders' = [orders EXCEPT ![d] = [orders[d] EXCEPT !.status = job[w].decision, !.pay = p]]
      BY <2>4 DEF SyncSave
    <3> HIDE DEF p
    <3>3. Kept
      BY <1>0, <3>1, <3>2 DEF Kept, Keeps, Filled, OrderRow
    <3> QED BY <2>4, <3>3 DEF CountsAsPaid
  <2>5. CASE AssignSave(w)
    <3>1. d \in Orders
      BY <2>5, HasOrder DEF AssignSave, Doing
    <3>2. orders' = [orders EXCEPT ![d] = [orders[d] EXCEPT !.awb = TRUE, !.status = job[w].decision]]
      BY <2>5 DEF AssignSave
    <3> QED BY <1>0, <1>g, <3>1, <3>2 DEF Good, Kept, Unpaid, Keeps, Filled, OrderRow
  <2>6. CASE UpdateOrderStatusSave(w)
    <3>1. d \in Orders
      BY <2>6, HasOrder DEF UpdateOrderStatusSave, Doing
    <3> DEFINE p == IF TargetPayment(w) = "none" THEN orders[d].pay ELSE TargetPayment(w)
    <3>2. orders' = [orders EXCEPT ![d] = [orders[d] EXCEPT !.status = job[w].decision, !.pay = p]]
      BY <2>6 DEF UpdateOrderStatusSave
    <3> HIDE DEF p
    <3>3. Kept
      BY <1>0, <3>1, <3>2 DEF Kept, Keeps, Filled, OrderRow
    <3> QED BY <2>6, <3>3 DEF CountsAsPaid
  <2>7. CASE ReturnSave(w)
    <3>1. d \in Orders
      BY <2>7, HasOrder DEF ReturnSave, Doing
    <3>2. orders' = [orders EXCEPT ![d] = [orders[d] EXCEPT !.status = "RETURN_INITIATED"]]
      BY <2>7 DEF ReturnSave
    <3> QED BY <1>0, <1>g, <3>1, <3>2 DEF Good, Kept, Unpaid, Keeps, Filled, OrderRow
  <2>8. CASE ConfirmCodRefundSave(w)
    <3>1. d \in Orders
      BY <2>8, HasOrder DEF ConfirmCodRefundSave, Doing
    <3>2. orders' = [orders EXCEPT ![d] = [orders[d] EXCEPT !.status = "RETURNED", !.pay = "REFUNDED"]]
      BY <2>8 DEF ConfirmCodRefundSave
    <3> QED BY <1>0, <1>g, <3>1, <3>2 DEF Good, Kept, Unpaid, Keeps, Filled, OrderRow
  <2>9. ASSUME NEW restockItems \in BOOLEAN, QcPassed(w, restockItems) PROVE Good
    <3>1. d \in Orders
      BY <2>9, HasOrder DEF QcPassed, Doing
    <3>2. orders' = [orders EXCEPT ![d] = ReturnedOnline(orders[d])]
      BY <2>9 DEF QcPassed
    <3>3. \/ ReturnedOnline(orders[d]) = orders[d]
          \/ ReturnedOnline(orders[d]) = [orders[d] EXCEPT !.status = "RETURNED", !.pay = "REFUNDED"]
      BY DEF ReturnedOnline
    <3>4. ASSUME ReturnedOnline(orders[d]) # orders[d] PROVE Good
      <4>1. orders' = [orders EXCEPT ![d] = [orders[d] EXCEPT !.status = "RETURNED", !.pay = "REFUNDED"]]
        BY <3>2, <3>3, <3>4
      <4> QED BY <1>0, <3>1, <4>1 DEF Good, Kept, Unpaid, Keeps, Filled, OrderRow
    <3>5. ASSUME ReturnedOnline(orders[d]) = orders[d] PROVE UNCHANGED orders
      BY <1>0, <3>1, <3>2, <3>5
    <3> QED BY <1>2, <3>4, <3>5
  <2>10. ASSUME NEW restockItems \in BOOLEAN, AdminCancelSave(w, restockItems) PROVE Good
    <3>1. d \in Orders
      BY <2>10, HasOrder DEF AdminCancelSave, Doing
    <3>2. UNCHANGED orders \/ orders' = [orders EXCEPT ![d] = [orders[d] EXCEPT !.status = "CANCELLED"]]
      BY <2>10 DEF AdminCancelSave
    <3>3. ASSUME orders' = [orders EXCEPT ![d] = [orders[d] EXCEPT !.status = "CANCELLED"]] PROVE Good
      BY <1>0, <3>1, <3>3 DEF Good, Kept, Unpaid, Keeps, Filled, OrderRow
    <3> QED BY <1>2, <3>2, <3>3
  <2>11. CASE \/ ScanDuplicate(w) \/ RtoRead(w) \/ SyncLost(w) \/ SyncPayments(w)
              \/ SyncReturnSave(w) \/ UpdateOrderStatusPayments(w) \/ ReturnConflict(w)
              \/ ReturnPickup(w) \/ ReturnPickupFails(w) \/ ConfirmReturnReceivedSave(w)
              \/ QcFailed(w) \/ ConfirmCodRefundConflict(w)
    BY <1>2, <1>g, <2>11 DEF ScanDuplicate, RtoRead, SyncLost, SyncPayments, SyncReturnSave,
       UpdateOrderStatusPayments, ReturnConflict, ReturnPickup, ReturnPickupFails,
       ConfirmReturnReceivedSave, QcFailed, ConfirmCodRefundConflict, books
  <2> QED BY <1>5, <1>g, <2>1, <2>2, <2>3, <2>4, <2>5, <2>6, <2>7, <2>8, <2>9, <2>10, <2>11 DEF GoesOn
<1>6. ASSUME NEW w \in Workers, Arrives(w) PROVE Good
  BY <1>2, <1>6 DEF Arrives, ReceiveScan, SyncOrderTracking, SyncReturn, AssignCourier,
     UpdateOrderStatus, AdminCancel, ReturnOrder, ConfirmReturnReceived, ProcessReturnQc,
     ConfirmCodRefund, books
<1>7. ASSUME NEW o \in Orders, NEW status \in AdminStatuses, UpdateShipmentStatus(o, status)
      PROVE  Good
  <2>1. orders' = [orders EXCEPT ![o] = [orders[o] EXCEPT !.status = status]]
    BY <1>7 DEF UpdateShipmentStatus
  <2> QED BY <1>0, <2>1 DEF Good, Kept, Unpaid, Keeps, Filled, OrderRow
<1>8. ASSUME NEW w \in Workers, FulfilmentCrash(w) PROVE Good
  BY <1>2, <1>8 DEF FulfilmentCrash, books
<1>9. ASSUME NEW o \in Orders, ProcessRefund(o) PROVE Good
  BY <1>2, <1>9 DEF ProcessRefund
<1>10. ASSUME NEW o \in Orders, NEW leg \in Leg, NEW stage \in Stage, CourierMoves(o, leg, stage)
       PROVE  Good
  BY <1>2, <1>10 DEF CourierMoves, books
<1>11. ASSUME UNCHANGED fvars PROVE Good
  BY <1>2, <1>11 DEF fvars
<1>12. Kept /\ (Unpaid \/ \E w \in Workers : CountsAsPaid(w))
  BY <1>5, <1>6, <1>7, <1>8, <1>9, <1>10, <1>11, <1>g DEF FulfilmentNext
<1> QED BY <1>12 DEF Kept, Unpaid

\* A return parcel is not scanned as come back.
LEMMA ReturnsStayOut ==
  ASSUME RestockInv, [FulfilmentNext]_fvars
  PROVE  \A e \in scans' : e.leg = "return" => e.stage # "RTO_DELIVERED"
<1>1. ASSUME NEW o \in Orders, NEW leg \in Leg, NEW stage \in Stage, CourierMoves(o, leg, stage)
      PROVE  \A e \in scans' : e.leg = "return" => e.stage # "RTO_DELIVERED"
  BY <1>1 DEF CourierMoves, StagesOf, RestockInv
<1>2. CASE UNCHANGED scans
  BY <1>2 DEF RestockInv
<1>3. ASSUME NEW w \in Workers, Arrives(w) \/ FulfilmentCrash(w) PROVE UNCHANGED scans
  BY <1>3 DEF Arrives, ReceiveScan, SyncOrderTracking, SyncReturn, AssignCourier, UpdateOrderStatus,
     AdminCancel, ReturnOrder, ConfirmReturnReceived, ProcessReturnQc, ConfirmCodRefund,
     FulfilmentCrash, courier
<1>4. ASSUME NEW w \in Workers, GoesOn(w) PROVE UNCHANGED scans
  BY <1>4 DEF GoesOn, ScanSave, ScanDuplicate, RtoRead, RtoRestock, RtoRefund, SyncSave, SyncLost,
     SyncPayments, SyncReturnSave, AssignSave, UpdateOrderStatusSave, UpdateOrderStatusPayments,
     AdminCancelSave, AdminCancelRefund, ReturnSave, ReturnConflict, ReturnPickup,
     ReturnPickupFails, ConfirmReturnReceivedSave, QcPassed, QcRefund, QcFailed,
     ConfirmCodRefundSave, ConfirmCodRefundConflict, courier
<1> QED BY <1>1, <1>2, <1>3, <1>4
    DEF FulfilmentNext, UpdateShipmentStatus, ProcessRefund, fvars, courier

\* Only the first handler of a scan and the handlers of an order that came back
\* touch the shelf or the log.
LEMMA OthersRestockNothing ==
  ASSUME CourierAlone, FulfilmentInv, RestockInv, [FulfilmentNext]_fvars,
         \A w \in Workers : ~(ScanSave(w) \/ RtoRead(w) \/ RtoRestock(w))
  PROVE  /\ UNCHANGED <<shelf, scanLog>>
         /\ \A w \in Workers :
              job'[w] = job[w] \/ (~Restorer(job'[w]) /\ Courierly(job'[w]))
<1> DEFINE Good == \A w \in Workers :
                     job'[w] = job[w] \/ (~Restorer(job'[w]) /\ Courierly(job'[w]))
<1>1. ASSUME NEW w \in Workers, NEW j, job' = [job EXCEPT ![w] = j], ~Restorer(j), Courierly(j)
      PROVE  Good
  BY <1>1 DEF FulfilmentInv, SensibleJobs
<1>2. ASSUME NEW w \in Workers, NEW label, Continue(w, label),
             label \notin {"scan_save", "rto_read", "rto_restock", "qc_save", "cancel_save"}
      PROVE  Good
  <2>1. job[w] \in Job
    BY DEF FulfilmentInv, SensibleJobs
  <2>2. [job[w] EXCEPT !.pc = label].pc = label
    BY <2>1 DEF Job
  <2> QED BY <1>1, <1>2, <2>2 DEF Continue, Restorer, Courierly
<1>3. ASSUME NEW w \in Workers, Done(w) PROVE Good
  BY <1>1, <1>3 DEF Done, Restorer, Courierly, IdleJob
<1>4. ASSUME NEW w \in Workers, NEW label, NEW o, NEW leg, NEW decision, NEW pay,
             StartAsked(w, label, o, leg, decision, pay),
             label \notin {"scan_save", "rto_read", "rto_restock", "qc_save", "cancel_save"}
      PROVE  Good
  BY <1>1, <1>4 DEF StartAsked, Restorer, Courierly
<1>5. ASSUME NEW w \in Workers, NEW e \in scans, ReceiveScan(w, e) PROVE Good
  <2> DEFINE j == [pc |-> "scan_save", order |-> e.order, leg |-> e.leg, view |-> orders[e.order],
                   decision |-> e.stage, pay |-> "none"]
  <2>1. e \in Scan
    BY DEF FulfilmentInv, CourierTyped
  <2>2. e.order \in Orders
    BY <2>1 DEF Scan
  <2>3. Filled(orders[e.order]) /\ (e.leg = "return" => e.stage # "RTO_DELIVERED")
    BY <2>2 DEF RestockInv
  <2>4. ~Restorer(j) /\ Courierly(j)
    BY <2>3 DEF Restorer, Courierly
  <2>5. job' = [job EXCEPT ![w] = j]
    BY <1>5 DEF ReceiveScan, Start, StartAsked
  <2> HIDE DEF j
  <2> QED BY <1>1, <2>4, <2>5
<1>6. ASSUME NEW w \in Workers, Arrives(w) PROVE Good /\ UNCHANGED <<shelf, scanLog>>
  <2>1. Good
    BY <1>4, <1>5, <1>6 DEF Arrives, SyncOrderTracking, SyncReturn, AssignCourier,
       UpdateOrderStatus, AdminCancel, ReturnOrder, ConfirmReturnReceived, ProcessReturnQc,
       ConfirmCodRefund, Start, CourierAlone
  <2>2. UNCHANGED <<shelf, scanLog>>
    BY <1>6 DEF Arrives, ReceiveScan, SyncOrderTracking, SyncReturn, AssignCourier,
       UpdateOrderStatus, AdminCancel, ReturnOrder, ConfirmReturnReceived, ProcessReturnQc,
       ConfirmCodRefund, books
  <2> QED BY <2>1, <2>2
<1>7. ASSUME NEW w \in Workers, GoesOn(w) PROVE Good /\ UNCHANGED <<shelf, scanLog>>
  <2>1. job[w].pc \notin {"qc_save", "cancel_save"} /\ job[w] \in Job
    BY DEF RestockInv, Courierly, FulfilmentInv, SensibleJobs
  <2>2. CASE UpdateOrderStatusSave(w)
    <3>1. [job[w] EXCEPT !.pc = "status_payments", !.pay = TargetPayment(w)].pc = "status_payments"
      BY <2>1 DEF Job
    <3> QED BY ZenonT(30), <1>1, <2>2, <3>1 DEF UpdateOrderStatusSave, Restorer, Courierly
  <2>3. CASE ~UpdateOrderStatusSave(w)
    <3>1. /\ \A restockItems \in BOOLEAN :
               ~AdminCancelSave(w, restockItems) /\ ~QcPassed(w, restockItems)
          /\ ~QcFailed(w) /\ ~ScanSave(w) /\ ~RtoRead(w) /\ ~RtoRestock(w)
      BY <2>1 DEF AdminCancelSave, QcPassed, QcFailed, Doing
    <3>2. Good
      BY <1>2, <1>3, <1>7, <2>3, <3>1 DEF GoesOn, ScanDuplicate, RtoRefund, SyncSave, SyncLost,
         SyncPayments, SyncReturnSave, AssignSave, UpdateOrderStatusPayments, AdminCancelRefund,
         ReturnSave, ReturnConflict, ReturnPickup, ReturnPickupFails, ConfirmReturnReceivedSave,
         QcRefund, ConfirmCodRefundSave, ConfirmCodRefundConflict
    <3>3. UNCHANGED <<shelf, scanLog>>
      BY <1>7, <2>3, <3>1 DEF GoesOn, ScanDuplicate, RtoRefund, SyncSave, SyncLost,
         SyncPayments, SyncReturnSave, AssignSave, UpdateOrderStatusPayments, AdminCancelRefund,
         ReturnSave, ReturnConflict, ReturnPickup, ReturnPickupFails, ConfirmReturnReceivedSave,
         QcRefund, ConfirmCodRefundSave, ConfirmCodRefundConflict, books
    <3> QED BY <3>2, <3>3
  <2> QED BY <2>2, <2>3 DEF UpdateOrderStatusSave
<1>8. ASSUME NEW w \in Workers, FulfilmentCrash(w) PROVE Good /\ UNCHANGED <<shelf, scanLog>>
  BY <1>3, <1>8 DEF FulfilmentCrash, books
<1>9. CASE UNCHANGED <<shelf, scanLog, job>>
  BY <1>9
<1> QED BY <1>6, <1>7, <1>8, <1>9
    DEF FulfilmentNext, UpdateShipmentStatus, ProcessRefund, CourierMoves, fvars, books

LEMMA RestocksStaySingle ==
  ASSUME CourierAlone, FulfilmentInv, RestockInv, [FulfilmentNext]_fvars
  PROVE  RestockInv'
<1>1. (\A o \in Orders : Filled(orders[o]))'
  BY RowsKeep DEF RestockInv, Keeps
<1>2. (\A e \in scans : e.leg = "return" => e.stage # "RTO_DELIVERED")'
  BY ReturnsStayOut
<1> DEFINE Rest ==
      /\ \A w \in Workers : Courierly(job'[w])
      /\ \A o \in Orders :
           shelf'[o].product <= 1 /\ (shelf'[o].product = 1 => RtoScan(o) \in scanLog')
      /\ \A w \in Workers : Restorer(job'[w]) =>
           RtoScan(job'[w].order) \in scanLog' /\ shelf'[job'[w].order].product = 0
      /\ \A v, w \in Workers :
           Restorer(job'[v]) /\ Restorer(job'[w]) /\ job'[v].order = job'[w].order => v = w
<1>3. ASSUME \A w \in Workers : ~(ScanSave(w) \/ RtoRead(w) \/ RtoRestock(w)) PROVE Rest
  <2>1. UNCHANGED <<shelf, scanLog>>
    BY <1>3, OthersRestockNothing
  <2>2. \A w \in Workers : job'[w] = job[w] \/ (~Restorer(job'[w]) /\ Courierly(job'[w]))
    BY <1>3, OthersRestockNothing
  <2>3. \A w \in Workers : Courierly(job'[w])
    BY <2>2 DEF RestockInv
  <2>4. \A o \in Orders :
          shelf'[o].product <= 1 /\ (shelf'[o].product = 1 => RtoScan(o) \in scanLog')
    BY <2>1 DEF RestockInv, RestockedByCourierOnce
  <2>5. \A w \in Workers : Restorer(job'[w]) =>
          RtoScan(job'[w].order) \in scanLog' /\ shelf'[job'[w].order].product = 0
    <3> SUFFICES ASSUME NEW w \in Workers, Restorer(job'[w])
                 PROVE  RtoScan(job'[w].order) \in scanLog' /\ shelf'[job'[w].order].product = 0
      OBVIOUS
    <3>1. job'[w] = job[w]
      BY <2>2
    <3> QED BY <2>1, <3>1 DEF RestockInv
  <2>6. \A v, w \in Workers :
          Restorer(job'[v]) /\ Restorer(job'[w]) /\ job'[v].order = job'[w].order => v = w
    BY <2>2 DEF RestockInv
  <2> QED BY <2>3, <2>4, <2>5, <2>6
<1>4. ASSUME NEW w \in Workers, ScanSave(w) PROVE Rest
  <2> DEFINE o == job[w].order
  <2>1. /\ o \in Orders /\ job \in [Workers -> Job] /\ job[w].decision \in Stage
        /\ job[w].pc = "scan_save" /\ job[w] \in Job
    BY <1>4, HasOrder DEF ScanSave, Doing, FulfilmentInv, SensibleJobs, Sensible
  <2>2. scanLog' = scanLog \cup {ScanOf(w)} /\ ScanOf(w) \notin scanLog /\ UNCHANGED shelf
    BY <1>4 DEF ScanSave, NewScan
  <2>3. CASE Done(w)
    <3>1. \A v \in Workers : job'[v] = IF v = w THEN IdleJob ELSE job[v]
      BY <2>1, <2>3 DEF Done
    <3>2. ~Restorer(IdleJob) /\ Courierly(IdleJob)
      BY DEF Restorer, Courierly, IdleJob
    <3> QED BY <2>2, <3>1, <3>2 DEF RestockInv, RestockedByCourierOnce
  <2>4. CASE CameBack(w) /\ Continue(w, "rto_read")
    <3>1. Filled(job[w].view) /\ (job[w].leg = "return" => job[w].decision # "RTO_DELIVERED")
      BY <2>1 DEF RestockInv, Courierly
    <3>2. Advances(w)
      BY <2>4, <3>1 DEF CameBack, WritesOrder, Filled
    <3>3. job[w].decision = "RTO_DELIVERED"
      <4>1. ScanUpdate(w, orders[o]).status = job[w].decision
        BY <2>1, <3>2 DEF ScanUpdate, FulfilmentInv, RowsTyped, OrderRow
      <4> QED BY <2>4, <4>1 DEF CameBack
    <3>4. ScanOf(w) = RtoScan(o)
      BY <2>1, <3>1, <3>3 DEF ScanOf, RtoScan, Job, Leg
    <3>5. shelf[o].product = 0 /\ shelf[o].product \in Nat
      <4>1. RtoScan(o) \notin scanLog
        BY <2>2, <3>4
      <4>2. shelf[o].product <= 1 /\ shelf[o].product # 1
        BY <2>1, <4>1 DEF RestockInv, RestockedByCourierOnce
      <4>3. shelf[o].product \in Nat
        BY <2>1 DEF FulfilmentInv, RowsTyped
      <4> QED BY <4>2, <4>3
    <3>6. \A v \in Workers : Restorer(job[v]) => job[v].order # o
      BY <2>2, <3>4 DEF RestockInv
    <3>7. /\ \A v \in Workers : v # w => job'[v] = job[v]
          /\ job'[w].order = o /\ job'[w].pc = "rto_read"
      BY <2>1, <2>4 DEF Continue, Job
    <3>8. Restorer(job'[w]) /\ Courierly(job'[w])
      BY <3>7 DEF Restorer, Courierly
    <3>9. ~Restorer(job[w])
      BY <2>1 DEF Restorer
    <3> HIDE DEF o
    <3> QED BY <2>2, <3>4, <3>5, <3>6, <3>7, <3>8 DEF RestockInv, RestockedByCourierOnce
  <2> QED BY <1>4, <2>3, <2>4 DEF ScanSave
<1>5. ASSUME NEW w \in Workers, RtoRead(w) PROVE Rest
  <2>1. job \in [Workers -> Job] /\ job[w].pc = "rto_read" /\ job[w] \in Job
    BY <1>5 DEF RtoRead, Doing, FulfilmentInv, SensibleJobs
  <2>2. /\ \A v \in Workers : v # w => job'[v] = job[v]
        /\ job'[w].order = job[w].order /\ job'[w].pc = "rto_restock"
    BY <1>5, <2>1 DEF RtoRead, Job
  <2>3. Restorer(job[w]) /\ Restorer(job'[w]) /\ Courierly(job'[w])
    BY <2>1, <2>2 DEF Restorer, Courierly
  <2>4. UNCHANGED <<shelf, scanLog>>
    BY <1>5 DEF RtoRead, books
  <2> QED BY <2>2, <2>3, <2>4 DEF RestockInv, RestockedByCourierOnce
<1>6. ASSUME NEW w \in Workers, RtoRestock(w) PROVE Rest
  <2> DEFINE o == job[w].order
  <2>1. o \in Orders /\ job \in [Workers -> Job] /\ job[w].pc = "rto_restock" /\ job[w] \in Job
    BY <1>6, HasOrder DEF RtoRestock, Doing, FulfilmentInv, SensibleJobs
  <2>2. Restorer(job[w])
    BY <2>1 DEF Restorer
  <2>3. RtoScan(o) \in scanLog /\ shelf[o].product = 0
    BY <2>2 DEF RestockInv
  <2>4. /\ UNCHANGED scanLog /\ shelf'[o].product = 1
        /\ \A d \in Orders : d # o => shelf'[d] = shelf[d]
    BY <1>6, <2>1, <2>3 DEF RtoRestock, Restocked, FulfilmentInv, RowsTyped
  <2>5. /\ \A v \in Workers : v # w => job'[v] = job[v]
        /\ ~Restorer(job'[w]) /\ Courierly(job'[w])
    <3>1. CASE Done(w)
      BY <2>1, <3>1 DEF Done, Restorer, Courierly, IdleJob
    <3>2. CASE Continue(w, "rto_refund")
      <4>1. job'[w].pc = "rto_refund" /\ \A v \in Workers : v # w => job'[v] = job[v]
        BY <2>1, <3>2 DEF Continue, Job
      <4> QED BY <4>1 DEF Restorer, Courierly
    <3> QED BY <1>6, <3>1, <3>2 DEF RtoRestock
  <2>6. \A v \in Workers : v # w /\ Restorer(job[v]) => job[v].order # o /\ job[v].order \in Orders
    BY <2>2, HasOrder DEF RestockInv, Restorer
  <2>7. \A v \in Workers : Restorer(job'[v]) =>
          v # w /\ job'[v] = job[v] /\ Restorer(job[v]) /\ shelf'[job[v].order] = shelf[job[v].order]
    BY <2>4, <2>5, <2>6
  <2>8. \A v \in Workers : Courierly(job'[v])
    BY <2>5 DEF RestockInv
  <2>9. \A d \in Orders :
          shelf'[d].product <= 1 /\ (shelf'[d].product = 1 => RtoScan(d) \in scanLog')
    BY <2>3, <2>4 DEF RestockInv, RestockedByCourierOnce
  <2>10. \A v \in Workers : Restorer(job'[v]) =>
           RtoScan(job'[v].order) \in scanLog' /\ shelf'[job'[v].order].product = 0
    <3> SUFFICES ASSUME NEW v \in Workers, Restorer(job'[v])
                 PROVE  RtoScan(job'[v].order) \in scanLog' /\ shelf'[job'[v].order].product = 0
      OBVIOUS
    <3>1. job'[v] = job[v] /\ Restorer(job[v]) /\ shelf'[job[v].order] = shelf[job[v].order]
      BY <2>7
    <3>2. UNCHANGED scanLog
      BY <2>4
    <3> QED BY <3>1, <3>2 DEF RestockInv
  <2>11. \A u, v \in Workers :
           Restorer(job'[u]) /\ Restorer(job'[v]) /\ job'[u].order = job'[v].order => u = v
    BY <2>7 DEF RestockInv
  <2> QED BY <2>8, <2>9, <2>10, <2>11
<1>7. Rest
  BY <1>3, <1>4, <1>5, <1>6
<1> QED BY <1>1, <1>2, <1>7 DEF RestockInv, RestockedByCourierOnce

LEMMA RestocksBegin == ASSUME CourierAlone, FulfilmentInit PROVE RestockInv
BY DEF FulfilmentInit, RestockInv, RestockedByCourierOnce, CourierAlone, Filled, Restorer,
       Courierly, IdleJob

\* However often, late or at once the scans of a parcel that came back are
\* handled, and whatever the sync, the admins and the customer do meanwhile, its
\* unit is put back once, and not before the scan that says so was recorded.
THEOREM RestockedOnce ==
  ASSUME CourierAlone PROVE FulfilmentSpec => []RestockedByCourierOnce
<1>1. FulfilmentInit => RestockInv
  BY RestocksBegin
<1>2. FulfilmentInv /\ RestockInv /\ [FulfilmentNext]_fvars => RestockInv'
  BY RestocksStaySingle
<1>3. RestockInv => RestockedByCourierOnce
  BY DEF RestockInv
<1> QED BY FulfilmentInvariant, <1>1, <1>2, <1>3, PTL DEF FulfilmentSpec

-----------------------------------------------------------------------------
(* The order and its payment row agree about collected cash. *)

\* Nobody dies between the statements that settle the two rows, and admins do not
\* book cash as failed or refunded by hand: a later COMPLETED would not undo it.
CashIsKept ==
  /\ "crash" \notin Faults
  /\ {"FAILED", "REFUNDED"} \cap AdminPayments = {}
  /\ \A row \in InitialOrders : row.cod => row.pay \in {"PENDING", "COMPLETED"}

\* The handler that counted an order as paid still has to settle its payment row.
Settler(j, o) ==
  /\ j.order = o
  /\ \/ j.pc = "sync_payments"
     \/ j.pc = "status_payments" /\ j.pay = "COMPLETED"

Mild(j) == j.pc \in {"status_save", "status_payments"} => j.pay \notin {"FAILED", "REFUNDED"}

Balanced(o) ==
  orders[o].cod =>
    /\ attempt[o] \in {"none", "PENDING", "COMPLETED"}
    /\ orders[o].pay = "COMPLETED" /\ attempt[o] = "PENDING" =>
         \E w \in Workers : Settler(job[w], o)

BooksInv == (\A o \in Orders : Balanced(o)) /\ \A w \in Workers : Mild(job[w])

\* A settler stays until it settles; no payment of an admin turns into a harsh one.
LEMMA SettlersStay ==
  ASSUME CashIsKept, FulfilmentInv, BooksInv, [FulfilmentNext]_fvars
  PROVE  /\ \A w \in Workers : Mild(job'[w])
         /\ \A w \in Workers :
              \/ SyncPayments(w) \/ UpdateOrderStatusPayments(w)
              \/ \A o \in Orders : Settler(job[w], o) => Settler(job'[w], o)
<1> DEFINE Stays(w) == \A o \in Orders : Settler(job[w], o) => Settler(job'[w], o)
           Settles(w) == SyncPayments(w) \/ UpdateOrderStatusPayments(w)
           Good == \A w \in Workers : Mild(job'[w]) /\ (Settles(w) \/ Stays(w))
<1>0. job \in [Workers -> Job] /\ \A w \in Workers : Mild(job[w]) /\ job[w] \in Job
  BY DEF FulfilmentInv, SensibleJobs, BooksInv
<1>1. ASSUME NEW w \in Workers, NEW j, job' = [job EXCEPT ![w] = j], Mild(j),
             Settles(w) \/ job[w].pc \notin {"sync_payments", "status_payments"}
      PROVE  Good
  BY <1>0, <1>1 DEF Settler
<1>2. ASSUME UNCHANGED job PROVE Good
  BY <1>0, <1>2
<1> HIDE DEF Good, Stays, Settles
<1>3. ASSUME NEW w \in Workers, NEW label, Continue(w, label),
             label \notin {"status_save", "status_payments"},
             job[w].pc \notin {"sync_payments", "status_payments"}
      PROVE  Good
  <2>1. [job[w] EXCEPT !.pc = label].pc = label
    BY <1>0 DEF Job
  <2> QED BY <1>1, <1>3, <2>1 DEF Continue, Mild
<1>4. ASSUME NEW w \in Workers, Done(w),
             Settles(w) \/ job[w].pc \notin {"sync_payments", "status_payments"}
      PROVE  Good
  BY <1>1, <1>4 DEF Done, Mild, IdleJob
<1>5. ASSUME NEW w \in Workers, NEW label, NEW o, NEW leg, NEW decision, NEW pay,
             StartAsked(w, label, o, leg, decision, pay), pay \notin {"FAILED", "REFUNDED"}
      PROVE  Good
  BY <1>1, <1>5 DEF StartAsked, Doing, Mild
<1>6. ASSUME NEW w \in Workers, Arrives(w) PROVE Good
  BY <1>5, <1>6 DEF Arrives, ReceiveScan, SyncOrderTracking, SyncReturn, AssignCourier,
     UpdateOrderStatus, AdminCancel, ReturnOrder, ConfirmReturnReceived, ProcessReturnQc,
     ConfirmCodRefund, Start, CashIsKept
<1>7. ASSUME NEW w \in Workers, GoesOn(w) PROVE Good
  <2>1. CASE Settles(w)
    BY <1>4, <2>1 DEF Settles, SyncPayments, UpdateOrderStatusPayments
  <2>2. CASE RtoRead(w)
    <3> DEFINE j == [job[w] EXCEPT !.pc = "rto_restock", !.view = orders[job[w].order]]
    <3>1. job' = [job EXCEPT ![w] = j] /\ job[w].pc = "rto_read"
      BY <2>2 DEF RtoRead, Doing
    <3>2. Mild(j)
      BY <1>0 DEF Mild, Job
    <3> HIDE DEF j
    <3> QED BY <1>1, <3>1, <3>2
  <2>3. CASE UpdateOrderStatusSave(w)
    <3> DEFINE j == [job[w] EXCEPT !.pc = "status_payments", !.pay = TargetPayment(w)]
    <3>1. job' = [job EXCEPT ![w] = j] /\ job[w].pc = "status_save"
      BY <2>3 DEF UpdateOrderStatusSave, Doing
    <3>2. TargetPayment(w) \notin {"FAILED", "REFUNDED"}
      BY <1>0, <3>1 DEF TargetPayment, Mild
    <3>3. j.pay = TargetPayment(w)
      BY <1>0 DEF Job
    <3> HIDE DEF j
    <3>4. Mild(j)
      BY <3>2, <3>3 DEF Mild
    <3> QED BY <1>1, <3>1, <3>4
  <2>4. CASE ~Settles(w) /\ ~RtoRead(w) /\ ~UpdateOrderStatusSave(w)
    BY <1>3, <1>4, <1>7, <2>4 DEF GoesOn, ScanSave, ScanDuplicate, RtoRestock, RtoRefund, SyncSave,
       SyncLost, SyncReturnSave, AssignSave, AdminCancelSave, AdminCancelRefund, ReturnSave,
       ReturnConflict, ReturnPickup, ReturnPickupFails, ConfirmReturnReceivedSave, QcPassed,
       QcRefund, QcFailed, ConfirmCodRefundSave, ConfirmCodRefundConflict, Doing, Settles
  <2> QED BY <2>1, <2>2, <2>3, <2>4
<1>8. ASSUME NEW w \in Workers, FulfilmentCrash(w) PROVE Good
  BY <1>8 DEF FulfilmentCrash, CashIsKept
<1>9. Good
  BY <1>2, <1>6, <1>7, <1>8
  DEF FulfilmentNext, UpdateShipmentStatus, ProcessRefund, CourierMoves, fvars
<1> QED BY <1>9 DEF Good, Stays, Settles

\* Three statements settle the payment row of an order paid on delivery.
LEMMA AttemptsSettle ==
  ASSUME FulfilmentInv, BooksInv, [FulfilmentNext]_fvars, NEW o \in Orders, orders[o].cod
  PROVE  \/ UNCHANGED attempt[o]
         \/ attempt[o] = "PENDING" /\ attempt'[o] = "COMPLETED"
<1> DEFINE Good == \/ UNCHANGED attempt[o]
                   \/ attempt[o] = "PENDING" /\ attempt'[o] = "COMPLETED"
<1>0. attempt \in [Orders -> AttemptStatus] /\ attempt[o] \in {"none", "PENDING", "COMPLETED"}
  BY DEF FulfilmentInv, RowsTyped, BooksInv, Balanced
<1>1. ASSUME NEW d \in Orders, SettleAttempt(d) PROVE Good
  BY <1>0, <1>1 DEF SettleAttempt
<1>2. ASSUME NEW d \in Orders, RefundOrder(d) PROVE Good
  <2>1. UNCHANGED attempt \/ (~orders[d].cod /\ attempt' = [attempt EXCEPT ![d] = "REFUND_INITIATED"])
    BY <1>2 DEF RefundOrder
  <2> QED BY <1>0, <2>1
<1>3. ASSUME NEW w \in Workers, GoesOn(w) PROVE Good
  <2>1. CASE ScanSave(w) \/ SyncPayments(w)
    BY <1>1, <2>1, HasOrder DEF ScanSave, SyncPayments, Doing
  <2>2. CASE RtoRefund(w) \/ QcRefund(w) \/ AdminCancelRefund(w)
    BY <1>2, <2>2, HasOrder DEF RtoRefund, QcRefund, AdminCancelRefund, Doing
  <2>3. CASE UpdateOrderStatusPayments(w)
    <3>1. job[w].order \in Orders /\ job[w].pay \notin {"FAILED", "REFUNDED"}
      BY <2>3, HasOrder DEF UpdateOrderStatusPayments, Doing, BooksInv, Mild
    <3>2. attempt' = [attempt EXCEPT ![job[w].order] = AttemptAfter(@, job[w].pay)]
      BY <2>3 DEF UpdateOrderStatusPayments
    <3> QED BY <1>0, <3>1, <3>2 DEF AttemptAfter
  <2>4. CASE ~(\/ ScanSave(w) \/ SyncPayments(w) \/ UpdateOrderStatusPayments(w)
               \/ RtoRefund(w) \/ QcRefund(w) \/ AdminCancelRefund(w))
    BY <1>3, <2>4 DEF GoesOn, ScanDuplicate, RtoRead, RtoRestock, SyncSave, SyncLost,
       SyncReturnSave, AssignSave, UpdateOrderStatusSave, AdminCancelSave, ReturnSave,
       ReturnConflict, ReturnPickup, ReturnPickupFails, ConfirmReturnReceivedSave, QcPassed,
       QcFailed, ConfirmCodRefundSave, ConfirmCodRefundConflict, books
  <2> QED BY <2>1, <2>2, <2>3, <2>4
<1>4. ASSUME NEW w \in Workers, Arrives(w) \/ FulfilmentCrash(w) PROVE Good
  BY <1>4 DEF Arrives, ReceiveScan, SyncOrderTracking, SyncReturn, AssignCourier, UpdateOrderStatus,
     AdminCancel, ReturnOrder, ConfirmReturnReceived, ProcessReturnQc, ConfirmCodRefund,
     FulfilmentCrash, books
<1> QED BY <1>3, <1>4
    DEF FulfilmentNext, UpdateShipmentStatus, ProcessRefund, CourierMoves, fvars, books

LEMMA BooksStayBalanced ==
  ASSUME CashIsKept, FulfilmentInv, BooksInv, [FulfilmentNext]_fvars
  PROVE  BooksInv'
<1> SUFFICES ASSUME NEW o \in Orders, orders'[o].cod
             PROVE  /\ attempt'[o] \in {"none", "PENDING", "COMPLETED"}
                    /\ orders'[o].pay = "COMPLETED" /\ attempt'[o] = "PENDING" =>
                         \E w \in Workers : Settler(job'[w], o)
  BY SettlersStay DEF BooksInv, Balanced
<1>1. orders[o].cod
  BY RowsKeep DEF Keeps
<1>2. attempt'[o] = attempt[o] \/ (attempt[o] = "PENDING" /\ attempt'[o] = "COMPLETED")
  BY <1>1, AttemptsSettle
<1>3. attempt'[o] \in {"none", "PENDING", "COMPLETED"}
  BY <1>1, <1>2 DEF BooksInv, Balanced
<1>4. ASSUME orders'[o].pay = "COMPLETED", attempt'[o] = "PENDING"
      PROVE  \E w \in Workers : Settler(job'[w], o)
  <2>1. attempt[o] = "PENDING" /\ attempt \in [Orders -> AttemptStatus]
    BY <1>2, <1>4 DEF FulfilmentInv, RowsTyped
  <2>2. CASE orders[o].pay = "COMPLETED"
    <3>1. PICK w \in Workers : Settler(job[w], o)
      BY <1>1, <2>1, <2>2 DEF BooksInv, Balanced
    <3>2. ~SyncPayments(w)
      BY <1>4, <2>1, <3>1 DEF SyncPayments, SettleAttempt, Settler
    <3>3. ~UpdateOrderStatusPayments(w)
      BY <1>4, <2>1, <3>1 DEF UpdateOrderStatusPayments, AttemptAfter, Settler, Doing
    <3> QED BY <3>1, <3>2, <3>3, SettlersStay
  <2>3. CASE orders[o].pay # "COMPLETED"
    <3>1. PICK w \in Workers : CountsAsPaid(w)
      BY <1>4, <2>3, RowsKeep
    <3> DEFINE d == job[w].order
    <3>2. d \in Orders /\ job \in [Workers -> Job] /\ job[w] \in Job
      BY <3>1, HasOrder DEF CountsAsPaid, ScanSave, SyncSave, UpdateOrderStatusSave, Doing,
         FulfilmentInv, SensibleJobs
    <3>3. orders \in [Orders -> OrderRow]
      BY DEF FulfilmentInv, RowsTyped
    <3>4. CASE ScanSave(w)
      <4>1. orders' = [orders EXCEPT ![d] = ScanUpdate(w, orders[d])]
        BY <3>4 DEF ScanSave
      <4>2. d = o
        BY <1>4, <2>3, <3>3, <4>1
      <4>3. ScanUpdate(w, orders[d]).pay = "COMPLETED"
        BY <1>4, <3>2, <3>3, <4>1, <4>2
      <4>4. Advances(w) /\ CollectsCash(w)
        BY <2>3, <3>2, <3>3, <4>2, <4>3 DEF ScanUpdate, OrderRow
      <4>5. SettleAttempt(d)
        BY <3>4, <4>4 DEF ScanSave
      <4> QED BY <1>4, <2>1, <4>2, <4>5 DEF SettleAttempt
    <3>5. CASE SyncSave(w)
      <4>1. orders' = [orders EXCEPT ![d] = [orders[d] EXCEPT
                         !.status = job[w].decision,
                         !.pay = IF CollectsCash(w) THEN "COMPLETED" ELSE orders[d].pay]]
        BY <3>5 DEF SyncSave
      <4>2. d = o
        BY <1>4, <2>3, <3>3, <4>1
      <4>3. CollectsCash(w)
        BY <1>4, <2>3, <3>2, <3>3, <4>1, <4>2 DEF OrderRow
      <4>4. Continue(w, "sync_payments")
        BY <3>5, <4>3 DEF SyncSave
      <4>5. job'[w].pc = "sync_payments" /\ job'[w].order = o
        BY <3>2, <4>2, <4>4 DEF Continue, Job
      <4> QED BY <4>5 DEF Settler
    <3>6. CASE UpdateOrderStatusSave(w)
      <4>1. orders' = [orders EXCEPT ![d] = [orders[d] EXCEPT
                         !.status = job[w].decision,
                         !.pay = IF TargetPayment(w) = "none" THEN orders[d].pay
                                 ELSE TargetPayment(w)]]
        BY <3>6 DEF UpdateOrderStatusSave
      <4>2. d = o
        BY <1>4, <2>3, <3>3, <4>1
      <4>3. TargetPayment(w) = "COMPLETED"
        BY <1>4, <2>3, <3>2, <3>3, <4>1, <4>2 DEF OrderRow
      <4>4. job' = [job EXCEPT ![w].pc = "status_payments", ![w].pay = TargetPayment(w)]
        BY <3>6 DEF UpdateOrderStatusSave
      <4>5. /\ job'[w].pc = "status_payments" /\ job'[w].order = o
            /\ job'[w].pay = "COMPLETED"
        BY <3>2, <4>2, <4>3, <4>4 DEF Job
      <4> QED BY <4>5 DEF Settler
    <3> QED BY <3>1, <3>4, <3>5, <3>6 DEF CountsAsPaid
  <2> QED BY <2>2, <2>3
<1> QED BY <1>3, <1>4

LEMMA BooksBegin == ASSUME CashIsKept, FulfilmentInit PROVE BooksInv
BY DEF FulfilmentInit, BooksInv, Balanced, CashIsKept, Mild, IdleJob

LEMMA BooksMean == ASSUME BooksInv PROVE CodBooksAgree
<1> SUFFICES ASSUME NEW o \in Orders, AtRest(o), orders[o].cod, orders[o].pay = "COMPLETED"
             PROVE  attempt[o] \in {"none", "COMPLETED"}
  BY DEF CodBooksAgree
<1>1. \A w \in Workers : ~Settler(job[w], o)
  BY DEF AtRest, Settler
<1> QED BY <1>1 DEF BooksInv, Balanced

\* Webhook, sync and admin, at once and in any order, keep an order that was paid
\* on delivery and its payment row together: when nothing is in flight, an order
\* that counts as paid has no payment row or one that says so.
THEOREM CodBooksStand ==
  ASSUME CashIsKept PROVE FulfilmentSpec => []CodBooksAgree
<1>1. FulfilmentInit => BooksInv
  BY BooksBegin
<1>2. FulfilmentInv /\ BooksInv /\ [FulfilmentNext]_fvars => BooksInv'
  BY BooksStayBalanced
<1>3. BooksInv => CodBooksAgree
  BY BooksMean
<1> QED BY FulfilmentInvariant, <1>1, <1>2, <1>3, PTL DEF FulfilmentSpec

-----------------------------------------------------------------------------
(* Handled one at a time, scans bring an order to where its parcel is. *)

\* One handler at work on orders that the courier did not have yet, or had as far
\* as their status says, and nobody else's hand on a status.
OneAtATime ==
  /\ \A v, w \in Workers : v = w
  /\ Ops \subseteq {"webhook", "sync", "assign"}
  /\ \A row \in InitialOrders : ~row.awb => Rank[row.status] < Rank["SHIPPED"]

Follows(s, t) == s = t \/ CanAdvanceStatus(s, t)

LEMMA RankIs ==
  /\ Rank["PENDING"] = 10 /\ Rank["PLACED"] = 20 /\ Rank["PROCESSING"] = 30
  /\ Rank["PACKED"] = 40 /\ Rank["SHIPPED"] = 50 /\ Rank["OUT_FOR_DELIVERY"] = 60
  /\ Rank["DELIVERED"] = 70 /\ Rank["RETURN_INITIATED"] = 80 /\ Rank["RTO_INITIATED"] = 82
  /\ Rank["RTO_IN_TRANSIT"] = 84 /\ Rank["RTO_DELIVERED"] = 86 /\ Rank["RETURNED"] = 90
  /\ Rank["CANCELLED"] = 100
BY DEF Rank

\* What follows a status follows whatever it follows, and never goes back.
LEMMA ParcelsAdvance ==
  ASSUME NEW p \in Stage, NEW q \in NextStages[p], NEW s \in OrderStatus, Follows(s, p)
  PROVE  q \in Stage /\ CanAdvanceStatus(s, q) /\ q \notin {"NONE", "PACKED"}
BY RankIs DEF Stage, NextStages, OrderStatus, Follows, CanAdvanceStatus

LEMMA PackedAdvances ==
  ASSUME NEW q \in NextStages["PACKED"], NEW s \in OrderStatus, Rank[s] <= 50
  PROVE  Follows(s, q)
BY RankIs DEF NextStages, OrderStatus, Follows, CanAdvanceStatus

LEMMA NeverBack ==
  ASSUME NEW p \in Stage, NEW t \in Stage, Follows(t, p), CanAdvanceStatus(p, t)
  PROVE  FALSE
BY RankIs DEF Stage, Follows, CanAdvanceStatus

LEMMA ShippedFollows ==
  ASSUME NEW s \in OrderStatus
  PROVE  /\ ShippedFrom(s) \in OrderStatus
         /\ Rank[s] <= 50 => ShippedFrom(s) = "SHIPPED"
         /\ \A p \in Stage \ {"PACKED"} : Follows(s, p) => Follows(ShippedFrom(s), p)
         /\ ShippedFrom(s) # s => s \in {"PENDING", "PLACED", "PROCESSING", "PACKED"}
BY RankIs DEF Stage, OrderStatus, Follows, CanAdvanceStatus, ShippedFrom

ForwardScan(o, stage) == [order |-> o, leg |-> "forward", stage |-> stage]

\* Status s is as far as parcel p, or the scan that takes it there is unhandled.
Tracked(o, s, p, produced, handled) ==
  /\ p = "NONE"   => Rank[s] < 50
  /\ p = "PACKED" => Rank[s] <= 50
  /\ p \notin {"NONE", "PACKED"} =>
       s = p \/ (CanAdvanceStatus(s, p) /\ ForwardScan(o, p) \in produced \ handled)

\* A handler decides on the order as it still is.
OnTrack(j) ==
  /\ j.pc \in {"idle", "scan_save", "rto_read", "rto_restock", "rto_refund", "sync_save",
               "sync_payments", "assign_save"}
  /\ j.pc \in {"scan_save", "sync_save"} =>
       /\ j.leg = "forward" /\ ForwardScan(j.order, j.decision) \in scans
       /\ j.view.status = orders[j.order].status
  /\ j.pc = "sync_save" => CanAdvanceStatus(j.view.status, j.decision)
  /\ j.pc = "assign_save" => j.decision = ShippedFrom(orders[j.order].status)

ScansLead ==
  \A e \in scans :
    /\ e.leg = "forward"
    /\ parcel[e.order]["forward"] \notin {"NONE", "PACKED"}
    /\ Follows(e.stage, parcel[e.order]["forward"])

TrackInv ==
  /\ scanLog \subseteq scans /\ ScansLead
  /\ \A o \in Orders : parcel[o]["return"] = "NONE"
  /\ \A o \in Orders :
       Tracked(o, orders[o].status, parcel[o]["forward"], scans, scanLog)
  /\ \A w \in Workers : OnTrack(job[w])

\* A scan that takes the order forward leaves it tracked.
LEMMA ScanTracks ==
  ASSUME FulfilmentInv, TrackInv, NEW o \in Orders, NEW t \in Stage,
         ForwardScan(o, t) \in scans, CanAdvanceStatus(orders[o].status, t)
  PROVE  Tracked(o, t, parcel[o]["forward"], scans, scanLog \cup {ForwardScan(o, t)})
<1> DEFINE p == parcel[o]["forward"]
<1>1. p \in Stage /\ p \notin {"NONE", "PACKED"} /\ Follows(t, p)
  BY DEF TrackInv, ScansLead, ForwardScan, FulfilmentInv, CourierTyped, Leg
<1>2. CASE t = p
  BY <1>1, <1>2 DEF Tracked
<1>3. CASE t # p
  <2>1. CanAdvanceStatus(t, p)
    BY <1>1, <1>3 DEF Follows
  <2>2. orders[o].status # p
    BY <1>1, NeverBack
  <2>3. ForwardScan(o, p) \in scans \ scanLog
    BY <1>1, <2>2 DEF TrackInv, Tracked
  <2>4. ForwardScan(o, p) # ForwardScan(o, t)
    BY <1>3 DEF ForwardScan
  <2> QED BY <1>1, <2>1, <2>3, <2>4 DEF Tracked
<1> QED BY <1>2, <1>3

\* A scan that does not is of no use to this order.
LEMMA ScanIsOld ==
  ASSUME FulfilmentInv, TrackInv, NEW o \in Orders, NEW t \in Stage,
         ForwardScan(o, t) \in scans, ~CanAdvanceStatus(orders[o].status, t)
  PROVE  Tracked(o, orders[o].status, parcel[o]["forward"], scans,
                 scanLog \cup {ForwardScan(o, t)})
<1> DEFINE p == parcel[o]["forward"]
<1>1. p \notin {"NONE", "PACKED"}
  BY DEF TrackInv, ScansLead, ForwardScan
<1>2. CASE t = p
  BY <1>1, <1>2 DEF TrackInv, Tracked
<1>3. CASE t # p
  <2>1. ForwardScan(o, p) # ForwardScan(o, t)
    BY <1>3 DEF ForwardScan
  <2> QED BY <1>1, <2>1 DEF TrackInv, Tracked
<1> QED BY <1>2, <1>3

LEMMA TrackBegins == ASSUME OneAtATime, FulfilmentInit PROVE TrackInv
<1>1. ASSUME NEW o \in Orders
      PROVE  Tracked(o, orders[o].status, parcel[o]["forward"], scans, scanLog)
  <2>1. orders[o] \in InitialOrders
    BY DEF FulfilmentInit
  <2>2. CASE orders[o].awb
    <3>1. parcel[o]["forward"] = orders[o].status /\ orders[o].status \in Stage
      BY <2>1, <2>2, FulfilmentAssumption DEF FulfilmentInit, Leg
    <3> QED BY <3>1, RankIs DEF Tracked, Stage
  <2>3. CASE ~orders[o].awb
    <3>1. parcel[o]["forward"] = "NONE" /\ Rank[orders[o].status] < 50
      BY <2>1, <2>3, RankIs DEF FulfilmentInit, Leg, OneAtATime
    <3> QED BY <3>1 DEF Tracked
  <2> QED BY <2>2, <2>3
<1>2. OnTrack(IdleJob)
  BY DEF OnTrack, IdleJob
<1>3. \A o \in Orders : parcel[o]["return"] = "NONE"
  BY DEF FulfilmentInit, Leg
<1> QED BY <1>1, <1>2, <1>3 DEF FulfilmentInit, TrackInv, ScansLead

\* Orders, parcels and scans stay: the only handler goes on, or another begins.
LEMMA OnlyJobsMove ==
  ASSUME OneAtATime, FulfilmentInv, TrackInv, NEW w \in Workers, OnTrack(job[w])',
         UNCHANGED <<courier, scanLog>>,
         \A o \in Orders : orders'[o].status = orders[o].status
  PROVE  TrackInv'
<1>1. \A v \in Workers : OnTrack(job[v])'
  BY DEF OneAtATime
<1>2. \A o \in Orders :
        Tracked(o, orders'[o].status, parcel'[o]["forward"], scans', scanLog')
  BY DEF TrackInv, courier
<1>3. scanLog' \subseteq scans' /\ ScansLead'
  BY DEF TrackInv, ScansLead, courier
<1>4. \A o \in Orders : parcel'[o]["return"] = "NONE"
  BY DEF TrackInv, courier
<1> QED BY <1>1, <1>2, <1>3, <1>4 DEF TrackInv

LEMMA HandlersStayOnTrack ==
  ASSUME OneAtATime, FulfilmentInv, TrackInv, NEW w \in Workers,
         Arrives(w) \/ GoesOn(w) \/ FulfilmentCrash(w)
  PROVE  TrackInv'
<1> DEFINE d == job[w].order
<1>0. /\ orders \in [Orders -> OrderRow] /\ parcel \in [Orders -> [Leg -> Stage \cup {"NONE"}]]
      /\ job \in [Workers -> Job] /\ job[w] \in Job /\ OnTrack(job[w])
      /\ \A v \in Workers : v = w
      /\ scans \subseteq Scan
  BY DEF FulfilmentInv, RowsTyped, CourierTyped, SensibleJobs, TrackInv, OneAtATime
<1>d. Done(w) => OnTrack(job[w])'
  BY <1>0 DEF Done, OnTrack, IdleJob
<1>c. ASSUME NEW label \in {"rto_read", "rto_refund", "sync_payments"}, Continue(w, label)
      PROVE  OnTrack(job[w])'
  BY <1>0, <1>c DEF Continue, OnTrack, Job
\* The handlers that begin.
<1>1. ASSUME NEW e \in scans, ReceiveScan(w, e) PROVE TrackInv'
  <2>1. e \in Scan /\ e.leg = "forward"
    BY <1>0 DEF TrackInv, ScansLead
  <2>2. ForwardScan(e.order, e.stage) = e
    BY <2>1 DEF ForwardScan, Scan
  <2>3. UNCHANGED <<orders, courier, scanLog>>
    BY <1>1 DEF ReceiveScan, books
  <2>4. /\ job'[w].pc = "scan_save" /\ job'[w].leg = "forward" /\ job'[w].order = e.order
        /\ job'[w].decision = e.stage /\ job'[w].view = orders[e.order]
    BY <1>0, <1>1, <2>1 DEF ReceiveScan, Start, StartAsked
  <2>5. OnTrack(job[w])'
    BY <2>2, <2>3, <2>4 DEF OnTrack, courier
  <2> QED BY <2>3, <2>5, OnlyJobsMove
<1>2. ASSUME NEW o \in Orders, SyncOrderTracking(w, o) PROVE TrackInv'
  <2>1. PICK target \in ForwardTargets(Reported(o, "forward")) :
          CanAdvanceStatus(orders[o].status, target) /\ Start(w, "sync_save", o, "forward", target)
    BY <1>2 DEF SyncOrderTracking
  <2>2. PICK e \in scans : e.order = o /\ e.leg = "forward" /\ e.stage = target
    BY DEF ForwardTargets, Reported
  <2>3. ForwardScan(o, target) = e
    BY <1>0, <2>2 DEF ForwardScan, Scan
  <2>4. UNCHANGED <<orders, courier, scanLog>>
    BY <1>2 DEF SyncOrderTracking, books
  <2>5. /\ job'[w].pc = "sync_save" /\ job'[w].leg = "forward" /\ job'[w].order = o
        /\ job'[w].decision = target /\ job'[w].view = orders[o]
    BY <1>0, <2>1 DEF Start, StartAsked
  <2>6. OnTrack(job[w])'
    BY <2>1, <2>3, <2>4, <2>5 DEF OnTrack, courier
  <2> QED BY <2>4, <2>6, OnlyJobsMove
<1>3. ASSUME NEW o \in Orders, AssignCourier(w, o) PROVE TrackInv'
  <2>1. UNCHANGED <<orders, courier, scanLog>>
    BY <1>3 DEF AssignCourier, books
  <2>2. /\ job'[w].pc = "assign_save" /\ job'[w].order = o
        /\ job'[w].decision = ShippedFrom(orders[o].status)
    BY <1>0, <1>3 DEF AssignCourier, Start, StartAsked
  <2>3. OnTrack(job[w])'
    BY <2>1, <2>2 DEF OnTrack
  <2> QED BY <2>1, <2>3, OnlyJobsMove
\* The handlers that go on.
<1>4. CASE ScanSave(w)
  <2> DEFINE t == job[w].decision
  <2>1. d \in Orders /\ t \in Stage /\ job[w].pc = "scan_save"
    BY <1>4, HasOrder DEF ScanSave, Doing, FulfilmentInv, SensibleJobs, Sensible
  <2>2. /\ ForwardScan(d, t) \in scans /\ ScanOf(w) = ForwardScan(d, t)
        /\ job[w].view.status = orders[d].status
    BY <1>0, <2>1 DEF OnTrack, ScanOf, ForwardScan
  <2>3. scanLog' = scanLog \cup {ForwardScan(d, t)} /\ UNCHANGED courier
    BY <1>4, <2>2 DEF ScanSave
  <2>4. orders' = [orders EXCEPT ![d] = ScanUpdate(w, orders[d])]
    BY <1>4 DEF ScanSave
  <2>5. /\ orders'[d].status = IF CanAdvanceStatus(orders[d].status, t) THEN t ELSE orders[d].status
        /\ \A o \in Orders : o # d => orders'[o] = orders[o]
    BY <1>0, <2>1, <2>2, <2>4 DEF ScanUpdate, Advances, OrderRow
  <2>6. Tracked(d, orders'[d].status, parcel[d]["forward"], scans, scanLog \cup {ForwardScan(d, t)})
    BY <2>1, <2>2, <2>5, ScanTracks, ScanIsOld
  <2>7. ASSUME NEW o \in Orders
        PROVE  Tracked(o, orders'[o].status, parcel'[o]["forward"], scans', scanLog')
    <3>1. CASE o = d
      BY <2>3, <2>6, <3>1 DEF courier
    <3>2. CASE o # d
      <4>1. ForwardScan(o, parcel[o]["forward"]) # ForwardScan(d, t)
        BY <3>2 DEF ForwardScan
      <4> QED BY <2>3, <2>5, <3>2, <4>1 DEF TrackInv, Tracked, courier
    <3> QED BY <3>1, <3>2
  <2>8. OnTrack(job[w])'
    BY <1>4, <1>c, <1>d DEF ScanSave
  <2>9. scanLog' \subseteq scans' /\ ScansLead' /\ \A o \in Orders : parcel'[o]["return"] = "NONE"
    BY <2>2, <2>3 DEF TrackInv, ScansLead, courier
  <2> QED BY <1>0, <2>7, <2>8, <2>9 DEF TrackInv
<1>5. CASE SyncSave(w)
  <2> DEFINE t == job[w].decision
             pay == IF CollectsCash(w) THEN "COMPLETED" ELSE orders[d].pay
  <2>1. d \in Orders /\ job[w].pc = "sync_save"
    BY <1>5, HasOrder DEF SyncSave, Doing
  <2>2. /\ ForwardScan(d, t) \in scans /\ CanAdvanceStatus(orders[d].status, t)
    BY <1>0, <2>1 DEF OnTrack
  <2>3. t \in Stage
    BY <1>0, <2>2 DEF ForwardScan, Scan
  <2>4. UNCHANGED <<courier, scanLog>>
    BY <1>5 DEF SyncSave
  <2>5. orders' = [orders EXCEPT ![d] = [orders[d] EXCEPT !.status = t, !.pay = pay]]
    BY <1>5 DEF SyncSave
  <2>6. orders'[d].status = t /\ \A o \in Orders : o # d => orders'[o] = orders[o]
    <3> HIDE DEF t, pay
    <3> QED BY <1>0, <2>1, <2>5 DEF OrderRow
  <2>7. Tracked(d, t, parcel[d]["forward"], scans, scanLog \cup {ForwardScan(d, t)})
    BY <2>1, <2>2, <2>3, ScanTracks
  <2>8. ASSUME NEW o \in Orders
        PROVE  Tracked(o, orders'[o].status, parcel'[o]["forward"], scans', scanLog')
    <3>1. CASE o = d
      BY <2>4, <2>6, <2>7, <3>1 DEF Tracked, courier
    <3>2. CASE o # d
      BY <2>4, <2>6, <3>2 DEF TrackInv, courier
    <3> QED BY <3>1, <3>2
  <2>9. OnTrack(job[w])'
    BY <1>5, <1>c, <1>d DEF SyncSave
  <2>10. scanLog' \subseteq scans' /\ ScansLead' /\ \A o \in Orders : parcel'[o]["return"] = "NONE"
    BY <2>4 DEF TrackInv, ScansLead, courier
  <2> QED BY <1>0, <2>8, <2>9, <2>10 DEF TrackInv
<1>6. CASE AssignSave(w)
  <2> DEFINE s == orders[d].status
             p == parcel[d]["forward"]
  <2>1. d \in Orders /\ job[w].pc = "assign_save" /\ s \in OrderStatus
    BY <1>0, <1>6, HasOrder DEF AssignSave, Doing, OrderRow
  <2>2. job[w].decision = ShippedFrom(s)
    BY <1>0, <2>1 DEF OnTrack
  <2>3. orders' = [orders EXCEPT ![d] = [orders[d] EXCEPT !.awb = TRUE, !.status = ShippedFrom(s)]]
    BY <1>6, <2>2 DEF AssignSave
  <2>4. orders'[d].status = ShippedFrom(s) /\ \A o \in Orders : o # d => orders'[o] = orders[o]
    <3> HIDE DEF s
    <3> QED BY <1>0, <2>1, <2>3 DEF OrderRow
  <2>5. UNCHANGED <<scans, scanLog>>
    BY <1>6 DEF AssignSave
  <2>6. /\ parcel'[d]["forward"] = IF p = "NONE" THEN "PACKED" ELSE p
        /\ \A o \in Orders : o # d => parcel'[o] = parcel[o]
        /\ parcel'[d]["return"] = parcel[d]["return"]
    BY <1>0, <1>6, <2>1 DEF AssignSave, BookParcel, Leg
  <2>7. Tracked(d, s, p, scans, scanLog) /\ p \in Stage \cup {"NONE"}
    BY <1>0, <2>1 DEF TrackInv, Leg
  <2>8. Tracked(d, ShippedFrom(s), parcel'[d]["forward"], scans, scanLog)
    <3>1. CASE p \in {"NONE", "PACKED"}
      <4>1. ShippedFrom(s) = "SHIPPED"
        <5>1. s \in OrderStatus /\ Rank[s] <= 50
          BY <2>1, <2>7, <3>1, RankIs DEF Tracked, OrderStatus
        <5> HIDE DEF s
        <5> QED BY <5>1, ShippedFollows
      <4>2. parcel'[d]["forward"] = "PACKED"
        BY <2>6, <3>1
      <4> QED BY <4>1, <4>2, RankIs DEF Tracked
    <3>2. CASE p \notin {"NONE", "PACKED"}
      <4>1. Follows(s, p) /\ p \in Stage \ {"PACKED"}
        BY <2>7, <3>2 DEF Tracked, Follows
      <4>2. Follows(ShippedFrom(s), p)
        <5> HIDE DEF s, p
        <5> QED BY <2>1, <4>1, ShippedFollows
      <4>3. ShippedFrom(s) = p \/ ForwardScan(d, p) \in scans \ scanLog
        <5>1. CASE s = p
          <6>1. p \in OrderStatus /\ p \in Stage /\ p # "PACKED"
            BY <2>1, <4>1, <5>1
          <6>2. ShippedFrom(p) = p
            BY <6>1, ShippedFollows DEF Stage
          <6> QED BY <5>1, <6>2
        <5>2. CASE s # p
          BY <2>7, <3>2, <5>2 DEF Tracked
        <5> QED BY <5>1, <5>2
      <4> QED BY <2>6, <3>2, <4>2, <4>3 DEF Tracked, Follows
    <3> QED BY <3>1, <3>2
  <2>9. ASSUME NEW o \in Orders
        PROVE  Tracked(o, orders'[o].status, parcel'[o]["forward"], scans', scanLog')
    <3>1. CASE o = d
      BY <2>4, <2>5, <2>8, <3>1
    <3>2. CASE o # d
      BY <2>4, <2>5, <2>6, <3>2 DEF TrackInv
    <3> QED BY <3>1, <3>2
  <2>10. ScansLead'
    <3> SUFFICES ASSUME NEW e \in scans
                 PROVE  /\ e.leg = "forward"
                        /\ parcel'[e.order]["forward"] \notin {"NONE", "PACKED"}
                        /\ Follows(e.stage, parcel'[e.order]["forward"])
      BY <2>5 DEF ScansLead
    <3>1. e.order \in Orders /\ parcel[e.order]["forward"] \notin {"NONE", "PACKED"}
      BY <1>0 DEF Scan, TrackInv, ScansLead
    <3>2. parcel'[e.order]["forward"] = parcel[e.order]["forward"]
      BY <2>6, <3>1
    <3> QED BY <3>2 DEF TrackInv, ScansLead
  <2>11. OnTrack(job[w])'
    BY <1>6, <1>d DEF AssignSave
  <2>12. \A o \in Orders : parcel'[o]["return"] = "NONE"
    BY <2>1, <2>6 DEF TrackInv
  <2> QED BY <1>0, <2>5, <2>9, <2>10, <2>11, <2>12 DEF TrackInv
<1>7. CASE RtoRead(w)
  <2>1. job'[w].pc = "rto_restock"
    BY <1>0, <1>7 DEF RtoRead, Job
  <2>2. OnTrack(job[w])'
    BY <2>1 DEF OnTrack
  <2> QED BY <1>7, <2>2, OnlyJobsMove DEF RtoRead, books
<1>8. CASE RtoRestock(w)
  <2>1. OnTrack(job[w])'
    BY <1>8, <1>c, <1>d DEF RtoRestock
  <2>2. d \in Orders
    BY <1>8, HasOrder DEF RtoRestock, Doing
  <2>3. UNCHANGED orders \/ orders' = [orders EXCEPT ![d].pay = "REFUND_INITIATED"]
    BY <1>8 DEF RtoRestock
  <2>4. \A o \in Orders : orders'[o].status = orders[o].status
    BY <1>0, <2>2, <2>3 DEF OrderRow
  <2> QED BY <1>8, <2>1, <2>4, OnlyJobsMove DEF RtoRestock
<1>9. CASE RtoRefund(w)
  <2>1. d \in Orders
    BY <1>9, HasOrder DEF RtoRefund, Doing
  <2>2. UNCHANGED orders \/ orders' = [orders EXCEPT ![d].pay = "REFUND_INITIATED"]
    BY <1>9 DEF RtoRefund, RefundOrder
  <2>3. \A o \in Orders : orders'[o].status = orders[o].status
    BY <1>0, <2>1, <2>2 DEF OrderRow
  <2> QED BY <1>9, <1>d, <2>3, OnlyJobsMove DEF RtoRefund
<1>10. CASE ScanDuplicate(w) \/ SyncLost(w) \/ SyncPayments(w) \/ FulfilmentCrash(w)
  BY <1>10, <1>d, OnlyJobsMove
  DEF ScanDuplicate, SyncLost, SyncPayments, FulfilmentCrash, books
<1>11. CASE Arrives(w)
  <2>1. ~(\E o \in Orders : SyncReturn(w, o))
    BY DEF SyncReturn, DeriveReturnStatus, TrackInv
  <2> QED BY <1>1, <1>2, <1>3, <1>11, <2>1 DEF Arrives, OneAtATime, UpdateOrderStatus, AdminCancel,
          ReturnOrder, ConfirmReturnReceived, ProcessReturnQc, ConfirmCodRefund
<1>12. CASE GoesOn(w)
  <2>1. job[w].pc \notin {"return_sync_save", "status_save", "status_payments", "return_save",
          "return_pickup", "receive_save", "qc_save", "qc_refund", "payout_save", "cancel_save",
          "cancel_refund"}
    BY <1>0 DEF OnTrack
  <2> QED BY <1>4, <1>5, <1>6, <1>7, <1>8, <1>9, <1>10, <1>12, <2>1 DEF GoesOn, Doing,
          SyncReturnSave, UpdateOrderStatusSave, UpdateOrderStatusPayments, AdminCancelSave,
          AdminCancelRefund, ReturnSave, ReturnConflict, ReturnPickup, ReturnPickupFails,
          ConfirmReturnReceivedSave, QcPassed, QcRefund, QcFailed, ConfirmCodRefundSave,
          ConfirmCodRefundConflict
<1> QED BY <1>10, <1>11, <1>12

LEMMA CourierStaysOnTrack ==
  ASSUME OneAtATime, FulfilmentInv, TrackInv, NEW o \in Orders, NEW leg \in Leg,
         NEW stage \in Stage, CourierMoves(o, leg, stage)
  PROVE  TrackInv'
<1> DEFINE p == parcel[o]["forward"]
<1>0. /\ orders \in [Orders -> OrderRow] /\ parcel \in [Orders -> [Leg -> Stage \cup {"NONE"}]]
      /\ scans \subseteq Scan
  BY DEF FulfilmentInv, RowsTyped, CourierTyped
<1>1. leg = "forward"
  BY DEF Leg, CourierMoves, TrackInv, NextStages
<1>2. stage \in NextStages[p] /\ p \in Stage
  <2>1. stage \in NextStages[p]
    BY <1>1 DEF CourierMoves
  <2>2. p # "NONE"
    BY <2>1 DEF NextStages
  <2> QED BY <1>0, <2>1, <2>2 DEF Leg
<1>3. /\ parcel'[o]["forward"] = stage /\ parcel'[o]["return"] = parcel[o]["return"]
      /\ \A d \in Orders : d # o => parcel'[d] = parcel[d]
      /\ scans' = scans \cup {ForwardScan(o, stage)}
      /\ UNCHANGED <<orders, scanLog, job>>
  BY <1>0, <1>1 DEF CourierMoves, ForwardScan, Leg, books
<1>4. stage \notin {"NONE", "PACKED"} /\ CanAdvanceStatus(p, stage)
  <2>1. p \in OrderStatus /\ Follows(p, p)
    BY <1>2 DEF Stage, OrderStatus, Follows
  <2> HIDE DEF p
  <2> QED BY <1>2, <2>1, ParcelsAdvance
<1>5. ForwardScan(o, stage) \notin scans
  <2> SUFFICES ASSUME ForwardScan(o, stage) \in scans PROVE FALSE
    OBVIOUS
  <2>1. Follows(stage, p)
    BY DEF TrackInv, ScansLead, ForwardScan
  <2> HIDE DEF p
  <2> QED BY <1>2, <1>4, <2>1, NeverBack
<1>6. ScansLead'
  <2> SUFFICES ASSUME NEW e \in scans'
               PROVE  /\ e.leg = "forward"
                      /\ parcel'[e.order]["forward"] \notin {"NONE", "PACKED"}
                      /\ Follows(e.stage, parcel'[e.order]["forward"])
    BY DEF ScansLead
  <2>1. CASE e = ForwardScan(o, stage)
    BY <1>3, <1>4, <2>1 DEF ForwardScan, Follows
  <2>2. CASE e \in scans /\ e.order # o
    BY <1>0, <1>3, <2>2 DEF TrackInv, ScansLead, Scan
  <2>3. CASE e \in scans /\ e.order = o
    <3>1. e.leg = "forward" /\ Follows(e.stage, p) /\ e.stage \in OrderStatus
      BY <1>0, <2>3 DEF TrackInv, ScansLead, Scan, Stage, OrderStatus
    <3>2. CanAdvanceStatus(e.stage, stage)
      <4> HIDE DEF p
      <4> QED BY <1>2, <3>1, ParcelsAdvance
    <3> QED BY <1>3, <1>4, <2>3, <3>1, <3>2 DEF Follows
  <2> QED BY <1>3, <2>1, <2>2, <2>3
<1>7. ASSUME NEW d \in Orders
      PROVE  Tracked(d, orders'[d].status, parcel'[d]["forward"], scans', scanLog')
  <2>1. CASE d = o
    <3> DEFINE s == orders[o].status
    <3>1. Tracked(o, s, p, scans, scanLog) /\ s \in OrderStatus
      BY <1>0 DEF TrackInv, OrderRow
    <3>2. Follows(s, stage)
      <4>1. CASE p = "PACKED"
        <5>1. stage \in NextStages["PACKED"] /\ Rank[s] <= 50 /\ s \in OrderStatus
          BY <1>2, <3>1, <4>1 DEF Tracked
        <5> HIDE DEF s, p
        <5> QED BY <5>1, PackedAdvances
      <4>2. CASE p # "PACKED"
        <5>1. Follows(s, p) /\ s \in OrderStatus
          BY <1>2, <3>1, <4>2 DEF Tracked, Follows, Stage
        <5>2. CanAdvanceStatus(s, stage)
          <6> HIDE DEF s, p
          <6> QED BY <1>2, <5>1, ParcelsAdvance
        <5> QED BY <5>2 DEF Follows
      <4> QED BY <4>1, <4>2
    <3>3. ForwardScan(o, stage) \in scans' \ scanLog'
      BY <1>3, <1>5 DEF TrackInv
    <3> QED BY <1>3, <1>4, <2>1, <3>2, <3>3 DEF Tracked, Follows
  <2>2. CASE d # o
    BY <1>3, <2>2 DEF TrackInv, Tracked
  <2> QED BY <2>1, <2>2
<1>8. \A w \in Workers : OnTrack(job[w])'
  BY <1>3 DEF TrackInv, OnTrack
<1> QED BY <1>3, <1>6, <1>7, <1>8 DEF TrackInv

LEMMA ScansStayOnTrack ==
  ASSUME OneAtATime, FulfilmentInv, TrackInv, [FulfilmentNext]_fvars PROVE TrackInv'
<1>1. CASE UNCHANGED fvars
  BY <1>1 DEF fvars, TrackInv, ScansLead, OnTrack
<1> QED BY <1>1, HandlersStayOnTrack, CourierStaysOnTrack
        DEF FulfilmentNext, UpdateShipmentStatus, ProcessRefund, OneAtATime

LEMMA TracksSettle == ASSUME TrackInv PROVE SettlesAtCourierStatus
BY DEF TrackInv, Tracked, SettlesAtCourierStatus

\* However late, often or out of order the scans of a parcel are delivered, and
\* though a process dies between any two steps, once all were handled, one at a
\* time, the order stands where its parcel is.
THEOREM OrdersSettle ==
  ASSUME OneAtATime PROVE FulfilmentSpec => []SettlesAtCourierStatus
<1>1. FulfilmentInit => TrackInv
  BY TrackBegins
<1>2. FulfilmentInv /\ TrackInv /\ [FulfilmentNext]_fvars => TrackInv'
  BY ScansStayOnTrack
<1>3. TrackInv => SettlesAtCourierStatus
  BY TracksSettle
<1> QED BY FulfilmentInvariant, <1>1, <1>2, <1>3, PTL DEF FulfilmentSpec
=============================================================================
