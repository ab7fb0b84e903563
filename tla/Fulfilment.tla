----------------------------- MODULE Fulfilment -----------------------------
(* The courier, the tracking sync, the admin and the returning customer over *)
(* one set of orders, with crashes, and what must hold of them.              *)
EXTENDS TrackingSync, ShippingAdmin, ReturnService

-----------------------------------------------------------------------------
(* The courier (Ekart), as src/ relies on it: a parcel moves along its route, *)
(* each move is scanned, and a scan may be delivered late, twice or never.    *)

NextStages ==
  [NONE |-> {}, PACKED |-> {"SHIPPED", "CANCELLED"},
   SHIPPED |-> {"OUT_FOR_DELIVERY", "RTO_INITIATED"},
   OUT_FOR_DELIVERY |-> {"DELIVERED", "RTO_INITIATED"},
   RTO_INITIATED |-> {"RTO_IN_TRANSIT"},
   RTO_IN_TRANSIT |-> {"RTO_DELIVERED", "RETURNED"},
   DELIVERED |-> {}, CANCELLED |-> {}, RTO_DELIVERED |-> {}, RETURNED |-> {}]

\* A return parcel does not come back a second time.
StagesOf(leg) ==
  IF leg = "forward" THEN Stage
  ELSE {"SHIPPED", "OUT_FOR_DELIVERY", "DELIVERED", "CANCELLED"}

CourierMoves(o, leg, stage) ==
  /\ stage \in NextStages[parcel[o][leg]] \cap StagesOf(leg)
  /\ parcel' = [parcel EXCEPT ![o][leg] = stage]
  /\ scans'  = scans \cup {[order |-> o, leg |-> leg, stage |-> stage]}
  /\ UNCHANGED <<books, scanLog, overrides, job>>

\* The process of a handler dies between two of its steps.
FulfilmentCrash(w) ==
  /\ "crash" \in Faults
  /\ ~Doing(w, "idle")
  /\ Done(w)
  /\ UNCHANGED <<books, courier, scanLog, overrides>>

-----------------------------------------------------------------------------

Arrives(w) ==
  \/ \E e \in scans : ReceiveScan(w, e)
  \/ \E o \in Orders :
       \/ SyncOrderTracking(w, o)
       \/ SyncReturn(w, o)
       \/ AssignCourier(w, o)
       \/ \E status \in AdminStatuses, pay \in AdminPayments :
            UpdateOrderStatus(w, o, status, pay)
       \/ AdminCancel(w, o)
       \/ ReturnOrder(w, o)
       \/ ConfirmReturnReceived(w, o)
       \/ \E verdict \in {"PASSED", "RETURN_REJECTED"} : ProcessReturnQc(w, o, verdict)
       \/ ConfirmCodRefund(w, o)

GoesOn(w) ==
  \/ ScanSave(w)
  \/ ScanDuplicate(w)
  \/ RtoRead(w)
  \/ RtoRestock(w)
  \/ RtoRefund(w)
  \/ SyncSave(w)
  \/ SyncLost(w)
  \/ SyncPayments(w)
  \/ SyncReturnSave(w)
  \/ AssignSave(w)
  \/ UpdateOrderStatusSave(w)
  \/ UpdateOrderStatusPayments(w)
  \/ \E restockItems \in BOOLEAN : AdminCancelSave(w, restockItems)
  \/ AdminCancelRefund(w)
  \/ ReturnSave(w)
  \/ ReturnConflict(w)
  \/ ReturnPickup(w)
  \/ ReturnPickupFails(w)
  \/ ConfirmReturnReceivedSave(w)
  \/ \E restockItems \in BOOLEAN : QcPassed(w, restockItems)
  \/ QcRefund(w)
  \/ QcFailed(w)
  \/ ConfirmCodRefundSave(w)
  \/ ConfirmCodRefundConflict(w)

FulfilmentNext ==
  \/ \E w \in Workers : Arrives(w) \/ GoesOn(w) \/ FulfilmentCrash(w)
  \/ \E o \in Orders, status \in AdminStatuses : UpdateShipmentStatus(o, status)
  \/ \E o \in Orders : ProcessRefund(o)
  \/ \E o \in Orders, leg \in Leg, stage \in Stage : CourierMoves(o, leg, stage)

FulfilmentSpec == FulfilmentInit /\ [][FulfilmentNext]_fvars

-----------------------------------------------------------------------------
(* Properties *)

AtRest(o) == \A w \in Workers : job[w].order # o

\* The tracking sync only ever moves an order forward, and never one that a
\* webhook or an admin closed meanwhile, although it decides on an order read
\* before the provider was asked.
SyncStepAdvances ==
  \A w \in Workers : SyncSave(w) =>
    LET o == job[w].order IN CanAdvanceStatus(orders[o].status, orders'[o].status)

SyncOnlyAdvances == [][SyncStepAdvances]_fvars

\* An order that the courier brought back is restocked once by its scan, no
\* matter how often and to how many handlers the scan is delivered.
RtoScan(o) == [order |-> o, leg |-> "forward", stage |-> "RTO_DELIVERED"]

RestockedByCourierOnce ==
  \A o \in Orders :
    /\ shelf[o].product <= 1
    /\ shelf[o].product = 1 => RtoScan(o) \in scanLog

\* A COD refund is paid out at most once per order, though two admins confirm
\* it at once and another puts the order back to an earlier status.
OneCodPayout == \A o \in Orders : payouts[o] <= 1

\* Once nothing is in flight, the payment row of a COD order that counts as paid
\* says so too, if the order has one: webhook, sync and admin write the two rows
\* in separate statements.
CodBooksAgree ==
  \A o \in Orders :
    AtRest(o) /\ orders[o].cod /\ orders[o].pay = "COMPLETED"
    => attempt[o] \in {"none", "COMPLETED"}

\* Once every scan was processed, in whatever order and however often, the order
\* stands where its parcel is.
SettlesAtCourierStatus ==
  \A o \in Orders :
    AtRest(o) /\ parcel[o]["forward"] \notin {"NONE", "PACKED"} /\ scans \subseteq scanLog
    => orders[o].status = parcel[o]["forward"]

-----------------------------------------------------------------------------
(* Promises of documents that TLC refutes; README.md, "Divergences", has the *)
(* instances.                                                                *)

\* Goods that came back and passed the check were paid back for: "QC passed.
\* Inventory restocked. Refund initiated."
ReturnedGoodsAreRefunded ==
  \A o \in Orders :
    AtRest(o) /\ ~orders[o].cod /\ returns[o].qc = "PASSED" => gone[o] > 0

\* An order's unit comes back to the shelf at most once, whoever restocks it.
RestockedAtMostOnce == \A o \in Orders : shelf[o].product <= 1

\* A restock returns the unit to the row that checkout took it from.
RestockedWhereTaken == \A o \in Orders : HasVariant => shelf[o].product = 0

\* Statuses move forward unless an admin overrides them.
NeverBackwards ==
  [][\A o \in Orders :
       orders'[o].status # orders[o].status
       => CanAdvanceStatus(orders[o].status, orders'[o].status)]_orders
=============================================================================
