------------------------- MODULE MCFulfilmentAreas -------------------------
(* Three small instances of Fulfilment, side by side in one run: `area` says *)
(* which of them a behaviour belongs to.  The cfg's own instance is "at      *)
(* once": scans of booked orders that several handlers process.              *)
EXTENDS MCFulfilment

CONSTANT OneWorker  \* the only worker of the sequential instance

\* What the areas take of the cfg's constants: nobody but courier and sync has
\* booked orders in hand at once, no admin books cash as failed or refunded, and
\* processes die in turn only.
ASSUME AreasAssumption ==
  /\ \A v, w \in OneWorker : v = w
  /\ InitialOrders \subseteq BookedOrders /\ {"qc", "adminCancel"} \cap Ops = {}
  /\ "crash" \notin Faults /\ {"FAILED", "REFUNDED"} \cap AdminPayments = {}

VARIABLE area

\* The courier's scans, handled one at a time, and crashes.
InTurn == INSTANCE FulfilmentProofs WITH
  Workers <- OneWorker, InitialOrders <- FreshOrders \cup BookedOrders,
  Ops <- {"webhook", "sync", "assign"}, MaxOverrides <- 0, Faults <- {"crash"}

\* Delivered orders that come back, and admins that set statuses.
Back == INSTANCE FulfilmentProofs WITH
  InitialOrders <- DeliveredOrders, MaxOverrides <- 1,
  Ops <- {"return", "receive", "qc", "codRefund", "processRefund", "orderStatus",
          "shipmentStatus", "adminCancel", "sync"}

MCInit ==
  \/ area = "in turn" /\ InTurn!FulfilmentInit
  \/ area = "at once" /\ FulfilmentInit
  \/ area = "back"    /\ Back!FulfilmentInit

MCNext ==
  /\ UNCHANGED area
  /\ \/ area = "in turn" /\ InTurn!FulfilmentNext
     \/ area = "at once" /\ FulfilmentNext
     \/ area = "back"    /\ Back!FulfilmentNext

MCSpec == MCInit /\ [][MCNext]_<<fvars, area>>

-----------------------------------------------------------------------------
(* Properties of some of the instances *)

\* With two handlers at work, the tracking sync only moves an order forward.
SyncAdvancesAtOnce ==
  [][(area = "at once" => SyncStepAdvances) /\ (area = "back" => Back!SyncStepAdvances)]_fvars

\* Handled one at a time, the scans of a parcel bring the order to where the
\* parcel is, in whatever order and however often they are delivered, and though
\* a process dies between any two steps of processWebhook.
SettlesInTurn == area = "in turn" => InTurn!SettlesAtCourierStatus

\* Handlers that process the scans at the same time restock a parcel that came
\* back to its origin once, and only for the scan that says so.
RestockedOnceAtOnce == area = "at once" => RestockedByCourierOnce

\* Every row and every handler has its type; and without crashes the order and
\* its payment row agree about collected cash.
CashBooksAgree ==
  /\ area = "in turn" => InTurn!FulfilmentTypeOK
  /\ area = "at once" => FulfilmentTypeOK /\ CodBooksAgree
  /\ area = "back"    => Back!FulfilmentTypeOK /\ Back!CodBooksAgree
=============================================================================
