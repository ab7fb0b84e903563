---------------------------- MODULE TrackingSync ----------------------------
(* ShipmentTrackingSyncService.syncOrderTracking and the poll of returns:   *)
(* what the courier reports under an AWB moves the order forward, unless    *)
(* another handler moved it meanwhile.  Which orders the job visits and     *)
(* when is module TrackingCron's.                                           *)
EXTENDS CourierEvents

\* The provider's scans of a leg.
Reported(o, leg) == {e.stage : e \in {s \in scans : s.order = o /\ s.leg = leg}}

ForwardRank == [SHIPPED |-> 1, OUT_FOR_DELIVERY |-> 2, DELIVERED |-> 3]

\* EXACT_STAGE_MAP folds RTO IN TRANSIT into RTO_INITIATED, RETURNED into
\* RTO_DELIVERED.
LeftToWebhook ==
  {"CANCELLED", "RTO_INITIATED", "RTO_IN_TRANSIT", "RTO_DELIVERED", "RETURNED"}

\* The furthest forward status the scans prove.
ForwardTargets(stages) ==
  {s \in stages \cap DOMAIN ForwardRank :
     \A t \in stages \cap DOMAIN ForwardRank : ForwardRank[t] <= ForwardRank[s]}

\* The order, then the provider, then canAdvanceStatus on the order as read.
SyncOrderTracking(w, o) ==
  /\ "sync" \in Ops
  /\ orders[o].awb
  /\ Reported(o, "forward") \cap LeftToWebhook = {}
  /\ \E target \in ForwardTargets(Reported(o, "forward")) :
       /\ CanAdvanceStatus(orders[o].status, target)
       /\ Start(w, "sync_save", o, "forward", target)
  /\ UNCHANGED <<books, courier, scanLog, overrides>>

\* Mutant: the update is not conditional.
AnyStatus(w) == TRUE

\* "Optimistic: only advance if no webhook moved the order meanwhile."
UnmovedSinceRead(w) == orders[job[w].order].status = job[w].view.status

SyncSave(w) ==
  LET o == job[w].order IN
  /\ Doing(w, "sync_save")
  /\ UnmovedSinceRead(w)
  /\ orders' = [orders EXCEPT ![o].status = job[w].decision,
                              ![o].pay = IF CollectsCash(w) THEN "COMPLETED" ELSE @]
  /\ IF CollectsCash(w) THEN Continue(w, "sync_payments") ELSE Done(w)
  /\ UNCHANGED <<attempt, returns, audits, gone, payouts, shelf, courier, scanLog,
                 overrides>>

SyncLost(w) ==
  /\ Doing(w, "sync_save")
  /\ ~UnmovedSinceRead(w)
  /\ Done(w)
  /\ UNCHANGED <<books, courier, scanLog, overrides>>

\* A statement of its own, after the order's.
SyncPayments(w) ==
  /\ Doing(w, "sync_payments")
  /\ SettleAttempt(job[w].order)
  /\ Done(w)
  /\ UNCHANGED <<orders, returns, audits, gone, payouts, shelf, courier, scanLog,
                 overrides>>

-----------------------------------------------------------------------------
(* syncReturnShipments *)

ReturnRank ==
  [INITIATED |-> 0, PICKUP_SCHEDULED |-> 1, PICKED_UP |-> 2, IN_TRANSIT |-> 3,
   RETURN_RECEIVED |-> 4]

\* deriveReturnStatus of the courier's current status of the return parcel.
DeriveReturnStatus ==
  [SHIPPED |-> "PICKED_UP", OUT_FOR_DELIVERY |-> "IN_TRANSIT",
   DELIVERED |-> "RETURN_RECEIVED"]

SyncReturn(w, o) ==
  LET stage == parcel[o]["return"] IN
  /\ "sync" \in Ops
  /\ returns[o].pickup
  /\ returns[o].status \in DOMAIN ReturnRank \ {"RETURN_RECEIVED"}
  /\ stage \in DOMAIN DeriveReturnStatus
  /\ ReturnRank[DeriveReturnStatus[stage]] > ReturnRank[returns[o].status]
  /\ Start(w, "return_sync_save", o, "return", DeriveReturnStatus[stage])
  /\ UNCHANGED <<books, courier, scanLog, overrides>>

\* Not conditional on the status that was read.
SyncReturnSave(w) ==
  /\ Doing(w, "return_sync_save")
  /\ returns' = [returns EXCEPT ![job[w].order].status = job[w].decision]
  /\ Done(w)
  /\ UNCHANGED <<orders, attempt, audits, gone, payouts, shelf, courier, scanLog,
                 overrides>>
=============================================================================
