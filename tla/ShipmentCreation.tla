-------------------------- MODULE ShipmentCreation --------------------------
(* PaymentsService.createShipmentOnce and the part of                       *)
(* ShippingService.createShipmentForOrder that decides and writes: the read,*)
(* the in-process lock, the provider call and the unconditional save.  The  *)
(* Ekart provider returns the AWB with the shipment.                        *)
EXTENDS ShopState

\* createShipmentOnce's own read.
ShipOnce(w) ==
  LET o == task[w].order IN
  /\ At(w, "ship_once")
  /\ IF orders[o].status = "CANCELLED" \/ orders[o].awb
       THEN Finish(w)
       ELSE Goto(w, "ship_read")
  /\ UNCHANGED <<rows, gateway, logged>>

\* createShipmentForOrder reads the order, before it takes the lock.
ShipRead(w) ==
  /\ At(w, "ship_read")
  /\ task' = [task EXCEPT ![w].pc = "ship_lock", ![w].view = orders[task[w].order]]
  /\ UNCHANGED <<rows, gateway, logged>>

ShipLock(w) ==
  /\ At(w, "ship_lock")
  /\ IF HeldBySibling(w, task[w].order, {"ship_save"}) \/ task[w].view.awb
       THEN Finish(w)
       ELSE Goto(w, "ship_save")
  /\ UNCHANGED <<rows, gateway, logged>>

PackedFrom(status) == IF status \in {"PLACED", "PROCESSING"} THEN "PACKED" ELSE status

\* The provider has created the shipment; the status saved is computed from the
\* row read before the call.
ShipSave(w) ==
  LET o == task[w].order IN
  /\ At(w, "ship_save")
  /\ orders' = [orders EXCEPT ![o].awb = TRUE,
                              ![o].status = PackedFrom(task[w].view.status)]
  /\ Finish(w)
  /\ UNCHANGED <<payments, stock, audits, expired, gateway, logged>>

\* A validation error or a provider error: the caller logs it and goes on.
ShipFails(w) ==
  /\ At(w, "ship_save")
  /\ Finish(w)
  /\ UNCHANGED <<rows, gateway, logged>>
=============================================================================
