--------------------------- MODULE CourierEvents ---------------------------
(* EkartWebhookService.processWebhook: a courier scan is matched to an      *)
(* order, recorded once, and moves the order by rank; an order that came    *)
(* back to its origin is restocked and refunded.  Signature, probes and     *)
(* unmatched payloads write nothing here.                                   *)
EXTENDS FulfilmentState

\* STATUS_PROGRESSION_RANK
Rank ==
  [PENDING |-> 10, PLACED |-> 20, PROCESSING |-> 30, PACKED |-> 40,
   SHIPPED |-> 50, OUT_FOR_DELIVERY |-> 60, DELIVERED |-> 70,
   RETURN_INITIATED |-> 80, RTO_INITIATED |-> 82, RTO_IN_TRANSIT |-> 84,
   RTO_DELIVERED |-> 86, RETURNED |-> 90, CANCELLED |-> 100]

\* Mutant: ranks are not compared.
AdvanceToAny(current, new) ==
  current # new /\ current \notin {"DELIVERED", "CANCELLED", "RETURNED", "RTO_DELIVERED"}

CanAdvanceStatus(current, new) ==
  /\ current # new
  /\ current \notin {"DELIVERED", "CANCELLED", "RETURNED", "RTO_DELIVERED"}
  /\ \/ new \in {"CANCELLED", "RETURN_INITIATED", "RETURNED"}
     \/ Rank[new] > Rank[current]

\* A scan of a return pickup is matched by returnAwb, and to the same order.
FindMatchingOrder(e) == e.leg = "return" => returns[e.order].pickup

\* The courier delivers a scan: again, late or out of order.
ReceiveScan(w, e) ==
  /\ "webhook" \in Ops
  /\ e \in scans
  /\ FindMatchingOrder(e)
  /\ Start(w, "scan_save", e.order, e.leg, e.stage)
  /\ UNCHANGED <<books, courier, scanLog, overrides>>

ScanOf(w) == [order |-> job[w].order, leg |-> job[w].leg, stage |-> job[w].decision]

Advances(w) == CanAdvanceStatus(job[w].view.status, job[w].decision)

CollectsCash(w) ==
  /\ job[w].decision = "DELIVERED"
  /\ job[w].view.cod /\ job[w].view.pay = "PENDING"

\* What the transaction writes is decided on the row read before it.
ScanUpdate(w, row) ==
  [row EXCEPT !.awb      = @ \/ ~job[w].view.awb,
              !.provider = @ \/ ~job[w].view.provider,
              !.status   = IF Advances(w) THEN job[w].decision ELSE @,
              !.pay      = IF Advances(w) /\ CollectsCash(w) THEN "COMPLETED" ELSE @]

WritesOrder(w) == Advances(w) \/ ~job[w].view.awb \/ ~job[w].view.provider

\* The order came back, as far as this handler can tell.
CameBack(w) ==
  /\ job[w].view.status # "RTO_DELIVERED"
  /\ WritesOrder(w)
  /\ ScanUpdate(w, orders[job[w].order]).status = "RTO_DELIVERED"

\* Mutant: nothing makes the eventId unique.
AnyScan(w) == TRUE

\* webhookLog.eventId is unique: looked up first, and P2002 inside the transaction.
NewScan(w) == ScanOf(w) \notin scanLog

ScanSave(w) ==
  LET o == job[w].order IN
  /\ Doing(w, "scan_save")
  /\ NewScan(w)
  /\ scanLog' = scanLog \cup {ScanOf(w)}
  /\ orders'  = [orders EXCEPT ![o] = ScanUpdate(w, @)]
  /\ IF Advances(w) /\ CollectsCash(w) THEN SettleAttempt(o) ELSE UNCHANGED attempt
  /\ IF CameBack(w) THEN Continue(w, "rto_read") ELSE Done(w)
  /\ UNCHANGED <<returns, audits, gone, payouts, shelf, courier, overrides>>

ScanDuplicate(w) ==
  /\ Doing(w, "scan_save")
  /\ ~NewScan(w)
  /\ Done(w)
  /\ UNCHANGED <<books, courier, scanLog, overrides>>

-----------------------------------------------------------------------------
(* handleRtoDelivered *)

RtoRead(w) ==
  /\ Doing(w, "rto_read")
  /\ job' = [job EXCEPT ![w].pc = "rto_restock", ![w].view = orders[job[w].order]]
  /\ UNCHANGED <<books, courier, scanLog, overrides>>

WasPaidOnline(w) == ~job[w].view.cod /\ job[w].view.pay = "COMPLETED"

RtoRestock(w) ==
  LET o == job[w].order IN
  /\ Doing(w, "rto_restock")
  /\ shelf' = [shelf EXCEPT ![o] = Restocked(@)]
  /\ IF WasPaidOnline(w)
       THEN /\ orders' = [orders EXCEPT ![o].pay = "REFUND_INITIATED"]
            /\ Continue(w, "rto_refund")
       ELSE /\ UNCHANGED orders
            /\ Done(w)
  /\ UNCHANGED <<attempt, returns, audits, gone, payouts, courier, scanLog, overrides>>

\* By now the order does not count as paid any more.
RtoRefund(w) ==
  /\ Doing(w, "rto_refund")
  /\ RefundOrder(job[w].order)
  /\ Done(w)
  /\ UNCHANGED <<returns, payouts, shelf, courier, scanLog, overrides>>
=============================================================================
