---------------------------- MODULE MCFulfilment ----------------------------
(* The rows that small instances of Fulfilment start from. *)
EXTENDS Fulfilment, TLC

Cod == [status |-> "PLACED", pay |-> "PENDING", cod |-> TRUE, awb |-> FALSE,
        provider |-> FALSE]

Paid == [Cod EXCEPT !.pay = "COMPLETED", !.cod = FALSE]

FreshOrders == {Cod, Paid}

\* createShipmentForOrder filled everything in.
BookedOrders ==
  {[row EXCEPT !.status = "PACKED", !.awb = TRUE, !.provider = TRUE] :
     row \in FreshOrders}

DeliveredOrders ==
  {[row EXCEPT !.status = "DELIVERED", !.pay = "COMPLETED"] : row \in BookedOrders}

WorkerSymmetry == Permutations(Workers)
=============================================================================
