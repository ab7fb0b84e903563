---------------------------- MODULE StockLedger ----------------------------
(* What the shop promises about stock, whatever handlers run and in         *)
(* whatever order they interleave: an order takes its unit at most once,    *)
(* gives it back at most once and only if it took it, and an order that was *)
(* closed never takes one again.  Module Shop is shown to implement this.   *)
EXTENDS Integers

CONSTANTS Orders, InitialStock

VARIABLES stock, fate

LedgerInit ==
  /\ stock = InitialStock
  /\ fate = [o \in Orders |-> "open"]

\* The unit leaves the shelf (COD at checkout, online at promotion).
Take(o) ==
  /\ fate[o] = "open"
  /\ fate' = [fate EXCEPT ![o] = "held"]
  /\ stock' = stock - 1

\* A visible order is cancelled and its unit goes back.
GiveBack(o) ==
  /\ fate[o] = "held"
  /\ fate' = [fate EXCEPT ![o] = "closed"]
  /\ stock' = stock + 1

\* An order that never took its unit is cancelled.
Abandon(o) ==
  /\ fate[o] = "open"
  /\ fate' = [fate EXCEPT ![o] = "closed"]
  /\ UNCHANGED stock

LedgerNext == \E o \in Orders : Take(o) \/ GiveBack(o) \/ Abandon(o)

LedgerSpec == LedgerInit /\ [][LedgerNext]_<<stock, fate>>
=============================================================================
