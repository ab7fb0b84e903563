---------------------------- MODULE TrackingCron ----------------------------
(* ShipmentTrackingSyncService.handleInTransitTrackingSync: every half hour *)
(* a run takes the next batch of orders in transit, in id order from a      *)
(* cursor kept in memory, and asks the courier about each.  What a visit    *)
(* does to an order is module TrackingSync's; here it brings the order up   *)
(* to its parcel.  No webhook ever arrives: the sync is the fallback.       *)
EXTENDS Integers, FiniteSets, Sequences, SequencesExt

CONSTANTS
  Ids,          \* the ids of the orders with an AWB, comparable
  BatchLimit,   \* orders per run
  MaxRestarts   \* BOUND on the process's restarts

ASSUME CronAssumption ==
  /\ Ids \subseteq Nat /\ IsFiniteSet(Ids)
  /\ BatchLimit \in Nat \ {0}
  /\ MaxRestarts \in Nat

VARIABLES
  atCourier,  \* how far the courier is with each parcel
  known,      \* how far the shop knows each parcel is
  cursor,     \* cursorOrderId; 0 is null
  batch,      \* the orders the current run still has to visit
  isRunning,  \* a run is under way
  restarts    \* restarts so far

cronVars == <<atCourier, known, cursor, batch, isRunning, restarts>>

\* 0 packed, 1 shipped, 2 out for delivery, 3 delivered: of IN_TRANSIT_STATUSES
\* the first three, without the returns.
Progress == 0..3

CronTypeOK ==
  /\ atCourier \in [Ids -> Progress]
  /\ known \in [Ids -> Progress]
  /\ cursor \in Ids \cup {0}
  /\ batch \in Seq(Ids)
  /\ isRunning \in BOOLEAN
  /\ restarts \in 0..MaxRestarts

CronInit ==
  /\ atCourier = [o \in Ids |-> 0]
  /\ known     = [o \in Ids |-> 0]
  /\ cursor = 0 /\ batch = <<>> /\ isRunning = FALSE /\ restarts = 0

InTransit == {o \in Ids : known[o] < 3}

\* The ids above the cursor in ascending order, at most BatchLimit of them.
NextBatch ==
  LET above == {o \in InTransit : o > cursor}
      taken == {o \in above : Cardinality({p \in above : p < o}) < BatchLimit}
  IN  SetToSortSeq(taken, <)

\* Mutant: the cursor stays at the last order of a short batch.
CursorKept(found) == IF found = <<>> THEN cursor ELSE found[Len(found)]

\* A full batch is resumed after its last order; a short one starts over.
CursorAfter(found) ==
  IF Len(found) = BatchLimit THEN found[Len(found)] ELSE 0

\* The timer fires; a run under way makes it return at once.
StartRun ==
  /\ ~isRunning
  /\ batch'  = NextBatch
  /\ cursor' = CursorAfter(NextBatch)
  /\ isRunning' = TRUE
  /\ UNCHANGED <<atCourier, known, restarts>>

\* The courier answers and the order follows its parcel.
VisitOrder ==
  /\ isRunning /\ batch # <<>>
  /\ known' = [known EXCEPT ![Head(batch)] = atCourier[Head(batch)]]
  /\ batch' = Tail(batch)
  /\ UNCHANGED <<atCourier, cursor, isRunning, restarts>>

\* The courier does not answer: the run goes on with the next order.
VisitFails ==
  /\ isRunning /\ batch # <<>>
  /\ batch' = Tail(batch)
  /\ UNCHANGED <<atCourier, known, cursor, isRunning, restarts>>

EndRun ==
  /\ isRunning /\ batch = <<>>
  /\ isRunning' = FALSE
  /\ UNCHANGED <<atCourier, known, cursor, batch, restarts>>

\* The cursor and the flag live in memory.
Restart ==
  /\ restarts < MaxRestarts
  /\ restarts' = restarts + 1
  /\ cursor' = 0 /\ batch' = <<>> /\ isRunning' = FALSE
  /\ UNCHANGED <<atCourier, known>>

ParcelMoves(o) ==
  /\ atCourier[o] < 3
  /\ atCourier' = [atCourier EXCEPT ![o] = @ + 1]
  /\ UNCHANGED <<known, cursor, batch, isRunning, restarts>>

Visit(o) == isRunning /\ batch # <<>> /\ Head(batch) = o /\ VisitOrder

CronNext ==
  \/ StartRun
  \/ VisitOrder
  \/ VisitFails
  \/ EndRun
  \/ Restart
  \/ \E o \in Ids : ParcelMoves(o)

CronSpec == CronInit /\ [][CronNext]_cronVars

(* The timer keeps firing and a run that started goes on; the courier does  *)
(* not fail for one and the same order for ever.  Restarts are finitely     *)
(* many: each sends the cursor back to the start.                           *)
CronFairness ==
  /\ WF_cronVars(StartRun)
  /\ WF_cronVars(VisitOrder \/ VisitFails)
  /\ WF_cronVars(EndRun)
  /\ \A o \in Ids : SF_cronVars(Visit(o))

CronFairSpec == CronSpec /\ CronFairness

\* "Resuming from the last processed id so every order is eventually
\* revisited": a parcel that was delivered is known to be delivered in the end,
\* even if no webhook ever says so.
EveryDeliveryIsNoticed ==
  \A o \in Ids : atCourier[o] = 3 ~> known[o] = 3
=============================================================================
