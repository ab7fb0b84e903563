----------------------- MODULE FulfilmentAreasProofs -----------------------
(* What holds in each area of the fulfilment, for any orders and handlers.   *)
EXTENDS MCFulfilmentAreas, FulfilmentProofs

mcVars == <<fvars, area>>

LEMMA AreasStay == ASSUME [MCNext]_mcVars PROVE UNCHANGED area
BY DEF MCNext, mcVars

-----------------------------------------------------------------------------
(* The rows that the areas start from *)

\* Every order starts fresh, booked with the courier, or delivered.
Fresh(row) == row.status = "PLACED" /\ row.pay \in {"PENDING", "COMPLETED"} /\ ~row.awb
Booked(row) == row.status = "PACKED" /\ row.pay \in {"PENDING", "COMPLETED"} /\ row.awb /\ row.provider
Delivered(row) == row.status = "DELIVERED" /\ row.pay = "COMPLETED" /\ row.awb
Row == [status: {"PLACED", "PACKED", "DELIVERED"}, pay: {"PENDING", "COMPLETED"}, cod: BOOLEAN,
        awb: BOOLEAN, provider: BOOLEAN]

LEMMA FreshRows == ASSUME NEW row \in FreshOrders PROVE row \in Row /\ Fresh(row)
<1>1. Cod \in Row /\ Fresh(Cod)
  BY DEF Cod, Row, Fresh
<1>2. Paid \in Row /\ Fresh(Paid)
  BY <1>1 DEF Paid, Row, Fresh
<1> QED BY <1>1, <1>2 DEF FreshOrders

LEMMA BookedRows == ASSUME NEW row \in BookedOrders PROVE row \in Row /\ Booked(row)
<1>1. PICK old \in FreshOrders : row = [old EXCEPT !.status = "PACKED", !.awb = TRUE, !.provider = TRUE]
  BY DEF BookedOrders
<1>2. old \in Row /\ Fresh(old)
  BY FreshRows
<1> QED BY <1>1, <1>2 DEF Row, Fresh, Booked

LEMMA DeliveredRows == ASSUME NEW row \in DeliveredOrders PROVE row \in Row /\ Delivered(row)
<1>1. PICK old \in BookedOrders : row = [old EXCEPT !.status = "DELIVERED", !.pay = "COMPLETED"]
  BY DEF DeliveredOrders
<1>2. old \in Row /\ Booked(old)
  BY BookedRows
<1> QED BY <1>1, <1>2 DEF Row, Booked, Delivered

LEMMA StartingRows ==
  /\ \A row \in FreshOrders : row \in Row /\ Fresh(row)
  /\ \A row \in BookedOrders : row \in Row /\ Booked(row)
  /\ \A row \in DeliveredOrders : row \in Row /\ Delivered(row)
BY FreshRows, BookedRows, DeliveredRows

LEMMA InTurnAssumed ==
  /\ NoOrder \notin Orders /\ InTurn!IsFiniteSet(Orders)
  /\ FreshOrders \cup BookedOrders \subseteq InTurn!OrderRow
  /\ \A row \in FreshOrders \cup BookedOrders : row.awb => row.status \in InTurn!Stage
  /\ AdminStatuses \subseteq InTurn!OrderStatus
  /\ AdminPayments \subseteq InTurn!PaymentStatus \cup {"none"}
  /\ HasVariant \in BOOLEAN /\ MaxRestocks \in Nat
<1>1. InTurn!IsFiniteSet(Orders)
  BY FulfilmentAssumption DEF IsFiniteSet, InTurn!IsFiniteSet
<1>2. FreshOrders \cup BookedOrders \subseteq InTurn!OrderRow
  BY StartingRows DEF Row, InTurn!OrderRow, InTurn!OrderStatus, InTurn!PaymentStatus
<1>3. \A row \in FreshOrders \cup BookedOrders : row.awb => row.status \in InTurn!Stage
  BY StartingRows DEF Fresh, Booked, Delivered, InTurn!Stage
<1> QED BY <1>1, <1>2, <1>3, FulfilmentAssumption
        DEF OrderStatus, InTurn!OrderStatus, PaymentStatus, InTurn!PaymentStatus

LEMMA BackAssumed ==
  /\ NoOrder \notin Orders /\ Back!IsFiniteSet(Orders)
  /\ DeliveredOrders \subseteq Back!OrderRow
  /\ \A row \in DeliveredOrders : row.awb => row.status \in Back!Stage
  /\ AdminStatuses \subseteq Back!OrderStatus
  /\ AdminPayments \subseteq Back!PaymentStatus \cup {"none"}
  /\ HasVariant \in BOOLEAN /\ MaxRestocks \in Nat
<1>1. Back!IsFiniteSet(Orders)
  BY FulfilmentAssumption DEF IsFiniteSet, Back!IsFiniteSet
<1>2. DeliveredOrders \subseteq Back!OrderRow
  BY StartingRows DEF Row, Back!OrderRow, Back!OrderStatus, Back!PaymentStatus
<1>3. \A row \in DeliveredOrders : row.awb => row.status \in Back!Stage
  BY StartingRows DEF Fresh, Booked, Delivered, Back!Stage
<1> QED BY <1>1, <1>2, <1>3, FulfilmentAssumption
        DEF OrderStatus, Back!OrderStatus, PaymentStatus, Back!PaymentStatus

-----------------------------------------------------------------------------
(* Scans that are handled one at a time *)

InTurnHolds == area = "in turn" => InTurn!FulfilmentInv /\ InTurn!TrackInv

LEMMA InTurnRules == InTurn!OneAtATime
<1>1. \A row \in FreshOrders : InTurn!Rank[row.status] < InTurn!Rank["SHIPPED"]
  BY InTurnAssumed, InTurn!RankIs, StartingRows DEF Fresh
<1> QED BY <1>1, StartingRows, AreasAssumption DEF Fresh, Booked, InTurn!OneAtATime

LEMMA InTurnBegins == ASSUME MCInit PROVE InTurnHolds
<1> SUFFICES ASSUME area = "in turn", InTurn!FulfilmentInit PROVE InTurn!FulfilmentInv /\ InTurn!TrackInv
  BY DEF MCInit, InTurnHolds
<1> QED BY InTurnRules, InTurnAssumed, InTurn!FulfilmentInitTyped, InTurn!TrackBegins

LEMMA InTurnStays == ASSUME InTurnHolds, [MCNext]_mcVars PROVE InTurnHolds'
<1> SUFFICES ASSUME area' = "in turn" PROVE (InTurn!FulfilmentInv /\ InTurn!TrackInv)'
  BY DEF InTurnHolds
<1>1. area = "in turn"
  BY AreasStay
<1>2. [InTurn!FulfilmentNext]_InTurn!fvars
  BY <1>1 DEF MCNext, mcVars, fvars, InTurn!fvars
<1> QED BY <1>1, <1>2, InTurnRules, InTurnAssumed, InTurn!FulfilmentNextTyped, InTurn!ScansStayOnTrack DEF InTurnHolds

\* For any number of orders: once their scans were handled, one at a time, late,
\* repeated or interrupted by crashes, the orders stand where their parcels are.
THEOREM OrdersSettleInTurn == MCSpec => []SettlesInTurn
<1>1. InTurnHolds => SettlesInTurn
  BY InTurnAssumed, InTurn!TracksSettle DEF InTurnHolds, SettlesInTurn
<1> QED BY <1>1, InTurnBegins, InTurnStays, PTL DEF MCSpec, mcVars

-----------------------------------------------------------------------------
(* Scans that several handlers process at once *)

AtOnceHolds == area = "at once" => FulfilmentInv /\ RestockInv /\ BooksInv /\ AllDecided

LEMMA AtOnceRules == CourierAlone /\ CashIsKept
BY AreasAssumption, StartingRows DEF Booked, CourierAlone, CashIsKept

LEMMA AtOnceBegins == ASSUME MCInit PROVE AtOnceHolds
<1> SUFFICES ASSUME area = "at once", FulfilmentInit
             PROVE  FulfilmentInv /\ RestockInv /\ BooksInv /\ AllDecided
  BY DEF MCInit, AtOnceHolds
<1> QED BY AtOnceRules, FulfilmentInitTyped, RestocksBegin, BooksBegin, SyncBegins

LEMMA AtOnceStays == ASSUME AtOnceHolds, [MCNext]_mcVars PROVE AtOnceHolds'
<1> SUFFICES ASSUME area' = "at once" PROVE (FulfilmentInv /\ RestockInv /\ BooksInv /\ AllDecided)'
  BY DEF AtOnceHolds
<1>1. area = "at once"
  BY AreasStay
<1>2. [FulfilmentNext]_fvars
  BY <1>1 DEF MCNext, mcVars, fvars
<1>3. FulfilmentInv /\ RestockInv /\ BooksInv /\ AllDecided
  BY <1>1 DEF AtOnceHolds
<1>4. FulfilmentInv' /\ RestockInv' /\ BooksInv' /\ AllDecided'
  BY <1>2, <1>3, AtOnceRules, FulfilmentNextTyped, RestocksStaySingle, BooksStayBalanced, SyncStays
<1> QED BY <1>4

\* For any number of orders and handlers at once: a parcel that came back is
\* restocked once, and only for the scan that says so.
THEOREM RestockedOnceInArea == MCSpec => []RestockedOnceAtOnce
<1>1. AtOnceHolds => RestockedOnceAtOnce
  BY DEF AtOnceHolds, RestockInv, RestockedOnceAtOnce
<1> QED BY <1>1, AtOnceBegins, AtOnceStays, PTL DEF MCSpec, mcVars

-----------------------------------------------------------------------------
(* Orders that come back, and admins that set statuses *)

BackHolds == area = "back" => Back!FulfilmentInv /\ Back!BooksInv /\ Back!AllDecided

LEMMA BackRules == Back!CashIsKept
BY AreasAssumption, StartingRows DEF Delivered, Back!CashIsKept

LEMMA BackBegins == ASSUME MCInit PROVE BackHolds
<1> SUFFICES ASSUME area = "back", Back!FulfilmentInit
             PROVE  Back!FulfilmentInv /\ Back!BooksInv /\ Back!AllDecided
  BY DEF MCInit, BackHolds
<1> QED BY BackRules, BackAssumed, Back!FulfilmentInitTyped, Back!BooksBegin, Back!SyncBegins

LEMMA BackStays == ASSUME BackHolds, [MCNext]_mcVars PROVE BackHolds'
<1> SUFFICES ASSUME area' = "back" PROVE (Back!FulfilmentInv /\ Back!BooksInv /\ Back!AllDecided)'
  BY DEF BackHolds
<1>1. area = "back"
  BY AreasStay
<1>2. [Back!FulfilmentNext]_Back!fvars
  BY <1>1 DEF MCNext, mcVars, fvars, Back!fvars
<1>3. Back!FulfilmentInv /\ Back!BooksInv /\ Back!AllDecided
  BY <1>1 DEF BackHolds
<1>4. Back!FulfilmentInv' /\ Back!BooksInv' /\ Back!AllDecided'
  BY <1>2, <1>3, BackRules, BackAssumed, Back!FulfilmentNextTyped, Back!BooksStayBalanced, Back!SyncStays
<1> QED BY <1>4

\* In every area every row and handler keeps its type; and where no process dies,
\* an order and its payment row agree about collected cash.
THEOREM BooksAgreeInAreas == MCSpec => []CashBooksAgree
<1> DEFINE Inv == InTurnHolds /\ AtOnceHolds /\ BackHolds
<1>1. MCInit => Inv
  BY InTurnBegins, AtOnceBegins, BackBegins
<1>2. Inv /\ [MCNext]_mcVars => Inv'
  BY InTurnStays, AtOnceStays, BackStays
<1>3. Inv => CashBooksAgree
  <2>1. ASSUME InTurnHolds, area = "in turn" PROVE InTurn!FulfilmentTypeOK
    BY <2>1 DEF InTurnHolds, InTurn!FulfilmentInv, InTurn!RowsTyped, InTurn!CourierTyped, InTurn!SensibleJobs,
                InTurn!FulfilmentTypeOK
  <2>2. ASSUME AtOnceHolds, area = "at once" PROVE FulfilmentTypeOK /\ CodBooksAgree
    BY <2>2, BooksMean DEF AtOnceHolds, FulfilmentInv, RowsTyped, CourierTyped, SensibleJobs, FulfilmentTypeOK
  <2>3. ASSUME BackHolds, area = "back" PROVE Back!FulfilmentTypeOK /\ Back!CodBooksAgree
    BY <2>3, BackAssumed, Back!BooksMean
       DEF BackHolds, Back!FulfilmentInv, Back!RowsTyped, Back!CourierTyped, Back!SensibleJobs, Back!FulfilmentTypeOK
  <2> QED BY <2>1, <2>2, <2>3 DEF CashBooksAgree
<1> QED BY <1>1, <1>2, <1>3, PTL DEF MCSpec, mcVars

\* With any number of handlers at once, the tracking sync moves no order back.
THEOREM SyncAdvancesInAreas == MCSpec => SyncAdvancesAtOnce
<1> DEFINE Inv == AtOnceHolds /\ BackHolds
<1>1. MCInit => Inv
  BY AtOnceBegins, BackBegins
<1>2. Inv /\ [MCNext]_mcVars => Inv'
  BY AtOnceStays, BackStays
<1>3. Inv => (area = "at once" => SyncStepAdvances) /\ (area = "back" => Back!SyncStepAdvances)
  BY BackAssumed, DecidedAdvances, Back!DecidedAdvances DEF AtOnceHolds, BackHolds
<1> QED BY <1>1, <1>2, <1>3, PTL DEF MCSpec, mcVars, SyncAdvancesAtOnce
=============================================================================
