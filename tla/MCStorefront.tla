---------------------------- MODULE MCStorefront ----------------------------
(* What a customer does before and after an order, side by side in one run: *)
(* `area` says which module a behaviour exercises, the others stay where    *)
(* they start.  The cfg gives the constants of the carts that two requests  *)
(* work on at once; the other instances are below.                          *)
EXTENDS CartSources, Pricing, Notifications, Reviews

CONSTANTS
  OneRequest,  \* the only request of the instances in turn
  OneDispatch, \* the only dispatch of the instance in turn
  Areas,       \* the areas that are explored
  OneTask      \* the only review request of the instance in turn

VARIABLE area

TwoEach == [i \in Items |-> 2]

\* The one item on sale where requests overlap.
Simple == CHOOSE i \in Items : i \notin Variants

\* A guest who logs in, and a process that dies.
Merging == INSTANCE CartSources WITH
  Requests <- OneRequest, CartFaults <- {"crash"},
  CartOps <- {"add", "guest", "merge", "shelf", "off_sale"}

\* One request at a time, through every source of a cart.
Buying == INSTANCE CartSources WITH
  Requests <- OneRequest,
  CartOps <- {"add", "place_cod", "checkout", "wishlist", "reorder"}, CartFaults <- {}

\* Two orders placed at once by a customer whose cart is full.
Placing == INSTANCE CartSources WITH
  CartOps <- {"place_cod", "place_online", "buy_now", "pay"}, CartFaults <- {}
\* What a guest left in the database while Redis was away.
GuestRow == [id |-> Min(RowIds), owner |-> "guest", item |-> Simple, quantity |-> 1]
RequestsOf(a) == IF a = "merging" THEN OneRequest ELSE Requests
FullCart == [i \in Items |-> IF i = Simple THEN 2 ELSE 0]

\* Events of an order that are reported again, one after the other.
Telling == INSTANCE Notifications WITH Dispatches <- OneDispatch, NotifyFaults <- {"mail"},
  NotifyOps <- {"events", "alerts"}

\* Every request about reviews, one at a time.
Rating == INSTANCE Reviews WITH ReviewTasks <- OneTask, MaxModerations <- 2,
  ReviewOps <- {"create", "helpful", "moderate"}

-----------------------------------------------------------------------------
allVars == <<cartSourceVars, pricingVars, notifyVars, reviewVars>>

\* The areas that a cfg may choose from.
AllAreas == {"carts", "merging", "buying", "placing", "pricing", "telling", "alerts",
             "rating", "reviews"}

MCInit ==
  /\ area \in Areas
  /\ CASE area = "buying"  -> Buying!CartSourcesInit
       [] OTHER -> /\ shelf = OnShelf /\ redisUp = TRUE
                   /\ saved \in {{}} \cup (IF area = "merging" THEN {{GuestRow}} ELSE {})
                   /\ offSale = IF area = "merging" THEN {} ELSE Items \ {Simple}
                   /\ cached = [o \in Owners |-> IF area = "placing" /\ o = "user" THEN FullCart ELSE Empty]
                   /\ cartReq = [q \in RequestsOf(area) |-> NoCartRequest]
                   /\ placed = [k \in Keys |-> NotPlaced]
                   /\ reserved = [r \in Reservations |-> "fulfilled"]
                   /\ wished = [i \in Items |-> 0]
                   /\ moving = [q \in RequestsOf(area) |-> NotMoving]
  /\ PricingInit /\ (area # "pricing" => subtotal = CHOOSE n \in Subtotals : TRUE)
  /\ IF area = "telling" THEN Telling!NotifyInit ELSE NotifyInit
  /\ IF area = "rating" THEN Rating!ReviewsInit ELSE ReviewsInit

OnlyCarts   == UNCHANGED <<pricingVars, notifyVars, reviewVars>>
OnlyPricing == UNCHANGED <<cartSourceVars, notifyVars, reviewVars>>
OnlyNotify  == UNCHANGED <<cartSourceVars, pricingVars, reviewVars>>
OnlyReviews == UNCHANGED <<cartSourceVars, pricingVars, notifyVars>>

MCNext ==
  /\ UNCHANGED area
  /\ \/ area = "carts"   /\ SourcesNext         /\ OnlyCarts
     \/ area = "merging" /\ Merging!SourcesNext /\ OnlyCarts
     \/ area = "buying"  /\ Buying!SourcesNext  /\ OnlyCarts
     \/ area = "placing" /\ Placing!SourcesNext /\ OnlyCarts
     \/ area = "pricing" /\ PricingNext         /\ OnlyPricing
     \/ area = "telling" /\ Telling!NotifyNext  /\ OnlyNotify
     \/ area = "alerts"  /\ NotifyNext          /\ OnlyNotify
     \/ area = "rating"  /\ Rating!ReviewsNext  /\ OnlyReviews
     \/ area = "reviews" /\ ReviewsNext         /\ OnlyReviews

MCSpec == MCInit /\ [][MCNext]_<<allVars, area>>
-----------------------------------------------------------------------------
(* Properties of some of the instances *)

\* Every row, hash and request of the area has its type, and the settings never
\* become such that every checkout fails.
StorefrontTypeOK ==
  /\ area \in {"carts"} => CartTypeOK /\ CheckoutTypeOK /\ SourcesTypeOK
  /\ area = "merging" => Merging!CartTypeOK
  /\ area = "buying" => Buying!CartTypeOK /\ Buying!CheckoutTypeOK /\ Buying!SourcesTypeOK
  /\ area = "placing" => Placing!CartTypeOK /\ Placing!CheckoutTypeOK
  /\ area = "pricing" => PricingTypeOK /\ SettingsStayUsable
  /\ area = "telling" => Telling!NotifyTypeOK
  /\ area = "alerts" => NotifyTypeOK
  /\ area = "rating" => Rating!ReviewsTypeOK
  /\ area = "reviews" => ReviewsTypeOK

\* Requests on a cart that overlap, while Redis comes and goes, leave no entry
\* that asks for more than there is.
NoEntryBeyondTheShelfAtOnce == area = "carts" => NoEntryBeyondTheShelf

\* A login that merges the guest's cart loses none of it.
MergingLosesNothing == [][area = "merging" => Merging!MergeStepLosesNothing]_cartSourceVars

\* An order in turn is for what the cart showed.
OrderedAsShownInTurn == area = "buying" => Buying!OrderedAsShown

\* Two orders placed at once take what they sell, once.
ShelfIsAccountedForAtOnce == area = "placing" => Placing!ShelfIsAccountedFor

\* Reported again, an event is told once.
ToldOnceInTurn == area = "telling" => Telling!ToldOnce

\* Changes of stock that overlap lose no alert.
NoAlertIsLostAtOnce == area = "alerts" => NoAlertIsLost

\* Reviews in turn leave the product's books in agreement.
ReviewBooksAgreeInTurn == area = "rating" => Rating!ReviewBooksAgree
=============================================================================
