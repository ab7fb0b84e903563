---------------------------- MODULE CartSources ----------------------------
(* What else puts items in a cart: the wishlist, and ordering again.  Both   *)
(* write CartItem rows and leave the Redis hash alone.                       *)
EXTENDS CartCheckout

VARIABLES
  wished,   \* the WishlistItem rows of the customer, counted by item
  moving    \* what each wishlist request is doing

sourceVars == <<wished, moving>>
cartSourceVars == <<cartCheckoutVars, sourceVars>>

\* A wishlist request past its checks, with the row of the cart that it found.
Moving == [pc: {"idle", "wish_create", "move_save", "move_delete"}, item: Items,
           quantity: Nat, rows: SUBSET CartRow]
NotMoving == [pc |-> "idle", item |-> NoCartRequest.item, quantity |-> 0, rows |-> {}]

SourcesTypeOK ==
  /\ wished \in [Items -> Nat]
  /\ moving \in [Requests -> Moving]

CartSourcesInit ==
  /\ CartCheckoutInit
  /\ wished = [i \in Items |-> 0]
  /\ moving = [q \in Requests |-> NotMoving]

BeginMove(q, pc, i, n, rows) ==
  /\ moving[q].pc = "idle" /\ AtCart(q, "idle")
  /\ moving' = [moving EXCEPT ![q] = [pc |-> pc, item |-> i, quantity |-> n, rows |-> rows]]
EndMove(q) == moving' = [moving EXCEPT ![q] = NotMoving]

-----------------------------------------------------------------------------
(* WishlistService *)

AddToWishlist(q, i) ==
  /\ "wishlist" \in CartOps
  /\ i \notin offSale /\ wished[i] = 0
  /\ BeginMove(q, "wish_create", i, 0, {})
  /\ UNCHANGED <<cartCheckoutVars, wished>>

\* A second row of a variant is refused, one of a product is not.
CreateWish(q) ==
  LET i == moving[q].item IN
  /\ moving[q].pc = "wish_create"
  /\ wished' = IF i \in Variants /\ wished[i] > 0 THEN wished ELSE [wished EXCEPT ![i] = @ + 1]
  /\ EndMove(q)
  /\ UNCHANGED cartCheckoutVars

RemoveFromWishlist(q, i) ==
  /\ "wishlist" \in CartOps
  /\ moving[q].pc = "idle" /\ AtCart(q, "idle")
  /\ wished[i] > 0
  /\ wished' = [wished EXCEPT ![i] = @ - 1]
  /\ UNCHANGED <<cartCheckoutVars, moving>>

\* The stock is compared with what is asked for, not with what the cart will
\* hold.  BOUND: up to MaxQuantity units.
MoveToCart(q, i, n) ==
  /\ "wishlist" \in CartOps
  /\ wished[i] > 0 /\ n <= shelf[i]
  /\ IF RowsFor("user", i) = {} THEN BeginMove(q, "move_save", i, n, {})
     ELSE \E r \in RowsFor("user", i) :
            r.quantity + n <= MaxQuantity /\ BeginMove(q, "move_save", i, r.quantity + n, {r})
  /\ UNCHANGED <<cartCheckoutVars, wished>>

\* As in AddSave; when it fails the wish stays.
MoveSave(q) ==
  LET m == moving[q]
      now == {r \in saved : \E old \in m.rows : old.id = r.id}
  IN
  /\ moving[q].pc = "move_save"
  /\ IF m.rows = {} /\ MayInsert("user", m.item)
     THEN /\ FreeIds # {}
          /\ saved' = saved \cup {NewRow("user", m.item, m.quantity)}
          /\ moving' = [moving EXCEPT ![q].pc = "move_delete"]
     ELSE IF now # {}
     THEN /\ \E r \in now : saved' = WithQuantity(r, m.quantity)
          /\ moving' = [moving EXCEPT ![q].pc = "move_delete", ![q].rows = {}]
     ELSE UNCHANGED saved /\ EndMove(q)
  /\ UNCHANGED <<shelf, offSale, redisUp, cached, cartReq, checkoutVars, wished>>

\* Another move may have taken the wish by now: P2025, the cart keeps both.
MoveDelete(q) ==
  LET i == moving[q].item IN
  /\ moving[q].pc = "move_delete"
  /\ wished' = [wished EXCEPT ![i] = IF @ = 0 THEN 0 ELSE @ - 1]
  /\ EndMove(q)
  /\ UNCHANGED cartCheckoutVars

-----------------------------------------------------------------------------
(* OrdersService.reorder..., HomeService.reorderBuyAgainProduct *)

\* One atomic upsert per item, after the stock of what is asked for was looked
\* at.  The compound key of an upsert takes no null: a product without variants
\* is refused by Prisma, and nothing changes.  BOUND: up to MaxQuantity units.
Reorder(q, i, n) ==
  /\ "reorder" \in CartOps
  /\ moving[q].pc = "idle" /\ AtCart(q, "idle")
  /\ i \in Variants /\ n <= shelf[i]
  /\ IF RowsFor("user", i) = {}
     THEN FreeIds # {} /\ saved' = saved \cup {NewRow("user", i, n)}
     ELSE \E r \in RowsFor("user", i) :
            r.quantity + n <= MaxQuantity /\ saved' = WithQuantity(r, r.quantity + n)
  /\ UNCHANGED <<shelf, offSale, redisUp, cached, cartReq, checkoutVars, sourceVars>>

SourcesNext ==
  \/ /\ CartCheckoutNext /\ UNCHANGED sourceVars
     /\ \A q \in Requests : moving[q].pc # "idle" => cartReq'[q] = cartReq[q]
  \/ \E q \in Requests, i \in Items :
       \/ AddToWishlist(q, i) \/ RemoveFromWishlist(q, i)
       \/ \E n \in Amounts : MoveToCart(q, i, n) \/ Reorder(q, i, n)
  \/ \E q \in Requests : CreateWish(q) \/ MoveSave(q) \/ MoveDelete(q)

SourcesSpec == CartSourcesInit /\ [][SourcesNext]_cartSourceVars

-----------------------------------------------------------------------------
(* Properties *)

-----------------------------------------------------------------------------
(* Promises of documents that TLC refutes; README.md, "Divergences", has the *)
(* instances.                                                                *)

\* "Product moved to cart successfully": what the wishlist lost is in the cart
\* that the customer is shown.
MovedIsShown ==
  [][\A q \in Requests : MoveDelete(q) => Shown("user", moving[q].item) > 0]_cartSourceVars
=============================================================================
