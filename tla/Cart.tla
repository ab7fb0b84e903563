-------------------------------- MODULE Cart --------------------------------
(* CartService: the cart of a customer and of the guest they were before.    *)
(* A cart lives in a Redis hash with one field per item; when Redis does not *)
(* answer, or the hash is empty, the service falls back to the CartItem      *)
(* rows of the database.                                                     *)
(*                                                                           *)
(* An item is a product, or one variant of a product.  The id of a cart      *)
(* entry is identified with its item: a request that names an id nobody has  *)
(* is a 404 that changes nothing.                                            *)
EXTENDS Integers, FiniteSets, FiniteSetsExt

CONSTANTS
  Items,       \* what can be bought
  Variants,    \* the items that are variants: their variantId is not null
  Requests,    \* requests in flight: BOUND on concurrency
  RowIds,      \* BOUND on the CartItem and GuestCartItem rows
  OnShelf,     \* units in stock at the start, by item
  MaxQuantity, \* 100 in the code
  Amounts,     \* BOUND on the quantity a request asks for
  Keys,        \* Idempotency-Keys of place-order, one per order
  Reservations, \* BOUND on the StockReservation rows
  Nothing,     \* no key, no reservation
  CartOps,     \* the endpoints that are exercised
  CartFaults   \* {"redis", "crash", "ttl"} or less

ASSUME CartAssumption ==
  /\ Variants \subseteq Items /\ IsFiniteSet(Items) /\ Items # {}
  /\ RowIds \subseteq Nat /\ IsFiniteSet(RowIds)
  /\ OnShelf \in [Items -> Nat]
  /\ MaxQuantity \in Nat \ {0}
  /\ Amounts \subseteq 1..MaxQuantity
  /\ Nothing \notin Keys \cup Reservations /\ IsFiniteSet(Keys)

VARIABLES
  shelf,    \* Product.stock / ProductVariant.stock
  offSale,  \* items whose product is deleted or no longer ACTIVE
  redisUp,  \* RedisService.isReady
  cached,   \* the hash of each owner; 0: no such field
  saved,    \* the rows of each owner
  cartReq   \* what each request is doing

cartVars == <<shelf, offSale, redisUp, cached, saved, cartReq>>

Owners == {"user", "guest"}
Contents == [Items -> Nat]
Empty == [i \in Items |-> 0]
CartRow == [id: RowIds, owner: Owners, item: Items, quantity: Nat]

CartPC == {"idle", "add_set", "add_db", "add_save", "update_set", "update_save",
           "remove_field", "remove_row", "view", "warm", "merge_set",
           "merge_db", "merge_rows",
           "reserve", "sync", "sync_delete", "sync_commit", "read_rows", "place", "commit",
           "clear", "pay", "no_cart"}

\* What a place-order request asks for: its Idempotency-Key, its payment method
\* and whether it buys one item past the cart.
OrderChoice == [key: Keys \cup {Nothing}, online: BOOLEAN, buyNow: BOOLEAN,
                reservation: Reservations \cup {Nothing}]
NoChoice == [key |-> Nothing, online |-> FALSE, buyNow |-> FALSE, reservation |-> Nothing]

\* `item` and `quantity`: what is to be written; `rows`: rows that were read;
\* `basket`: contents that were read, and are to be written.  The last line of
\* labels and `order`, `shown` belong to CartCheckout.
CartRequest == [pc: CartPC, owner: Owners, item: Items, asked: Nat, quantity: Nat,
                rows: SUBSET CartRow, basket: Contents, shown: Contents, order: OrderChoice]
NoCartRequest == [pc |-> "idle", owner |-> "user", item |-> CHOOSE i \in Items : TRUE,
                  asked |-> 0, quantity |-> 0, rows |-> {}, basket |-> Empty, shown |-> Empty,
                  order |-> NoChoice]

CartTypeOK ==
  /\ shelf \in [Items -> Int]
  /\ offSale \subseteq Items
  /\ redisUp \in BOOLEAN
  /\ cached \in [Owners -> Contents]
  /\ saved \subseteq CartRow
  /\ cartReq \in [Requests -> CartRequest]

CartInit ==
  /\ shelf = OnShelf
  /\ offSale = {}
  /\ redisUp = TRUE
  /\ cached = [o \in Owners |-> Empty]
  /\ saved = {}
  /\ cartReq = [q \in Requests |-> NoCartRequest]

-----------------------------------------------------------------------------
(* Requests, Redis and rows *)

AtCart(q, pc) == cartReq[q].pc = pc
CartStep(q, pc) == cartReq' = [cartReq EXCEPT ![q].pc = pc]
CartEnd(q) == cartReq' = [cartReq EXCEPT ![q] = NoCartRequest]

BeginCart(q, pc, o, i, asked, quantity) ==
  /\ AtCart(q, "idle")
  /\ cartReq' = [cartReq EXCEPT ![q] =
       [NoCartRequest EXCEPT !.pc = pc, !.owner = o, !.item = i, !.asked = asked,
                             !.quantity = quantity]]

\* CartCacheService.getCart: null when Redis is down and when the hash is empty.
Hash(o) == IF redisUp THEN cached[o] ELSE Empty
IsCached(o) == Hash(o) # Empty

\* Without a connection every write is dropped, and only hset says so.
SetField(o, i, n) == cached' = IF redisUp THEN [cached EXCEPT ![o][i] = n] ELSE cached
DropFields(o, S) ==
  cached' = IF redisUp THEN [cached EXCEPT ![o] = [i \in Items |-> IF i \in S THEN 0 ELSE @[i]]]
            ELSE cached

RowsOf(o) == {r \in saved : r.owner = o}
RowsFor(o, i) == {r \in RowsOf(o) : r.item = i}

\* Each unit of each row, and how many they are.
UnitsIn(rows) == UNION {{r} \X (1..r.quantity) : r \in rows}
Together(rows) == Cardinality(UnitsIn(rows))

\* Ids of rows that are gone may be used again, unless a request still holds them.
FreeIds == RowIds \ ({r.id : r \in saved} \cup UNION {{r.id : r \in cartReq[q].rows} : q \in Requests})
RowId == Min(FreeIds)
NewRow(o, i, n) == [id |-> RowId, owner |-> o, item |-> i, quantity |-> n]

\* @@unique([userId, productId, variantId]) does not bind rows whose variantId is null.
MayInsert(o, i) == i \notin Variants \/ RowsFor(o, i) = {}

WithQuantity(r, n) == (saved \ {r}) \cup {[r EXCEPT !.quantity = n]}

-----------------------------------------------------------------------------
(* POST /cart/items and POST /cart/guest *)

\* The limit of 100 units binds the carts of customers only.
Refused(o, i, n) == n > shelf[i] \/ (o = "user" /\ n > MaxQuantity)

AddToCart(q, o, i, n) ==
  LET want == Hash(o)[i] + n IN
  /\ (IF o = "user" THEN "add" ELSE "guest") \in CartOps
  /\ i \notin offSale
  /\ ~Refused(o, i, want)
  /\ BeginCart(q, "add_set", o, i, n, want)
  /\ UNCHANGED <<shelf, offSale, redisUp, cached, saved>>

AddSet(q) ==
  LET r == cartReq[q] IN
  /\ AtCart(q, "add_set")
  /\ SetField(r.owner, r.item, r.quantity)
  /\ CartStep(q, IF redisUp THEN "view" ELSE "add_db")
  /\ UNCHANGED <<shelf, offSale, redisUp, saved>>

\* Mutant: the path through the database only looks at what is asked for.
AskedOnly(old, n) == n

Added(old, n) == old + n

\* Redis failed: the same checks against the row, if there is one.  Stock is
\* not read again; it is what it was when the request came.
AddDb(q) ==
  LET r == cartReq[q] IN
  /\ AtCart(q, "add_db")
  /\ IF RowsFor(r.owner, r.item) = {}
     THEN cartReq' = [cartReq EXCEPT ![q].pc = "add_save", ![q].quantity = r.asked]
     ELSE \E row \in RowsFor(r.owner, r.item) :
            LET n == Added(row.quantity, r.asked) IN
            IF Refused(r.owner, r.item, n) THEN CartEnd(q)
            ELSE cartReq' = [cartReq EXCEPT ![q].pc = "add_save", ![q].rows = {row},
                                            ![q].quantity = row.quantity + r.asked]
  /\ UNCHANGED <<shelf, offSale, redisUp, cached, saved>>

\* The row that was found is updated (P2025 when it is gone), else one is created
\* (P2002 when the variant has one by now).
AddSave(q) ==
  LET r == cartReq[q] IN
  /\ AtCart(q, "add_save")
  /\ IF r.rows = {}
     THEN IF MayInsert(r.owner, r.item)
          THEN /\ FreeIds # {}
               /\ saved' = saved \cup {NewRow(r.owner, r.item, r.quantity)}
               /\ CartStep(q, "view")
          ELSE UNCHANGED saved /\ CartEnd(q)
     ELSE \E id \in {row.id : row \in r.rows} :
            IF \E row \in saved : row.id = id
            THEN /\ \E row \in saved : row.id = id /\ saved' = WithQuantity(row, r.quantity)
                 /\ cartReq' = [cartReq EXCEPT ![q].pc = "view", ![q].rows = {}]
            ELSE UNCHANGED saved /\ CartEnd(q)
  /\ UNCHANGED <<shelf, offSale, redisUp, cached>>

-----------------------------------------------------------------------------
(* PUT and DELETE /cart/items/:itemId *)

UpdateItem(q, i, n) ==
  /\ "update" \in CartOps
  /\ n <= shelf[i]
  /\ IF IsCached("user")
     THEN /\ Hash("user")[i] > 0 /\ i \notin offSale
          /\ BeginCart(q, "update_set", "user", i, n, n)
     ELSE \E row \in RowsFor("user", i) :
            /\ AtCart(q, "idle")
            /\ cartReq' = [cartReq EXCEPT ![q] =
                 [NoCartRequest EXCEPT !.pc = "update_save", !.item = i, !.quantity = n,
                                       !.rows = {row}]]
  /\ UNCHANGED <<shelf, offSale, redisUp, cached, saved>>

\* hset does not ask whether the field is still there, and its failure is not seen.
UpdateSet(q) ==
  /\ AtCart(q, "update_set")
  /\ SetField("user", cartReq[q].item, cartReq[q].quantity)
  /\ CartStep(q, "view")
  /\ UNCHANGED <<shelf, offSale, redisUp, saved>>

UpdateSave(q) ==
  LET ids == {row.id : row \in cartReq[q].rows}
      now == {row \in saved : row.id \in ids}
  IN
  /\ AtCart(q, "update_save")
  /\ IF now = {} THEN UNCHANGED saved /\ CartEnd(q)
     ELSE /\ \E row \in now : saved' = WithQuantity(row, cartReq[q].quantity)
          /\ cartReq' = [cartReq EXCEPT ![q].pc = "view", ![q].rows = {}]
  /\ UNCHANGED <<shelf, offSale, redisUp, cached>>

RemoveItem(q, i) ==
  /\ "remove" \in CartOps
  /\ IF IsCached("user")
     THEN Hash("user")[i] > 0 /\ BeginCart(q, "remove_field", "user", i, 0, 0)
     ELSE RowsFor("user", i) # {} /\ BeginCart(q, "remove_row", "user", i, 0, 0)
  /\ UNCHANGED <<shelf, offSale, redisUp, cached, saved>>

RemoveField(q) ==
  /\ AtCart(q, "remove_field")
  /\ DropFields("user", {cartReq[q].item})
  /\ CartEnd(q)
  /\ UNCHANGED <<shelf, offSale, redisUp, saved>>

\* One row goes, whichever id the customer was shown.
RemoveRow(q) ==
  /\ AtCart(q, "remove_row")
  /\ IF RowsFor("user", cartReq[q].item) = {} THEN UNCHANGED saved
     ELSE \E row \in RowsFor("user", cartReq[q].item) : saved' = saved \ {row}
  /\ CartEnd(q)
  /\ UNCHANGED <<shelf, offSale, redisUp, cached>>

-----------------------------------------------------------------------------
(* GET /cart and GET /cart/guest/:sessionId, also the answer of the others *)

GetCart(q, o) ==
  /\ "view" \in CartOps
  /\ BeginCart(q, "view", o, NoCartRequest.item, 0, 0)
  /\ UNCHANGED <<shelf, offSale, redisUp, cached, saved>>

\* Fields of products that are off sale are removed on the way; an empty hash
\* is filled from the rows.
ViewCart(q) ==
  LET o == cartReq[q].owner IN
  /\ AtCart(q, "view")
  /\ IF IsCached(o)
     THEN DropFields(o, offSale) /\ CartEnd(q)
     ELSE /\ UNCHANGED cached
          /\ \E basket \in [Items -> {0} \cup {row.quantity : row \in RowsOf(o)}] :
               /\ \A i \in Items : IF RowsFor(o, i) = {} THEN basket[i] = 0
                                   ELSE \E row \in RowsFor(o, i) : basket[i] = row.quantity
               /\ cartReq' = [cartReq EXCEPT ![q].pc = "warm", ![q].basket = basket]
  /\ UNCHANGED <<shelf, offSale, redisUp, saved>>

\* One hset after the other.
FillOne(q, o) ==
  \E i \in {j \in Items : cartReq[q].basket[j] > 0} :
    /\ SetField(o, i, cartReq[q].basket[i])
    /\ cartReq' = [cartReq EXCEPT ![q].basket[i] = 0]

WarmCart(q) ==
  /\ AtCart(q, "warm")
  /\ IF cartReq[q].basket = Empty THEN UNCHANGED cached /\ CartEnd(q)
     ELSE FillOne(q, cartReq[q].owner)
  /\ UNCHANGED <<shelf, offSale, redisUp, saved>>

-----------------------------------------------------------------------------
(* POST /cart/merge *)

Capped(n) == Min({MaxQuantity, n})

\* The guest's hash is read, then the customer's; what is written is what was
\* read then.  No stock is looked at.
MergeCart(q) ==
  LET guest == Hash("guest")
      merged == [i \in Items |-> IF guest[i] = 0 THEN Hash("user")[i]
                                 ELSE IF Hash("user")[i] = 0 THEN guest[i]
                                 ELSE Capped(Hash("user")[i] + guest[i])]
  IN
  /\ "merge" \in CartOps
  /\ AtCart(q, "idle")
  /\ cartReq' = [cartReq EXCEPT ![q] =
       [NoCartRequest EXCEPT !.pc = IF guest = Empty THEN "merge_db" ELSE "merge_set",
                             !.basket = IF guest = Empty THEN Empty ELSE merged]]
  /\ UNCHANGED <<shelf, offSale, redisUp, cached, saved>>

MergeSet(q) ==
  /\ AtCart(q, "merge_set") /\ cartReq[q].basket # Empty
  /\ FillOne(q, "user")
  /\ UNCHANGED <<shelf, offSale, redisUp, saved>>

\* Mutant: the guest's cart is cleared while entries are still being written.
SomeAreWritten(q) == \E i \in Items : cartReq[q].basket[i] = 0

AllAreWritten(q) == cartReq[q].basket = Empty

MergeClear(q) ==
  /\ AtCart(q, "merge_set") /\ AllAreWritten(q)
  /\ DropFields("guest", Items)
  /\ cartReq' = [cartReq EXCEPT ![q].pc = "merge_db", ![q].basket = Empty]
  /\ UNCHANGED <<shelf, offSale, redisUp, saved>>

\* A guest's row is added to a row of the customer, or becomes one.
MergeRow(g, rows) ==
  LET same == {r \in rows : r.item = g.item} IN
  IF same = {} THEN rows \cup {[g EXCEPT !.owner = "user"]}
  ELSE LET r == CHOOSE x \in same : TRUE
       IN  (rows \ {r}) \cup {[r EXCEPT !.quantity = Capped(@ + g.quantity)]}

\* "Also merge in DB for data safety": the guest's rows are read, and then
\* merged and deleted in one transaction, which deletes later ones as well.
MergeRead(q) ==
  /\ AtCart(q, "merge_db")
  /\ cartReq' = [cartReq EXCEPT ![q].pc = IF RowsOf("guest") = {} THEN "view" ELSE "merge_rows",
                                ![q].rows = RowsOf("guest")]
  /\ UNCHANGED <<shelf, offSale, redisUp, cached, saved>>

MergeRows(q) ==
  /\ AtCart(q, "merge_rows")
  /\ saved' = FoldSet(MergeRow, RowsOf("user"), cartReq[q].rows)
  /\ cartReq' = [cartReq EXCEPT ![q].pc = "view", ![q].rows = {}]
  /\ UNCHANGED <<shelf, offSale, redisUp, cached>>

-----------------------------------------------------------------------------
(* The world around *)

\* Orders of other customers, a delivery of goods.
ShelfChanges(i) ==
  /\ "shelf" \in CartOps
  /\ \E n \in 0..OnShelf[i] : n # shelf[i] /\ shelf' = [shelf EXCEPT ![i] = n]
  /\ UNCHANGED <<offSale, redisUp, cached, saved, cartReq>>

GoesOffSale(i) ==
  /\ "off_sale" \in CartOps
  /\ i \notin offSale
  /\ offSale' = offSale \cup {i}
  /\ UNCHANGED <<shelf, redisUp, cached, saved, cartReq>>

RedisFlips ==
  /\ "redis" \in CartFaults
  /\ redisUp' = ~redisUp
  /\ UNCHANGED <<shelf, offSale, cached, saved, cartReq>>

\* 30 days for a customer, 7 for a guest, after the last hset.
HashExpires(o) ==
  /\ "ttl" \in CartFaults
  /\ cached[o] # Empty
  /\ cached' = [cached EXCEPT ![o] = Empty]
  /\ UNCHANGED <<shelf, offSale, redisUp, saved, cartReq>>

CartCrash(q) ==
  /\ "crash" \in CartFaults
  /\ ~AtCart(q, "idle")
  /\ CartEnd(q)
  /\ UNCHANGED <<shelf, offSale, redisUp, cached, saved>>

CartRequestNext(q) ==
  \/ \E i \in Items, n \in Amounts :
       \/ \E o \in Owners : AddToCart(q, o, i, n)
       \/ UpdateItem(q, i, n)
  \/ \E i \in Items : RemoveItem(q, i)
  \/ \E o \in Owners : GetCart(q, o)
  \/ AddSet(q) \/ AddDb(q) \/ AddSave(q) \/ UpdateSet(q) \/ UpdateSave(q)
  \/ RemoveField(q) \/ RemoveRow(q) \/ ViewCart(q) \/ WarmCart(q)
  \/ MergeCart(q) \/ MergeSet(q) \/ MergeClear(q) \/ MergeRead(q) \/ MergeRows(q)
  \/ CartCrash(q)

CartNext ==
  \/ \E q \in Requests : CartRequestNext(q)
  \/ \E i \in Items : ShelfChanges(i) \/ GoesOffSale(i)
  \/ \E o \in Owners : HashExpires(o)
  \/ RedisFlips

CartSpec == CartInit /\ [][CartNext]_cartVars

-----------------------------------------------------------------------------
(* Properties *)

\* What GET /cart would answer with.
Shown(o, i) ==
  IF IsCached(o) THEN Hash(o)[i]
  ELSE Together(RowsFor(o, i))

\* While the shelf is left alone and no cart is merged, no entry of a cart, in
\* Redis or in the database, ever asks for more than there is: whatever
\* requests overlap, and whenever Redis comes and goes between their steps.
NoEntryBeyondTheShelf ==
  /\ \A o \in Owners, i \in Items : cached[o][i] <= shelf[i]
  /\ \A r \in saved : r.quantity <= shelf[r.item]

\* A merge loses nothing: when the guest's cart is cleared, the customer's
\* holds at least as much of every item (up to the limit of 100).
MergeStepLosesNothing ==
  \A q \in Requests : MergeClear(q) =>
    \A i \in Items : cached'["user"][i] >= Capped(cached["guest"][i])

-----------------------------------------------------------------------------
(* Promises of documents that TLC refutes; README.md, "Divergences", has the *)
(* instances.                                                                *)

\* schema.prisma, CartItem: @@unique([userId, productId, variantId]).
OneRowPerItem == \A o \in Owners, i \in Items : Cardinality(RowsFor(o, i)) <= 1
=============================================================================
