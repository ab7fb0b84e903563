-------------------------- MODULE StorefrontProofs --------------------------
(* Theorems about what a customer does before and after an order, of the    *)
(* instances that module MCStorefront puts side by side: whatever requests  *)
(* and items there are, and however the requests interleave.                *)
EXTENDS MCStorefront, FiniteSetTheorems, TLAPS

\* There are different ids for new rows, if there are enough.
LEMMA EnoughIds ==
  ASSUME NEW S, NEW T, IsFiniteSet(S), IsFiniteSet(T), Cardinality(T) >= Cardinality(S)
  PROVE  \E f \in [S -> T] : \A i, j \in S : i # j => f[i] # f[j]
<1>1. /\ Cardinality(S) \in Nat /\ ExistsBijection(1..Cardinality(S), S)
      /\ Cardinality(T) \in Nat /\ ExistsBijection(1..Cardinality(T), T)
  BY FS_CardinalityType
<1>2. PICK s \in [1..Cardinality(S) -> S] :
        \A x \in S : \E n \in 1..Cardinality(S) : s[n] = x
  BY <1>1 DEF ExistsBijection, Bijection, Surjection
<1>3. PICK t \in [1..Cardinality(T) -> T] :
        \A m, n \in 1..Cardinality(T) : t[m] = t[n] => m = n
  BY <1>1 DEF ExistsBijection, Bijection, Injection, IsInjective
<1> DEFINE at(x) == CHOOSE n \in 1..Cardinality(S) : s[n] = x
           f == [x \in S |-> t[at(x)]]
<1>4. \A x \in S : at(x) \in 1..Cardinality(S) /\ s[at(x)] = x
  BY <1>2
<1>5. 1..Cardinality(S) \subseteq 1..Cardinality(T)
  BY <1>1
<1>6. f \in [S -> T]
  BY <1>3, <1>4, <1>5
<1>7. \A i, j \in S : i # j => f[i] # f[j]
  BY <1>3, <1>4, <1>5
<1> QED BY <1>6, <1>7

-----------------------------------------------------------------------------
(* Carts that several requests work on at once.  A quantity is compared with *)
(* the shelf long before it is written, by a request that may find Redis    *)
(* gone in between; the invariant says that what a request is about to      *)
(* write was compared, and that the row it will write is still one of the   *)
(* item it read.                                                            *)

\* The shelf is left alone, and what comes into a cart was looked at: not so a
\* guest's cart that is merged, a wish that is moved, an order that is repeated.
ShelfIsLeftAlone ==
  CartOps \subseteq {"add", "guest", "update", "remove", "view", "checkout", "off_sale",
                     "place_online", "buy_now"}

Shaped(r) ==
  r \in [pc: CartPC, owner: Owners, item: Items, asked: Nat, quantity: Nat, rows: {r.rows},
         basket: Contents, shown: {r.shown}, order: OrderChoice]

\* What a request is about to write is on the shelf.
Compared(r) ==
  /\ r.pc \in {"add_set", "add_db"} => r.asked <= OnShelf[r.item] /\ r.rows = {}
  /\ r.pc \in {"add_set", "add_save", "update_set", "update_save"} => r.quantity <= OnShelf[r.item]
  /\ r.pc \in {"warm", "sync_delete", "sync_commit"} => \A i \in Items : r.basket[i] <= OnShelf[i]

\* Nothing is merged, and no order takes units before it is paid.
Harmless(r) ==
  /\ r.pc \notin {"merge_set", "merge_db", "merge_rows", "commit"}
  /\ r.pc \in {"reserve", "sync", "sync_delete", "sync_commit", "read_rows", "place"} =>
       r.order.online

Within(r) == Shaped(r) /\ Compared(r) /\ Harmless(r)

\* The row that a request found, by its id, is still a row of its item.
KeepsItem(r, rows) ==
  r.pc \in {"add_save", "update_save"} =>
    \A h \in r.rows, s \in rows : s.id = h.id => s.item = r.item

HashesFit(hashes) ==
  /\ hashes \in [Owners -> Contents]
  /\ \A o \in Owners, i \in Items : hashes[o][i] <= OnShelf[i]

RowsFit(rows) ==
  /\ rows \subseteq CartRow
  /\ \A r \in rows : r.quantity <= OnShelf[r.item]
  /\ \A r, s \in rows : r.id = s.id => r.item = s.item

CartInv ==
  /\ shelf = OnShelf /\ redisUp \in BOOLEAN
  /\ HashesFit(cached)
  /\ RowsFit(saved)
  /\ cartReq = [q \in Requests |-> cartReq[q]]
  /\ \A q \in Requests : Within(cartReq[q]) /\ KeepsItem(cartReq[q], saved)
  /\ moving = [q \in Requests |-> NotMoving]

\* A new row has an id that nobody holds; another is a row that was there.
Traced(rows) ==
  \A s \in rows : s.id \in FreeIds \/ \E r \in saved : r.id = s.id /\ r.item = s.item

\* The elements below the smallest are fewer than those below any other.
LEMMA Smallest ==
  ASSUME NEW S, S \subseteq Nat, IsFiniteSet(S), S # {} PROVE Min(S) \in S
<1> DEFINE below(x) == {y \in S : y < x}
           T == {below(x) : x \in S}
<1>1. IsWellFoundedOn(StrictSubsetOrdering(S), SUBSET S)
  BY FS_StrictSubsetOrderingWellFounded, FS_FiniteSubsetsOfFinite
<1>2. T \subseteq SUBSET S /\ T # {}
  OBVIOUS
<1>3. \E t \in T : \A u \in T : ~(<<u, t>> \in StrictSubsetOrdering(S))
  <2> HIDE DEF T
  <2> QED BY <1>1, <1>2, WFMin
<1>4. PICK x \in S : \A y \in S : ~(<<below(y), below(x)>> \in StrictSubsetOrdering(S))
  BY <1>3
<1>5. \A y \in S : x <= y
  <2> SUFFICES ASSUME NEW y \in S, y < x PROVE FALSE
    OBVIOUS
  <2>1. below(y) \subseteq below(x) /\ y \in below(x) /\ y \notin below(y)
    <3>1. x \in Nat /\ \A z \in S : z \in Nat
      OBVIOUS
    <3>2. \A z \in S : z < y => z < x
      BY <3>1
    <3>3. ~(y < y)
      BY <3>1
    <3> QED BY <3>2, <3>3
  <2>2. <<below(y), below(x)>> \in StrictSubsetOrdering(S)
    BY <2>1 DEF StrictSubsetOrdering
  <2> QED BY <1>4, <2>2
<1> QED BY <1>5 DEF Min

LEMMA FreeRowId == ASSUME FreeIds # {} PROVE RowId \in FreeIds
<1>1. FreeIds \subseteq Nat /\ IsFiniteSet(FreeIds)
  BY CartAssumption, FS_Subset DEF FreeIds
<1> QED BY <1>1, Smallest DEF RowId

LEMMA AmountsAreNumbers == Amounts \subseteq Nat
BY CartAssumption

LEMMA NoRequestWithin == Within(NoCartRequest)
BY CartAssumption DEF Within, Shaped, Compared, Harmless, NoCartRequest, NoChoice, OrderChoice, CartPC, Owners,
       Contents, Empty

\* A step of one request: what it keeps in hand, and what it wrote, fits.
LEMMA RequestMoves ==
  ASSUME CartInv, NEW q \in Requests, NEW t,
         cartReq' = [cartReq EXCEPT ![q] = t], Within(t), KeepsItem(t, saved'),
         HashesFit(cached'), RowsFit(saved'), Traced(saved'),
         UNCHANGED <<shelf, redisUp, moving>>
  PROVE  CartInv'
<1>1. cartReq' = [x \in Requests |-> IF x = q THEN t ELSE cartReq[x]]
  BY DEF CartInv
<1>2. ASSUME NEW x \in Requests PROVE Within(cartReq'[x]) /\ KeepsItem(cartReq'[x], saved')
  <2>1. CASE x = q
    BY <1>1, <2>1
  <2>2. CASE x # q
    <3>1. cartReq'[x] = cartReq[x] /\ Within(cartReq[x]) /\ KeepsItem(cartReq[x], saved)
      BY <1>1, <2>2 DEF CartInv
    <3>2. \A h \in cartReq[x].rows : h.id \notin FreeIds
      BY DEF FreeIds
    <3>3. KeepsItem(cartReq[x], saved')
      BY <3>1, <3>2 DEF KeepsItem, Traced
    <3> QED BY <3>1, <3>3
  <2> QED BY <2>1, <2>2
<1>3. cartReq' = [x \in Requests |-> cartReq'[x]]
  BY <1>1
<1> QED BY <1>2, <1>3 DEF CartInv

\* Most steps leave the rows alone.
LEMMA SameRows ==
  ASSUME CartInv PROVE RowsFit(saved) /\ Traced(saved) /\ HashesFit(cached)
BY DEF CartInv, Traced

LEMMA RequestOnly ==
  ASSUME CartInv, NEW q \in Requests, NEW t,
         cartReq' = [cartReq EXCEPT ![q] = t], Within(t), KeepsItem(t, saved),
         HashesFit(cached'), UNCHANGED <<shelf, redisUp, saved, moving>>
  PROVE  CartInv'
<1>1. RowsFit(saved') /\ Traced(saved') /\ KeepsItem(t, saved')
  BY SameRows DEF Traced, RowsFit, KeepsItem
<1> QED BY <1>1, RequestMoves

LEMMA NewRowFits ==
  ASSUME CartInv, FreeIds # {}, NEW o \in Owners, NEW i \in Items, NEW n \in Nat, n <= OnShelf[i]
  PROVE  RowsFit(saved \cup {NewRow(o, i, n)}) /\ Traced(saved \cup {NewRow(o, i, n)})
<1>1. RowId \in RowIds /\ RowId \in FreeIds /\ \A r \in saved : r.id # RowId
  BY FreeRowId DEF FreeIds
<1> QED BY <1>1 DEF CartInv, RowsFit, Traced, NewRow, CartRow

LEMMA ChangedRowFits ==
  ASSUME CartInv, NEW r \in saved, NEW n \in Nat, n <= OnShelf[r.item]
  PROVE  RowsFit(WithQuantity(r, n)) /\ Traced(WithQuantity(r, n))
BY DEF CartInv, RowsFit, Traced, WithQuantity, CartRow

LEMMA FewerRowsFit ==
  ASSUME CartInv, NEW S, S \subseteq saved PROVE RowsFit(S) /\ Traced(S)
BY DEF CartInv, RowsFit, Traced

LEMMA FieldFits ==
  ASSUME CartInv, NEW o \in Owners, NEW i \in Items, NEW n \in Nat, n <= OnShelf[i], SetField(o, i, n)
  PROVE  HashesFit(cached')
BY DEF CartInv, HashesFit, SetField, Contents

LEMMA DropFits ==
  ASSUME CartInv, NEW o \in Owners, NEW S, DropFields(o, S) PROVE HashesFit(cached')
<1>1. OnShelf \in [Items -> Nat]
  BY CartAssumption
<1> QED BY <1>1 DEF CartInv, HashesFit, DropFields, Contents

\* A request that ends.
LEMMA Ends ==
  ASSUME CartInv, NEW q \in Requests, CartEnd(q), HashesFit(cached'), saved' \subseteq saved,
         UNCHANGED <<shelf, redisUp, moving>>
  PROVE  CartInv'
<1>1. Within(NoCartRequest) /\ KeepsItem(NoCartRequest, saved')
  BY NoRequestWithin DEF KeepsItem, NoCartRequest
<1>2. RowsFit(saved') /\ Traced(saved')
  BY FewerRowsFit
<1> QED BY <1>1, <1>2, RequestMoves DEF CartEnd

\* A request that comes with something that was compared.
LEMMA Begins ==
  ASSUME CartInv, NEW q \in Requests, NEW o \in Owners, NEW i \in Items, NEW asked \in Nat,
         NEW n \in Nat, NEW pc \in {"add_set", "update_set", "remove_field", "remove_row", "view",
                                    "no_cart"},
         BeginCart(q, pc, o, i, asked, n),
         pc = "add_set" => asked <= OnShelf[i],
         pc \in {"add_set", "update_set"} => n <= OnShelf[i],
         UNCHANGED <<shelf, redisUp, cached, saved, moving>>
  PROVE  CartInv'
<1> DEFINE t == [NoCartRequest EXCEPT !.pc = pc, !.owner = o, !.item = i, !.asked = asked,
                                      !.quantity = n]
<1>1. Within(NoCartRequest)
  BY NoRequestWithin
<1>2. Within(t)
  BY ZenonT(30), <1>1 DEF Within, Shaped, Compared, Harmless, CartPC, NoCartRequest
<1>3. KeepsItem(t, saved)
  BY DEF KeepsItem, NoCartRequest
<1>4. cartReq' = [cartReq EXCEPT ![q] = t] /\ HashesFit(cached')
  BY SameRows DEF BeginCart, HashesFit
<1> HIDE DEF t
<1> QED BY <1>2, <1>3, <1>4, RequestOnly

\* A request goes on to another step with what it has in hand.
LEMMA Within1 ==
  ASSUME NEW r, Within(r),
         NEW pc \in {"view", "warm", "read_rows", "place", "add_db"},
         pc = "add_db" => r.pc = "add_set",
         pc = "warm" => r.pc = "warm",
         pc \in {"read_rows", "place"} => r.order.online
  PROVE  Within([r EXCEPT !.pc = pc])
BY DEF Within, Shaped, Compared, Harmless, CartPC

LEMMA GoesOn ==
  ASSUME CartInv, NEW q \in Requests, NEW pc \in {"view", "add_db"}, CartStep(q, pc),
         pc = "add_db" => AtCart(q, "add_set"),
         HashesFit(cached'), UNCHANGED <<shelf, redisUp, saved, moving>>
  PROVE  CartInv'
<1> DEFINE t == [cartReq[q] EXCEPT !.pc = pc]
<1>1. Within(cartReq[q])
  BY DEF CartInv
<1>2. Within(t)
  BY <1>1, Within1 DEF AtCart
<1>3. t.pc = pc
  BY <1>1 DEF Within, Shaped
<1>4. KeepsItem(t, saved) /\ cartReq' = [cartReq EXCEPT ![q] = t]
  BY <1>3 DEF KeepsItem, CartStep
<1> HIDE DEF t
<1> QED BY <1>2, <1>4, RequestOnly

-----------------------------------------------------------------------------
(* Adding *)

LEMMA AddToCartFits ==
  ASSUME CartInv, NEW q \in Requests, NEW o \in Owners, NEW i \in Items, NEW n \in Amounts,
         AddToCart(q, o, i, n), UNCHANGED moving
  PROVE  CartInv'
<1>1. n \in Nat /\ Hash(o)[i] \in Nat /\ OnShelf[i] \in Nat /\ shelf = OnShelf
  BY CartAssumption DEF CartInv, HashesFit, Hash, Contents, Empty
<1>2. Hash(o)[i] + n <= OnShelf[i]
  BY <1>1 DEF AddToCart, Refused
<1>3. BeginCart(q, "add_set", o, i, n, Hash(o)[i] + n)
  BY DEF AddToCart
<1> QED BY <1>1, <1>2, <1>3, Begins DEF AddToCart

LEMMA AddSetFits ==
  ASSUME CartInv, NEW q \in Requests, AddSet(q), UNCHANGED moving PROVE CartInv'
<1>1. /\ Within(cartReq[q]) /\ AtCart(q, "add_set")
      /\ SetField(cartReq[q].owner, cartReq[q].item, cartReq[q].quantity)
      /\ CartStep(q, IF redisUp THEN "view" ELSE "add_db")
      /\ UNCHANGED <<shelf, redisUp, saved>>
  BY DEF CartInv, AddSet
<1>2. HashesFit(cached')
  BY <1>1, FieldFits DEF Within, Shaped, Compared, AtCart
<1> QED BY <1>1, <1>2, GoesOn

LEMMA WithinSave ==
  ASSUME NEW r, Within(r), NEW rows, NEW n \in Nat, n <= OnShelf[r.item]
  PROVE  Within([r EXCEPT !.pc = "add_save", !.rows = rows, !.quantity = n])
BY DEF Within, Shaped, Compared, Harmless, CartPC

LEMMA AddDbFits ==
  ASSUME CartInv, NEW q \in Requests, AddDb(q), UNCHANGED moving PROVE CartInv'
<1> DEFINE r == cartReq[q]
<1>1. /\ Within(r) /\ r.pc = "add_db" /\ HashesFit(cached')
      /\ shelf = OnShelf /\ UNCHANGED <<shelf, redisUp, cached, saved>>
  BY DEF CartInv, AddDb, AtCart
<1>2. CASE CartEnd(q)
  BY <1>1, <1>2, Ends
<1>3. ASSUME cartReq' = [cartReq EXCEPT ![q].pc = "add_save", ![q].quantity = r.asked],
             RowsFor(r.owner, r.item) = {}
      PROVE  CartInv'
  <2> DEFINE t == [r EXCEPT !.pc = "add_save", !.quantity = r.asked]
  <2>1. Within(t) /\ t.rows = r.rows /\ t.item = r.item
    BY <1>1 DEF Within, Shaped, Compared, Harmless, CartPC
  <2>2. KeepsItem(t, saved)
    BY <1>1, <2>1 DEF KeepsItem, Within, Compared
  <2>3. cartReq' = [cartReq EXCEPT ![q] = t]
    BY <1>3
  <2> HIDE DEF t
  <2> QED BY <1>1, <2>1, <2>2, <2>3, RequestOnly
<1>4. ASSUME NEW row \in RowsFor(r.owner, r.item), ~Refused(r.owner, r.item, row.quantity + r.asked),
             cartReq' = [cartReq EXCEPT ![q].pc = "add_save", ![q].rows = {row},
                                        ![q].quantity = row.quantity + r.asked]
      PROVE  CartInv'
  <2> DEFINE t == [r EXCEPT !.pc = "add_save", !.rows = {row}, !.quantity = row.quantity + r.asked]
  <2>1. row \in saved /\ row.item = r.item /\ row.quantity \in Nat /\ RowsFit(saved)
    BY DEF RowsFor, RowsOf, CartInv, RowsFit, CartRow
  <2>2. row.quantity + r.asked <= OnShelf[r.item]
    BY <1>1, <1>4, <2>1, CartAssumption DEF Refused, Within, Shaped
  <2>3. Within(t)
    <3>1. row.quantity + r.asked \in Nat
      BY <1>1, <2>1 DEF Within, Shaped
    <3> QED BY <1>1, <2>2, <3>1, WithinSave
  <2>4. t.rows = {row} /\ t.item = r.item
    BY <1>1 DEF Within, Shaped
  <2>5. cartReq' = [cartReq EXCEPT ![q] = t]
    BY <1>4
  <2> HIDE DEF t
  <2>6. KeepsItem(t, saved)
    BY <2>1, <2>4 DEF KeepsItem, RowsFit
  <2> QED BY <1>1, <2>3, <2>5, <2>6, RequestOnly
<1> QED BY <1>2, <1>3, <1>4 DEF AddDb, Added

\* A request whose write was made.
LEMMA Written1 ==
  ASSUME CartInv, NEW q \in Requests, NEW rows,
         \/ cartReq' = [cartReq EXCEPT ![q].pc = "view"]
         \/ cartReq' = [cartReq EXCEPT ![q].pc = "view", ![q].rows = rows],
         HashesFit(cached'), RowsFit(saved'), Traced(saved'),
         UNCHANGED <<shelf, redisUp, moving>>
  PROVE  CartInv'
<1>1. PICK kept : cartReq' = [cartReq EXCEPT ![q] = [cartReq[q] EXCEPT !.pc = "view", !.rows = kept]]
  <2>1. CASE cartReq' = [cartReq EXCEPT ![q].pc = "view"]
    <3>1. [cartReq[q] EXCEPT !.pc = "view"] = [cartReq[q] EXCEPT !.pc = "view", !.rows = cartReq[q].rows]
      BY DEF CartInv, Within, Shaped
    <3>2. cartReq' = [cartReq EXCEPT ![q] = [cartReq[q] EXCEPT !.pc = "view"]]
      BY <2>1
    <3> QED BY <3>1, <3>2
  <2>2. CASE cartReq' = [cartReq EXCEPT ![q].pc = "view", ![q].rows = rows]
    BY <2>2
  <2> QED BY <2>1, <2>2
<1> DEFINE t == [cartReq[q] EXCEPT !.pc = "view", !.rows = kept]
<1>2. Within(t) /\ t.pc = "view"
  BY ZenonT(60) DEF CartInv, Within, Shaped, Compared, Harmless, CartPC
<1>3. KeepsItem(t, saved')
  BY <1>2 DEF KeepsItem
<1>4. cartReq' = [cartReq EXCEPT ![q] = t]
  BY <1>1
<1> HIDE DEF t
<1> QED BY <1>2, <1>3, <1>4, RequestMoves

LEMMA AddSaveFits ==
  ASSUME CartInv, NEW q \in Requests, AddSave(q), UNCHANGED moving PROVE CartInv'
<1> DEFINE r == cartReq[q]
<1>1. /\ Within(r) /\ r.pc = "add_save" /\ HashesFit(cached')
      /\ r.quantity \in Nat /\ r.quantity <= OnShelf[r.item] /\ r.owner \in Owners /\ r.item \in Items
      /\ KeepsItem(r, saved) /\ UNCHANGED <<shelf, redisUp, cached>>
  BY DEF CartInv, AddSave, AtCart, Within, Shaped, Compared
<1>2. CASE UNCHANGED saved /\ CartEnd(q)
  BY <1>1, <1>2, Ends
<1>3. ASSUME FreeIds # {}, saved' = saved \cup {NewRow(r.owner, r.item, r.quantity)}, CartStep(q, "view")
      PROVE  CartInv'
  <2>1. cartReq' = [cartReq EXCEPT ![q].pc = "view"]
    BY <1>3 DEF CartStep
  <2>2. RowsFit(saved') /\ Traced(saved')
    BY <1>1, <1>3, NewRowFits
  <2> QED BY <1>1, <2>1, <2>2, Written1
<1>4. ASSUME NEW h \in r.rows, NEW row \in saved, row.id = h.id, saved' = WithQuantity(row, r.quantity),
             cartReq' = [cartReq EXCEPT ![q].pc = "view", ![q].rows = {}]
      PROVE  CartInv'
  <2>1. row.item = r.item
    BY <1>1, <1>4 DEF KeepsItem
  <2>2. RowsFit(saved') /\ Traced(saved')
    BY <1>1, <1>4, <2>1, ChangedRowFits
  <2> QED BY <1>1, <1>4, <2>2, Written1
<1> QED BY <1>1, <1>2, <1>3, <1>4 DEF AddSave

-----------------------------------------------------------------------------
(* Changing and removing *)

LEMMA UpdateItemFits ==
  ASSUME CartInv, NEW q \in Requests, NEW i \in Items, NEW n \in Amounts,
         UpdateItem(q, i, n), UNCHANGED moving
  PROVE  CartInv'
<1>1. n \in Nat /\ n <= OnShelf[i] /\ UNCHANGED <<shelf, redisUp, cached, saved>>
  BY AmountsAreNumbers DEF UpdateItem, CartInv
<1>2. CASE BeginCart(q, "update_set", "user", i, n, n)
  BY <1>1, <1>2, Begins DEF Owners
<1>3. ASSUME NEW row \in RowsFor("user", i),
             cartReq' = [cartReq EXCEPT ![q] =
               [NoCartRequest EXCEPT !.pc = "update_save", !.item = i, !.quantity = n, !.rows = {row}]]
      PROVE  CartInv'
  <2> DEFINE t == [NoCartRequest EXCEPT !.pc = "update_save", !.item = i, !.quantity = n, !.rows = {row}]
  <2>1. row \in saved /\ row.item = i /\ RowsFit(saved)
    BY DEF RowsFor, RowsOf, CartInv
  <2>2. Within(t) /\ t.rows = {row} /\ t.item = i
    BY <1>1, NoRequestWithin DEF Within, Shaped, Compared, Harmless, CartPC, NoCartRequest
  <2> HIDE DEF t
  <2>3. KeepsItem(t, saved)
    BY <2>1, <2>2 DEF KeepsItem, RowsFit
  <2>4. HashesFit(cached')
    BY <1>1, SameRows DEF HashesFit
  <2>5. cartReq' = [cartReq EXCEPT ![q] = t]
    BY <1>3 DEF t
  <2> QED BY <1>1, <2>2, <2>3, <2>4, <2>5, RequestOnly
<1> QED BY <1>2, <1>3 DEF UpdateItem

LEMMA UpdateSetFits ==
  ASSUME CartInv, NEW q \in Requests, UpdateSet(q), UNCHANGED moving PROVE CartInv'
<1>1. /\ Within(cartReq[q]) /\ AtCart(q, "update_set")
      /\ SetField("user", cartReq[q].item, cartReq[q].quantity) /\ CartStep(q, "view")
      /\ UNCHANGED <<shelf, redisUp, saved>>
  BY DEF CartInv, UpdateSet
<1>2. HashesFit(cached')
  BY <1>1, FieldFits DEF Within, Shaped, Compared, AtCart, Owners
<1> QED BY <1>1, <1>2, GoesOn

LEMMA UpdateSaveFits ==
  ASSUME CartInv, NEW q \in Requests, UpdateSave(q), UNCHANGED moving PROVE CartInv'
<1> DEFINE r == cartReq[q]
<1>1. /\ Within(r) /\ r.pc = "update_save" /\ HashesFit(cached')
      /\ r.quantity \in Nat /\ r.quantity <= OnShelf[r.item]
      /\ KeepsItem(r, saved) /\ UNCHANGED <<shelf, redisUp, cached>>
  BY DEF CartInv, UpdateSave, AtCart, Within, Shaped, Compared
<1>2. CASE UNCHANGED saved /\ CartEnd(q)
  BY <1>1, <1>2, Ends
<1>3. ASSUME NEW row \in saved, row.id \in {h.id : h \in r.rows}, saved' = WithQuantity(row, r.quantity),
             cartReq' = [cartReq EXCEPT ![q].pc = "view", ![q].rows = {}]
      PROVE  CartInv'
  <2>1. row.item = r.item
    BY <1>1, <1>3 DEF KeepsItem
  <2>2. RowsFit(saved') /\ Traced(saved')
    BY <1>1, <1>3, <2>1, ChangedRowFits
  <2> QED BY <1>1, <1>3, <2>2, Written1
<1> QED BY <1>1, <1>2, <1>3 DEF UpdateSave

LEMMA RemovingFits ==
  ASSUME CartInv, NEW q \in Requests, UNCHANGED moving,
         (\E i \in Items : RemoveItem(q, i)) \/ RemoveField(q) \/ RemoveRow(q)
  PROVE  CartInv'
<1>1. ASSUME NEW i \in Items, RemoveItem(q, i) PROVE CartInv'
  BY <1>1, Begins DEF RemoveItem, Owners
<1>2. CASE RemoveField(q)
  BY <1>2, Ends, DropFits DEF RemoveField, Owners
<1>3. CASE RemoveRow(q)
  <2>1. saved' \subseteq saved /\ CartEnd(q) /\ UNCHANGED <<shelf, redisUp, cached>>
    BY <1>3 DEF RemoveRow
  <2>2. HashesFit(cached')
    BY <2>1, SameRows
  <2> QED BY <2>1, <2>2, Ends
<1> QED BY <1>1, <1>2, <1>3

-----------------------------------------------------------------------------
(* Looking *)

LEMMA ViewCartFits ==
  ASSUME CartInv, NEW q \in Requests, ViewCart(q), UNCHANGED moving PROVE CartInv'
<1> DEFINE r == cartReq[q]
           o == cartReq[q].owner
<1>1. /\ Within(r) /\ r.pc = "view" /\ o \in Owners /\ r.item \in Items
      /\ UNCHANGED <<shelf, redisUp, saved>>
  BY DEF CartInv, ViewCart, AtCart, Within, Shaped
<1>2. CASE DropFields(o, offSale) /\ CartEnd(q)
  BY <1>1, <1>2, Ends, DropFits
<1>3. ASSUME UNCHANGED cached, NEW basket \in [Items -> {0} \cup {row.quantity : row \in RowsOf(o)}],
             \A i \in Items : IF RowsFor(o, i) = {} THEN basket[i] = 0
                              ELSE \E row \in RowsFor(o, i) : basket[i] = row.quantity,
             cartReq' = [cartReq EXCEPT ![q].pc = "warm", ![q].basket = basket]
      PROVE  CartInv'
  <2> DEFINE t == [r EXCEPT !.pc = "warm", !.basket = basket]
  <2>1. \A i \in Items : basket[i] \in Nat /\ basket[i] <= OnShelf[i]
    BY <1>3, CartAssumption DEF CartInv, RowsFit, CartRow, RowsFor, RowsOf
  <2>2. basket \in Contents
    BY <2>1 DEF Contents
  <2>3. Within(t) /\ t.pc = "warm"
    BY <1>1, <2>1, <2>2 DEF Within, Shaped, Compared, Harmless, CartPC
  <2>4. cartReq' = [cartReq EXCEPT ![q] = t]
    BY <1>3
  <2> HIDE DEF t
  <2>5. KeepsItem(t, saved) /\ HashesFit(cached')
    BY <1>3, <2>3, SameRows DEF KeepsItem
  <2> QED BY <1>1, <2>3, <2>4, <2>5, RequestOnly
<1> QED BY <1>2, <1>3 DEF ViewCart

LEMMA WarmCartFits ==
  ASSUME CartInv, NEW q \in Requests, WarmCart(q), UNCHANGED moving PROVE CartInv'
<1> DEFINE r == cartReq[q]
<1>1. /\ Within(r) /\ r.pc = "warm" /\ r.owner \in Owners /\ r.basket \in Contents
      /\ UNCHANGED <<shelf, redisUp, saved>>
  BY DEF CartInv, WarmCart, AtCart, Within, Shaped
<1>2. CASE UNCHANGED cached /\ CartEnd(q)
  BY <1>1, <1>2, Ends, SameRows
<1>3. ASSUME NEW i \in Items, SetField(r.owner, i, r.basket[i]),
             cartReq' = [cartReq EXCEPT ![q].basket[i] = 0]
      PROVE  CartInv'
  <2> DEFINE t == [r EXCEPT !.basket = [r.basket EXCEPT ![i] = 0]]
  <2>1. [r.basket EXCEPT ![i] = 0] \in Contents
    BY <1>1 DEF Contents
  <2>2. \A j \in Items : [r.basket EXCEPT ![i] = 0][j] <= OnShelf[j]
    BY <1>1, CartAssumption DEF Within, Compared, Contents
  <2>3. Within(t) /\ t.pc = "warm"
    BY <1>1, <2>1, <2>2 DEF Within, Shaped, Compared, Harmless
  <2>4. cartReq' = [cartReq EXCEPT ![q] = t]
    BY <1>3
  <2>5. r.basket[i] \in Nat /\ r.basket[i] <= OnShelf[i]
    BY <1>1 DEF Within, Compared, Contents
  <2> HIDE DEF t
  <2>6. KeepsItem(t, saved) /\ HashesFit(cached')
    BY <1>1, <1>3, <2>3, <2>5, FieldFits DEF KeepsItem
  <2> QED BY <1>1, <2>3, <2>4, <2>6, RequestOnly
<1> QED BY <1>2, <1>3 DEF WarmCart, FillOne

-----------------------------------------------------------------------------
(* Checking out: the rows follow the hash; nothing is taken off the shelf    *)

LEMMA CheckoutPagesFit ==
  ASSUME CartInv, NEW q \in Requests, GetCheckout(q) \/ NoCart(q), UNCHANGED moving
  PROVE  CartInv'
<1>1. CASE NoCart(q)
  <2>1. CartEnd(q) /\ UNCHANGED <<shelf, redisUp, cached, saved>>
    BY <1>1 DEF NoCart
  <2> QED BY <2>1, Ends, SameRows
<1>2. ASSUME GetCheckout(q), BeginCart(q, "no_cart", "user", NoCartRequest.item, 0, 0) PROVE CartInv'
  <2>1. NoCartRequest.item \in Items /\ "user" \in Owners
    BY NoRequestWithin DEF Within, Shaped, Owners
  <2> QED BY <1>2, <2>1, Begins DEF GetCheckout
<1>3. ASSUME GetCheckout(q), UNCHANGED cartReq PROVE CartInv'
  BY <1>3 DEF GetCheckout, CartInv
<1> QED BY <1>1, <1>2, <1>3 DEF GetCheckout

LEMMA PlaceOrderFits ==
  ASSUME ShelfIsLeftAlone, CartInv, NEW q \in Requests, NEW k \in Keys, PlaceOrder(q, k),
         UNCHANGED moving
  PROVE  CartInv'
<1>1. PICK online, buyNow \in BOOLEAN, i \in Items, n \in Amounts :
        /\ (IF online THEN "place_online" ELSE "place_cod") \in CartOps
        /\ buyNow => "buy_now" \in CartOps
        /\ placed[k].status = "none"
        /\ IF buyNow THEN i \notin offSale ELSE i = NoCartRequest.item /\ n = Min(Amounts)
        /\ AtCart(q, "idle")
        /\ cartReq' = [cartReq EXCEPT ![q] =
             [NoCartRequest EXCEPT
                !.pc = "reserve",
                !.rows = IF buyNow
                         THEN {[id |-> Min(RowIds), owner |-> "user", item |-> i, quantity |-> n]}
                         ELSE {},
                !.shown = CartContents,
                !.order = [NoChoice EXCEPT !.key = k, !.online = online, !.buyNow = buyNow]]]
        /\ UNCHANGED <<shelf, offSale, redisUp, cached, saved, checkoutVars>>
  BY DEF PlaceOrder
<1> DEFINE rows == IF buyNow
                   THEN {[id |-> Min(RowIds), owner |-> "user", item |-> i, quantity |-> n]}
                   ELSE {}
           order == [NoChoice EXCEPT !.key = k, !.online = online, !.buyNow = buyNow]
           t == [NoCartRequest EXCEPT !.pc = "reserve", !.rows = rows, !.shown = CartContents,
                                      !.order = order]
<1>2. online
  BY <1>1 DEF ShelfIsLeftAlone
<1>3. order \in OrderChoice /\ order.online
  BY <1>2 DEF NoChoice, OrderChoice
<1>4. cartReq' = [cartReq EXCEPT ![q] = t]
  BY <1>1
<1> HIDE DEF order, rows
<1>5. Within(t) /\ t.pc = "reserve"
  BY <1>3, NoRequestWithin DEF Within, Shaped, Compared, Harmless, CartPC, NoCartRequest
<1> HIDE DEF t
<1>6. KeepsItem(t, saved) /\ HashesFit(cached') /\ UNCHANGED <<shelf, redisUp, saved>>
  BY <1>5, SameRows DEF KeepsItem, PlaceOrder
<1> QED BY <1>4, <1>5, <1>6, RequestOnly

LEMMA TakeReservationFits ==
  ASSUME CartInv, NEW q \in Requests, TakeReservation(q), UNCHANGED moving PROVE CartInv'
<1> DEFINE r == cartReq[q]
<1>1. /\ Within(r) /\ r.pc = "reserve" /\ HashesFit(cached') /\ r.order \in OrderChoice
      /\ r.order.online /\ UNCHANGED <<shelf, redisUp, saved>>
  BY DEF CartInv, TakeReservation, AtCart, Within, Shaped, Harmless
<1>2. PICK v \in Reservations \cup {Nothing}, pc \in {"place", "sync"} :
        cartReq' = [cartReq EXCEPT ![q].pc = pc, ![q].order.reservation = v]
  BY DEF TakeReservation
<1> DEFINE order == [r.order EXCEPT !.reservation = v]
           t == [r EXCEPT !.pc = pc, !.order = order]
<1>3. order \in OrderChoice /\ order.online
  BY <1>1 DEF OrderChoice
<1>4. cartReq' = [cartReq EXCEPT ![q] = t]
  BY <1>2
<1> HIDE DEF order
<1>5. Within(t) /\ t.pc = pc
  BY <1>1, <1>3 DEF Within, Shaped, Compared, Harmless, CartPC
<1> HIDE DEF t
<1>6. KeepsItem(t, saved)
  BY <1>5 DEF KeepsItem
<1> QED BY <1>1, <1>4, <1>5, <1>6, RequestOnly

LEMMA SyncReadFits ==
  ASSUME CartInv, NEW q \in Requests, SyncRead(q), UNCHANGED moving PROVE CartInv'
<1> DEFINE r == cartReq[q]
<1>1. /\ Within(r) /\ r.pc = "sync" /\ HashesFit(cached') /\ r.order.online
      /\ UNCHANGED <<shelf, redisUp, saved>>
  BY DEF CartInv, SyncRead, AtCart, Within, Harmless
<1>2. PICK pc \in {"sync_delete", "read_rows"} :
        cartReq' = [cartReq EXCEPT ![q].pc = pc, ![q].basket = Hash("user")]
  BY DEF SyncRead
<1> DEFINE t == [r EXCEPT !.pc = pc, !.basket = Hash("user")]
<1>3. Hash("user") \in Contents /\ \A i \in Items : Hash("user")[i] <= OnShelf[i]
  BY CartAssumption DEF CartInv, HashesFit, Hash, Contents, Empty, Owners
<1>4. cartReq' = [cartReq EXCEPT ![q] = t]
  BY <1>2
<1>5. Within(t) /\ t.pc = pc
  BY <1>1, <1>3 DEF Within, Shaped, Compared, Harmless, CartPC
<1> HIDE DEF t
<1>6. KeepsItem(t, saved)
  BY <1>5 DEF KeepsItem
<1> QED BY <1>1, <1>4, <1>5, <1>6, RequestOnly

LEMMA SyncDeleteFits ==
  ASSUME CartInv, NEW q \in Requests, SyncDelete(q), UNCHANGED moving PROVE CartInv'
<1> DEFINE r == cartReq[q]
           t == [r EXCEPT !.pc = "sync_commit", !.rows = OldRows]
<1>1. /\ Within(r) /\ r.pc = "sync_delete" /\ HashesFit(cached')
      /\ UNCHANGED <<shelf, redisUp, saved>>
  BY DEF CartInv, SyncDelete, AtCart
<1>2. cartReq' = [cartReq EXCEPT ![q] = t]
  BY DEF SyncDelete
<1>3. Within(t) /\ t.pc = "sync_commit"
  BY <1>1 DEF Within, Shaped, Compared, Harmless, CartPC
<1> HIDE DEF t
<1>4. KeepsItem(t, saved)
  BY <1>3 DEF KeepsItem
<1> QED BY <1>1, <1>2, <1>3, <1>4, RequestOnly

\* Every entry gets a row with an id of its own that nobody holds.
LEMMA SyncedRowsFit ==
  ASSUME CartInv, NEW q \in Requests, AtCart(q, "sync_commit"),
         Cardinality(FreeIds) >= Cardinality({i \in Items : cartReq[q].basket[i] > 0}),
         NEW kept, kept \subseteq saved
  PROVE  RowsFit(kept \cup SyncedRows(q)) /\ Traced(kept \cup SyncedRows(q))
<1> DEFINE basket == cartReq[q].basket
           wanted == {i \in Items : basket[i] > 0}
           given(f) == f \in [wanted -> FreeIds] /\ \A i, j \in wanted : i # j => f[i] # f[j]
           ids == CHOOSE f \in [wanted -> FreeIds] : \A i, j \in wanted : i # j => f[i] # f[j]
<1>1. \A i \in Items : basket[i] \in Nat /\ basket[i] <= OnShelf[i]
  BY DEF CartInv, Within, Shaped, Compared, Contents, AtCart
<1>2. IsFiniteSet(wanted) /\ IsFiniteSet(FreeIds)
  BY CartAssumption, FS_Subset DEF FreeIds
<1>3. \E f \in [wanted -> FreeIds] : \A i, j \in wanted : i # j => f[i] # f[j]
  <2> HIDE DEF wanted
  <2>1. Cardinality(FreeIds) >= Cardinality(wanted)
    BY DEF wanted
  <2> QED BY <1>2, <2>1, EnoughIds
<1>4. given(ids)
  <2> HIDE DEF wanted
  <2> QED BY <1>3
<1>5. SyncedRows(q) = {[id |-> ids[i], owner |-> "user", item |-> i, quantity |-> basket[i]] : i \in wanted}
  BY DEF SyncedRows
<1> HIDE DEF ids
<1>6. \A r \in SyncedRows(q) : r.id \in FreeIds /\ r \in CartRow /\ r.quantity <= OnShelf[r.item]
  BY <1>1, <1>4, <1>5 DEF CartRow, Owners, FreeIds
<1>7. \A r, s \in SyncedRows(q) : r.id = s.id => r.item = s.item
  BY <1>4, <1>5
<1>8. \A r \in kept : r.id \notin FreeIds
  BY DEF FreeIds
<1>9. RowsFit(kept) /\ Traced(kept)
  BY FewerRowsFit
<1> HIDE DEF given
<1>10. RowsFit(kept \cup SyncedRows(q))
  BY <1>6, <1>7, <1>8, <1>9 DEF RowsFit
<1> QED BY <1>6, <1>9, <1>10 DEF Traced

LEMMA SyncCommitFits ==
  ASSUME CartInv, NEW q \in Requests, SyncCommit(q), UNCHANGED moving PROVE CartInv'
<1> DEFINE r == cartReq[q]
           kept == {s \in saved : s.id \notin {x.id : x \in r.rows}}
           t == [r EXCEPT !.pc = "read_rows", !.rows = {}, !.basket = Empty]
<1>1. /\ Within(r) /\ AtCart(q, "sync_commit") /\ r.pc = "sync_commit" /\ HashesFit(cached')
      /\ UNCHANGED <<shelf, redisUp, cached>>
  BY DEF CartInv, SyncCommit, AtCart
<1>2. CASE UNCHANGED saved /\ CartEnd(q)
  BY <1>1, <1>2, Ends
<1>3. ASSUME Cardinality(FreeIds) >= Cardinality({i \in Items : cartReq[q].basket[i] > 0}),
             saved' = kept \cup SyncedRows(q),
             cartReq' = [cartReq EXCEPT ![q].pc = "read_rows", ![q].rows = {}, ![q].basket = Empty]
      PROVE  CartInv'
  <2>1. RowsFit(saved') /\ Traced(saved')
    BY <1>1, <1>3, SyncedRowsFit
  <2>2. cartReq' = [cartReq EXCEPT ![q] = t]
    BY <1>3
  <2>3. Empty \in Contents
    BY DEF Empty, Contents
  <2>4. Within(t) /\ t.pc = "read_rows"
    BY <1>1, <2>3 DEF Within, Shaped, Compared, Harmless, CartPC
  <2> HIDE DEF t
  <2>5. KeepsItem(t, saved')
    BY <2>4 DEF KeepsItem
  <2> QED BY <1>1, <2>1, <2>2, <2>4, <2>5, RequestMoves
<1> QED BY <1>2, <1>3 DEF SyncCommit

LEMMA ReadRowsFits ==
  ASSUME CartInv, NEW q \in Requests, ReadRows(q), UNCHANGED moving PROVE CartInv'
<1> DEFINE r == cartReq[q]
           t == [r EXCEPT !.pc = "place", !.rows = RowsOf("user"), !.basket = Empty]
<1>1. /\ Within(r) /\ r.pc = "read_rows" /\ HashesFit(cached')
      /\ UNCHANGED <<shelf, redisUp, saved>>
  BY DEF CartInv, ReadRows, AtCart
<1>2. CASE CartEnd(q)
  BY <1>1, <1>2, Ends
<1>3. CASE cartReq' = [cartReq EXCEPT ![q].pc = "place", ![q].rows = RowsOf("user"),
                                      ![q].basket = Empty]
  <2>1. cartReq' = [cartReq EXCEPT ![q] = t]
    BY <1>3
  <2>2. Empty \in Contents
    BY DEF Empty, Contents
  <2>3. Within(t) /\ t.pc = "place"
    BY <1>1, <2>2 DEF Within, Shaped, Compared, Harmless, CartPC
  <2> HIDE DEF t
  <2>4. KeepsItem(t, saved)
    BY <2>3 DEF KeepsItem
  <2> QED BY <1>1, <2>1, <2>3, <2>4, RequestOnly
<1> QED BY <1>2, <1>3 DEF ReadRows

LEMMA OrderingFits ==
  ASSUME CartInv, NEW q \in Requests, UNCHANGED moving,
         ClearBeforeCommit(q) \/ CommitOrder(q) \/ RefuseOrder(q) \/ ClearHash(q)
  PROVE  CartInv'
<1>1. /\ cartReq[q].pc # "commit"
      /\ AtCart(q, "place") => cartReq[q].order.online /\ ~EmptiesCart(q)
  BY DEF CartInv, Within, Harmless, AtCart, EmptiesCart
<1>2. CASE ClearBeforeCommit(q)
  BY <1>1, <1>2 DEF ClearBeforeCommit
<1>3. CASE CommitOrder(q)
  <2>1. CartEnd(q) /\ UNCHANGED <<shelf, redisUp, cached, saved>>
    BY <1>1, <1>3 DEF CommitOrder, Commit, AtCart
  <2> QED BY <2>1, Ends, SameRows
<1>4. CASE RefuseOrder(q)
  <2>1. CartEnd(q) /\ UNCHANGED <<shelf, redisUp, cached, saved>>
    BY <1>4 DEF RefuseOrder
  <2> QED BY <2>1, Ends, SameRows
<1>5. CASE ClearHash(q)
  <2>1. CartEnd(q) /\ DropFields("user", Items) /\ UNCHANGED <<shelf, redisUp, saved>>
    BY <1>5 DEF ClearHash
  <2> QED BY <2>1, Ends, DropFits DEF Owners
<1> QED BY <1>2, <1>3, <1>4, <1>5

-----------------------------------------------------------------------------
(* Every step *)

LEMMA SurroundingsFit ==
  ASSUME CartInv, UNCHANGED <<shelf, saved, cartReq, moving>>, redisUp' \in BOOLEAN, HashesFit(cached')
  PROVE  CartInv'
BY DEF CartInv

LEMMA CartStepFits ==
  ASSUME ShelfIsLeftAlone, CartInv, CartNext, UNCHANGED moving PROVE CartInv'
<1>1. ASSUME NEW q \in Requests, CartRequestNext(q) PROVE CartInv'
  <2>1. "merge" \notin CartOps /\ cartReq[q].pc \notin {"merge_set", "merge_db", "merge_rows"}
    BY DEF ShelfIsLeftAlone, CartInv, Within, Harmless
  <2>2. ~(MergeCart(q) \/ MergeSet(q) \/ MergeClear(q) \/ MergeRead(q) \/ MergeRows(q))
    BY <2>1 DEF MergeCart, MergeSet, MergeClear, MergeRead, MergeRows, AtCart
  <2>3. CASE CartCrash(q)
    BY <2>3, Ends, SameRows DEF CartCrash
  <2>4. ASSUME NEW o \in Owners, GetCart(q, o) PROVE CartInv'
    <3>1. NoCartRequest.item \in Items
      BY NoRequestWithin DEF Within, Shaped
    <3> QED BY <2>4, <3>1, Begins DEF GetCart
  <2>5. CASE RemoveField(q) \/ RemoveRow(q) \/ \E i \in Items : RemoveItem(q, i)
    BY <2>5, RemovingFits
  <2>6. ASSUME NEW i \in Items, NEW n \in Amounts, NEW o \in Owners, AddToCart(q, o, i, n)
        PROVE  CartInv'
    BY <2>6, AddToCartFits
  <2>7. ASSUME NEW i \in Items, NEW n \in Amounts, UpdateItem(q, i, n) PROVE CartInv'
    BY <2>7, UpdateItemFits
  <2>8. CASE AddSet(q) \/ AddDb(q) \/ AddSave(q) \/ UpdateSet(q) \/ UpdateSave(q)
    BY <2>8, AddSetFits, AddDbFits, AddSaveFits, UpdateSetFits, UpdateSaveFits
  <2>9. CASE ViewCart(q) \/ WarmCart(q)
    BY <2>9, ViewCartFits, WarmCartFits
  <2> QED BY <1>1, <2>2, <2>3, <2>4, <2>5, <2>6, <2>7, <2>8, <2>9 DEF CartRequestNext
<1>2. ASSUME NEW i \in Items, ShelfChanges(i) \/ GoesOffSale(i) PROVE CartInv'
  <2>1. UNCHANGED <<shelf, redisUp, cached, saved, cartReq>>
    BY <1>2 DEF ShelfChanges, GoesOffSale, ShelfIsLeftAlone
  <2> QED BY <2>1, SurroundingsFit DEF CartInv
<1>3. ASSUME NEW o \in Owners, HashExpires(o) PROVE CartInv'
  <2>1. HashesFit(cached')
    BY <1>3, CartAssumption DEF HashExpires, CartInv, HashesFit, Contents, Empty
  <2> QED BY <1>3, <2>1, SurroundingsFit DEF HashExpires, CartInv
<1>4. CASE RedisFlips
  <2>1. HashesFit(cached') /\ redisUp' \in BOOLEAN
    BY <1>4 DEF RedisFlips, CartInv
  <2> QED BY <1>4, <2>1, SurroundingsFit DEF RedisFlips
<1> QED BY <1>1, <1>2, <1>3, <1>4 DEF CartNext

LEMMA CheckoutStepFits ==
  ASSUME ShelfIsLeftAlone, CartInv, CartCheckoutNext, UNCHANGED moving PROVE CartInv'
<1>1. ASSUME UNCHANGED cartVars PROVE CartInv'
  <2>1. HashesFit(cached') /\ redisUp' \in BOOLEAN
    BY <1>1 DEF cartVars, CartInv
  <2> QED BY <1>1, <2>1, SurroundingsFit DEF cartVars
<1>2. ASSUME NEW q \in Requests, CheckoutRequestNext(q) PROVE CartInv'
  <2>1. ASSUME NEW i \in Items, NEW n \in Amounts, GetBuyNowCheckout(q, i, n) PROVE CartInv'
    BY <1>1, <2>1 DEF GetBuyNowCheckout
  <2>2. ASSUME NEW k \in Keys, PlaceOrder(q, k) PROVE CartInv'
    BY <2>2, PlaceOrderFits
  <2>3. ASSUME NEW k \in Keys, ConfirmPayment(q, k) PROVE CartInv'
    BY <2>3 DEF ConfirmPayment, ShelfIsLeftAlone
  <2>4. CASE GetCheckout(q) \/ NoCart(q)
    BY <2>4, CheckoutPagesFit
  <2>5. CASE TakeReservation(q) \/ SyncRead(q) \/ SyncDelete(q) \/ SyncCommit(q) \/ ReadRows(q)
    BY <2>5, TakeReservationFits, SyncReadFits, SyncDeleteFits, SyncCommitFits, ReadRowsFits
  <2>6. CASE ClearBeforeCommit(q) \/ CommitOrder(q) \/ RefuseOrder(q) \/ ClearHash(q)
    BY <2>6, OrderingFits
  <2> QED BY <1>2, <2>1, <2>2, <2>3, <2>4, <2>5, <2>6 DEF CheckoutRequestNext
<1>3. ASSUME NEW v \in Reservations, ReservationExpires(v) \/ CleanReservation(v) PROVE CartInv'
  BY <1>1, <1>3 DEF ReservationExpires, CleanReservation
<1> QED BY <1>2, <1>3, CartStepFits DEF CartCheckoutNext

\* Nothing moves from the wishlist, and no order is repeated.
LEMMA SourcesStepFits ==
  ASSUME ShelfIsLeftAlone, CartInv, SourcesNext PROVE CartInv'
<1>1. /\ {"wishlist", "reorder"} \cap CartOps = {}
      /\ \A q \in Requests : moving[q].pc = "idle"
  BY DEF ShelfIsLeftAlone, CartInv, NotMoving
<1>2. CartCheckoutNext /\ UNCHANGED moving
  <2>1. ASSUME NEW q \in Requests, CreateWish(q) \/ MoveSave(q) \/ MoveDelete(q) PROVE FALSE
    BY <1>1, <2>1 DEF CreateWish, MoveSave, MoveDelete
  <2>2. ASSUME NEW q \in Requests, NEW i \in Items,
               \/ AddToWishlist(q, i) \/ RemoveFromWishlist(q, i)
               \/ \E n \in Amounts : MoveToCart(q, i, n) \/ Reorder(q, i, n)
        PROVE  FALSE
    BY <1>1, <2>2 DEF AddToWishlist, RemoveFromWishlist, MoveToCart, Reorder
  <2> QED BY <2>1, <2>2 DEF SourcesNext, sourceVars
<1> QED BY <1>2, CheckoutStepFits

\* While the shelf is left alone, no entry of a cart, in Redis or in the database,
\* asks for more than there is: however many requests add, change, look, check out
\* and place online orders at once, and whenever Redis comes and goes between
\* their steps.
THEOREM CartsStayWithinTheShelf ==
  ASSUME ShelfIsLeftAlone PROVE MCSpec => []NoEntryBeyondTheShelfAtOnce
<1> DEFINE Inv == area = "carts" => CartInv
<1>1. MCInit => Inv
  <2> SUFFICES ASSUME MCInit, area = "carts" PROVE CartInv
    OBVIOUS
  <2>1. /\ shelf = OnShelf /\ redisUp = TRUE /\ saved = {}
        /\ cached = [o \in Owners |-> Empty]
        /\ cartReq = [q \in Requests |-> NoCartRequest]
        /\ moving = [q \in Requests |-> NotMoving]
    BY DEF MCInit, RequestsOf
  <2>2. HashesFit(cached) /\ RowsFit(saved)
    BY <2>1, CartAssumption DEF HashesFit, RowsFit, Contents, Empty
  <2>3. KeepsItem(NoCartRequest, saved)
    BY DEF KeepsItem, NoCartRequest
  <2>4. \A q \in Requests : Within(cartReq[q]) /\ KeepsItem(cartReq[q], saved)
    BY <2>1, <2>3, NoRequestWithin
  <2> QED BY <2>1, <2>2, <2>4 DEF CartInv
<1>2. Inv /\ [MCNext]_<<allVars, area>> => Inv'
  <2> SUFFICES ASSUME Inv, [MCNext]_<<allVars, area>>, area' = "carts" PROVE CartInv'
    OBVIOUS
  <2>1. CASE MCNext
    <3>1. area = "carts" /\ SourcesNext
      BY <2>1 DEF MCNext
    <3> QED BY <3>1, SourcesStepFits
  <2>2. CASE UNCHANGED <<allVars, area>>
    BY <2>2 DEF allVars, cartSourceVars, cartCheckoutVars, cartVars, sourceVars, CartInv
  <2> QED BY <2>1, <2>2
<1>3. Inv => NoEntryBeyondTheShelfAtOnce
  BY DEF NoEntryBeyondTheShelfAtOnce, NoEntryBeyondTheShelf, CartInv, HashesFit, RowsFit
<1> QED BY <1>1, <1>2, <1>3, PTL DEF MCSpec

-----------------------------------------------------------------------------
(* Prices and settings.  An order is charged after its customer agreed to a *)
(* total, from settings that are read one group after the other; a settings *)
(* request writes a whole group that it read earlier.                       *)

\* Only the pricing area changes prices.
LEMMA PricingAlone == ASSUME MCNext PROVE PricingNext \/ UNCHANGED pricingVars
BY DEF MCNext, OnlyCarts, OnlyNotify, OnlyReviews

Named(delivery) == delivery.extraOn => delivery.named

GroupType(g) ==
  CASE g = "delivery" -> {d \in Delivery : Named(d)}
    [] g = "tax" -> Tax
    [] g = "payment" -> Payment

\* What is saved, and what a request is about to save, has a name for its fee.
SettingsInv ==
  /\ settings \in Settings
  /\ \A g \in Groups : settings[g] \in GroupType(g)
  /\ edit = [a \in Admins |-> edit[a]]
  /\ \A a \in Admins : edit[a].group \in Groups /\ edit[a].value \in GroupType(edit[a].group)

LEMMA ReadGroupKeeps ==
  ASSUME SettingsInv, NEW a \in Admins, NEW g \in Groups, NEW v \in GroupType(g), ReadGroup(a, g, v)
  PROVE  SettingsInv'
<1> DEFINE e == [pc |-> "save", group |-> g, value |-> v]
<1>1. edit' = [b \in Admins |-> IF b = a THEN e ELSE edit[b]] /\ settings' = settings
  BY DEF ReadGroup, SettingsInv
<1>2. e.group = g /\ e.value = v
  OBVIOUS
<1> HIDE DEF e
<1>3. edit' = [b \in Admins |-> edit'[b]]
  BY <1>1
<1> QED BY <1>1, <1>2, <1>3 DEF SettingsInv

LEMMA EditsAreDelivery ==
  ASSUME NEW old \in Delivery, NEW f \in Fees, NEW b \in BOOLEAN, NEW new \in DeliveryEdits(old, f, b)
  PROVE  new \in Delivery
<1>1. [old EXCEPT !.fee = f] \in Delivery
  BY DEF Delivery
<1>2. [old EXCEPT !.extraOn = b] \in Delivery /\ [old EXCEPT !.named = b] \in Delivery
  BY DEF Delivery
<1>3. [old EXCEPT !.extraOn = TRUE, !.named = TRUE, !.extra = f, !.compulsory = b] \in Delivery
  BY DEF Delivery
<1> QED BY <1>1, <1>2, <1>3 DEF DeliveryEdits

LEMMA DeliveryKeeps ==
  ASSUME SettingsInv, NEW a \in Admins, UpdateDeliverySettings(a) PROVE SettingsInv'
<1>1. PICK f \in Fees, b \in BOOLEAN : \E new \in DeliveryEdits(settings.delivery, f, b) :
        NamedWhenOn(settings.delivery, new) /\ ReadGroup(a, "delivery", new)
  BY DEF UpdateDeliverySettings
<1>2. PICK new \in DeliveryEdits(settings.delivery, f, b) :
        NamedWhenOn(settings.delivery, new) /\ ReadGroup(a, "delivery", new)
  BY <1>1
<1>3. settings.delivery \in Delivery
  BY DEF SettingsInv, Settings
<1>4. new \in Delivery
  BY <1>3, EditsAreDelivery
<1>5. new \in GroupType("delivery")
  BY <1>2, <1>4 DEF GroupType, Named, NamedWhenOn
<1> QED BY <1>2, <1>5, ReadGroupKeeps DEF Groups

LEMMA OtherGroupsKeep ==
  ASSUME SettingsInv, NEW a \in Admins, UpdateTaxSettings(a) \/ UpdatePaymentSettings(a)
  PROVE  SettingsInv'
<1>1. ASSUME NEW p \in Percentages, NEW b \in BOOLEAN,
             ReadGroup(a, "tax", [pct |-> p, onDelivery |-> b])
      PROVE  SettingsInv'
  <2>1. [pct |-> p, onDelivery |-> b] \in GroupType("tax")
    BY DEF GroupType, Tax
  <2> QED BY <1>1, <2>1, ReadGroupKeeps DEF Groups
<1>2. ASSUME NEW v \in Payment, ReadGroup(a, "payment", v) PROVE SettingsInv'
  <2>1. v \in GroupType("payment")
    BY DEF GroupType
  <2> QED BY <1>2, <2>1, ReadGroupKeeps DEF Groups
<1>3. settings.payment \in Payment
  BY DEF SettingsInv, Settings
<1>4. \A b \in BOOLEAN : [settings.payment EXCEPT !.cod = b] \in Payment
  BY <1>3 DEF Payment
<1>5. \A f \in Fees : [settings.payment EXCEPT !.codFee = f] \in Payment
  BY <1>3 DEF Payment
<1> QED BY <1>1, <1>2, <1>4, <1>5 DEF UpdateTaxSettings, UpdatePaymentSettings

LEMMA SaveKeeps ==
  ASSUME SettingsInv, NEW a \in Admins, SaveSettings(a) PROVE SettingsInv'
<1> DEFINE g == edit[a].group
           v == edit[a].value
<1>1. /\ settings' = [settings EXCEPT ![g] = v] /\ g \in Groups /\ v \in GroupType(g)
      /\ edit' = [b \in Admins |-> IF b = a THEN NoEdit ELSE edit[b]]
  BY DEF SaveSettings, SettingsInv
<1>2. NoEdit.group = "tax" /\ NoEdit.value \in GroupType("tax")
  BY DEF NoEdit, DefaultSettings, GroupType, Tax
<1>3. /\ edit' = [b \in Admins |-> edit'[b]]
      /\ \A b \in Admins : edit'[b].group \in Groups /\ edit'[b].value \in GroupType(edit'[b].group)
  BY <1>1, <1>2 DEF SettingsInv, Groups
<1> HIDE DEF g, v
<1>4. settings' \in Settings
  BY <1>1 DEF SettingsInv, Settings, Groups, GroupType
<1>5. \A h \in Groups : settings'[h] \in GroupType(h)
  BY <1>1 DEF SettingsInv, Settings, Groups
<1> QED BY <1>3, <1>4, <1>5 DEF SettingsInv

LEMMA SettingsBegin == MCInit => SettingsInv
<1> SUFFICES ASSUME PricingInit PROVE SettingsInv
  BY DEF MCInit
<1>1. /\ DefaultSettings.delivery \in Delivery /\ Named(DefaultSettings.delivery)
      /\ DefaultSettings.tax \in Tax /\ DefaultSettings.payment \in Payment
  BY DEF DefaultSettings, Delivery, Tax, Payment, Named
<1>2. DefaultSettings \in Settings
  BY <1>1 DEF DefaultSettings, Settings
<1>3. \A g \in Groups : DefaultSettings[g] \in GroupType(g)
  BY <1>1 DEF GroupType, Groups
<1>4. NoEdit.group = "tax" /\ NoEdit.value \in GroupType("tax")
  BY <1>1 DEF NoEdit, GroupType
<1> QED BY <1>2, <1>3, <1>4 DEF PricingInit, SettingsInv, Groups

LEMMA SettingsKeep == SettingsInv /\ [MCNext]_<<allVars, area>> => SettingsInv'
<1> SUFFICES ASSUME SettingsInv, PricingNext \/ UNCHANGED pricingVars PROVE SettingsInv'
  BY PricingAlone DEF allVars
<1>1. ASSUME NEW a \in Admins, UpdateDeliverySettings(a) \/ UpdateTaxSettings(a)
                               \/ UpdatePaymentSettings(a) \/ SaveSettings(a)
      PROVE  SettingsInv'
  BY <1>1, DeliveryKeeps, OtherGroupsKeep, SaveKeeps
<1>2. ASSUME UNCHANGED <<settings, edit>> PROVE SettingsInv'
  BY <1>2 DEF SettingsInv
<1>3. CASE UNCHANGED pricingVars
  BY <1>2, <1>3 DEF pricingVars
<1>4. ASSUME \/ ChangeSubtotal \/ SeeCheckout \/ SeePaymentMethods \/ AskForOrder \/ ChargeOrder
             \/ \E g \in Groups : ReadSettings(g)
      PROVE  UNCHANGED <<settings, edit>>
  BY <1>4 DEF ChangeSubtotal, SeeCheckout, SeePaymentMethods, AskForOrder, ChargeOrder, ReadSettings
<1> QED BY <1>1, <1>2, <1>3, <1>4 DEF PricingNext

\* However settings requests overlap, and whatever they change, no settings are
\* ever saved with which every checkout fails: the name of a fee that is on is
\* checked against what the request will write, not only against what it asks.
THEOREM SettingsServeEveryCheckout == MCSpec => []SettingsStayUsable
<1>1. MCInit => SettingsInv
  BY SettingsBegin
<1>2. SettingsInv /\ [MCNext]_<<allVars, area>> => SettingsInv'
  BY SettingsKeep
<1>3. SettingsInv => SettingsStayUsable
  <2> SUFFICES ASSUME SettingsInv PROVE Named(settings.delivery)
    BY DEF SettingsStayUsable, CanPrice, Named
  <2>1. settings["delivery"] \in GroupType("delivery")
    BY DEF SettingsInv, Groups
  <2> QED BY <2>1 DEF GroupType
<1> QED BY <1>1, <1>2, <1>3, PTL DEF MCSpec

\* A visit, with amounts of which only that they are numbers is needed.
VisitPC == {"idle", "shown", "price"}

Seen == [pc: VisitPC, total: Int, codFee: Int, extra: Int, told: BOOLEAN,
         online: BOOLEAN, optional: BOOLEAN, expects: BOOLEAN, subtotal: Int, read: Settings,
         unread: SUBSET Groups, seen: Int, same: BOOLEAN]

LEMMA SeenShown ==
  ASSUME NEW v \in Seen, NEW pc \in VisitPC, NEW x \in Int, NEW y \in Int
  PROVE  [v EXCEPT !.pc = pc, !.seen = x, !.total = y] \in Seen
BY DEF Seen

LEMMA SeenAsking ==
  ASSUME NEW v \in Seen, NEW pc \in VisitPC, NEW a \in BOOLEAN, NEW b \in BOOLEAN,
         NEW c \in BOOLEAN, NEW x \in Int, NEW gs \in SUBSET Groups
  PROVE  [v EXCEPT !.pc = pc, !.online = a, !.optional = b, !.expects = c, !.subtotal = x,
                   !.unread = gs] \in Seen
BY DEF Seen

\* What the customer was shown is what these settings make of this cart.
ShownFrom(v, s, amount) ==
  /\ amount > 0 /\ CanPrice(s, amount)
  /\ v.total = GrandTotal(s, amount, TRUE, FALSE)
  /\ v.told => v.codFee = CodFee(s) /\ v.extra = ExtraFee(s, TRUE) - ExtraFee(s, FALSE)

\* The settings read so far are those of now.
ReadFrom(v, s, amount) ==
  v.pc = "price" => v.subtotal = amount /\ \A g \in Groups \ v.unread : v.read[g] = s[g]

\* As long as nothing was saved the visit is about the prices and settings of now,
\* and the last read found nothing saved only if all were about the same.
VisitInv ==
  /\ visit \in Seen /\ subtotal \in Nat /\ saves \in Nat /\ visit.seen <= saves
  /\ visit.pc = "idle" => ~visit.told
  /\ visit.pc # "idle" /\ visit.seen = saves =>
       ShownFrom(visit, settings, subtotal) /\ ReadFrom(visit, settings, subtotal)
  /\ visit.pc = "price" /\ visit.same /\ visit.unread = {} =>
       ShownFrom(visit, visit.read, visit.subtotal)

LEMMA FeesAreNumbers ==
  ASSUME NEW s \in Settings, NEW amount \in Nat
  PROVE  /\ DeliveryFee(s, amount) \in Int /\ Gst(s, amount) \in Int /\ CodFee(s) \in Int
         /\ \A optional \in BOOLEAN : ExtraFee(s, optional) \in Int
<1>1. /\ s.delivery.fee \in Nat /\ s.delivery.extra \in Nat /\ s.payment.codFee \in Nat
      /\ s.tax.pct \in Nat
  <2>1. s.delivery \in Delivery /\ s.payment \in Payment /\ s.tax \in Tax
    BY DEF Settings
  <2>2. /\ s.delivery.fee \in Fees \cup {0} /\ s.delivery.extra \in Fees \cup {0}
        /\ s.payment.codFee \in Fees \cup {0} /\ s.tax.pct \in Percentages \cup {0}
    BY <2>1 DEF Delivery, Payment, Tax
  <2>3. (\A f \in Fees \cup {0} : f \in Nat) /\ \A p \in Percentages \cup {0} : p \in Nat
    BY PricingAssumption
  <2> QED BY <2>2, <2>3
<1>2. DeliveryFee(s, amount) \in Nat /\ CodFee(s) \in Nat
  BY <1>1 DEF DeliveryFee, CodFee
<1>3. \A optional \in BOOLEAN : ExtraFee(s, optional) \in Int
  BY <1>1 DEF ExtraFee
<1>4. ASSUME NEW base \in Nat PROVE RoundedShare(base, s.tax.pct) \in Int
  <2>1. base * s.tax.pct \in Nat
    BY <1>1, <1>4
  <2>2. 2 * base * s.tax.pct \in Nat
    BY <1>1, <1>4
  <2> HIDE <1>4
  <2> QED BY <2>2 DEF RoundedShare
<1>5. amount + (IF s.tax.onDelivery THEN DeliveryFee(s, amount) ELSE 0) \in Nat
  BY <1>2
<1> QED BY <1>2, <1>3, <1>4, <1>5 DEF Gst

LEMMA TotalOf ==
  ASSUME NEW s, NEW amount \in Nat, amount > 0, NEW online \in BOOLEAN, NEW optional
  PROVE  GrandTotal(s, amount, online, optional) =
           amount + DeliveryFee(s, amount) + Gst(s, amount) + ExtraFee(s, optional)
           + (IF online THEN 0 ELSE CodFee(s))
BY DEF GrandTotal

LEMMA TotalIsNumber ==
  ASSUME NEW s \in Settings, NEW amount \in Nat, amount > 0
  PROVE  GrandTotal(s, amount, TRUE, FALSE) \in Int
<1> DEFINE d == DeliveryFee(s, amount)
           t == Gst(s, amount)
           y == ExtraFee(s, FALSE)
<1>1. d \in Int /\ t \in Int /\ y \in Int
  BY FeesAreNumbers
<1>2. GrandTotal(s, amount, TRUE, FALSE) = amount + d + t + y + 0
  BY TotalOf
<1> HIDE DEF d, t, y
<1>3. amount + d + t + y + 0 \in Int
  BY <1>1
<1> QED BY <1>2, <1>3

\* The total and the fees that the customer was told add up to what place-order
\* computes in one go, for every method and option.
LEMMA FeesAddUp ==
  ASSUME NEW s \in Settings, NEW amount \in Nat, amount > 0,
         NEW online \in BOOLEAN, NEW optional \in BOOLEAN
  PROVE  GrandTotal(s, amount, online, optional) =
           GrandTotal(s, amount, TRUE, FALSE) + (IF online THEN 0 ELSE CodFee(s))
           + (IF optional THEN ExtraFee(s, TRUE) - ExtraFee(s, FALSE) ELSE 0)
<1> DEFINE d == DeliveryFee(s, amount)
           t == Gst(s, amount)
           c == CodFee(s)
           x == ExtraFee(s, TRUE)
           y == ExtraFee(s, FALSE)
<1>1. d \in Int /\ t \in Int /\ c \in Int /\ x \in Int /\ y \in Int
  BY FeesAreNumbers
<1>2. GrandTotal(s, amount, TRUE, FALSE) = amount + d + t + y + 0
  BY TotalOf
<1>3. GrandTotal(s, amount, online, optional) =
        amount + d + t + ExtraFee(s, optional) + (IF online THEN 0 ELSE c)
  BY TotalOf
<1>4. ExtraFee(s, optional) = IF optional THEN x ELSE y
  OBVIOUS
<1> HIDE DEF d, t, c, x, y
<1>5. GrandTotal(s, amount, online, optional) =
        amount + d + t + (IF optional THEN x ELSE y) + (IF online THEN 0 ELSE c)
  BY <1>3, <1>4
<1>6. GrandTotal(s, amount, online, optional) =
        (amount + d + t + y + 0) + (IF online THEN 0 ELSE c) + (IF optional THEN x - y ELSE 0)
  BY <1>1, <1>5
<1> QED BY <1>2, <1>6 DEF c, x, y

LEMMA VisitBegins == ASSUME PricingInit PROVE VisitInv
<1>1. DefaultSettings \in Settings
  BY DEF DefaultSettings, Settings, Delivery, Tax, Payment
<1>2. visit \in Seen /\ visit.pc = "idle" /\ visit.seen = 0 /\ ~visit.told
  BY <1>1 DEF PricingInit, NoVisit, Seen, VisitPC
<1> QED BY <1>2, PricingAssumption DEF PricingInit, VisitInv

\* A save leaves the visit alone, but it is no longer about the settings of now.
LEMMA SavedMeanwhile ==
  ASSUME VisitInv, UNCHANGED visit, saves' = saves + 1, subtotal' \in Nat
  PROVE  VisitInv'
BY DEF VisitInv, Seen

\* Everything else the customer does.
LEMMA VisitSteps ==
  ASSUME VisitInv, settings \in Settings, UNCHANGED <<settings, subtotal, saves>>,
         \/ SeeCheckout \/ SeePaymentMethods \/ AskForOrder \/ ChargeOrder
         \/ \E g \in Groups : ReadSettings(g)
  PROVE  VisitInv'
<1> DEFINE n == subtotal
<1>0. visit \in Seen /\ n \in Nat /\ saves \in Nat
  BY DEF VisitInv
<1>1. CASE SeeCheckout
  <2> DEFINE total == GrandTotal(settings, n, TRUE, FALSE)
             v == [visit EXCEPT !.pc = "shown", !.seen = saves, !.total = total]
  <2>1. total \in Int
    BY <1>0, <1>1, TotalIsNumber DEF SeeCheckout
  <2>2. visit' = v /\ n > 0 /\ CanPrice(settings, n) /\ visit.pc = "idle"
    BY <1>1 DEF SeeCheckout
  <2> HIDE DEF total
  <2>3. v \in Seen /\ v.pc = "shown" /\ v.seen = saves /\ v.total = total /\ v.told = visit.told
    <3>1. saves \in Int /\ "shown" \in VisitPC
      BY <1>0 DEF VisitPC
    <3>2. v \in Seen
      BY <1>0, <2>1, <3>1, SeenShown
    <3>3. v.pc = "shown" /\ v.seen = saves /\ v.total = total /\ v.told = visit.told
      BY <1>0, SMTT(30) DEF Seen
    <3> QED BY <3>2, <3>3
  <2>4. ~visit.told
    BY <2>2 DEF VisitInv
  <2> HIDE DEF v
  <2>5. ShownFrom(v, settings, n) /\ ReadFrom(v, settings, n)
    BY <2>2, <2>3, <2>4 DEF ShownFrom, ReadFrom, total
  <2> QED BY <1>0, <2>2, <2>3, <2>5 DEF VisitInv
<1>2. CASE SeePaymentMethods
  <2> DEFINE c == CodFee(settings)
             x == ExtraFee(settings, TRUE) - ExtraFee(settings, FALSE)
             v == [visit EXCEPT !.told = TRUE, !.codFee = c, !.extra = x]
  <2>1. c \in Int /\ x \in Int
    <3> DEFINE a == ExtraFee(settings, TRUE)
               b == ExtraFee(settings, FALSE)
    <3>1. c \in Int /\ a \in Int /\ b \in Int
      BY <1>0, FeesAreNumbers
    <3> HIDE DEF a, b
    <3>2. a - b \in Int
      BY <3>1
    <3> QED BY <3>1, <3>2 DEF a, b
  <2>2. visit' = v /\ visit.pc = "shown"
    BY <1>2 DEF SeePaymentMethods
  <2> HIDE DEF c, x
  <2>3. /\ v \in Seen /\ v.pc = "shown" /\ v.seen = visit.seen /\ v.total = visit.total
        /\ v.codFee = c /\ v.extra = x
    BY <1>0, <2>1, <2>2 DEF Seen
  <2> HIDE DEF v
  <2> QED BY <1>0, <2>2, <2>3 DEF VisitInv, ShownFrom, ReadFrom, c, x
<1>3. CASE AskForOrder
  <2>1. PICK online \in BOOLEAN, optional \in BOOLEAN, expects \in BOOLEAN :
          visit' = [visit EXCEPT !.pc = "price", !.online = online, !.optional = optional,
                                 !.expects = expects, !.subtotal = n, !.unread = Groups]
    BY <1>3 DEF AskForOrder
  <2> DEFINE v == [visit EXCEPT !.pc = "price", !.online = online, !.optional = optional,
                                !.expects = expects, !.subtotal = n, !.unread = Groups]
  <2>2. /\ v \in Seen /\ v.pc = "price" /\ v.seen = visit.seen /\ v.total = visit.total
        /\ v.told = visit.told /\ v.codFee = visit.codFee /\ v.extra = visit.extra
        /\ v.subtotal = n /\ v.unread = Groups
    <3>0. "price" \in VisitPC /\ n \in Int
      BY <1>0 DEF VisitPC
    <3>1. v \in Seen
      BY <1>0, <3>0, SeenAsking
    <3>2. /\ v.pc = "price" /\ v.seen = visit.seen /\ v.total = visit.total
          /\ v.told = visit.told /\ v.codFee = visit.codFee /\ v.extra = visit.extra
          /\ v.subtotal = n /\ v.unread = Groups
      BY <1>0, SMTT(30) DEF Seen
    <3> QED BY <3>1, <3>2
  <2>3. visit.pc = "shown" /\ Groups # {}
    BY <1>3 DEF AskForOrder, Groups
  <2> HIDE DEF v
  <2>4. visit' = v
    BY <2>1 DEF v
  <2> QED BY <1>0, <2>2, <2>3, <2>4 DEF VisitInv, ShownFrom, ReadFrom
<1>4. ASSUME NEW g \in Groups, ReadSettings(g) PROVE VisitInv'
  <2> DEFINE read == [visit.read EXCEPT ![g] = settings[g]]
             v == [visit EXCEPT !.read[g] = settings[g], !.unread = visit.unread \ {g},
                                !.same = saves = visit.seen]
  <2>1. visit' = v /\ visit.pc = "price"
    BY <1>4 DEF ReadSettings
  <2>2. visit.read \in Settings /\ read \in Settings
    BY <1>0 DEF Seen, Settings, Groups
  <2>3. \A h \in Groups : read[h] = IF h = g THEN settings[h] ELSE visit.read[h]
    BY <2>2 DEF Settings, Groups
  <2>4. /\ v \in Seen /\ v.pc = "price" /\ v.seen = visit.seen /\ v.total = visit.total
        /\ v.told = visit.told /\ v.codFee = visit.codFee /\ v.extra = visit.extra
        /\ v.subtotal = visit.subtotal /\ v.unread = visit.unread \ {g}
        /\ v.same = (saves = visit.seen) /\ v.read = read
    BY <1>0, <2>1, <2>2 DEF Seen
  <2> HIDE DEF v, read
  <2>5. visit.seen = saves =>
          /\ ShownFrom(v, settings, n)
          /\ v.subtotal = n /\ \A h \in Groups \ v.unread : v.read[h] = settings[h]
    BY <2>1, <2>3, <2>4 DEF VisitInv, ShownFrom, ReadFrom
  <2>6. ASSUME v.same, v.unread = {} PROVE ShownFrom(v, v.read, v.subtotal)
    <3>1. visit.seen = saves /\ \A h \in Groups : v.read[h] = settings[h]
      BY <2>4, <2>5, <2>6
    <3>2. v.read = settings
      BY <2>2, <2>4, <3>1 DEF Settings, Groups
    <3> QED BY <2>5, <3>1, <3>2
  <2> QED BY <1>0, <2>1, <2>4, <2>5, <2>6 DEF VisitInv, ReadFrom
<1>5. CASE ChargeOrder
  <2>1. DefaultSettings \in Settings
    BY DEF DefaultSettings, Settings, Delivery, Tax, Payment
  <2>2. NoVisit \in Seen /\ NoVisit.pc = "idle" /\ NoVisit.seen = 0 /\ ~NoVisit.told
    BY <2>1 DEF NoVisit, Seen, VisitPC
  <2> QED BY <1>0, <1>5, <2>2 DEF ChargeOrder, VisitInv
<1> QED BY <1>1, <1>2, <1>3, <1>4, <1>5

\* Whatever any number of admins save: a customer whom no save disturbed is charged
\* what the checkout and the payment methods showed, to the paisa and without fail.
THEOREM ChargedAsAgreed == MCSpec => ChargedAsShown
<1> DEFINE Inv == SettingsInv /\ VisitInv
<1>1. MCInit => Inv
  BY SettingsBegin, VisitBegins DEF MCInit
<1>2. Inv /\ [MCNext]_<<allVars, area>> => Inv'
  <2> SUFFICES ASSUME SettingsInv, VisitInv, PricingNext \/ UNCHANGED pricingVars
               PROVE  VisitInv'
    BY SettingsKeep, PricingAlone DEF allVars
  <2>0. settings \in Settings /\ subtotal \in Nat
    BY DEF SettingsInv, VisitInv
  <2>1. ASSUME NEW a \in Admins, UpdateDeliverySettings(a) \/ UpdateTaxSettings(a)
                                 \/ UpdatePaymentSettings(a)
        PROVE  VisitInv'
    <3>1. UNCHANGED <<settings, subtotal, saves, visit>>
      BY <2>1 DEF UpdateDeliverySettings, UpdateTaxSettings, UpdatePaymentSettings, ReadGroup
    <3> QED BY <3>1 DEF VisitInv
  <2>2. ASSUME NEW a \in Admins, SaveSettings(a) PROVE VisitInv'
    BY <2>0, <2>2, SavedMeanwhile DEF SaveSettings
  <2>3. CASE ChangeSubtotal
    BY <2>3, SavedMeanwhile, PricingAssumption DEF ChangeSubtotal
  <2>4. CASE \/ SeeCheckout \/ SeePaymentMethods \/ AskForOrder \/ ChargeOrder
             \/ \E g \in Groups : ReadSettings(g)
    <3>1. UNCHANGED <<settings, subtotal, saves>>
      BY <2>4 DEF SeeCheckout, SeePaymentMethods, AskForOrder, ChargeOrder, ReadSettings
    <3> QED BY <2>0, <2>4, <3>1, VisitSteps
  <2>5. CASE UNCHANGED pricingVars
    BY <2>5 DEF pricingVars, VisitInv
  <2> QED BY <2>1, <2>2, <2>3, <2>4, <2>5 DEF PricingNext
<1>3. Inv => [ChargeOrder /\ Undisturbed => charged' = Expected]_pricingVars
  <2> SUFFICES ASSUME VisitInv, ChargeOrder, Undisturbed PROVE charged' = Expected
    OBVIOUS
  <2> DEFINE total == GrandTotal(visit.read, visit.subtotal, visit.online, visit.optional)
  <2>1. /\ visit \in Seen /\ visit.pc = "price" /\ visit.unread = {} /\ visit.told
        /\ ShownFrom(visit, visit.read, visit.subtotal)
    BY DEF VisitInv, ChargeOrder, Undisturbed
  <2>2. /\ visit.read \in Settings /\ visit.subtotal \in Nat /\ visit.subtotal > 0
        /\ visit.online \in BOOLEAN /\ visit.optional \in BOOLEAN /\ visit.total \in Int
        /\ visit.codFee \in Int /\ visit.extra \in Int
    <3>1. visit.subtotal \in Int /\ visit.subtotal > 0
      BY <2>1 DEF Seen, ShownFrom
    <3> QED BY <2>1, <3>1 DEF Seen
  <2>3. total = Expected
    <3>1. total = GrandTotal(visit.read, visit.subtotal, TRUE, FALSE)
                  + (IF visit.online THEN 0 ELSE CodFee(visit.read))
                  + (IF visit.optional THEN ExtraFee(visit.read, TRUE) - ExtraFee(visit.read, FALSE)
                     ELSE 0)
      BY <2>2, FeesAddUp
    <3> QED BY <2>1, <3>1 DEF ShownFrom, Expected
  <2>4. Expected \in Int
    BY <2>2 DEF Expected
  <2>5. Difference(total, Expected) <= Tolerance
    BY <2>3, <2>4, PricingAssumption DEF Difference
  <2> QED BY <2>1, <2>3, <2>5 DEF ChargeOrder, ShownFrom, AsExpected
<1> QED BY <1>1, <1>2, <1>3, PTL DEF MCSpec, ChargedAsShown

-----------------------------------------------------------------------------
(* Messages.  The log is looked at before a message goes out and is written *)
(* before or after it, so that executions that overlap may each take the    *)
(* other for the one that tells.                                            *)

AlertChannels == {"SMS", "WHATSAPP"}

\* What an alert's execution still has to do, in its order.
AlertQueues == {<<"SMS", "WHATSAPP">>, <<"WHATSAPP">>}

\* An execution has a message to send, and is about to send it.
Pending(r, key, c) ==
  /\ r.pc # "idle" /\ r.key = key
  /\ r.todo = <<"SMS", "WHATSAPP">> \/ (r.todo = <<"WHATSAPP">> /\ c = "WHATSAPP")
Sends(r, m) == r.pc = "send" /\ m = <<r.key, Head(r.todo)>>

Underway(executions, key, c) == \E d \in Dispatches : Pending(executions[d], key, c)
Sending(executions, m) == \E d \in Dispatches : Sends(executions[d], m)

DispatchShaped(r) ==
  /\ r \in [pc: {"idle", "check", "claim", "send", "log"}, key: MessageKeys \cup {NoMessage},
            todo: Seq(ChannelNames)]
  /\ r.pc # "idle" => r.key \in MessageKeys /\ r.todo # <<>>
AlertShaped(r) ==
  r.pc # "idle" /\ r.key[1] \in Alerts =>
    r.pc \in {"check", "claim", "send"} /\ r.todo \in AlertQueues

Counts(f) == f \in [MessageKeys \X ChannelNames -> Nat]

\* A level that called for an alert was told of, or an execution still has it to
\* do; a log row of an alert stands for a message that went or is going out.
AlertsInv ==
  /\ Counts(logged) /\ Counts(received)
  /\ crossed \in [MessageKeys -> Nat] /\ stock \in 0..MaxStock
  /\ dispatch = [d \in Dispatches |-> dispatch[d]]
  /\ \A d \in Dispatches : DispatchShaped(dispatch[d]) /\ AlertShaped(dispatch[d])
  /\ \A key \in MessageKeys : crossed[key] > 0 => key[1] \in Alerts
  /\ \A key \in MessageKeys, c \in AlertChannels :
       crossed[key] > 0 => received[<<key, c>>] > 0 \/ Underway(dispatch, key, c)
  /\ \A key \in MessageKeys, c \in AlertChannels :
       key[1] \in Alerts /\ logged[<<key, c>>] > 0 =>
         received[<<key, c>>] > 0 \/ Sending(dispatch, <<key, c>>)

\* A step of one execution: it gives up nothing that it has to tell, unless it
\* told or another execution is telling.
LEMMA ExecutionMoves ==
  ASSUME AlertsInv, NEW d \in Dispatches, NEW t, DispatchShaped(t), AlertShaped(t),
         dispatch' = [dispatch EXCEPT ![d] = t],
         Counts(logged'), Counts(received'), crossed' \in [MessageKeys -> Nat], stock' \in 0..MaxStock,
         \A m \in MessageKeys \X ChannelNames : received[m] > 0 => received'[m] > 0,
         \A key \in MessageKeys : crossed'[key] > 0 =>
           \/ crossed[key] > 0
           \/ key[1] \in Alerts /\ \A c \in AlertChannels : Pending(t, key, c),
         \A key \in MessageKeys, c \in AlertChannels :
           key[1] \in Alerts /\ Pending(dispatch[d], key, c) =>
             \/ Pending(t, key, c) \/ received'[<<key, c>>] > 0
             \/ \E x \in Dispatches \ {d} : Pending(dispatch[x], key, c),
         \A key \in MessageKeys, c \in AlertChannels :
           key[1] \in Alerts /\ Sends(dispatch[d], <<key, c>>) =>
             Sends(t, <<key, c>>) \/ received'[<<key, c>>] > 0,
         \A key \in MessageKeys, c \in AlertChannels :
           key[1] \in Alerts /\ logged'[<<key, c>>] > 0 =>
             \/ logged[<<key, c>>] > 0
             \/ received'[<<key, c>>] > 0 \/ Sends(t, <<key, c>>)
  PROVE  AlertsInv'
<1>1. dispatch' = [x \in Dispatches |-> IF x = d THEN t ELSE dispatch[x]]
  BY DEF AlertsInv
<1>2. dispatch' = [x \in Dispatches |-> dispatch'[x]]
  BY <1>1
<1>3. \A x \in Dispatches : DispatchShaped(dispatch'[x]) /\ AlertShaped(dispatch'[x])
  BY <1>1 DEF AlertsInv
<1>4. \A key \in MessageKeys : crossed'[key] > 0 => key[1] \in Alerts
  BY DEF AlertsInv
<1>5. ASSUME NEW key \in MessageKeys, NEW c \in AlertChannels, crossed'[key] > 0
      PROVE  received'[<<key, c>>] > 0 \/ Underway(dispatch', key, c)
  <2>1. <<key, c>> \in MessageKeys \X ChannelNames /\ key[1] \in Alerts
    BY <1>4, <1>5 DEF AlertChannels, ChannelNames
  <2>2. ASSUME NEW x \in Dispatches, Pending(dispatch[x], key, c)
        PROVE  received'[<<key, c>>] > 0 \/ Underway(dispatch', key, c)
    BY <1>1, <2>1, <2>2 DEF Underway
  <2>3. CASE Pending(t, key, c)
    BY <1>1, <2>3 DEF Underway
  <2> QED BY <1>5, <2>1, <2>2, <2>3 DEF AlertsInv, Underway
<1>6. ASSUME NEW key \in MessageKeys, NEW c \in AlertChannels, key[1] \in Alerts, logged'[<<key, c>>] > 0
      PROVE  received'[<<key, c>>] > 0 \/ Sending(dispatch', <<key, c>>)
  <2>1. <<key, c>> \in MessageKeys \X ChannelNames
    BY DEF AlertChannels, ChannelNames
  <2>2. ASSUME NEW x \in Dispatches, Sends(dispatch[x], <<key, c>>)
        PROVE  received'[<<key, c>>] > 0 \/ Sending(dispatch', <<key, c>>)
    BY <1>1, <1>6, <2>2 DEF Sending
  <2>3. CASE Sends(t, <<key, c>>)
    BY <1>1, <2>3 DEF Sending
  <2> QED BY <1>6, <2>1, <2>2, <2>3 DEF AlertsInv, Sending
<1> QED BY <1>2, <1>3, <1>4, <1>5, <1>6 DEF AlertsInv

LEMMA ChannelLists ==
  ASSUME NEW kind
  PROVE  /\ Channels(kind) \in Seq(ChannelNames) /\ Channels(kind) # <<>>
         /\ kind \in Alerts => Channels(kind) = <<"SMS", "WHATSAPP">>
<1>1. /\ <<"IN_APP", "EMAIL", "SMS", "WHATSAPP">> \in Seq(ChannelNames)
      /\ <<"IN_APP", "SMS", "WHATSAPP">> \in Seq(ChannelNames)
      /\ <<"IN_APP", "EMAIL", "WHATSAPP">> \in Seq(ChannelNames)
      /\ <<"SMS", "WHATSAPP">> \in Seq(ChannelNames)
  BY DEF ChannelNames
<1>2. \/ Channels(kind) = <<"IN_APP", "EMAIL", "SMS", "WHATSAPP">>
      \/ Channels(kind) = <<"IN_APP", "SMS", "WHATSAPP">>
      \/ Channels(kind) = <<"IN_APP", "EMAIL", "WHATSAPP">>
      \/ Channels(kind) = <<"SMS", "WHATSAPP">>
  BY DEF Channels
<1>3. Channels(kind) # <<>>
  BY <1>2
<1>4. kind \in Alerts => kind \notin Everywhere \cup NoSms \cup NoMail
  BY DEF Alerts, Everywhere, NoSms, NoMail
<1>5. kind \in Alerts => Channels(kind) = <<"SMS", "WHATSAPP">>
  BY <1>4 DEF Channels
<1>6. Channels(kind) \in Seq(ChannelNames)
  BY <1>1, <1>2
<1> QED BY <1>3, <1>5, <1>6

\* A message that is queued, for what the stock's change called for or an event.
LEMMA QueueMoves ==
  ASSUME AlertsInv, NEW d \in Dispatches, NEW key \in MessageKeys, Queue(d, key),
         UNCHANGED <<logged, received>>, stock' \in 0..MaxStock,
         \/ crossed' = crossed
         \/ key[1] \in Alerts /\ crossed' = [crossed EXCEPT ![key] = @ + 1]
  PROVE  AlertsInv'
<1> DEFINE t == [pc |-> "check", key |-> key, todo |-> Channels(key[1])]
<1>1. dispatch' = [dispatch EXCEPT ![d] = t] /\ dispatch[d].pc = "idle"
  BY DEF Queue
<1>2. DispatchShaped(t)
  BY ChannelLists DEF DispatchShaped
<1>3. AlertShaped(t)
  BY ChannelLists DEF AlertShaped, AlertQueues
<1>4. key[1] \in Alerts => \A c \in AlertChannels : Pending(t, key, c)
  BY ChannelLists DEF Pending
<1> HIDE DEF t
<1>5. Counts(logged') /\ Counts(received')
  BY DEF AlertsInv
<1>6. /\ crossed' \in [MessageKeys -> Nat]
      /\ \A k \in MessageKeys : crossed'[k] > 0 => crossed[k] > 0 \/ (k = key /\ key[1] \in Alerts)
  BY DEF AlertsInv
<1>7. \A k \in MessageKeys, c \in AlertChannels :
        ~Pending(dispatch[d], k, c) /\ ~Sends(dispatch[d], <<k, c>>)
  BY <1>1 DEF Pending, Sends
<1>8. \A k \in MessageKeys : crossed'[k] > 0 =>
        \/ crossed[k] > 0
        \/ k[1] \in Alerts /\ \A c \in AlertChannels : Pending(t, k, c)
  BY <1>4, <1>6
<1>9. \A m \in MessageKeys \X ChannelNames : received[m] > 0 => received'[m] > 0
  OBVIOUS
<1>10. \A k \in MessageKeys, c \in AlertChannels :
         k[1] \in Alerts /\ logged'[<<k, c>>] > 0 =>
           logged[<<k, c>>] > 0 \/ received'[<<k, c>>] > 0 \/ Sends(t, <<k, c>>)
  OBVIOUS
<1>11. crossed' \in [MessageKeys -> Nat]
  BY <1>6
<1> QED BY <1>1, <1>2, <1>3, <1>5, <1>7, <1>8, <1>9, <1>10, <1>11, ExecutionMoves

LEMMA ChangeStockMoves ==
  ASSUME AlertsInv, NEW d \in Dispatches, ChangeStock(d) PROVE AlertsInv'
<1>1. PICK new \in 0..MaxStock \ {stock} :
        /\ stock' = new
        /\ crossed' =
             IF new = 0 THEN [crossed EXCEPT ![<<"ADMIN_OUT_OF_STOCK", 0>>] = @ + 1]
             ELSE IF stock > Threshold /\ new <= Threshold
             THEN [crossed EXCEPT ![<<"ADMIN_LOW_STOCK", new>>] = @ + 1] ELSE crossed
        /\ IF StockEvent(stock, new) = {}
           THEN UNCHANGED <<dispatch, calls>>
           ELSE \E kind \in StockEvent(stock, new) : Queue(d, <<kind, new>>)
  BY DEF ChangeStock
<1>2. stock \in Nat /\ new \in Nat /\ stock' \in 0..MaxStock /\ UNCHANGED <<logged, received>>
  BY <1>1, NotificationsAssumption DEF AlertsInv, ChangeStock
<1>3. CASE StockEvent(stock, new) = {}
  <2>1. crossed' = crossed
    BY <1>1, <1>2, <1>3, NotificationsAssumption DEF StockEvent
  <2>2. dispatch' = dispatch
    BY <1>1, <1>3
  <2> QED BY <1>2, <2>1, <2>2 DEF AlertsInv, Underway, Sending
<1>4. ASSUME NEW kind \in StockEvent(stock, new), Queue(d, <<kind, new>>) PROVE AlertsInv'
  <2>1. /\ kind \in Alerts
        /\ crossed' = crossed \/ crossed' = [crossed EXCEPT ![<<kind, new>>] = @ + 1]
    <3>1. CASE stock > Threshold /\ new <= Threshold /\ new > 0
      BY <1>1, <1>2, <1>4, <3>1 DEF StockEvent, Alerts
    <3>2. CASE ~(stock > Threshold /\ new <= Threshold /\ new > 0)
      BY <1>1, <1>2, <1>4, <3>2 DEF StockEvent, Alerts
    <3> QED BY <3>1, <3>2
  <2>2. <<kind, new>> \in MessageKeys /\ <<kind, new>>[1] = kind
    BY <2>1 DEF MessageKeys
  <2> QED BY <1>2, <1>4, <2>1, <2>2, QueueMoves
<1> QED BY <1>1, <1>3, <1>4

LEMMA EventMoves ==
  ASSUME AlertsInv, NEW d \in Dispatches,
         \/ \E e \in Events \ Range(StatusEvents) : SendEventNotification(d, e)
         \/ \E old, new \in OrderStatuses : NotifyOrderStatusChange(d, old, new)
  PROVE  AlertsInv'
<1>1. PICK e \in Events : Queue(d, <<e, 0>>) /\ UNCHANGED <<stock, logged, received, crossed>>
  BY DEF SendEventNotification, NotifyOrderStatusChange
<1>2. <<e, 0>> \in MessageKeys
  BY DEF MessageKeys
<1>3. stock' \in 0..MaxStock
  BY <1>1 DEF AlertsInv
<1> QED BY <1>1, <1>2, <1>3, QueueMoves

\* The message of an execution that is not idle.
LEMMA MessageOf ==
  ASSUME NEW r, DispatchShaped(r), r.pc # "idle"
  PROVE  /\ r.key \in MessageKeys /\ Head(r.todo) \in ChannelNames
         /\ <<r.key, Head(r.todo)>> \in MessageKeys \X ChannelNames
BY DEF DispatchShaped

\* What is left of an execution after a channel is one that looks into the log.
LEMMA AfterShaped ==
  ASSUME NEW r, DispatchShaped(r), r.pc # "idle"
  PROVE  DispatchShaped(AfterChannel(r)) /\ AfterChannel(r).pc \in {"idle", "check"}
<1>1. CASE Len(r.todo) = 1
  BY <1>1 DEF AfterChannel, DispatchShaped, NoDispatch
<1>2. CASE Len(r.todo) # 1
  <2> DEFINE t == [r EXCEPT !.pc = "check", !.todo = Tail(r.todo)]
  <2>1. AfterChannel(r) = t
    BY <1>2 DEF AfterChannel
  <2>2. Tail(r.todo) \in Seq(ChannelNames) /\ Tail(r.todo) # <<>>
    <3>1. r.todo \in Seq(ChannelNames) /\ r.todo # <<>>
      BY DEF DispatchShaped
    <3>2. Len(Tail(r.todo)) # 0 /\ Tail(r.todo) \in Seq(ChannelNames)
      BY <1>2, <3>1
    <3>3. Len(<<>>) = 0
      OBVIOUS
    <3> QED BY <3>2, <3>3, Zenon
  <2>3. DispatchShaped(t) /\ t.pc = "check"
    BY <2>2 DEF DispatchShaped
  <2> QED BY <2>1, <2>3
<1> QED BY <1>1, <1>2

\* What is left of an execution after a channel.
LEMMA NextShaped ==
  ASSUME NEW r, DispatchShaped(r), AlertShaped(r), r.pc # "idle"
  PROVE  /\ DispatchShaped(AfterChannel(r)) /\ AlertShaped(AfterChannel(r))
         /\ \A key, c : r.key = key /\ key[1] \in Alerts /\ c \in AlertChannels /\ Pending(r, key, c) =>
              Pending(AfterChannel(r), key, c) \/ c = Head(r.todo)
<1>1. CASE Len(r.todo) = 1
  <2>1. AfterChannel(r) = NoDispatch
    BY <1>1 DEF AfterChannel
  <2>2. DispatchShaped(NoDispatch) /\ AlertShaped(NoDispatch)
    BY DEF DispatchShaped, AlertShaped, NoDispatch
  <2>3. r.todo = <<"WHATSAPP">> => Head(r.todo) = "WHATSAPP"
    OBVIOUS
  <2>4. r.todo # <<"SMS", "WHATSAPP">>
    BY <1>1
  <2> QED BY <2>1, <2>2, <2>3, <2>4 DEF Pending
<1>2. CASE Len(r.todo) # 1
  <2> DEFINE t == [r EXCEPT !.pc = "check", !.todo = Tail(r.todo)]
  <2>1. AfterChannel(r) = t
    BY <1>2 DEF AfterChannel
  <2>2. DispatchShaped(t)
    BY <2>1, AfterShaped
  <2>3. t.pc = "check" /\ t.key = r.key /\ t.todo = Tail(r.todo)
    BY DEF DispatchShaped
  <2>4. r.key[1] \in Alerts => r.todo = <<"SMS", "WHATSAPP">>
    BY <1>2 DEF AlertShaped, AlertQueues
  <2>5. r.todo = <<"SMS", "WHATSAPP">> => Tail(r.todo) = <<"WHATSAPP">> /\ Head(r.todo) = "SMS"
    OBVIOUS
  <2> HIDE DEF t
  <2>6. AlertShaped(t)
    BY <2>3, <2>4, <2>5 DEF AlertShaped, AlertQueues
  <2> QED BY <2>1, <2>2, <2>3, <2>4, <2>5, <2>6 DEF Pending, AlertChannels
<1> QED BY <1>1, <1>2

LEMMA CheckLogMoves ==
  ASSUME AlertsInv, NEW d \in Dispatches, CheckLog(d) PROVE AlertsInv'
<1> DEFINE r == dispatch[d]
           m == <<r.key, Head(r.todo)>>
<1>1. /\ DispatchShaped(r) /\ AlertShaped(r) /\ r.pc = "check" /\ r.pc # "idle"
      /\ UNCHANGED <<stock, logged, received, crossed>>
  BY DEF CheckLog, AlertsInv
<1>2. m \in MessageKeys \X ChannelNames
  BY <1>1, MessageOf
<1>3. /\ Counts(logged') /\ Counts(received') /\ crossed' \in [MessageKeys -> Nat]
      /\ stock' \in 0..MaxStock
  BY <1>1 DEF AlertsInv
<1>4. \A k, c : ~Sends(r, <<k, c>>)
  BY <1>1 DEF Sends
<1>5. CASE AlreadyDispatched(d) /\ NextChannel(d)
  <2> DEFINE t == AfterChannel(r)
  <2>1. dispatch' = [dispatch EXCEPT ![d] = t] /\ logged[m] > 0
    BY <1>5 DEF NextChannel, AlreadyDispatched, Message
  <2>2. DispatchShaped(t) /\ AlertShaped(t)
    BY <1>1, NextShaped
  <2>3. ASSUME NEW k \in MessageKeys, NEW c \in AlertChannels, k[1] \in Alerts, Pending(r, k, c)
        PROVE  \/ Pending(t, k, c) \/ received'[<<k, c>>] > 0
               \/ \E x \in Dispatches \ {d} : Pending(dispatch[x], k, c)
    <3>1. r.key = k
      BY <2>3 DEF Pending
    <3>2. Pending(t, k, c) \/ c = Head(r.todo)
      BY <1>1, <2>3, <3>1, NextShaped
    <3>3. ASSUME c = Head(r.todo), NEW x \in Dispatches, Sends(dispatch[x], <<k, c>>)
          PROVE  x # d /\ Pending(dispatch[x], k, c)
      <4>1. dispatch[x].pc = "send" /\ dispatch[x].key = k /\ Head(dispatch[x].todo) = c
        BY <3>3 DEF Sends
      <4>2. dispatch[x].todo \in AlertQueues
        BY <2>3, <4>1 DEF AlertsInv, AlertShaped
      <4> QED BY <1>1, <4>1, <4>2 DEF Pending, AlertQueues
    <3>4. c = Head(r.todo) => received[<<k, c>>] > 0 \/ Sending(dispatch, <<k, c>>)
      BY <2>1, <2>3, <3>1 DEF AlertsInv
    <3> QED BY <1>1, <3>2, <3>3, <3>4 DEF Sending
  <2> HIDE DEF t, r
  <2> QED BY <1>1, <1>3, <1>4, <2>1, <2>2, <2>3, ExecutionMoves DEF r
<1>6. ASSUME NEW pc \in {"claim", "send"}, r.key[1] \in Alerts => pc = "claim", DispatchStep(d, pc)
      PROVE  AlertsInv'
  <2> DEFINE t == [r EXCEPT !.pc = pc]
  <2>1. dispatch' = [dispatch EXCEPT ![d] = t]
    BY <1>6 DEF DispatchStep
  <2>2. DispatchShaped(t)
    BY <1>1 DEF DispatchShaped
  <2>3. t.pc = pc /\ t.key = r.key /\ t.todo = r.todo
    BY <1>1 DEF DispatchShaped
  <2> HIDE DEF t
  <2>4. AlertShaped(t)
    BY <1>1, <2>3 DEF AlertShaped
  <2>5. \A k, c : Pending(r, k, c) => Pending(t, k, c)
    BY <2>3 DEF Pending
  <2> QED BY <1>1, <1>3, <1>4, <2>1, <2>2, <2>4, <2>5, ExecutionMoves
<1> QED BY <1>5, <1>6 DEF CheckLog, IsAlert

LEMMA ClaimMoves ==
  ASSUME AlertsInv, NEW d \in Dispatches, Claim(d) PROVE AlertsInv'
<1> DEFINE r == dispatch[d]
           m == <<r.key, Head(r.todo)>>
           t == [r EXCEPT !.pc = "send"]
<1>1. /\ DispatchShaped(r) /\ AlertShaped(r) /\ r.pc = "claim" /\ r.pc # "idle"
      /\ UNCHANGED <<stock, received, crossed>>
  BY DEF Claim, AlertsInv
<1>2. m \in MessageKeys \X ChannelNames
  BY <1>1, MessageOf
<1>3. logged' = [logged EXCEPT ![m] = @ + 1] /\ dispatch' = [dispatch EXCEPT ![d] = t]
  BY DEF Claim, Message, DispatchStep
<1>4. /\ Counts(logged') /\ Counts(received') /\ crossed' \in [MessageKeys -> Nat]
      /\ stock' \in 0..MaxStock
  BY <1>1, <1>2, <1>3 DEF AlertsInv, Counts
<1>5. DispatchShaped(t)
  BY <1>1 DEF DispatchShaped
<1>6. t.pc = "send" /\ t.key = r.key /\ t.todo = r.todo
  BY <1>1 DEF DispatchShaped
<1> HIDE DEF t
<1>7. AlertShaped(t)
  BY <1>1, <1>6 DEF AlertShaped
<1>8. \A k, c : Pending(r, k, c) => Pending(t, k, c)
  BY <1>6 DEF Pending
<1>9. \A k, c : ~Sends(r, <<k, c>>)
  BY <1>1 DEF Sends
<1>10. Sends(t, m)
  BY <1>6 DEF Sends
<1>11. \A n \in MessageKeys \X ChannelNames : logged'[n] = logged[n] \/ n = m
  BY <1>3 DEF AlertsInv, Counts
<1>12. \A k \in MessageKeys, c \in AlertChannels : <<k, c>> \in MessageKeys \X ChannelNames
  BY DEF AlertChannels, ChannelNames
<1> HIDE DEF m
<1>13. \A k \in MessageKeys, c \in AlertChannels :
         logged'[<<k, c>>] > 0 => logged[<<k, c>>] > 0 \/ Sends(t, <<k, c>>)
  BY <1>10, <1>11, <1>12
<1> HIDE DEF r
<1> QED BY <1>1, <1>3, <1>4, <1>5, <1>7, <1>8, <1>9, <1>13, ExecutionMoves DEF r

\* An event's execution touches no alert.
LEMMA EventExecutionMoves ==
  ASSUME AlertsInv, NEW d \in Dispatches, dispatch[d].pc # "idle", dispatch[d].key[1] \notin Alerts,
         NEW t, DispatchShaped(t), AlertShaped(t), dispatch' = [dispatch EXCEPT ![d] = t],
         Counts(logged'), Counts(received'), UNCHANGED <<stock, crossed>>,
         \A n \in MessageKeys \X ChannelNames : received[n] > 0 => received'[n] > 0,
         \A n \in MessageKeys \X ChannelNames : n[1] # dispatch[d].key => logged'[n] = logged[n]
  PROVE  AlertsInv'
<1>1. \A k, c : k[1] \in Alerts => ~Pending(dispatch[d], k, c) /\ ~Sends(dispatch[d], <<k, c>>)
  BY DEF Pending, Sends
<1>2. \A k \in MessageKeys, c \in AlertChannels :
        k[1] \in Alerts /\ logged'[<<k, c>>] > 0 => logged[<<k, c>>] > 0
  <2>1. \A k \in MessageKeys, c \in AlertChannels :
          <<k, c>> \in MessageKeys \X ChannelNames /\ <<k, c>>[1] = k
    BY DEF AlertChannels, ChannelNames
  <2> QED BY <2>1
<1>3. crossed' \in [MessageKeys -> Nat] /\ stock' \in 0..MaxStock
  BY DEF AlertsInv
<1> QED BY <1>1, <1>2, <1>3, ExecutionMoves

\* The head of an alert's queue is one of its channels.
LEMMA AlertHeads ==
  ASSUME NEW r, AlertShaped(r), r.pc # "idle", r.key[1] \in Alerts
  PROVE  r.pc # "log" /\ Head(r.todo) \in AlertChannels
BY DEF AlertShaped, AlertQueues, AlertChannels

\* An execution goes on to write its message into the log.
LEMMA ToLogShaped ==
  ASSUME NEW r, DispatchShaped(r), r.pc # "idle", r.key[1] \notin Alerts
  PROVE  LET t == [r EXCEPT !.pc = "log"] IN DispatchShaped(t) /\ AlertShaped(t)
<1> DEFINE t == [r EXCEPT !.pc = "log"]
<1>1. DispatchShaped(t) /\ t.key = r.key
  BY DEF DispatchShaped
<1>2. AlertShaped(t)
  BY <1>1 DEF AlertShaped
<1> QED BY <1>1, <1>2

LEMMA SendMoves ==
  ASSUME AlertsInv, NEW d \in Dispatches, Send(d) PROVE AlertsInv'
<1> DEFINE r == dispatch[d]
           m == <<r.key, Head(r.todo)>>
<1>1. /\ DispatchShaped(r) /\ AlertShaped(r) /\ r.pc = "send" /\ r.pc # "idle"
      /\ received' = [received EXCEPT ![m] = @ + 1] /\ UNCHANGED <<stock, crossed>>
  BY DEF Send, AlertsInv, Message
<1>2. m \in MessageKeys \X ChannelNames /\ m[1] = r.key /\ m[2] = Head(r.todo)
  BY <1>1, MessageOf
<1> HIDE DEF m
<1>3. /\ Counts(received') /\ received'[m] > 0
      /\ \A n \in MessageKeys \X ChannelNames : received[n] > 0 => received'[n] > 0
  BY <1>1, <1>2 DEF AlertsInv, Counts
<1>4. ASSUME logged' = [logged EXCEPT ![m] = @ + 1], NextChannel(d) PROVE AlertsInv'
  <2> DEFINE t == AfterChannel(r)
  <2>1. DispatchShaped(t) /\ AlertShaped(t) /\ dispatch' = [dispatch EXCEPT ![d] = t]
    BY <1>1, <1>4, NextShaped DEF NextChannel
  <2>2. Counts(logged') /\ \A n \in MessageKeys \X ChannelNames : logged'[n] = logged[n] \/ n = m
    BY <1>2, <1>4 DEF AlertsInv, Counts
  <2>3. \A k \in MessageKeys, c \in AlertChannels : <<k, c>> \in MessageKeys \X ChannelNames
    BY DEF AlertChannels, ChannelNames
  <2>4. ASSUME NEW k \in MessageKeys, NEW c \in AlertChannels, k[1] \in Alerts, Pending(r, k, c)
        PROVE  Pending(t, k, c) \/ received'[<<k, c>>] > 0
    <3>1. r.key = k
      BY <2>4 DEF Pending
    <3>2. Pending(t, k, c) \/ c = Head(r.todo)
      BY <1>1, <2>4, <3>1, NextShaped
    <3> QED BY <1>3, <3>1, <3>2 DEF m
  <2>5. ASSUME NEW k \in MessageKeys, NEW c \in AlertChannels, Sends(r, <<k, c>>)
        PROVE  received'[<<k, c>>] > 0
    BY <1>3, <2>5 DEF Sends, m
  <2>6. ASSUME NEW k \in MessageKeys, NEW c \in AlertChannels, logged'[<<k, c>>] > 0
        PROVE  logged[<<k, c>>] > 0 \/ received'[<<k, c>>] > 0
    BY <1>3, <2>2, <2>3, <2>6
  <2>7. crossed' \in [MessageKeys -> Nat] /\ stock' \in 0..MaxStock
    BY <1>1 DEF AlertsInv
  <2> HIDE DEF t, r
  <2> QED BY <1>1, <1>3, <2>1, <2>2, <2>4, <2>5, <2>6, <2>7, ExecutionMoves DEF r
<1>5. ASSUME Head(r.todo) \notin AlertChannels, UNCHANGED logged, DispatchStep(d, "log") PROVE AlertsInv'
  <2> DEFINE t == [r EXCEPT !.pc = "log"]
  <2>1. r.key[1] \notin Alerts
    BY <1>1, <1>5, AlertHeads
  <2>2. DispatchShaped(t) /\ AlertShaped(t)
    BY <1>1, <2>1, ToLogShaped
  <2>3. dispatch' = [dispatch EXCEPT ![d] = t]
    BY <1>5 DEF DispatchStep
  <2>4. Counts(logged')
    BY <1>5 DEF AlertsInv
  <2> HIDE DEF t
  <2> QED BY <1>1, <1>3, <1>5, <2>1, <2>2, <2>3, <2>4, EventExecutionMoves
<1>6. Message(d) = m /\ Message(d)[2] = Head(r.todo)
  BY <1>2 DEF Message, m
<1>7. CASE Head(r.todo) \in AlertChannels
  <2>1. logged' = [logged EXCEPT ![m] = @ + 1] /\ NextChannel(d)
    BY <1>6, <1>7 DEF Send, AlertChannels
  <2> QED BY <1>4, <2>1
<1>8. CASE Head(r.todo) \notin AlertChannels
  <2>1. UNCHANGED logged /\ DispatchStep(d, "log")
    BY <1>6, <1>8 DEF Send, AlertChannels
  <2> QED BY <1>5, <1>8, <2>1
<1> QED BY <1>7, <1>8

LEMMA LoggingMoves ==
  ASSUME AlertsInv, NEW d \in Dispatches, MailFails(d) \/ LogMessage(d) PROVE AlertsInv'
<1> DEFINE r == dispatch[d]
           m == <<r.key, Head(r.todo)>>
<1>1. /\ DispatchShaped(r) /\ AlertShaped(r) /\ r.pc # "idle"
      /\ Counts(logged) /\ Counts(received)
      /\ UNCHANGED <<stock, received, crossed>>
  BY DEF MailFails, LogMessage, AlertsInv
<1>2. m \in MessageKeys \X ChannelNames /\ m[1] = r.key /\ m[2] = Head(r.todo) /\ Message(d) = m
  BY <1>1, MessageOf DEF Message
<1>3. CASE MailFails(d)
  <2> DEFINE t == [r EXCEPT !.pc = "log"]
  <2>1. r.key[1] \notin Alerts
    BY <1>1, <1>2, <1>3, AlertHeads DEF MailFails, AlertChannels
  <2>2. DispatchShaped(t) /\ AlertShaped(t)
    BY <1>1, <2>1, ToLogShaped
  <2>3. dispatch' = [dispatch EXCEPT ![d] = t] /\ logged' = logged
    BY <1>3 DEF MailFails, DispatchStep
  <2> HIDE DEF t
  <2> QED BY <1>1, <2>1, <2>2, <2>3, EventExecutionMoves
<1>4. CASE LogMessage(d)
  <2> DEFINE t == AfterChannel(r)
  <2>1. r.key[1] \notin Alerts
    BY <1>1, <1>4, AlertHeads DEF LogMessage
  <2>2. DispatchShaped(t) /\ AlertShaped(t)
    BY <1>1, NextShaped
  <2>3. dispatch' = [dispatch EXCEPT ![d] = t] /\ logged' = [logged EXCEPT ![m] = @ + 1]
    BY <1>2, <1>4 DEF LogMessage, NextChannel
  <2> HIDE DEF t, m
  <2>4. Counts(logged') /\ \A n \in MessageKeys \X ChannelNames : n[1] # r.key => logged'[n] = logged[n]
    BY <1>1, <1>2, <2>3 DEF Counts
  <2> QED BY <1>1, <2>1, <2>2, <2>3, <2>4, EventExecutionMoves
<1> QED BY <1>3, <1>4

LEMMA NotifyStepMoves ==
  ASSUME "crash" \notin NotifyFaults, AlertsInv, NotifyNext PROVE AlertsInv'
<1>1. ASSUME NEW d \in Dispatches,
             \/ ChangeStock(d) \/ CheckLog(d) \/ Claim(d) \/ Send(d) \/ MailFails(d) \/ LogMessage(d)
      PROVE  AlertsInv'
  BY <1>1, ChangeStockMoves, CheckLogMoves, ClaimMoves, SendMoves, LoggingMoves
<1>2. ASSUME NEW d \in Dispatches,
             \/ \E e \in Events \ Range(StatusEvents) : SendEventNotification(d, e)
             \/ \E old, new \in OrderStatuses : NotifyOrderStatusChange(d, old, new)
      PROVE  AlertsInv'
  BY <1>2, EventMoves
<1>3. ASSUME NEW d \in Dispatches PROVE ~NotifyCrash(d)
  BY DEF NotifyCrash
<1> QED BY <1>1, <1>2, <1>3 DEF NotifyNext

\* However many executions overlap and in whatever order, as long as none dies:
\* once they are done the admin was told, by SMS and by WhatsApp, of every level
\* that stock fell to.  Two that find no log row both tell, and one that finds a
\* row leaves the telling to the one that made it.
THEOREM AlertsArrive ==
  ASSUME "crash" \notin NotifyFaults PROVE MCSpec => []NoAlertIsLostAtOnce
<1> DEFINE Inv == area = "alerts" => AlertsInv
<1>1. MCInit => Inv
  <2> SUFFICES ASSUME NotifyInit PROVE AlertsInv
    BY DEF MCInit
  <2>1. DispatchShaped(NoDispatch) /\ AlertShaped(NoDispatch)
    BY DEF DispatchShaped, AlertShaped, NoDispatch
  <2>2. \A key \in MessageKeys, c \in AlertChannels : <<key, c>> \in MessageKeys \X ChannelNames
    BY DEF AlertChannels, ChannelNames
  <2> QED BY <2>1, <2>2, NotificationsAssumption DEF NotifyInit, AlertsInv, Counts
<1>2. Inv /\ [MCNext]_<<allVars, area>> => Inv'
  <2> SUFFICES ASSUME Inv, [MCNext]_<<allVars, area>>, area' = "alerts" PROVE AlertsInv'
    OBVIOUS
  <2>1. CASE MCNext
    <3>1. area = "alerts" /\ NotifyNext
      BY <2>1 DEF MCNext
    <3> QED BY <3>1, NotifyStepMoves
  <2>2. CASE UNCHANGED <<allVars, area>>
    BY <2>2 DEF allVars, notifyVars, AlertsInv, Underway, Sending
  <2> QED BY <2>1, <2>2
<1>3. Inv => NoAlertIsLostAtOnce
  <2> SUFFICES ASSUME AlertsInv, AllDispatched, NEW key \in MessageKeys, NEW c \in AlertChannels,
                      crossed[key] > 0
               PROVE  received[<<key, c>>] > 0
    BY DEF NoAlertIsLostAtOnce, NoAlertIsLost, AlertChannels
  <2>1. ~Underway(dispatch, key, c)
    BY DEF Underway, Pending, AllDispatched
  <2> QED BY <2>1 DEF AlertsInv
<1> QED BY <1>1, <1>2, <1>3, PTL DEF MCSpec

-----------------------------------------------------------------------------
(* Messages in turn: one execution, which looks into the log before each    *)
(* channel and writes the log before it looks for the next.                 *)

MessageAt(r) == <<r.key, Head(r.todo)>>

\* What went out is in the log, or is about to be; what is going out has not.
ToldInv(d) ==
  /\ Counts(logged) /\ Counts(received)
  /\ dispatch = [x \in {d} |-> dispatch[x]]
  /\ DispatchShaped(dispatch[d])
  /\ \A m \in MessageKeys \X ChannelNames : received[m] <= 1
  /\ \A m \in MessageKeys \X ChannelNames :
       received[m] > 0 => logged[m] > 0 \/ (dispatch[d].pc = "log" /\ m = MessageAt(dispatch[d]))
  /\ dispatch[d].pc \in {"claim", "send"} => received[MessageAt(dispatch[d])] = 0

\* The instance in turn is of the same messages.
LEMMA TellingAlike ==
  /\ Telling!MessageKeys = MessageKeys /\ Telling!ChannelNames = ChannelNames
  /\ Telling!NoDispatch = NoDispatch
  /\ \A kind : Telling!Channels(kind) = Channels(kind)
  /\ \A r : Telling!AfterChannel(r) = AfterChannel(r)
<1>1. Telling!MessageKeys = MessageKeys /\ Telling!ChannelNames = ChannelNames
  BY DEF Telling!MessageKeys, MessageKeys, Telling!ChannelNames, ChannelNames, Telling!Alerts, Alerts
<1>2. Telling!NoDispatch = NoDispatch
  BY DEF Telling!NoDispatch, NoDispatch, Telling!NoMessage, NoMessage
<1>3. \A kind : Telling!Channels(kind) = Channels(kind)
  BY DEF Telling!Channels, Channels, Telling!Everywhere, Everywhere, Telling!NoSms, NoSms,
         Telling!NoMail, NoMail
<1>4. \A r : Telling!AfterChannel(r) = AfterChannel(r)
  BY <1>2 DEF Telling!AfterChannel, AfterChannel
<1> QED BY <1>1, <1>2, <1>3, <1>4

\* A step that tells nothing, of an execution that goes on as `t`.
LEMMA TellsNothing ==
  ASSUME NEW d, ToldInv(d), NEW t, DispatchShaped(t), dispatch' = [dispatch EXCEPT ![d] = t],
         Counts(logged'), received' = received,
         \A m \in MessageKeys \X ChannelNames : logged[m] > 0 => logged'[m] > 0,
         dispatch[d].pc = "log" => logged'[MessageAt(dispatch[d])] > 0,
         t.pc \in {"claim", "send"} => received[MessageAt(t)] = 0
  PROVE  ToldInv(d)'
<1>1. dispatch'[d] = t /\ dispatch' = [x \in {d} |-> dispatch'[x]]
  BY DEF ToldInv
<1>2. \A m \in MessageKeys \X ChannelNames : received'[m] > 0 => logged'[m] > 0
  BY DEF ToldInv
<1> QED BY <1>1, <1>2 DEF ToldInv

LEMMA TellQueueMoves ==
  ASSUME NEW d, ToldInv(d), NEW key \in MessageKeys, Telling!Queue(d, key),
         UNCHANGED <<logged, received>>
  PROVE  ToldInv(d)'
<1> DEFINE t == [pc |-> "check", key |-> key, todo |-> Channels(key[1])]
<1>1. dispatch' = [dispatch EXCEPT ![d] = t] /\ dispatch[d].pc = "idle"
  BY TellingAlike DEF Telling!Queue
<1>2. DispatchShaped(t) /\ t.pc = "check"
  BY ChannelLists DEF DispatchShaped
<1> HIDE DEF t
<1>3. Counts(logged')
  BY DEF ToldInv
<1> QED BY <1>1, <1>2, <1>3, TellsNothing

LEMMA TellCheckMoves ==
  ASSUME NEW d, ToldInv(d), Telling!CheckLog(d) PROVE ToldInv(d)'
<1> DEFINE r == dispatch[d]
<1>1. /\ DispatchShaped(r) /\ r.pc = "check" /\ r.pc # "idle" /\ Counts(logged)
      /\ UNCHANGED <<logged, received>>
  BY DEF Telling!CheckLog, ToldInv
<1>2. MessageAt(r) \in MessageKeys \X ChannelNames
  BY <1>1, MessageOf DEF MessageAt
<1>3. CASE Telling!NextChannel(d)
  <2> DEFINE t == AfterChannel(r)
  <2>1. dispatch' = [dispatch EXCEPT ![d] = t]
    BY <1>3, TellingAlike DEF Telling!NextChannel
  <2>2. DispatchShaped(t) /\ t.pc \notin {"claim", "send"}
    BY <1>1, AfterShaped
  <2> HIDE DEF t
  <2> QED BY <1>1, <2>1, <2>2, TellsNothing
<1>4. ASSUME NEW pc \in {"claim", "send"}, logged[MessageAt(r)] = 0, Telling!DispatchStep(d, pc)
      PROVE  ToldInv(d)'
  <2> DEFINE t == [r EXCEPT !.pc = pc]
  <2>1. dispatch' = [dispatch EXCEPT ![d] = t]
    BY <1>4 DEF Telling!DispatchStep
  <2>2. DispatchShaped(t) /\ MessageAt(t) = MessageAt(r)
    BY <1>1 DEF DispatchShaped, MessageAt
  <2>3. received[MessageAt(r)] = 0
    BY <1>1, <1>2, <1>4 DEF ToldInv, Counts
  <2> HIDE DEF t
  <2> QED BY <1>1, <2>1, <2>2, <2>3, TellsNothing
<1>5. ~Telling!AlreadyDispatched(d) => logged[MessageAt(r)] = 0
  BY <1>1, <1>2 DEF Telling!AlreadyDispatched, Telling!Message, MessageAt, Counts
<1> QED BY <1>3, <1>4, <1>5 DEF Telling!CheckLog

\* One more row of the log.
LEMMA LoggedMore ==
  ASSUME NEW m \in MessageKeys \X ChannelNames, Counts(logged), logged' = [logged EXCEPT ![m] = @ + 1]
  PROVE  /\ Counts(logged') /\ logged'[m] > 0
         /\ \A n \in MessageKeys \X ChannelNames : logged[n] > 0 => logged'[n] > 0
BY DEF Counts

LEMMA TellClaimMoves ==
  ASSUME NEW d, ToldInv(d), Telling!Claim(d) PROVE ToldInv(d)'
<1> DEFINE r == dispatch[d]
           t == [r EXCEPT !.pc = "send"]
<1>1. /\ DispatchShaped(r) /\ r.pc = "claim" /\ r.pc # "idle" /\ Counts(logged)
      /\ received' = received /\ received[MessageAt(r)] = 0
  BY DEF Telling!Claim, ToldInv
<1>2. MessageAt(r) \in MessageKeys \X ChannelNames
  BY <1>1, MessageOf DEF MessageAt
<1>3. logged' = [logged EXCEPT ![MessageAt(r)] = @ + 1] /\ dispatch' = [dispatch EXCEPT ![d] = t]
  BY DEF Telling!Claim, Telling!Message, Telling!DispatchStep, MessageAt
<1>4. DispatchShaped(t) /\ MessageAt(t) = MessageAt(r)
  BY <1>1 DEF DispatchShaped, MessageAt
<1> HIDE DEF t
<1> QED BY <1>1, <1>2, <1>3, <1>4, LoggedMore, TellsNothing

LEMMA TellSendMoves ==
  ASSUME NEW d, ToldInv(d), Telling!Send(d) PROVE ToldInv(d)'
<1> DEFINE r == dispatch[d]
           m == MessageAt(r)
<1>1. /\ DispatchShaped(r) /\ r.pc = "send" /\ r.pc # "idle" /\ Counts(logged) /\ received[m] = 0
      /\ received' = [received EXCEPT ![m] = @ + 1]
  BY DEF Telling!Send, Telling!Message, ToldInv, MessageAt
<1>2. m \in MessageKeys \X ChannelNames
  BY <1>1, MessageOf DEF MessageAt
<1> HIDE DEF m
<1>3. /\ Counts(received') /\ \A n \in MessageKeys \X ChannelNames : received'[n] <= 1
      /\ \A n \in MessageKeys \X ChannelNames : received'[n] > 0 => received[n] > 0 \/ n = m
  BY <1>1, <1>2 DEF ToldInv, Counts
<1>4. CASE logged' = [logged EXCEPT ![m] = @ + 1] /\ Telling!NextChannel(d)
  <2> DEFINE t == AfterChannel(r)
  <2>1. dispatch' = [dispatch EXCEPT ![d] = t]
    BY <1>4, TellingAlike DEF Telling!NextChannel
  <2>2. DispatchShaped(t) /\ t.pc \notin {"claim", "send"}
    BY <1>1, AfterShaped
  <2> HIDE DEF t
  <2>3. dispatch'[d] = t /\ dispatch' = [x \in {d} |-> dispatch'[x]]
    BY <2>1 DEF ToldInv
  <2>4. Counts(logged') /\ \A n \in MessageKeys \X ChannelNames : received'[n] > 0 => logged'[n] > 0
    BY <1>1, <1>2, <1>3, <1>4, LoggedMore DEF ToldInv
  <2> QED BY <1>3, <2>2, <2>3, <2>4 DEF ToldInv
<1>5. CASE UNCHANGED logged /\ Telling!DispatchStep(d, "log")
  <2> DEFINE t == [r EXCEPT !.pc = "log"]
  <2>1. dispatch' = [dispatch EXCEPT ![d] = t]
    BY <1>5 DEF Telling!DispatchStep
  <2>2. DispatchShaped(t) /\ MessageAt(t) = m /\ t.pc = "log"
    BY <1>1 DEF DispatchShaped, MessageAt, m
  <2> HIDE DEF t
  <2>3. dispatch'[d] = t /\ dispatch' = [x \in {d} |-> dispatch'[x]]
    BY <2>1 DEF ToldInv
  <2>4. \A n \in MessageKeys \X ChannelNames : received'[n] > 0 => logged'[n] > 0 \/ n = m
    BY <1>1, <1>3, <1>5 DEF ToldInv
  <2>5. Counts(logged')
    BY <1>1, <1>5
  <2> QED BY <1>3, <2>2, <2>3, <2>4, <2>5 DEF ToldInv
<1>6. Telling!Message(d) = m
  BY DEF Telling!Message, MessageAt, m
<1> QED BY <1>4, <1>5, <1>6 DEF Telling!Send

LEMMA TellLoggingMoves ==
  ASSUME NEW d, ToldInv(d), Telling!MailFails(d) \/ Telling!LogMessage(d) PROVE ToldInv(d)'
<1> DEFINE r == dispatch[d]
<1>1. /\ DispatchShaped(r) /\ r.pc # "idle" /\ Counts(logged) /\ received' = received
  BY DEF Telling!MailFails, Telling!LogMessage, ToldInv
<1>2. MessageAt(r) \in MessageKeys \X ChannelNames
  BY <1>1, MessageOf DEF MessageAt
<1>3. CASE Telling!MailFails(d)
  <2> DEFINE t == [r EXCEPT !.pc = "log"]
  <2>1. dispatch' = [dispatch EXCEPT ![d] = t] /\ logged' = logged /\ r.pc # "log"
    BY <1>3 DEF Telling!MailFails, Telling!DispatchStep
  <2>2. DispatchShaped(t) /\ t.pc = "log"
    BY <1>1 DEF DispatchShaped
  <2> HIDE DEF t
  <2> QED BY <1>1, <2>1, <2>2, TellsNothing
<1>4. CASE Telling!LogMessage(d)
  <2> DEFINE t == AfterChannel(r)
  <2>1. /\ dispatch' = [dispatch EXCEPT ![d] = t]
        /\ logged' = [logged EXCEPT ![MessageAt(r)] = @ + 1]
    BY <1>4, TellingAlike DEF Telling!LogMessage, Telling!NextChannel, Telling!Message, MessageAt
  <2>2. DispatchShaped(t) /\ t.pc \notin {"claim", "send"}
    BY <1>1, AfterShaped
  <2> HIDE DEF t
  <2> QED BY <1>1, <1>2, <2>1, <2>2, LoggedMore, TellsNothing
<1> QED BY <1>3, <1>4

LEMMA TellReportMoves ==
  ASSUME NEW d, ToldInv(d),
         \/ \E e \in Events : Telling!SendEventNotification(d, e)
         \/ \E old, new \in Telling!OrderStatuses : Telling!NotifyOrderStatusChange(d, old, new)
         \/ Telling!ChangeStock(d)
  PROVE  ToldInv(d)'
<1>1. ASSUME NEW e \in Events, Telling!Queue(d, <<e, 0>>), UNCHANGED <<logged, received>>
      PROVE  ToldInv(d)'
  <2>1. <<e, 0>> \in MessageKeys
    BY DEF MessageKeys
  <2> QED BY <1>1, <2>1, TellQueueMoves
<1>2. ASSUME NEW new \in 0..MaxStock, NEW kind \in Telling!StockEvent(stock, new),
             Telling!Queue(d, <<kind, new>>), UNCHANGED <<logged, received>>
      PROVE  ToldInv(d)'
  <2>1. kind = "ADMIN_LOW_STOCK" \/ (kind = "ADMIN_OUT_OF_STOCK" /\ new = 0)
    BY <1>2 DEF Telling!StockEvent
  <2>2. <<kind, new>> \in MessageKeys
    BY <2>1, NotificationsAssumption DEF MessageKeys, Alerts
  <2> QED BY <1>2, <2>2, TellQueueMoves
<1>3. ASSUME UNCHANGED <<dispatch, logged, received>> PROVE ToldInv(d)'
  BY <1>3 DEF ToldInv, MessageAt
<1> QED BY <1>1, <1>2, <1>3
        DEF Telling!SendEventNotification, Telling!NotifyOrderStatusChange, Telling!ChangeStock

LEMMA TellStepMoves ==
  ASSUME NEW d, OneDispatch = {d}, ToldInv(d), Telling!NotifyNext PROVE ToldInv(d)'
<1>1. ~Telling!NotifyCrash(d)
  BY DEF Telling!NotifyCrash
<1> QED BY <1>1, TellReportMoves, TellCheckMoves, TellClaimMoves, TellSendMoves, TellLoggingMoves
        DEF Telling!NotifyNext

\* One execution at a time, none of which dies: however often an order's event or
\* a level of stock is reported, its message goes out once on each channel.
THEOREM EventsAreToldOnce ==
  ASSUME NEW d, OneDispatch = {d} PROVE MCSpec => []ToldOnceInTurn
<1> DEFINE Inv == area = "telling" => ToldInv(d)
<1>1. MCInit => Inv
  <2> SUFFICES ASSUME Telling!NotifyInit PROVE ToldInv(d)
    BY DEF MCInit
  <2>1. DispatchShaped(NoDispatch) /\ NoDispatch.pc = "idle"
    BY DEF DispatchShaped, NoDispatch
  <2> QED BY <2>1, TellingAlike DEF Telling!NotifyInit, ToldInv, Counts
<1>2. Inv /\ [MCNext]_<<allVars, area>> => Inv'
  <2> SUFFICES ASSUME Inv, [MCNext]_<<allVars, area>>, area' = "telling" PROVE ToldInv(d)'
    OBVIOUS
  <2>1. CASE MCNext
    <3>1. area = "telling" /\ Telling!NotifyNext
      BY <2>1 DEF MCNext
    <3> QED BY <3>1, TellStepMoves
  <2>2. CASE UNCHANGED <<allVars, area>>
    BY <2>2 DEF allVars, notifyVars, ToldInv, MessageAt
  <2> QED BY <2>1, <2>2
<1>3. Inv => ToldOnceInTurn
  BY DEF ToldOnceInTurn, Telling!ToldOnce, ToldInv, Counts
<1> QED BY <1>1, <1>2, <1>3, PTL DEF MCSpec

-----------------------------------------------------------------------------
(* A guest who logs in.  The hashes are read once and then written field by  *)
(* field; the invariant says that the fields still to be written, and those  *)
(* that were, hold what the guest's cart holds.                              *)

\* The guest's row, once it is the customer's.
OwnRow == [GuestRow EXCEPT !.owner = "user"]

\* What is written, or will be, is at least what the guest had.
Covers(basket, hashes) ==
  \A i \in Items : Capped(hashes["guest"][i]) <= IF basket[i] > 0 THEN basket[i] ELSE hashes["user"][i]

LoginShaped(r) ==
  r \in [pc: {"idle", "add_set", "view", "warm", "merge_set", "merge_db", "merge_rows"},
         owner: Owners, item: Items, asked: {r.asked}, quantity: Nat, rows: {r.rows},
         basket: Contents, shown: {r.shown}, order: {r.order}]

LoginFits(r, hashes, rows) ==
  /\ LoginShaped(r)
  /\ r.pc = "merge_rows" => rows = {GuestRow} /\ r.rows = {GuestRow}
  /\ r.pc = "merge_set" => Covers(r.basket, hashes)

MergeInv(q) ==
  /\ redisUp = TRUE
  /\ cached \in [Owners -> Contents]
  /\ saved \in {{}, {GuestRow}, {OwnRow}}
  /\ cartReq = [x \in {q} |-> cartReq[x]]
  /\ moving[q].pc = "idle"
  /\ LoginFits(cartReq[q], cached, saved)

LEMMA CappedIs ==
  ASSUME NEW n \in Nat
  PROVE  Capped(n) = IF n <= MaxQuantity THEN n ELSE MaxQuantity
<1>1. MaxQuantity \in Nat
  BY CartAssumption
<1>2. Capped(n) \in {MaxQuantity, n} /\ \A y \in {MaxQuantity, n} : Capped(n) <= y
  <2> DEFINE least(x) == x \in {MaxQuantity, n} /\ \A y \in {MaxQuantity, n} : x <= y
  <2>1. \E x : least(x)
    <3>1. CASE n <= MaxQuantity
      BY <1>1, <3>1
    <3>2. CASE ~(n <= MaxQuantity)
      BY <1>1, <3>2
    <3> QED BY <3>1, <3>2
  <2> QED BY <2>1 DEF Capped, Min
<1> QED BY <1>1, <1>2

\* The instance works on the same carts.
LEMMA MergingAlike ==
  /\ Merging!Empty = Empty /\ Merging!NoCartRequest = NoCartRequest
  /\ \A n : Merging!Capped(n) = Capped(n)
  /\ \A o : Merging!RowsOf(o) = RowsOf(o)
  /\ redisUp = TRUE => \A o : Merging!Hash(o) = cached[o]
<1>1. Merging!Empty = Empty
  BY DEF Merging!Empty, Empty
<1>2. Merging!NoCartRequest = NoCartRequest
  BY <1>1 DEF Merging!NoCartRequest, NoCartRequest, Merging!NoChoice, NoChoice
<1>3. \A n : Merging!Capped(n) = Capped(n)
  BY DEF Merging!Capped, Capped, Merging!Min, Min
<1>4. \A o : Merging!RowsOf(o) = RowsOf(o)
  BY DEF Merging!RowsOf, RowsOf
<1>5. redisUp = TRUE => \A o : Merging!Hash(o) = cached[o]
  BY DEF Merging!Hash
<1> QED BY <1>1, <1>2, <1>3, <1>4, <1>5

LEMMA NoLogin ==
  ASSUME NEW hashes, NEW rows PROVE LoginFits(NoCartRequest, hashes, rows)
BY CartAssumption DEF LoginFits, LoginShaped, NoCartRequest, Owners, Contents, Empty

\* The request goes on as `t`.
LEMMA LoginMoves ==
  ASSUME NEW q, MergeInv(q), NEW t, cartReq' = [cartReq EXCEPT ![q] = t],
         UNCHANGED <<redisUp, moving>>, cached' \in [Owners -> Contents],
         saved' \in {{}, {GuestRow}, {OwnRow}}, LoginFits(t, cached', saved')
  PROVE  MergeInv(q)'
<1>1. cartReq'[q] = t /\ cartReq' = [x \in {q} |-> cartReq'[x]]
  BY DEF MergeInv
<1> QED BY <1>1 DEF MergeInv

LEMMA LoginEnds ==
  ASSUME NEW q, MergeInv(q), Merging!CartEnd(q), UNCHANGED <<redisUp, saved, moving>>,
         cached' \in [Owners -> Contents]
  PROVE  MergeInv(q)'
<1>1. cartReq' = [cartReq EXCEPT ![q] = NoCartRequest] /\ saved' \in {{}, {GuestRow}, {OwnRow}}
  BY MergingAlike DEF Merging!CartEnd, MergeInv
<1> QED BY <1>1, NoLogin, LoginMoves

LEMMA LoginWrites ==
  ASSUME NEW q, MergeInv(q), NEW o \in Owners, NEW i \in Items, NEW n \in Nat,
         Merging!SetField(o, i, n)
  PROVE  /\ cached' \in [Owners -> Contents]
         /\ cached' = [cached EXCEPT ![o][i] = n]
<1>1. cached' = [cached EXCEPT ![o][i] = n] /\ cached \in [Owners -> Contents]
  BY DEF Merging!SetField, MergeInv
<1> QED BY <1>1 DEF Contents

LEMMA LoginDrops ==
  ASSUME NEW q, MergeInv(q), NEW o \in Owners, NEW S, Merging!DropFields(o, S)
  PROVE  cached' \in [Owners -> Contents]
<1>1. /\ cached' = [cached EXCEPT ![o] = [i \in Items |-> IF i \in S THEN 0 ELSE @[i]]]
      /\ cached \in [Owners -> Contents]
  BY DEF Merging!DropFields, MergeInv
<1>2. [i \in Items |-> IF i \in S THEN 0 ELSE cached[o][i]] \in Contents
  BY <1>1 DEF Contents
<1> QED BY <1>1, <1>2

LEMMA LoginAdds ==
  ASSUME NEW q, MergeInv(q), UNCHANGED moving,
         \/ \E o \in Owners, i \in Items, n \in Amounts : Merging!AddToCart(q, o, i, n)
         \/ Merging!AddSet(q)
  PROVE  MergeInv(q)'
<1>1. cached \in [Owners -> Contents] /\ redisUp = TRUE /\ saved \in {{}, {GuestRow}, {OwnRow}}
  BY DEF MergeInv
<1>2. ASSUME NEW o \in Owners, NEW i \in Items, NEW n \in Amounts, Merging!AddToCart(q, o, i, n)
      PROVE  MergeInv(q)'
  <2> DEFINE want == cached[o][i] + n
             t == [NoCartRequest EXCEPT !.pc = "add_set", !.owner = o, !.item = i, !.asked = n,
                                        !.quantity = want]
  <2>1. want \in Nat
    BY <1>1, AmountsAreNumbers DEF Contents
  <2>2. cartReq' = [cartReq EXCEPT ![q] = t] /\ UNCHANGED <<redisUp, cached, saved>>
    BY <1>1, <1>2, MergingAlike DEF Merging!AddToCart, Merging!BeginCart
  <2>3. LoginFits(t, cached, saved)
    BY <2>1, NoLogin DEF LoginFits, LoginShaped, NoCartRequest
  <2> HIDE DEF t
  <2> QED BY <1>1, <2>2, <2>3, LoginMoves
<1>3. CASE Merging!AddSet(q)
  <2> DEFINE r == cartReq[q]
             t == [r EXCEPT !.pc = "view"]
  <2>1. r.owner \in Owners /\ r.item \in Items /\ r.quantity \in Nat /\ LoginShaped(r)
    BY DEF MergeInv, LoginFits, LoginShaped
  <2>2. /\ Merging!SetField(r.owner, r.item, r.quantity) /\ UNCHANGED <<redisUp, saved>>
        /\ cartReq' = [cartReq EXCEPT ![q] = t]
    BY <1>1, <1>3 DEF Merging!AddSet, Merging!CartStep
  <2>3. cached' \in [Owners -> Contents]
    BY <2>1, <2>2, LoginWrites
  <2>4. LoginFits(t, cached', saved')
    BY <2>1 DEF LoginFits, LoginShaped
  <2> HIDE DEF t
  <2> QED BY <1>1, <2>2, <2>3, <2>4, LoginMoves
<1> QED BY <1>2, <1>3

\* One of the fields that are to be written is written.
LEMMA LoginFills ==
  ASSUME NEW q, MergeInv(q), cartReq[q].pc \in {"warm", "merge_set"}, NEW o \in Owners,
         cartReq[q].pc = "merge_set" => o = "user",
         Merging!FillOne(q, o), UNCHANGED <<redisUp, saved, moving>>
  PROVE  MergeInv(q)'
<1> DEFINE r == cartReq[q]
<1>1. /\ LoginShaped(r) /\ cached \in [Owners -> Contents] /\ saved \in {{}, {GuestRow}, {OwnRow}}
      /\ r.pc = "merge_set" => Covers(r.basket, cached)
  BY DEF MergeInv, LoginFits
<1>2. r.basket \in Contents
  BY <1>1 DEF LoginShaped
<1>3. PICK i \in {j \in Items : r.basket[j] > 0} :
        /\ Merging!SetField(o, i, r.basket[i])
        /\ cartReq' = [cartReq EXCEPT ![q].basket[i] = 0]
  BY DEF Merging!FillOne
<1>4. i \in Items /\ r.basket[i] \in Nat /\ r.basket[i] > 0
  BY <1>2 DEF Contents
<1> DEFINE rest == [r.basket EXCEPT ![i] = 0]
           t == [r EXCEPT !.basket = rest]
<1>5. cartReq' = [cartReq EXCEPT ![q] = t]
  BY <1>3
<1>6. rest \in Contents /\ \A j \in Items : rest[j] = IF j = i THEN 0 ELSE r.basket[j]
  BY <1>2, <1>4 DEF Contents
<1> HIDE DEF rest
<1>7. LoginShaped(t) /\ t.basket = rest /\ t.pc = r.pc
  BY <1>1, <1>6 DEF LoginShaped
<1> HIDE DEF t
<1>8. cached' \in [Owners -> Contents] /\ cached' = [cached EXCEPT ![o][i] = r.basket[i]]
  BY <1>3, <1>4, LoginWrites
<1>9. r.pc = "merge_set" => Covers(rest, cached')
  <2> SUFFICES ASSUME r.pc = "merge_set", NEW j \in Items
               PROVE  Capped(cached'["guest"][j]) <=
                        IF rest[j] > 0 THEN rest[j] ELSE cached'["user"][j]
    BY DEF Covers
  <2>1. /\ cached'["guest"][j] = cached["guest"][j]
        /\ cached'["user"][j] = IF j = i THEN r.basket[i] ELSE cached["user"][j]
    BY <1>1, <1>8 DEF Owners, Contents
  <2>2. Capped(cached["guest"][j]) <= IF r.basket[j] > 0 THEN r.basket[j] ELSE cached["user"][j]
    BY <1>1 DEF Covers
  <2>3. CASE j = i
    BY <1>4, <1>6, <2>1, <2>2, <2>3
  <2>4. CASE j # i
    BY <1>6, <2>1, <2>2, <2>4
  <2> QED BY <2>3, <2>4
<1>10. LoginFits(t, cached', saved')
  BY <1>7, <1>9 DEF LoginFits
<1> QED BY <1>1, <1>5, <1>8, <1>10, LoginMoves

LEMMA LoginViews ==
  ASSUME NEW q, MergeInv(q), UNCHANGED moving, Merging!ViewCart(q) \/ Merging!WarmCart(q)
  PROVE  MergeInv(q)'
<1> DEFINE r == cartReq[q]
<1>1. /\ LoginShaped(r) /\ cached \in [Owners -> Contents] /\ saved \in {{}, {GuestRow}, {OwnRow}}
      /\ r.owner \in Owners /\ UNCHANGED <<redisUp, saved>>
  BY DEF MergeInv, LoginFits, LoginShaped, Merging!ViewCart, Merging!WarmCart
<1>2. CASE Merging!WarmCart(q)
  BY <1>1, <1>2, LoginFills, LoginEnds DEF Merging!WarmCart, Merging!AtCart
<1>3. CASE Merging!ViewCart(q) /\ Merging!IsCached(r.owner)
  <2>1. Merging!DropFields(r.owner, offSale) /\ Merging!CartEnd(q)
    BY <1>3 DEF Merging!ViewCart
  <2>2. cached' \in [Owners -> Contents]
    BY <1>1, <2>1, LoginDrops
  <2> QED BY <1>1, <2>1, <2>2, LoginEnds
<1>4. CASE Merging!ViewCart(q) /\ ~Merging!IsCached(r.owner)
  <2>1. PICK basket \in [Items -> {0} \cup {row.quantity : row \in RowsOf(r.owner)}] :
          cartReq' = [cartReq EXCEPT ![q].pc = "warm", ![q].basket = basket]
    BY <1>4, MergingAlike DEF Merging!ViewCart
  <2>2. cached' = cached
    BY <1>4 DEF Merging!ViewCart
  <2>3. \A row \in RowsOf(r.owner) : row.quantity \in Nat
    BY <1>1 DEF RowsOf, GuestRow, OwnRow
  <2>4. basket \in Contents
    BY <2>3 DEF Contents
  <2> DEFINE t == [r EXCEPT !.pc = "warm", !.basket = basket]
  <2>5. cartReq' = [cartReq EXCEPT ![q] = t]
    BY <2>1
  <2>6. LoginFits(t, cached', saved')
    BY <1>1, <2>4 DEF LoginFits, LoginShaped
  <2> HIDE DEF t
  <2> QED BY <1>1, <2>2, <2>5, <2>6, LoginMoves
<1> QED BY <1>2, <1>3, <1>4

\* What is to be written is at least what the guest has, up to the limit.
LEMMA MergeCartFits ==
  ASSUME NEW q, MergeInv(q), UNCHANGED moving, Merging!MergeCart(q) PROVE MergeInv(q)'
<1> DEFINE guest == cached["guest"]
           user == cached["user"]
           merged == [i \in Items |-> IF guest[i] = 0 THEN user[i]
                                      ELSE IF user[i] = 0 THEN guest[i]
                                      ELSE Capped(user[i] + guest[i])]
           t == [NoCartRequest EXCEPT !.pc = IF guest = Empty THEN "merge_db" ELSE "merge_set",
                                      !.basket = IF guest = Empty THEN Empty ELSE merged]
<1>1. /\ cached \in [Owners -> Contents] /\ redisUp = TRUE /\ saved \in {{}, {GuestRow}, {OwnRow}}
      /\ UNCHANGED <<redisUp, cached, saved>>
  BY DEF MergeInv, Merging!MergeCart
<1>2. guest \in Contents /\ user \in Contents
  BY <1>1 DEF Owners
<1>3. \A i \in Items : guest[i] \in Nat /\ user[i] \in Nat
  BY <1>2 DEF Contents
<1>4. cartReq' = [cartReq EXCEPT ![q] = t]
  <2>1. Merging!Hash("guest") = guest /\ Merging!Hash("user") = user
    BY <1>1, MergingAlike
  <2>2. cartReq' = [cartReq EXCEPT ![q] =
          [NoCartRequest EXCEPT
             !.pc = IF guest = Empty THEN "merge_db" ELSE "merge_set",
             !.basket = IF guest = Empty THEN Empty
                        ELSE [i \in Items |-> IF guest[i] = 0 THEN user[i]
                                              ELSE IF user[i] = 0 THEN guest[i]
                                              ELSE Merging!Capped(user[i] + guest[i])]]]
    <3> HIDE DEF guest, user
    <3> QED BY <2>1, MergingAlike DEF Merging!MergeCart
  <2>3. \A n : Merging!Capped(n) = Capped(n)
    BY MergingAlike
  <2> HIDE DEF guest, user
  <2> QED BY <2>2, <2>3
<1>5. \A i \in Items : merged[i] \in Nat /\ Capped(guest[i]) <= IF merged[i] > 0 THEN merged[i] ELSE user[i]
  <2> SUFFICES ASSUME NEW i \in Items
               PROVE  merged[i] \in Nat /\ Capped(guest[i]) <= IF merged[i] > 0 THEN merged[i] ELSE user[i]
    OBVIOUS
  <2>1. /\ guest[i] \in Nat /\ user[i] \in Nat /\ MaxQuantity \in Nat \ {0}
        /\ user[i] + guest[i] \in Nat
    BY <1>3, CartAssumption
  <2>2. merged[i] = IF guest[i] = 0 THEN user[i]
                    ELSE IF user[i] = 0 THEN guest[i] ELSE Capped(user[i] + guest[i])
    OBVIOUS
  <2> HIDE DEF merged, guest, user
  <2>3. /\ Capped(guest[i]) = IF guest[i] <= MaxQuantity THEN guest[i] ELSE MaxQuantity
        /\ Capped(user[i] + guest[i]) =
             IF user[i] + guest[i] <= MaxQuantity THEN user[i] + guest[i] ELSE MaxQuantity
    BY <2>1, CappedIs
  <2> QED BY <2>1, <2>2, <2>3
<1>6. merged \in Contents
  BY <1>5 DEF Contents
<1>7. Covers(merged, cached)
  BY <1>5 DEF Covers
<1> HIDE DEF merged
<1>8. LoginFits(t, cached, saved)
  BY <1>6, <1>7, NoLogin DEF LoginFits, LoginShaped, NoCartRequest, Empty, Contents
<1> HIDE DEF t
<1> QED BY <1>1, <1>4, <1>8, LoginMoves

LEMMA MergeSetFits ==
  ASSUME NEW q, MergeInv(q), UNCHANGED moving, Merging!MergeSet(q) \/ Merging!MergeClear(q)
  PROVE  MergeInv(q)'
<1> DEFINE r == cartReq[q]
<1>1. /\ LoginShaped(r) /\ saved \in {{}, {GuestRow}, {OwnRow}} /\ r.pc = "merge_set"
      /\ UNCHANGED <<redisUp, saved>>
  BY DEF MergeInv, LoginFits, Merging!MergeSet, Merging!MergeClear, Merging!AtCart
<1>2. CASE Merging!MergeSet(q)
  BY <1>1, <1>2, LoginFills DEF Merging!MergeSet, Owners
<1>3. CASE Merging!MergeClear(q)
  <2> DEFINE t == [r EXCEPT !.pc = "merge_db", !.basket = Empty]
  <2>1. Merging!DropFields("guest", Items) /\ cartReq' = [cartReq EXCEPT ![q] = t]
    BY <1>3, MergingAlike DEF Merging!MergeClear
  <2>2. cached' \in [Owners -> Contents]
    BY <2>1, LoginDrops DEF Owners
  <2>3. LoginFits(t, cached', saved')
    BY <1>1 DEF LoginFits, LoginShaped, Empty, Contents
  <2> HIDE DEF t
  <2> QED BY <1>1, <2>1, <2>2, <2>3, LoginMoves
<1> QED BY <1>2, <1>3

\* A fold over a single row is one application.
LEMMA OneRowMerged ==
  ASSUME NEW rows, NEW g
  PROVE  Merging!FoldSet(Merging!MergeRow, rows, {g}) = Merging!MergeRow(g, rows)
<1> DEFINE step(f) == [s \in SUBSET {g} |->
                         IF s = {} THEN rows
                         ELSE Merging!MergeRow(CHOOSE x \in s : TRUE, f[s \ {CHOOSE x \in s : TRUE}])]
           fold == CHOOSE f : f = step(f)
           once == [s \in SUBSET {g} |-> IF s = {} THEN rows ELSE Merging!MergeRow(g, rows)]
<1>1. once = step(once)
  OBVIOUS
<1>2. fold = step(fold)
  BY <1>1
<1>3. fold[{}] = rows /\ fold[{g}] = Merging!MergeRow(g, fold[{}])
  BY <1>2
<1>4. Merging!FoldSet(Merging!MergeRow, rows, {g}) = fold[{g}]
  BY DEF Merging!FoldSet, Merging!MapThenFoldSet
<1> QED BY <1>3, <1>4

LEMMA MergeDbFits ==
  ASSUME NEW q, MergeInv(q), UNCHANGED moving, Merging!MergeRead(q) \/ Merging!MergeRows(q)
  PROVE  MergeInv(q)'
<1> DEFINE r == cartReq[q]
<1>1. /\ LoginShaped(r) /\ cached \in [Owners -> Contents] /\ saved \in {{}, {GuestRow}, {OwnRow}}
      /\ r.pc = "merge_rows" => saved = {GuestRow} /\ r.rows = {GuestRow}
      /\ UNCHANGED <<redisUp, cached>>
  BY DEF MergeInv, LoginFits, Merging!MergeRead, Merging!MergeRows
<1>2. GuestRow.owner = "guest" /\ OwnRow.owner = "user"
  BY DEF GuestRow, OwnRow
<1>3. CASE Merging!MergeRead(q)
  <2> DEFINE t == [r EXCEPT !.pc = IF RowsOf("guest") = {} THEN "view" ELSE "merge_rows",
                            !.rows = RowsOf("guest")]
  <2>1. cartReq' = [cartReq EXCEPT ![q] = t] /\ saved' = saved
    BY <1>3, MergingAlike DEF Merging!MergeRead
  <2>2. RowsOf("guest") # {} => saved = {GuestRow} /\ RowsOf("guest") = {GuestRow}
    BY <1>1, <1>2 DEF RowsOf
  <2>3. LoginFits(t, cached', saved')
    BY <1>1, <2>1, <2>2 DEF LoginFits, LoginShaped
  <2> HIDE DEF t
  <2> QED BY <1>1, <2>1, <2>3, LoginMoves
<1>4. CASE Merging!MergeRows(q)
  <2> DEFINE t == [r EXCEPT !.pc = "view", !.rows = {}]
  <2>1. /\ cartReq' = [cartReq EXCEPT ![q] = t] /\ r.rows = {GuestRow} /\ saved = {GuestRow}
        /\ saved' = Merging!FoldSet(Merging!MergeRow, RowsOf("user"), r.rows)
    BY <1>1, <1>4, MergingAlike DEF Merging!MergeRows, Merging!AtCart
  <2>2. RowsOf("user") = {}
    BY <1>2, <2>1 DEF RowsOf
  <2>3. Merging!MergeRow(GuestRow, {}) = {OwnRow}
    BY DEF Merging!MergeRow, OwnRow
  <2>4. saved' = {OwnRow}
    BY <2>1, <2>2, <2>3, OneRowMerged
  <2>5. LoginFits(t, cached', saved')
    BY <1>1 DEF LoginFits, LoginShaped
  <2> HIDE DEF t
  <2> QED BY <1>1, <2>1, <2>4, <2>5, LoginMoves
<1> QED BY <1>3, <1>4

\* What a login does between the requests of others: nothing else is asked for.
LEMMA LoginUndisturbed ==
  ASSUME NEW q, MergeInv(q), UNCHANGED <<redisUp, cached, saved, cartReq, moving>> PROVE MergeInv(q)'
BY DEF MergeInv

LEMMA LoginCartFits ==
  ASSUME NEW q, OneRequest = {q}, MergeInv(q), Merging!CartNext, UNCHANGED moving PROVE MergeInv(q)'
<1>1. cartReq[q].pc \in {"idle", "add_set", "view", "warm", "merge_set", "merge_db", "merge_rows"}
  BY DEF MergeInv, LoginFits, LoginShaped
<1>2. ASSUME Merging!CartRequestNext(q) PROVE MergeInv(q)'
  <2>1. ~(\E i \in Items, n \in Amounts : Merging!UpdateItem(q, i, n))
    BY DEF Merging!UpdateItem
  <2>2. ~((\E i \in Items : Merging!RemoveItem(q, i)) \/ \E o \in Merging!Owners : Merging!GetCart(q, o))
    BY DEF Merging!RemoveItem, Merging!GetCart
  <2>3. ~(\/ Merging!AddDb(q) \/ Merging!AddSave(q) \/ Merging!UpdateSet(q) \/ Merging!UpdateSave(q)
          \/ Merging!RemoveField(q) \/ Merging!RemoveRow(q))
    BY <1>1 DEF Merging!AddDb, Merging!AddSave, Merging!UpdateSet, Merging!UpdateSave,
                Merging!RemoveField, Merging!RemoveRow, Merging!AtCart
  <2>4. CASE Merging!CartCrash(q)
    <3>1. cached' \in [Owners -> Contents]
      BY <2>4 DEF Merging!CartCrash, MergeInv
    <3> QED BY <2>4, <3>1, LoginEnds DEF Merging!CartCrash
  <2>5. CASE Merging!MergeCart(q) \/ Merging!MergeSet(q) \/ Merging!MergeClear(q)
    BY <2>5, MergeCartFits, MergeSetFits
  <2>6. CASE Merging!MergeRead(q) \/ Merging!MergeRows(q)
    BY <2>6, MergeDbFits
  <2>7. CASE Merging!ViewCart(q) \/ Merging!WarmCart(q)
    BY <2>7, LoginViews
  <2>8. CASE Merging!AddSet(q)
    BY <2>8, LoginAdds
  <2>9. ASSUME NEW i \in Items, NEW n \in Amounts, NEW o \in Merging!Owners,
               Merging!AddToCart(q, o, i, n)
        PROVE  MergeInv(q)'
    <3>1. o \in Owners
      BY DEF Merging!Owners, Owners
    <3> QED BY <2>9, <3>1, LoginAdds
  <2> QED BY <1>2, <2>1, <2>2, <2>3, <2>4, <2>5, <2>6, <2>7, <2>8, <2>9 DEF Merging!CartRequestNext
<1>3. ASSUME NEW i \in Items, Merging!ShelfChanges(i) \/ Merging!GoesOffSale(i) PROVE MergeInv(q)'
  BY <1>3, LoginUndisturbed DEF Merging!ShelfChanges, Merging!GoesOffSale
<1>4. ASSUME NEW o \in Merging!Owners PROVE ~Merging!HashExpires(o) /\ ~Merging!RedisFlips
  BY DEF Merging!HashExpires, Merging!RedisFlips
<1>5. ~Merging!RedisFlips
  BY DEF Merging!RedisFlips
<1> QED BY <1>2, <1>3, <1>4, <1>5 DEF Merging!CartNext

LEMMA LoginStepFits ==
  ASSUME NEW q, OneRequest = {q}, MergeInv(q), Merging!SourcesNext PROVE MergeInv(q)'
<1>1. /\ cartReq[q].pc \in {"idle", "add_set", "view", "warm", "merge_set", "merge_db", "merge_rows"}
      /\ moving[q].pc = "idle"
  BY DEF MergeInv, LoginFits, LoginShaped
<1>2. CASE Merging!CartCheckoutNext /\ UNCHANGED moving
  <2>1. CASE Merging!CartNext
    BY <1>2, <2>1, LoginCartFits
  <2>2. ASSUME Merging!CheckoutRequestNext(q) PROVE FALSE
    <3>1. ~(\E i \in Items, n \in Amounts : Merging!GetBuyNowCheckout(q, i, n))
      BY DEF Merging!GetBuyNowCheckout
    <3>2. ~(\E k \in Keys : Merging!PlaceOrder(q, k) \/ Merging!ConfirmPayment(q, k))
      BY DEF Merging!PlaceOrder, Merging!ConfirmPayment
    <3>3. ~(\/ Merging!GetCheckout(q) \/ Merging!NoCart(q) \/ Merging!TakeReservation(q)
            \/ Merging!SyncRead(q) \/ Merging!SyncDelete(q) \/ Merging!SyncCommit(q))
      BY <1>1 DEF Merging!GetCheckout, Merging!NoCart, Merging!TakeReservation, Merging!SyncRead,
                  Merging!SyncDelete, Merging!SyncCommit, Merging!AtCart
    <3>4. ~(\/ Merging!ReadRows(q) \/ Merging!ClearBeforeCommit(q) \/ Merging!CommitOrder(q)
            \/ Merging!RefuseOrder(q) \/ Merging!ClearHash(q))
      BY <1>1 DEF Merging!ReadRows, Merging!ClearBeforeCommit, Merging!CommitOrder,
                  Merging!RefuseOrder, Merging!ClearHash, Merging!AtCart
    <3> QED BY <2>2, <3>1, <3>2, <3>3, <3>4 DEF Merging!CheckoutRequestNext
  <2>3. ASSUME NEW v \in Reservations, Merging!ReservationExpires(v) \/ Merging!CleanReservation(v)
        PROVE  MergeInv(q)'
    BY <1>2, <2>3, LoginUndisturbed
       DEF Merging!ReservationExpires, Merging!CleanReservation, Merging!cartVars
  <2> QED BY <1>2, <2>1, <2>2, <2>3 DEF Merging!CartCheckoutNext
<1>3. ~(Merging!CreateWish(q) \/ Merging!MoveSave(q) \/ Merging!MoveDelete(q))
  BY <1>1 DEF Merging!CreateWish, Merging!MoveSave, Merging!MoveDelete
<1>4. ~(\E i \in Items :
          \/ Merging!AddToWishlist(q, i) \/ Merging!RemoveFromWishlist(q, i)
          \/ \E n \in Amounts : Merging!MoveToCart(q, i, n) \/ Merging!Reorder(q, i, n))
  BY DEF Merging!AddToWishlist, Merging!RemoveFromWishlist, Merging!MoveToCart, Merging!Reorder
<1> QED BY <1>2, <1>3, <1>4 DEF Merging!SourcesNext, Merging!sourceVars

\* One request at a time, which may die anywhere: when a login clears the guest's
\* cart, the customer's holds at least as much of every item, up to the limit,
\* whatever both held and however much of the merge is done over.
THEOREM LoginsLoseNothing ==
  ASSUME NEW q, OneRequest = {q} PROVE MCSpec => MergingLosesNothing
<1> DEFINE Inv == area = "merging" => MergeInv(q)
<1>1. MCInit => Inv
  <2> SUFFICES ASSUME MCInit, area = "merging" PROVE MergeInv(q)
    OBVIOUS
  <2>1. /\ redisUp = TRUE /\ saved \in {{}, {GuestRow}}
        /\ cached = [o \in Owners |-> Empty]
        /\ cartReq = [x \in {q} |-> NoCartRequest]
        /\ moving = [x \in {q} |-> NotMoving]
    BY DEF MCInit, RequestsOf
  <2>2. cached \in [Owners -> Contents]
    BY <2>1 DEF Contents, Empty
  <2> QED BY <2>1, <2>2, NoLogin DEF MergeInv, NotMoving
<1>2. Inv /\ [MCNext]_<<allVars, area>> => Inv'
  <2> SUFFICES ASSUME Inv, [MCNext]_<<allVars, area>>, area' = "merging" PROVE MergeInv(q)'
    OBVIOUS
  <2>1. CASE MCNext
    <3>1. area = "merging" /\ Merging!SourcesNext
      BY <2>1 DEF MCNext
    <3> QED BY <3>1, LoginStepFits
  <2>2. CASE UNCHANGED <<allVars, area>>
    BY <2>2, LoginUndisturbed DEF allVars, cartSourceVars, cartCheckoutVars, cartVars, sourceVars
  <2> QED BY <2>1, <2>2
<1>3. Inv => (area = "merging" => Merging!MergeStepLosesNothing)
  <2> SUFFICES ASSUME MergeInv(q), Merging!MergeClear(q), NEW i \in Items
               PROVE  cached'["user"][i] >= Capped(cached["guest"][i])
    BY MergingAlike DEF Merging!MergeStepLosesNothing
  <2>1. /\ cartReq[q].basket = Empty /\ redisUp = TRUE /\ cached \in [Owners -> Contents]
        /\ Covers(cartReq[q].basket, cached)
    BY MergingAlike DEF Merging!MergeClear, Merging!AllAreWritten, Merging!AtCart, MergeInv, LoginFits
  <2>2. cached'["user"] = cached["user"]
    BY <2>1 DEF Merging!MergeClear, Merging!DropFields, Owners
  <2>3. Capped(cached["guest"][i]) <= cached["user"][i]
    BY <2>1 DEF Covers, Empty
  <2>4. cached["guest"][i] \in Nat /\ cached["user"][i] \in Nat /\ MaxQuantity \in Nat
    BY <2>1, CartAssumption DEF Contents, Owners
  <2> QED BY <2>2, <2>3, <2>4, CappedIs
<1> QED BY <1>1, <1>2, <1>3, PTL DEF MCSpec, MergingLosesNothing

-----------------------------------------------------------------------------
(* Reviews, one request at a time.  The number and the rating on the product *)
(* row agree with the reviews except while a moderation is under way, and    *)
(* then what it is about to save does.                                       *)

LEMMA Monotone ==
  ASSUME NEW a \in Int, NEW b \in Int, NEW c \in Nat, a <= b PROVE a * c <= b * c
<1>1. b - a \in Nat /\ (b - a) * c >= 0
  OBVIOUS
<1>2. (b - a) * c = b * c - a * c
  OBVIOUS
<1> QED BY <1>1, <1>2

LEMMA QuotientBetween ==
  ASSUME NEW n \in Nat, NEW d \in Nat \ {0}, NEW low \in Nat, NEW high \in Nat,
         low * d <= n, n <= high * d
  PROVE  /\ Rating!RoundedQuotient(n, d) \in Nat
         /\ low <= Rating!RoundedQuotient(n, d) /\ Rating!RoundedQuotient(n, d) <= high
<1> DEFINE q == (2 * n + d) \div (2 * d)
<1>1. q \in Int /\ q * (2 * d) <= 2 * n + d /\ 2 * n + d < q * (2 * d) + 2 * d
  OBVIOUS
<1> HIDE DEF q
<1>2. low <= q
  <2> SUFFICES ASSUME q + 1 <= low PROVE FALSE
    BY <1>1
  <2>1. (q + 1) * (2 * d) <= low * (2 * d)
    BY <1>1, Monotone
  <2>2. (q + 1) * (2 * d) = q * (2 * d) + 2 * d /\ low * (2 * d) = 2 * (low * d)
    BY <1>1
  <2> QED BY <1>1, <2>1, <2>2
<1>3. q <= high
  <2> SUFFICES ASSUME high + 1 <= q PROVE FALSE
    BY <1>1
  <2>1. (high + 1) * (2 * d) <= q * (2 * d)
    BY <1>1, Monotone
  <2>2. (high + 1) * (2 * d) = 2 * (high * d) + 2 * d
    OBVIOUS
  <2> QED BY <1>1, <2>1, <2>2
<1>4. q = Rating!RoundedQuotient(n, d)
  BY DEF q, Rating!RoundedQuotient
<1> QED BY <1>1, <1>2, <1>3, <1>4

\* Of some reviews there are one with the fewest and one with the most stars.
LEMMA WorstAndBest ==
  ASSUME NEW S, S # {}, \A o \in S : reviews[o].stars \in 1..5
  PROVE  \E worst, best \in S : \A o \in S :
           reviews[worst].stars <= reviews[o].stars /\ reviews[o].stars <= reviews[best].stars
<1> DEFINE some(n) == \E o \in S : reviews[o].stars = n
<1>1. some(1) \/ some(2) \/ some(3) \/ some(4) \/ some(5)
  OBVIOUS
<1>2. \E worst \in S : \A o \in S : reviews[worst].stars <= reviews[o].stars
  <2>1. PICK n \in 1..5 : some(n) /\ \A m \in 1..5 : m < n => ~some(m)
    BY <1>1
  <2> QED BY <2>1
<1>3. \E best \in S : \A o \in S : reviews[o].stars <= reviews[best].stars
  <2>1. PICK n \in 1..5 : some(n) /\ \A m \in 1..5 : m > n => ~some(m)
    BY <1>1
  <2> QED BY <2>1
<1> QED BY <1>2, <1>3

\* The instance counts as this module does.
LEMMA CountsAlike == \A S : Rating!Cardinality(S) = Cardinality(S)
BY DEF Cardinality, Rating!Cardinality, IsFiniteSet, Rating!IsFiniteSet

LEMMA CountedByStars ==
  ASSUME NEW S, IsFiniteSet(S), \A o \in S : reviews[o].stars \in 1..5
  PROVE  /\ \A n \in 1..5 : Rating!Giving(S, n) \in Nat
         /\ Cardinality(S) = Rating!Giving(S, 1) + Rating!Giving(S, 2) + Rating!Giving(S, 3)
                             + Rating!Giving(S, 4) + Rating!Giving(S, 5)
<1> DEFINE part(n) == {o \in S : reviews[o].stars = n}
           upto(n) == {o \in S : reviews[o].stars <= n}
<1>1. \A n \in 1..5 : /\ IsFiniteSet(part(n)) /\ IsFiniteSet(upto(n))
                      /\ Cardinality(part(n)) \in Nat /\ Cardinality(upto(n)) \in Nat
  BY FS_Subset, FS_CardinalityType
<1>2. \A n \in 2..5 : Cardinality(upto(n)) = Cardinality(upto(n - 1)) + Cardinality(part(n))
  <2> SUFFICES ASSUME NEW n \in 2..5
               PROVE  Cardinality(upto(n)) = Cardinality(upto(n - 1)) + Cardinality(part(n))
    OBVIOUS
  <2>1. upto(n) = upto(n - 1) \cup part(n) /\ upto(n - 1) \cap part(n) = {}
    OBVIOUS
  <2>2. n - 1 \in 1..5 /\ n \in 1..5
    OBVIOUS
  <2> HIDE DEF part, upto
  <2>3. Cardinality(upto(n - 1) \cup part(n)) = Cardinality(upto(n - 1)) + Cardinality(part(n)) - Cardinality({})
    BY <1>1, <2>1, <2>2, FS_Union
  <2> QED BY <1>1, <2>1, <2>2, <2>3, FS_EmptySet
<1>3. upto(1) = part(1) /\ upto(5) = S
  OBVIOUS
<1>4. \A n \in 1..5 : Rating!Giving(S, n) = Cardinality(part(n))
  BY CountsAlike DEF Rating!Giving
<1> HIDE DEF part, upto
<1>5. /\ Cardinality(S) = Cardinality(upto(4)) + Cardinality(part(5))
      /\ Cardinality(upto(4)) = Cardinality(upto(3)) + Cardinality(part(4))
      /\ Cardinality(upto(3)) = Cardinality(upto(2)) + Cardinality(part(3))
      /\ Cardinality(upto(2)) = Cardinality(part(1)) + Cardinality(part(2))
  BY <1>2, <1>3
<1> QED BY <1>1, <1>4, <1>5

\* Their stars together lie between as many times the fewest and the most.
LEMMA StarsBetween ==
  ASSUME NEW S, IsFiniteSet(S), S # {}, \A o \in S : reviews[o].stars \in 1..5
  PROVE  /\ Cardinality(S) \in Nat \ {0} /\ Rating!StarsOf(S) \in Nat
         /\ \E worst, best \in S : /\ reviews[worst].stars * Cardinality(S) <= Rating!StarsOf(S)
                                   /\ Rating!StarsOf(S) <= reviews[best].stars * Cardinality(S)
<1>1. PICK worst \in S, best \in S : \A o \in S :
        reviews[worst].stars <= reviews[o].stars /\ reviews[o].stars <= reviews[best].stars
  BY WorstAndBest
<1> DEFINE c == [n \in 1..5 |-> Rating!Giving(S, n)]
           w == reviews[worst].stars
           b == reviews[best].stars
<1>2. /\ c[1] \in Nat /\ c[2] \in Nat /\ c[3] \in Nat /\ c[4] \in Nat /\ c[5] \in Nat
      /\ Cardinality(S) = c[1] + c[2] + c[3] + c[4] + c[5]
      /\ Rating!StarsOf(S) = c[1] + 2 * c[2] + 3 * c[3] + 4 * c[4] + 5 * c[5]
  BY CountedByStars DEF Rating!StarsOf
<1>3. \A n \in 1..5 : n < w \/ n > b => c[n] = 0
  <2> SUFFICES ASSUME NEW n \in 1..5, n < w \/ n > b PROVE Rating!Giving(S, n) = 0
    OBVIOUS
  <2>1. {o \in S : reviews[o].stars = n} = {}
    BY <1>1
  <2> QED BY <2>1, FS_EmptySet, CountsAlike DEF Rating!Giving
<1>4. w \in 1..5 /\ b \in 1..5
  OBVIOUS
<1>5. Cardinality(S) \in Nat \ {0}
  BY FS_CardinalityType, FS_EmptySet
<1> HIDE DEF c, w, b
<1>6. w * Cardinality(S) <= Rating!StarsOf(S)
  <2>1. CASE w = 1
    BY <1>2, <2>1
  <2>2. CASE w = 2
    BY <1>2, <1>3, <2>2
  <2>3. CASE w = 3
    BY <1>2, <1>3, <2>3
  <2>4. CASE w = 4
    BY <1>2, <1>3, <2>4
  <2>5. CASE w = 5
    BY <1>2, <1>3, <2>5
  <2> QED BY <1>4, <2>1, <2>2, <2>3, <2>4, <2>5
<1>7. Rating!StarsOf(S) <= b * Cardinality(S)
  <2>1. CASE b = 1
    BY <1>2, <1>3, <2>1
  <2>2. CASE b = 2
    BY <1>2, <1>3, <2>2
  <2>3. CASE b = 3
    BY <1>2, <1>3, <2>3
  <2>4. CASE b = 4
    BY <1>2, <1>3, <2>4
  <2>5. CASE b = 5
    BY <1>2, <2>5
  <2> QED BY <1>4, <2>1, <2>2, <2>3, <2>4, <2>5
<1> QED BY <1>2, <1>5, <1>6, <1>7 DEF w, b

\* Books of a product that fit its public reviews.
Fits(books) ==
  /\ books.count = Cardinality(Rating!PublicReviews)
  /\ books.count > 0 =>
       \E worst, best \in Rating!PublicReviews :
         100 * reviews[worst].stars <= books.rating /\ books.rating <= 100 * reviews[best].stars

\* What the one request is about to do rests on what is there.
RatingWithin(t) ==
  LET task == reviewTask[t] IN
  /\ task.pc # "idle" => task.order \in Delivered
  /\ task.pc = "create" =>
       /\ ~Rating!Written(task.order) /\ task.books = product
       /\ task.review.status \in {"APPROVED", "REJECTED"}
       /\ task.review.stars \in 1..5 /\ task.review.helpful = 0
  /\ task.pc \in {"vote_on", "vote_off", "vote_off_save"} =>
       task.who \in Voters /\ Rating!Written(task.order)
  /\ task.pc = "vote_off_save" => task.review.helpful = reviews[task.order].helpful
  /\ task.pc = "moderate" => Rating!Written(task.order) /\ task.review.status # "none"
  /\ task.pc = "save_rating" => Fits(task.books)
  /\ task.pc \notin {"aggregate", "save_rating"} => Fits(product)

RatingInv(t) ==
  /\ Rating!ReviewsTypeOK
  /\ \A o \in Delivered : reviews[o].helpful = Cardinality(Rating!Votes(o))
  /\ \A o \in Delivered :
       IF Rating!Written(o) THEN reviews[o].stars \in 1..5 ELSE reviews[o].helpful = 0
  /\ RatingWithin(t)

\* Requests that leave stars and moderation of every review alone.
LEMMA PublicStays ==
  ASSUME \A o \in Delivered :
           /\ Rating!IsPublic(reviews'[o]) <=> Rating!IsPublic(reviews[o])
           /\ Rating!IsPublic(reviews[o]) => reviews'[o].stars = reviews[o].stars,
         NEW books
  PROVE  Rating!PublicReviews' = Rating!PublicReviews /\ (Fits(books) => Fits(books)')
<1>1. Rating!PublicReviews' = Rating!PublicReviews
  BY DEF Rating!PublicReviews
<1>2. \A o \in Rating!PublicReviews : reviews'[o].stars = reviews[o].stars
  BY DEF Rating!PublicReviews
<1> QED BY <1>1, <1>2 DEF Fits

LEMMA PublicFinite ==
  /\ IsFiniteSet(Rating!PublicReviews) /\ Cardinality(Rating!PublicReviews) \in Nat
BY ReviewsAssumption, FS_Subset, FS_CardinalityType DEF Rating!PublicReviews

LEMMA PublicStars ==
  ASSUME NEW t, RatingInv(t) PROVE \A o \in Rating!PublicReviews : reviews[o].stars \in 1..5
BY DEF RatingInv, Rating!PublicReviews, Rating!IsPublic, Rating!Written

LEMMA NoReviewFits ==
  /\ Rating!NoReviewTask \in Rating!ReviewTask /\ Rating!NoReviewTask.pc = "idle"
  /\ Rating!NoReview \in Rating!Review
<1>1. Rating!NoReview \in Rating!Review
  BY DEF Rating!NoReview, Rating!Review, Rating!ReviewStatus
<1> QED BY <1>1 DEF Rating!NoReviewTask, Rating!ReviewTask, Rating!ProductBooks

LEMMA BeginReviewFits ==
  ASSUME NEW t, OneTask = {t}, RatingInv(t), Rating!BeginReview(t) PROVE RatingInv(t)'
<1>1. PICK o \in Delivered, stars \in Ratings, spam \in BOOLEAN :
        /\ ~Rating!Written(o)
        /\ reviewTask' = [reviewTask EXCEPT ![t] =
             [Rating!NoReviewTask EXCEPT
                !.pc = "create", !.order = o, !.books = product,
                !.review = [status |-> IF spam THEN "REJECTED" ELSE "APPROVED", spam |-> spam,
                            stars |-> stars, helpful |-> 0]]]
  BY DEF Rating!BeginReview
<1> DEFINE r == [status |-> IF spam THEN "REJECTED" ELSE "APPROVED", spam |-> spam,
                 stars |-> stars, helpful |-> 0]
           new == [Rating!NoReviewTask EXCEPT
                     !.pc = "create", !.order = o, !.books = product, !.review = r]
<1>2. /\ UNCHANGED <<reviews, votes, product, decisions>> /\ stars \in 1..5
      /\ Rating!ReviewsTypeOK /\ reviewTask[t].pc = "idle"
  BY ReviewsAssumption DEF Rating!BeginReview, Rating!AtReview, RatingInv
<1>3. /\ new \in Rating!ReviewTask /\ new.pc = "create" /\ new.order = o /\ new.books = product
      /\ new.review.status \in {"APPROVED", "REJECTED"} /\ new.review.stars = stars /\ new.review.helpful = 0
  <2>1. /\ r \in Rating!Review /\ r.status \in {"APPROVED", "REJECTED"}
        /\ r.stars = stars /\ r.helpful = 0
    BY <1>2 DEF Rating!Review, Rating!ReviewStatus
  <2> HIDE DEF r
  <2>2. product \in Rating!ProductBooks
    BY <1>2 DEF Rating!ReviewsTypeOK
  <2> QED BY <2>1, <2>2, NoReviewFits DEF Rating!ReviewTask
<1>4. reviewTask' = [reviewTask EXCEPT ![t] = new]
  BY <1>1
<1> HIDE DEF new
<1>5. reviewTask' \in [OneTask -> Rating!ReviewTask] /\ reviewTask'[t] = new
  BY <1>2, <1>3, <1>4 DEF Rating!ReviewsTypeOK
<1>6. Rating!ReviewsTypeOK'
  BY <1>2, <1>5 DEF Rating!ReviewsTypeOK
<1>7. Fits(product) => Fits(product)'
  BY <1>2, PublicStays DEF Fits
<1>8. RatingWithin(t)'
  BY <1>1, <1>2, <1>3, <1>5, <1>7 DEF RatingInv, RatingWithin, Rating!Written
<1> QED BY <1>2, <1>6, <1>8 DEF RatingInv, Rating!Written, Rating!Votes

LEMMA TaskMoves ==
  ASSUME NEW t, OneTask = {t}, Rating!ReviewsTypeOK, NEW new \in Rating!ReviewTask,
         reviewTask' = [reviewTask EXCEPT ![t] = new]
  PROVE  reviewTask' \in [OneTask -> Rating!ReviewTask] /\ reviewTask'[t] = new
BY DEF Rating!ReviewsTypeOK

LEMMA TaskEnds ==
  ASSUME NEW t, OneTask = {t}, Rating!ReviewsTypeOK, Rating!EndReview(t)
  PROVE  /\ reviewTask' \in [OneTask -> Rating!ReviewTask] /\ reviewTask'[t].pc = "idle"
         /\ Fits(product)' => RatingWithin(t)'
<1>1. reviewTask' \in [OneTask -> Rating!ReviewTask] /\ reviewTask'[t].pc = "idle"
  BY NoReviewFits, TaskMoves DEF Rating!EndReview
<1> QED BY <1>1 DEF RatingWithin

\* A new review moves the rating towards its stars, and not past them.
LEMMA NewReviewFits ==
  ASSUME NEW t, RatingInv(t), Fits(product), NEW o \in Delivered, ~Rating!Written(o),
         NEW r \in Rating!Review, r.stars \in 1..5, Rating!IsPublic(r),
         reviews' = [reviews EXCEPT ![o] = r], product' = Rating!BooksWith(r, product)
  PROVE  product' \in Rating!ProductBooks /\ Fits(product)'
<1> DEFINE P == Rating!PublicReviews
           c == product.count
           n == product.rating * c + 100 * r.stars
           d == 10 * (c + 1)
           q == Rating!RoundedQuotient(n, d)
<1>1. /\ c \in Nat /\ product.rating \in Nat /\ c = Cardinality(P) /\ IsFiniteSet(P)
      /\ reviews \in [Delivered -> Rating!Review]
  BY PublicFinite DEF RatingInv, Rating!ReviewsTypeOK, Rating!ProductBooks, Fits
<1>2. o \notin P /\ P \subseteq Delivered
  BY DEF Rating!PublicReviews, Rating!IsPublic, Rating!Written
<1>3. P' = P \cup {o} /\ reviews'[o] = r /\ \A x \in P : reviews'[x] = reviews[x]
  BY <1>1, <1>2 DEF Rating!PublicReviews
<1>4. Cardinality(P)' = c + 1
  BY <1>1, <1>2, <1>3, FS_AddElement
<1>5. product' = [rating |-> q * 10, count |-> c + 1]
  BY DEF Rating!BooksWith
<1>6. n \in Nat /\ d \in Nat \ {0}
  BY <1>1
<1>7. \E worst, best \in P' : /\ reviews'[worst].stars \in 1..5 /\ reviews'[best].stars \in 1..5
                              /\ 10 * reviews'[worst].stars * d <= n /\ n <= 10 * reviews'[best].stars * d
  <2>1. CASE c = 0
    <3>1. n = 100 * r.stars /\ d = 10 /\ o \in P'
      BY <1>1, <1>3, <2>1
    <3> QED BY <1>3, <3>1
  <2>2. CASE c > 0
    <3>1. PICK w \in P, b \in P : /\ 100 * reviews[w].stars <= product.rating
                                  /\ product.rating <= 100 * reviews[b].stars
      BY <2>2 DEF Fits
    <3>2. reviews[w].stars \in 1..5 /\ reviews[b].stars \in 1..5
      BY <3>1, PublicStars
    <3> DEFINE low == IF reviews[w].stars <= r.stars THEN w ELSE o
               high == IF r.stars <= reviews[b].stars THEN b ELSE o
               x == reviews'[low].stars
               y == reviews'[high].stars
    <3>3. /\ low \in P' /\ high \in P' /\ x \in 1..5 /\ y \in 1..5
          /\ x <= r.stars /\ 100 * x <= product.rating /\ r.stars <= y /\ product.rating <= 100 * y
      BY <1>1, <1>3, <3>1, <3>2
    <3> HIDE DEF low, high, x, y
    <3>4. (100 * x) * c <= product.rating * c /\ product.rating * c <= (100 * y) * c
      BY <1>1, <3>3, Monotone
    <3>5. (10 * x) * d = (100 * x) * c + 100 * x /\ (10 * y) * d = (100 * y) * c + 100 * y
      BY <1>1, <3>3
    <3> DEFINE before == product.rating * c
               least == (100 * x) * c
               most == (100 * y) * c
    <3>6. /\ before \in Nat /\ least \in Nat /\ most \in Nat /\ least <= before /\ before <= most
          /\ 10 * x * d = least + 100 * x /\ 10 * y * d = most + 100 * y /\ n = before + 100 * r.stars
      BY <1>1, <3>3, <3>4, <3>5
    <3> HIDE DEF before, least, most, n, d
    <3>7. 10 * x * d <= n /\ n <= 10 * y * d
      BY <3>3, <3>6
    <3> QED BY <3>3, <3>7 DEF x, y
  <2> QED BY <1>1, <2>1, <2>2
<1>8. PICK worst \in P', best \in P' :
        /\ reviews'[worst].stars \in 1..5 /\ reviews'[best].stars \in 1..5
        /\ 10 * reviews'[worst].stars * d <= n /\ n <= 10 * reviews'[best].stars * d
  BY <1>7
<1>9. /\ q \in Nat /\ 10 * reviews'[worst].stars <= q /\ q <= 10 * reviews'[best].stars
  <2>1. 10 * reviews'[worst].stars \in Nat /\ 10 * reviews'[best].stars \in Nat
    BY <1>8
  <2> HIDE DEF n, d
  <2> QED BY <1>6, <1>8, <2>1, QuotientBetween
<1>10. /\ product'.rating = q * 10 /\ product'.count = c + 1 /\ product' \in Rating!ProductBooks
       /\ 100 * reviews'[worst].stars <= product'.rating /\ product'.rating <= 100 * reviews'[best].stars
  BY <1>1, <1>5, <1>8, <1>9 DEF Rating!ProductBooks
<1> QED BY <1>4, <1>8, <1>10 DEF Fits

LEMMA CreateReviewFits ==
  ASSUME NEW t, OneTask = {t}, RatingInv(t), Rating!CreateReview(t) PROVE RatingInv(t)'
<1> DEFINE o == reviewTask[t].order
           r == reviewTask[t].review
<1>1. /\ o \in Delivered /\ ~Rating!Written(o) /\ reviewTask[t].books = product /\ Fits(product)
      /\ r.status \in {"APPROVED", "REJECTED"} /\ r.stars \in 1..5 /\ r.helpful = 0
      /\ r \in Rating!Review /\ reviews \in [Delivered -> Rating!Review]
      /\ Rating!ReviewsTypeOK
  BY DEF RatingInv, RatingWithin, Rating!ReviewsTypeOK, Rating!ReviewTask, Rating!CreateReview, Rating!AtReview
<1>2. /\ reviews' = [reviews EXCEPT ![o] = r] /\ product' = Rating!BooksWith(r, product)
      /\ Rating!EndReview(t) /\ UNCHANGED <<votes, decisions>>
  BY <1>1 DEF Rating!CreateReview, Rating!Duplicate
<1>3. Fits(product)' /\ product' \in Rating!ProductBooks
  <2>1. CASE Rating!IsPublic(r)
    BY <1>1, <1>2, <2>1, NewReviewFits
  <2>2. CASE ~Rating!IsPublic(r)
    <3>1. product' = product
      BY <1>2, <2>2 DEF Rating!BooksWith
    <3>2. \A x \in Delivered :
            /\ Rating!IsPublic(reviews'[x]) <=> Rating!IsPublic(reviews[x])
            /\ Rating!IsPublic(reviews[x]) => reviews'[x].stars = reviews[x].stars
      BY <1>1, <1>2, <2>2 DEF Rating!IsPublic, Rating!Written
    <3>3. Fits(product) => Fits(product)'
      BY <3>1, <3>2, PublicStays DEF Fits
    <3> QED BY <1>1, <3>1, <3>3 DEF Rating!ReviewsTypeOK
  <2> QED BY <2>1, <2>2
<1>4. reviews' \in [Delivered -> Rating!Review] /\ reviews'[o] = r
      /\ \A x \in Delivered \ {o} : reviews'[x] = reviews[x]
  BY <1>1, <1>2
<1>5. Rating!ReviewsTypeOK' /\ RatingWithin(t)'
  BY <1>1, <1>2, <1>3, <1>4, TaskEnds DEF Rating!ReviewsTypeOK
<1>6. \A x \in Delivered : reviews'[x].helpful = Cardinality(Rating!Votes(x))'
  BY <1>1, <1>2, <1>4 DEF RatingInv, Rating!Votes
<1>7. \A x \in Delivered : IF Rating!Written(x)' THEN reviews'[x].stars \in 1..5 ELSE reviews'[x].helpful = 0
  BY <1>1, <1>4 DEF RatingInv, Rating!Written
<1> QED BY <1>5, <1>6, <1>7 DEF RatingInv

\* Changes of the votes and of nothing that the rating counts.
LEMMA VotesOnly ==
  ASSUME NEW t, OneTask = {t}, RatingInv(t), Fits(product), NEW o \in Delivered, Rating!Written(o),
         NEW n \in Nat, NEW all, all \subseteq Delivered \X Voters, votes' = all,
         n = Cardinality({v \in all : v[1] = o}),
         \A x \in Delivered \ {o} : {v \in all : v[1] = x} = Rating!Votes(x),
         reviews' = [reviews EXCEPT ![o].helpful = n],
         Rating!EndReview(t), UNCHANGED <<product, decisions>>
  PROVE  RatingInv(t)'
<1>1. Rating!ReviewsTypeOK /\ reviews \in [Delivered -> Rating!Review]
  BY DEF RatingInv, Rating!ReviewsTypeOK
<1>2. /\ reviews' \in [Delivered -> Rating!Review] /\ reviews'[o].helpful = n
      /\ \A x \in Delivered : /\ reviews'[x].status = reviews[x].status /\ reviews'[x].spam = reviews[x].spam
                              /\ reviews'[x].stars = reviews[x].stars
                              /\ x # o => reviews'[x] = reviews[x]
  BY <1>1 DEF Rating!Review
<1>3. Fits(product)'
  BY <1>2, PublicStays DEF Fits, Rating!IsPublic
<1>4. Rating!ReviewsTypeOK' /\ RatingWithin(t)'
  BY <1>1, <1>2, <1>3, TaskEnds DEF Rating!ReviewsTypeOK
<1>5. \A x \in Delivered : reviews'[x].helpful = Cardinality(Rating!Votes(x))'
  <2> SUFFICES ASSUME NEW x \in Delivered PROVE reviews'[x].helpful = Cardinality(Rating!Votes(x)')
    OBVIOUS
  <2>1. Rating!Votes(x)' = {v \in all : v[1] = x}
    BY DEF Rating!Votes
  <2>2. CASE x = o
    BY <1>2, <2>1, <2>2
  <2>3. CASE x # o
    <3>1. Rating!Votes(x)' = Rating!Votes(x)
      BY <2>1, <2>3
    <3>2. reviews'[x] = reviews[x] /\ reviews[x].helpful = Cardinality(Rating!Votes(x))
      BY <1>2, <2>3 DEF RatingInv
    <3> QED BY <3>1, <3>2
  <2> QED BY <2>2, <2>3
<1>6. \A x \in Delivered : IF Rating!Written(x)' THEN reviews'[x].stars \in 1..5 ELSE reviews'[x].helpful = 0
  BY <1>2 DEF RatingInv, Rating!Written
<1> QED BY <1>4, <1>5, <1>6 DEF RatingInv

LEMMA VotesFinite ==
  ASSUME votes \subseteq Delivered \X Voters, NEW o
  PROVE  IsFiniteSet(Rating!Votes(o)) /\ Cardinality(Rating!Votes(o)) \in Nat
<1>1. IsFiniteSet(Delivered \X Voters)
  BY ReviewsAssumption, FS_Product
<1> QED BY <1>1, FS_Subset, FS_CardinalityType DEF Rating!Votes

\* A vote that comes too late changes nothing.
LEMMA NoVote ==
  ASSUME NEW t, OneTask = {t}, RatingInv(t), Fits(product),
         UNCHANGED <<reviews, votes, product, decisions>>, Rating!EndReview(t)
  PROVE  RatingInv(t)'
<1>1. Fits(product)'
  BY PublicStays DEF Fits
<1>2. Rating!ReviewsTypeOK' /\ RatingWithin(t)'
  BY <1>1, TaskEnds DEF RatingInv, Rating!ReviewsTypeOK
<1> QED BY <1>2 DEF RatingInv, Rating!Votes, Rating!Written

LEMMA VoteOnFits ==
  ASSUME NEW t, OneTask = {t}, RatingInv(t), Rating!VoteOn(t) PROVE RatingInv(t)'
<1> DEFINE o == reviewTask[t].order
           v == <<o, reviewTask[t].who>>
           all == votes \cup {v}
<1>1. /\ o \in Delivered /\ v \in Delivered \X Voters /\ Rating!Written(o) /\ Fits(product)
      /\ votes \subseteq Delivered \X Voters /\ reviews \in [Delivered -> Rating!Review]
      /\ reviews[o].helpful = Cardinality(Rating!Votes(o))
      /\ Rating!EndReview(t) /\ UNCHANGED <<product, decisions>>
  BY DEF RatingInv, RatingWithin, Rating!ReviewsTypeOK, Rating!VoteOn, Rating!AtReview
<1>2. CASE v \in votes
  BY <1>1, <1>2, NoVote DEF Rating!VoteOn
<1>3. CASE v \notin votes
  <2>1. votes' = all /\ reviews' = [reviews EXCEPT ![o].helpful = reviews[o].helpful + 1]
    BY <1>3 DEF Rating!VoteOn
  <2>2. {x \in all : x[1] = o} = Rating!Votes(o) \cup {v} /\ v \notin Rating!Votes(o)
    BY <1>3 DEF Rating!Votes
  <2>3. Cardinality({x \in all : x[1] = o}) = reviews[o].helpful + 1 /\ reviews[o].helpful + 1 \in Nat
    <3>1. Cardinality(Rating!Votes(o) \cup {v}) = Cardinality(Rating!Votes(o)) + 1
      BY <1>1, <2>2, VotesFinite, FS_AddElement
    <3> QED BY <1>1, <2>2, <3>1, VotesFinite
  <2>4. \A y \in Delivered \ {o} : {x \in all : x[1] = y} = Rating!Votes(y)
    BY DEF Rating!Votes
  <2>5. all \subseteq Delivered \X Voters
    BY <1>1
  <2> HIDE DEF all
  <2> QED BY <1>1, <2>1, <2>3, <2>4, <2>5, VotesOnly
<1> QED BY <1>2, <1>3

LEMMA VoteOffFits ==
  ASSUME NEW t, OneTask = {t}, RatingInv(t), Rating!VoteOff(t) PROVE RatingInv(t)'
<1> DEFINE o == reviewTask[t].order
           new == [reviewTask[t] EXCEPT !.pc = "vote_off_save", !.review = reviews[o]]
<1>1. /\ o \in Delivered /\ Rating!Written(o) /\ Fits(product) /\ Rating!ReviewsTypeOK
      /\ reviewTask[t] \in Rating!ReviewTask /\ reviewTask[t].who \in Voters
      /\ reviews \in [Delivered -> Rating!Review]
      /\ UNCHANGED <<reviews, votes, product, decisions>>
  BY DEF RatingInv, RatingWithin, Rating!ReviewsTypeOK, Rating!VoteOff, Rating!AtReview
<1>2. /\ new \in Rating!ReviewTask /\ new.pc = "vote_off_save" /\ new.order = o
      /\ new.who \in Voters /\ new.review = reviews[o]
  BY <1>1 DEF Rating!ReviewTask
<1>3. reviewTask' = [reviewTask EXCEPT ![t] = new]
  BY <1>1 DEF Rating!VoteOff, Rating!ReviewsTypeOK
<1> HIDE DEF new
<1>4. reviewTask' \in [OneTask -> Rating!ReviewTask] /\ reviewTask'[t] = new
  BY <1>1, <1>2, <1>3, TaskMoves
<1>5. Fits(product)'
  BY <1>1, PublicStays DEF Fits
<1>6. Rating!ReviewsTypeOK' /\ RatingWithin(t)'
  BY <1>1, <1>2, <1>4, <1>5 DEF Rating!ReviewsTypeOK, RatingWithin, Rating!Written
<1> QED BY <1>1, <1>6 DEF RatingInv, Rating!Votes, Rating!Written

LEMMA VoteOffSaveFits ==
  ASSUME NEW t, OneTask = {t}, RatingInv(t), Rating!VoteOffSave(t) PROVE RatingInv(t)'
<1> DEFINE o == reviewTask[t].order
           v == <<o, reviewTask[t].who>>
           all == votes \ {v}
           count == reviewTask[t].review.helpful
           n == IF count = 0 THEN 0 ELSE count - 1
<1>1. /\ o \in Delivered /\ Rating!Written(o) /\ Fits(product)
      /\ votes \subseteq Delivered \X Voters /\ reviews \in [Delivered -> Rating!Review]
      /\ count = Cardinality(Rating!Votes(o))
      /\ Rating!EndReview(t) /\ UNCHANGED <<product, decisions>>
  BY DEF RatingInv, RatingWithin, Rating!ReviewsTypeOK, Rating!VoteOffSave, Rating!AtReview
<1>2. CASE v \notin votes
  BY <1>1, <1>2, NoVote DEF Rating!VoteOffSave
<1>3. CASE v \in votes
  <2>1. votes' = all /\ reviews' = [reviews EXCEPT ![o].helpful = n]
    BY <1>3 DEF Rating!VoteOffSave
  <2>2. {x \in all : x[1] = o} = Rating!Votes(o) \ {v} /\ v \in Rating!Votes(o)
    BY <1>3 DEF Rating!Votes
  <2>3. Cardinality(Rating!Votes(o) \ {v}) = count - 1 /\ count \in Nat
        /\ Cardinality(Rating!Votes(o) \ {v}) \in Nat
    <3>1. IsFiniteSet(Rating!Votes(o)) /\ count \in Nat
      BY <1>1, VotesFinite
    <3>2. /\ IsFiniteSet(Rating!Votes(o) \ {v})
          /\ Cardinality(Rating!Votes(o) \ {v}) = Cardinality(Rating!Votes(o)) - 1
      BY <2>2, <3>1, FS_RemoveElement
    <3>3. Cardinality(Rating!Votes(o) \ {v}) \in Nat
      BY <3>2, FS_CardinalityType
    <3> QED BY <1>1, <3>1, <3>2, <3>3
  <2>4. Cardinality({x \in all : x[1] = o}) = n /\ n \in Nat
    <3>1. Cardinality({x \in all : x[1] = o}) = count - 1
      BY <2>2, <2>3
    <3>2. n = count - 1 /\ n \in Nat
      BY <2>3
    <3> QED BY <3>1, <3>2
  <2>5. \A y \in Delivered \ {o} : {x \in all : x[1] = y} = Rating!Votes(y)
    BY DEF Rating!Votes
  <2>6. all \subseteq Delivered \X Voters
    BY <1>1
  <2> HIDE DEF all, n
  <2> QED BY <1>1, <2>1, <2>4, <2>5, <2>6, VotesOnly
<1> QED BY <1>2, <1>3

LEMMA MarkHelpfulFits ==
  ASSUME NEW t, OneTask = {t}, RatingInv(t), Rating!MarkHelpful(t) PROVE RatingInv(t)'
<1>1. PICK o \in Rating!PublicReviews, u \in Voters :
        reviewTask' = [reviewTask EXCEPT ![t] =
          [Rating!NoReviewTask EXCEPT !.pc = IF <<o, u>> \in votes THEN "vote_off" ELSE "vote_on",
                                      !.order = o, !.who = u]]
  BY DEF Rating!MarkHelpful
<1> DEFINE new == [Rating!NoReviewTask EXCEPT !.pc = IF <<o, u>> \in votes THEN "vote_off" ELSE "vote_on",
                                              !.order = o, !.who = u]
<1>2. /\ o \in Delivered /\ Rating!Written(o) /\ Rating!ReviewsTypeOK
      /\ UNCHANGED <<reviews, votes, product, decisions>> /\ Fits(product)
  BY DEF Rating!MarkHelpful, Rating!AtReview, RatingInv, RatingWithin, Rating!PublicReviews,
         Rating!IsPublic, Rating!Written
<1>3. /\ new \in Rating!ReviewTask /\ new.pc \in {"vote_on", "vote_off"}
      /\ new.order = o /\ new.who = u
  BY <1>2, NoReviewFits DEF Rating!ReviewTask
<1> HIDE DEF new
<1>4. reviewTask' \in [OneTask -> Rating!ReviewTask] /\ reviewTask'[t] = new
  BY <1>1, <1>2, <1>3, TaskMoves DEF new
<1>5. Fits(product)'
  BY <1>2, PublicStays DEF Fits
<1>6. Rating!ReviewsTypeOK' /\ RatingWithin(t)'
  BY <1>2, <1>3, <1>4, <1>5 DEF Rating!ReviewsTypeOK, RatingWithin, Rating!Written
<1> QED BY <1>2, <1>6 DEF RatingInv, Rating!Votes, Rating!Written

LEMMA ModerateFits ==
  ASSUME NEW t, OneTask = {t}, RatingInv(t), Rating!Moderate(t) PROVE RatingInv(t)'
<1>1. PICK o \in Delivered :
        /\ Rating!Written(o)
        /\ \/ \E status \in Rating!ReviewStatus :
                /\ reviews' = [reviews EXCEPT ![o].status = status]
                /\ reviewTask' = [reviewTask EXCEPT ![t] =
                     [Rating!NoReviewTask EXCEPT !.pc = "aggregate", !.order = o]]
           \/ \E spam \in BOOLEAN :
                /\ UNCHANGED reviews
                /\ reviewTask' = [reviewTask EXCEPT ![t] =
                     [Rating!NoReviewTask EXCEPT !.pc = "moderate", !.order = o,
                        !.review = Rating!Marked(reviews[o], spam)]]
  BY DEF Rating!Moderate
<1>2. /\ Rating!ReviewsTypeOK /\ reviews \in [Delivered -> Rating!Review] /\ Fits(product)
      /\ UNCHANGED <<votes, product>> /\ decisions' \in 0..2
  <2>1. decisions \in 0..2 /\ decisions < 2 /\ decisions' = decisions + 1
    BY DEF Rating!Moderate, RatingInv, Rating!ReviewsTypeOK
  <2>2. decisions' \in 0..2
    BY <2>1
  <2> QED BY <2>2 DEF Rating!Moderate, Rating!AtReview, RatingInv, RatingWithin, Rating!ReviewsTypeOK
<1>3. ASSUME NEW status \in Rating!ReviewStatus, reviews' = [reviews EXCEPT ![o].status = status],
             reviewTask' = [reviewTask EXCEPT ![t] = [Rating!NoReviewTask EXCEPT !.pc = "aggregate", !.order = o]]
      PROVE  RatingInv(t)'
  <2> DEFINE new == [Rating!NoReviewTask EXCEPT !.pc = "aggregate", !.order = o]
  <2>1. new \in Rating!ReviewTask /\ new.pc = "aggregate" /\ new.order = o
    BY NoReviewFits DEF Rating!ReviewTask
  <2> HIDE DEF new
  <2>2. reviewTask' \in [OneTask -> Rating!ReviewTask] /\ reviewTask'[t] = new
    BY <1>2, <1>3, <2>1, TaskMoves DEF new
  <2>3. /\ reviews' \in [Delivered -> Rating!Review] /\ reviews'[o].status # "none"
        /\ \A x \in Delivered : /\ reviews'[x].helpful = reviews[x].helpful
                                /\ reviews'[x].stars = reviews[x].stars
                                /\ x # o => reviews'[x].status = reviews[x].status
    BY <1>2, <1>3 DEF Rating!Review, Rating!ReviewStatus
  <2>4. Rating!ReviewsTypeOK' /\ RatingWithin(t)'
    BY <1>2, <2>1, <2>2, <2>3 DEF Rating!ReviewsTypeOK, RatingWithin
  <2> QED BY <1>1, <1>2, <2>3, <2>4 DEF RatingInv, Rating!Votes, Rating!Written
<1>4. ASSUME NEW spam \in BOOLEAN, UNCHANGED reviews,
             reviewTask' = [reviewTask EXCEPT ![t] =
               [Rating!NoReviewTask EXCEPT !.pc = "moderate", !.order = o,
                  !.review = Rating!Marked(reviews[o], spam)]]
      PROVE  RatingInv(t)'
  <2> DEFINE r == Rating!Marked(reviews[o], spam)
             new == [Rating!NoReviewTask EXCEPT !.pc = "moderate", !.order = o, !.review = r]
  <2>1. r \in Rating!Review /\ r.status # "none"
    BY ZenonT(30), <1>1, <1>2 DEF Rating!Marked, Rating!Review, Rating!ReviewStatus, Rating!Written
  <2> HIDE DEF r
  <2>2. new \in Rating!ReviewTask /\ new.pc = "moderate" /\ new.order = o /\ new.review = r
    BY <2>1, NoReviewFits DEF Rating!ReviewTask
  <2>3. reviewTask' = [reviewTask EXCEPT ![t] = new]
    BY <1>4 DEF r
  <2> HIDE DEF new
  <2>4. reviewTask' \in [OneTask -> Rating!ReviewTask] /\ reviewTask'[t] = new
    BY <1>2, <2>2, <2>3, TaskMoves
  <2>5. Fits(product)'
    BY <1>2, <1>4, PublicStays DEF Fits
  <2>6. Rating!ReviewsTypeOK' /\ RatingWithin(t)'
    BY <1>1, <1>2, <1>4, <2>1, <2>2, <2>4, <2>5 DEF Rating!ReviewsTypeOK, RatingWithin, Rating!Written
  <2> QED BY <1>2, <1>4, <2>6 DEF RatingInv, Rating!Votes, Rating!Written
<1> QED BY <1>1, <1>3, <1>4

LEMMA ToggleSpamFits ==
  ASSUME NEW t, OneTask = {t}, RatingInv(t), Rating!ToggleSpam(t) PROVE RatingInv(t)'
<1> DEFINE o == reviewTask[t].order
           r == reviewTask[t].review
           new == [reviewTask[t] EXCEPT !.pc = "aggregate"]
<1>1. /\ o \in Delivered /\ Rating!Written(o) /\ r \in Rating!Review /\ r.status # "none"
      /\ reviewTask[t] \in Rating!ReviewTask /\ Rating!ReviewsTypeOK
      /\ reviews \in [Delivered -> Rating!Review] /\ UNCHANGED <<votes, product, decisions>>
  BY DEF Rating!ToggleSpam, Rating!AtReview, RatingInv, RatingWithin, Rating!ReviewsTypeOK, Rating!ReviewTask
<1>2. new \in Rating!ReviewTask /\ new.pc = "aggregate" /\ new.order = o
  BY <1>1 DEF Rating!ReviewTask
<1>3. reviewTask' = [reviewTask EXCEPT ![t] = new]
  BY DEF Rating!ToggleSpam
<1>4. /\ reviews' \in [Delivered -> Rating!Review] /\ reviews'[o].status # "none"
      /\ \A x \in Delivered : /\ reviews'[x].helpful = reviews[x].helpful
                              /\ reviews'[x].stars = reviews[x].stars
                              /\ x # o => reviews'[x].status = reviews[x].status
  <2>1. reviews' = [reviews EXCEPT ![o] = [reviews[o] EXCEPT !.spam = r.spam, !.status = r.status]]
    BY <1>1 DEF Rating!ToggleSpam
  <2>2. /\ [reviews[o] EXCEPT !.spam = r.spam, !.status = r.status] \in Rating!Review
        /\ [reviews[o] EXCEPT !.spam = r.spam, !.status = r.status].status = r.status
    BY <1>1 DEF Rating!Review
  <2> QED BY <1>1, <2>1, <2>2
<1> HIDE DEF new
<1>5. reviewTask' \in [OneTask -> Rating!ReviewTask] /\ reviewTask'[t] = new
  BY <1>1, <1>2, <1>3, TaskMoves
<1>6. Rating!ReviewsTypeOK' /\ RatingWithin(t)'
  BY <1>1, <1>2, <1>4, <1>5 DEF Rating!ReviewsTypeOK, RatingWithin
<1> QED BY <1>1, <1>4, <1>6 DEF RatingInv, Rating!Votes, Rating!Written

\* The mean that a moderation computes lies between the worst and the best.
LEMMA AggregateFits ==
  ASSUME NEW t, OneTask = {t}, RatingInv(t), Rating!Aggregate(t) PROVE RatingInv(t)'
<1> DEFINE P == Rating!PublicReviews
           n == Cardinality(P)
           books == [count |-> n,
                     rating |-> IF n = 0 THEN 0
                                ELSE Rating!RoundedQuotient(100 * Rating!StarsOf(P), n)]
           new == [reviewTask[t] EXCEPT !.pc = "save_rating", !.books = books]
<1>1. /\ reviewTask[t] \in Rating!ReviewTask /\ reviewTask[t].order \in Delivered /\ Rating!ReviewsTypeOK
      /\ UNCHANGED <<reviews, votes, product, decisions>>
  BY DEF Rating!Aggregate, Rating!AtReview, RatingInv, RatingWithin, Rating!ReviewsTypeOK
<1>2. IsFiniteSet(P) /\ n \in Nat /\ \A o \in P : reviews[o].stars \in 1..5
  BY PublicFinite, PublicStars
<1>3. books \in Rating!ProductBooks /\ Fits(books)
  <2>1. CASE n = 0
    BY <2>1 DEF Rating!ProductBooks, Fits
  <2>2. CASE n # 0
    <3> DEFINE stars == Rating!StarsOf(P)
               q == Rating!RoundedQuotient(100 * stars, n)
    <3>1. P # {}
      BY <2>2, FS_EmptySet
    <3>2. PICK worst \in P, best \in P : /\ reviews[worst].stars * n <= stars
                                         /\ stars <= reviews[best].stars * n
      BY <1>2, <3>1, StarsBetween
    <3>3. stars \in Nat
      BY <1>2, <3>1, StarsBetween
    <3> DEFINE w == reviews[worst].stars
               b == reviews[best].stars
    <3>4. w \in Nat /\ b \in Nat /\ n \in Nat \ {0} /\ w * n <= stars /\ stars <= b * n
      BY <1>2, <2>2, <3>2
    <3>5. books = [count |-> n, rating |-> q]
      BY <2>2
    <3> HIDE DEF w, b, stars, n, books, P
    <3>6. (100 * w) * n <= 100 * stars /\ 100 * stars <= (100 * b) * n
          /\ 100 * w \in Nat /\ 100 * b \in Nat /\ 100 * stars \in Nat
      BY <3>3, <3>4
    <3>7. q \in Nat /\ 100 * w <= q /\ q <= 100 * b
      BY <3>4, <3>6, QuotientBetween
    <3> HIDE DEF q
    <3>8. books \in Rating!ProductBooks /\ books.count = n /\ books.rating = q
      BY <3>4, <3>5, <3>7 DEF Rating!ProductBooks
    <3> QED BY <3>2, <3>7, <3>8 DEF Fits, w, b, n, P
  <2> QED BY <2>1, <2>2
<1> HIDE DEF books
<1>4. new \in Rating!ReviewTask /\ new.pc = "save_rating" /\ new.books = books /\ new.order \in Delivered
  BY <1>1, <1>3 DEF Rating!ReviewTask
<1>5. reviewTask' = [reviewTask EXCEPT ![t] = new]
  BY <1>1, CountsAlike DEF Rating!Aggregate, Rating!Counted, Rating!ReviewsTypeOK, books
<1> HIDE DEF new
<1>6. reviewTask' \in [OneTask -> Rating!ReviewTask] /\ reviewTask'[t] = new
  BY <1>1, <1>4, <1>5, TaskMoves
<1>8. Rating!ReviewsTypeOK' /\ RatingWithin(t)'
  <2>1. Rating!ReviewsTypeOK'
    BY <1>1, <1>6 DEF Rating!ReviewsTypeOK
  <2>2. Fits(reviewTask[t].books)'
    <3>1. Rating!PublicReviews' = Rating!PublicReviews /\ reviewTask'[t].books = books /\ reviews' = reviews
      BY <1>1, <1>4, <1>6, PublicStays
    <3> HIDE DEF P
    <3>2. Fits(reviewTask[t].books)'
      BY <1>3, <3>1 DEF Fits
    <3> QED BY <3>2
  <2> QED BY <1>4, <1>6, <2>1, <2>2 DEF RatingWithin
<1> QED BY <1>1, <1>8 DEF RatingInv, Rating!Votes, Rating!Written

LEMMA SaveRatingFits ==
  ASSUME NEW t, OneTask = {t}, RatingInv(t), Rating!SaveRating(t) PROVE RatingInv(t)'
<1>1. /\ Rating!ReviewsTypeOK /\ Fits(reviewTask[t].books) /\ reviewTask[t].books \in Rating!ProductBooks
      /\ Rating!EndReview(t) /\ UNCHANGED <<reviews, votes, decisions>> /\ product' = reviewTask[t].books
  BY DEF Rating!SaveRating, Rating!AtReview, RatingInv, RatingWithin, Rating!ReviewsTypeOK, Rating!ReviewTask
<1>2. Fits(product)'
  BY <1>1, PublicStays DEF Fits
<1>3. Rating!ReviewsTypeOK' /\ RatingWithin(t)'
  BY <1>1, <1>2, TaskEnds DEF Rating!ReviewsTypeOK
<1> QED BY <1>1, <1>3 DEF RatingInv, Rating!Votes, Rating!Written

LEMMA RatingUndisturbed ==
  ASSUME NEW t, RatingInv(t), UNCHANGED reviewVars PROVE RatingInv(t)'
<1>1. UNCHANGED <<reviews, votes, product, decisions, reviewTask>>
  BY DEF reviewVars
<1> QED BY <1>1 DEF RatingInv, RatingWithin, Fits, Rating!ReviewsTypeOK, Rating!Votes, Rating!Written,
                    Rating!PublicReviews

\* One request at a time: between requests the product row carries the number of
\* its public reviews, a rating between the worst and the best of them, and every
\* review the number of its votes, whatever is written, voted and moderated.
THEOREM ReviewsAddUp ==
  ASSUME NEW t, OneTask = {t} PROVE MCSpec => []ReviewBooksAgreeInTurn
<1> DEFINE Inv == area = "rating" => RatingInv(t)
<1>1. MCInit => Inv
  <2> SUFFICES ASSUME MCInit, area = "rating" PROVE RatingInv(t)
    OBVIOUS
  <2>1. /\ reviews = [o \in Delivered |-> Rating!NoReview] /\ votes = {} /\ decisions = 0
        /\ product = [rating |-> 450, count |-> 0] /\ reviewTask = [x \in {t} |-> Rating!NoReviewTask]
    BY DEF MCInit, Rating!ReviewsInit
  <2>2. Rating!PublicReviews = {} /\ \A o \in Delivered : Rating!Votes(o) = {}
    BY <2>1 DEF Rating!PublicReviews, Rating!IsPublic, Rating!NoReview, Rating!Votes
  <2>3. Cardinality({}) = 0
    BY FS_EmptySet
  <2>4. Fits(product)
    BY <2>1, <2>2, <2>3 DEF Fits
  <2>5. Rating!ReviewsTypeOK
    BY <2>1, NoReviewFits DEF Rating!ReviewsTypeOK, Rating!ProductBooks
  <2>6. RatingWithin(t)
    BY <2>1, <2>4, NoReviewFits DEF RatingWithin
  <2> QED BY <2>1, <2>2, <2>3, <2>5, <2>6 DEF RatingInv, Rating!Written, Rating!NoReview
<1>2. Inv /\ [MCNext]_<<allVars, area>> => Inv'
  <2> SUFFICES ASSUME Inv, [MCNext]_<<allVars, area>>, area' = "rating" PROVE RatingInv(t)'
    OBVIOUS
  <2>1. CASE MCNext
    <3>1. area = "rating" /\ Rating!ReviewsNext
      BY <2>1 DEF MCNext
    <3>2. \/ Rating!BeginReview(t) \/ Rating!CreateReview(t) \/ Rating!MarkHelpful(t) \/ Rating!VoteOn(t)
          \/ Rating!VoteOff(t) \/ Rating!VoteOffSave(t) \/ Rating!Moderate(t) \/ Rating!ToggleSpam(t)
          \/ Rating!Aggregate(t) \/ Rating!SaveRating(t)
      BY <3>1 DEF Rating!ReviewsNext
    <3> QED BY <3>1, <3>2, BeginReviewFits, CreateReviewFits, MarkHelpfulFits, VoteOnFits, VoteOffFits,
               VoteOffSaveFits, ModerateFits, ToggleSpamFits, AggregateFits, SaveRatingFits
  <2>2. CASE UNCHANGED <<allVars, area>>
    BY <2>2, RatingUndisturbed DEF allVars
  <2> QED BY <2>1, <2>2
<1>3. Inv => ReviewBooksAgreeInTurn
  <2> SUFFICES ASSUME RatingInv(t), Rating!QuietReviews PROVE Rating!ReviewBooksAgree
    BY DEF ReviewBooksAgreeInTurn, Rating!ReviewBooksAgree
  <2>1. reviewTask[t].pc = "idle"
    BY DEF Rating!QuietReviews, Rating!AtReview
  <2>2. Fits(product) /\ \A o \in Delivered : reviews[o].helpful = Cardinality(Rating!Votes(o))
    BY <2>1 DEF RatingInv, RatingWithin
  <2> QED BY <2>2, CountsAlike DEF Fits, Rating!ReviewBooksAgree
<1> QED BY <1>1, <1>2, <1>3, PTL DEF MCSpec

-----------------------------------------------------------------------------
(* Orders from the cart, one request at a time.  From the moment an order is *)
(* asked for until it is placed, what was shown then is where the request is *)
(* looking: in the hash, in the rows it writes from the hash, in the rows it *)
(* read.                                                                     *)

BuyShaped(r) ==
  r \in [pc: {"idle", "add_set", "view", "warm", "no_cart", "reserve", "sync", "sync_delete",
              "sync_commit", "read_rows", "place", "commit", "clear"},
         owner: Owners, item: Items, asked: {r.asked}, quantity: Nat, rows: {r.rows},
         basket: Contents, shown: {r.shown},
         order: [key: {r.order.key}, online: {FALSE}, buyNow: {FALSE}, reservation: {r.order.reservation}]]

Bought(rows) == [i \in Items |-> Buying!Units(rows, i)]

Sees(r) ==
  /\ r.pc \in {"reserve", "sync"} => r.shown = Buying!CartContents
  /\ r.pc \in {"sync_delete", "sync_commit"} => r.shown = r.basket
  /\ r.pc = "sync_commit" => r.rows = RowsOf("user")
  /\ r.pc = "read_rows" => r.shown = Bought(RowsOf("user"))
  /\ r.pc \in {"place", "commit"} => r.shown = Bought(r.rows)

RowShaped(r) ==
  r = [id |-> r.id, owner |-> r.owner, item |-> r.item, quantity |-> r.quantity] /\ r.quantity \in Nat
MoveShaped(m) ==
  m \in [pc: {"idle", "wish_create", "move_save", "move_delete"}, item: {m.item}, quantity: Nat, rows: {m.rows}]
AsShown(order) ==
  order.status # "none" /\ ~order.buyNow => \A i \in Items : Buying!Units(order.rows, i) = order.shown[i]

BuyInv(q) ==
  /\ redisUp = TRUE
  /\ cached \in [Owners -> Contents]
  /\ \A r \in saved : RowShaped(r)
  /\ cartReq = [x \in {q} |-> cartReq[x]] /\ moving = [x \in {q} |-> moving[x]]
  /\ placed = [k \in Keys |-> placed[k]] /\ \A k \in Keys : AsShown(placed[k])
  /\ BuyShaped(cartReq[q]) /\ MoveShaped(moving[q])
  /\ moving[q].pc # "idle" => cartReq[q].pc = "idle"
  /\ Sees(cartReq[q])

\* The instance works on the same carts.
LEMMA BuyingAlike ==
  /\ Buying!Empty = Empty /\ Buying!NoCartRequest = NoCartRequest
  /\ \A o : Buying!RowsOf(o) = RowsOf(o)
  /\ redisUp = TRUE => \A o : Buying!Hash(o) = cached[o]
<1>1. Buying!Empty = Empty
  BY DEF Buying!Empty, Empty
<1>2. Buying!NoCartRequest = NoCartRequest
  BY <1>1 DEF Buying!NoCartRequest, NoCartRequest, Buying!NoChoice, NoChoice
<1>3. \A o : Buying!RowsOf(o) = RowsOf(o)
  BY DEF Buying!RowsOf, RowsOf
<1>4. redisUp = TRUE => \A o : Buying!Hash(o) = cached[o]
  BY DEF Buying!Hash
<1> QED BY <1>1, <1>2, <1>3, <1>4

LEMMA NothingToBuy == BuyShaped(NoCartRequest) /\ NoCartRequest.pc = "idle" /\ Empty \in Contents
BY CartAssumption DEF BuyShaped, NoCartRequest, NoChoice, Owners, Contents, Empty

\* The request goes on as `t`; the wishlist waits.
LEMMA BuyMoves ==
  ASSUME NEW q, BuyInv(q), NEW t, cartReq' = [cartReq EXCEPT ![q] = t], UNCHANGED <<redisUp, moving>>,
         moving[q].pc # "idle" => cartReq'[q] = cartReq[q],
         cached' \in [Owners -> Contents], \A r \in saved' : RowShaped(r),
         placed' = [k \in Keys |-> placed'[k]], \A k \in Keys : AsShown(placed'[k]),
         BuyShaped(t), Sees(t)'
  PROVE  BuyInv(q)'
<1>1. cartReq'[q] = t /\ cartReq' = [x \in {q} |-> cartReq'[x]]
  BY DEF BuyInv
<1>2. \A k \in Keys : AsShown(placed[k])'
  BY DEF AsShown
<1>3. Sees(cartReq[q])'
  BY <1>1 DEF Sees
<1> QED BY <1>1, <1>2, <1>3 DEF BuyInv

\* The same, where the request only does something itself.
LEMMA BuyGoesOn ==
  ASSUME NEW q, BuyInv(q), NEW t, cartReq' = [cartReq EXCEPT ![q] = t], UNCHANGED <<redisUp, moving>>,
         moving[q].pc # "idle" => cartReq'[q] = cartReq[q],
         UNCHANGED <<cached, saved, placed>>, BuyShaped(t), Sees(t)
  PROVE  BuyInv(q)'
<1>1. Sees(t)'
  BY DEF Sees, RowsOf, Bought, Buying!Units, Buying!CartContents, Buying!Shown, Buying!IsCached,
         Buying!Hash, Buying!RowsFor, Buying!RowsOf
<1>2. /\ cached' \in [Owners -> Contents] /\ \A r \in saved' : RowShaped(r)
      /\ placed' = [k \in Keys |-> placed'[k]] /\ \A k \in Keys : AsShown(placed'[k])
  BY DEF BuyInv
<1> QED BY <1>1, <1>2, BuyMoves

\* The same, where nothing that was seen matters.
LEMMA BuyIdles ==
  ASSUME NEW q, BuyInv(q), NEW t, cartReq' = [cartReq EXCEPT ![q] = t], UNCHANGED <<redisUp, moving, placed>>,
         moving[q].pc # "idle" => cartReq'[q] = cartReq[q],
         cached' \in [Owners -> Contents], \A r \in saved' : RowShaped(r),
         BuyShaped(t), t.pc \in {"idle", "add_set", "view", "warm", "no_cart", "clear"}
  PROVE  BuyInv(q)'
<1>1. Sees(t)'
  BY DEF Sees
<1>2. placed' = [k \in Keys |-> placed'[k]] /\ \A k \in Keys : AsShown(placed'[k])
  BY DEF BuyInv
<1> QED BY <1>1, <1>2, BuyMoves

LEMMA BuyEnds ==
  ASSUME NEW q, BuyInv(q), Buying!CartEnd(q), UNCHANGED <<redisUp, moving>>,
         moving[q].pc # "idle" => cartReq'[q] = cartReq[q],
         cached' \in [Owners -> Contents], \A r \in saved' : RowShaped(r),
         placed' = [k \in Keys |-> placed'[k]], \A k \in Keys : AsShown(placed'[k])
  PROVE  BuyInv(q)'
<1>1. cartReq' = [cartReq EXCEPT ![q] = NoCartRequest]
  BY BuyingAlike DEF Buying!CartEnd
<1>2. Sees(NoCartRequest)'
  BY NothingToBuy DEF Sees
<1> QED BY <1>1, <1>2, NothingToBuy, BuyMoves

LEMMA BuyDrops ==
  ASSUME NEW q, BuyInv(q), NEW o \in Owners, NEW S, Buying!DropFields(o, S)
  PROVE  cached' \in [Owners -> Contents]
<1>1. /\ cached' = [cached EXCEPT ![o] = [i \in Items |-> IF i \in S THEN 0 ELSE @[i]]]
      /\ cached \in [Owners -> Contents]
  BY DEF Buying!DropFields, BuyInv
<1>2. [i \in Items |-> IF i \in S THEN 0 ELSE cached[o][i]] \in Contents
  BY <1>1 DEF Contents
<1> QED BY <1>1, <1>2

-----------------------------------------------------------------------------
(* What one row, or none, adds up to *)

\* The instance counts as this module does.
LEMMA BoughtAlike ==
  ASSUME NEW rows
  PROVE  Buying!Together(rows) = Cardinality(UnitsIn(rows))
         /\ \A i : Buying!Units(rows, i) = Buying!Together(RowsWith(rows, i))
<1>1. \A S : Buying!Cardinality(S) = Cardinality(S)
  BY DEF Cardinality, Buying!Cardinality, IsFiniteSet, Buying!IsFiniteSet
<1>2. Buying!UnitsIn(rows) = UnitsIn(rows)
  BY DEF Buying!UnitsIn, UnitsIn
<1>3. \A i : Buying!RowsWith(rows, i) = RowsWith(rows, i)
  BY DEF Buying!RowsWith, RowsWith
<1> QED BY <1>1, <1>2, <1>3 DEF Buying!Together, Buying!Units

LEMMA NoneBought == Buying!Together({}) = 0
<1>1. UnitsIn({}) = {}
  BY DEF UnitsIn
<1> QED BY <1>1, BoughtAlike, FS_EmptySet

LEMMA OneBought ==
  ASSUME NEW g, g.quantity \in Nat
  PROVE  Buying!Together({g}) = g.quantity
<1> DEFINE n == g.quantity
<1>1. UnitsIn({g}) = {g} \X (1..n)
  BY DEF UnitsIn
<1> HIDE DEF n
<1>2. n \in Nat
  BY DEF n
<1>3. IsFiniteSet(1..n) /\ Cardinality(1..n) = n
  BY <1>2, FS_Interval
<1>4. IsFiniteSet({g}) /\ Cardinality({g}) = 1
  BY FS_Singleton
<1>5. Cardinality({g} \X (1..n)) = 1 * n
  BY ZenonT(60), <1>3, <1>4, FS_Product
<1>6. Buying!Together({g}) = Cardinality(UnitsIn({g}))
  BY BoughtAlike
<1>7. Cardinality({g} \X (1..n)) = n
  BY <1>2, <1>5
<1> QED BY <1>1, <1>6, <1>7 DEF n

\* Rows of which each item has one add up to what each says.
LEMMA RowsBought ==
  ASSUME NEW rows, NEW basket \in Contents,
         \A r \in rows : r.quantity = basket[r.item],
         \A r, s \in rows : r.item = s.item => r = s,
         \A i \in Items : basket[i] > 0 <=> \E r \in rows : r.item = i
  PROVE  Bought(rows) = basket
<1> SUFFICES ASSUME NEW i \in Items PROVE Buying!Units(rows, i) = basket[i]
  BY DEF Bought, Contents
<1> DEFINE S == {r \in rows : r.item = i}
<1>0. Buying!Units(rows, i) = Buying!Together(S)
  <2>1. Buying!Units(rows, i) = Buying!Together(RowsWith(rows, i))
    BY BoughtAlike
  <2>2. RowsWith(rows, i) = S
    BY DEF RowsWith
  <2> QED BY <2>1, <2>2
<1>1. CASE S = {}
  <2>1. basket[i] = 0
    BY <1>1 DEF Contents
  <2> QED BY <1>0, <1>1, <2>1, NoneBought
<1>2. CASE S # {}
  <2>1. PICK g \in S : TRUE
    BY <1>2
  <2>2. S = {g} /\ g.quantity = basket[i] /\ basket[i] \in Nat
    BY <2>1 DEF Contents
  <2>3. Buying!Together(S) = basket[i]
    BY <2>2, OneBought
  <2> QED BY <1>0, <2>3
<1> QED BY <1>1, <1>2

-----------------------------------------------------------------------------
(* The steps of a place-order request *)

\* Facts that most steps need.
LEMMA BuyFacts ==
  ASSUME NEW q, BuyInv(q)
  PROVE  /\ redisUp = TRUE /\ cached \in [Owners -> Contents] /\ BuyShaped(cartReq[q]) /\ Sees(cartReq[q])
         /\ \A r \in saved : RowShaped(r)
         /\ placed = [k \in Keys |-> placed[k]] /\ \A k \in Keys : AsShown(placed[k])
         /\ moving[q].pc # "idle" => cartReq[q].pc = "idle"
BY DEF BuyInv

Waits(q) == moving[q].pc # "idle" => cartReq'[q] = cartReq[q]

LEMMA AddingBuys ==
  ASSUME NEW q, BuyInv(q), Waits(q), UNCHANGED <<moving, placed>>,
         (\E o \in Owners, i \in Items, n \in Amounts : Buying!AddToCart(q, o, i, n)) \/ Buying!AddSet(q)
  PROVE  BuyInv(q)'
<1> DEFINE r == cartReq[q]
<1>1. BuyShaped(r) /\ redisUp = TRUE /\ redisUp' = redisUp /\ UNCHANGED saved
  BY BuyFacts DEF Buying!AddToCart, Buying!AddSet
<1>2. ASSUME NEW o \in Owners, NEW i \in Items, NEW n \in Amounts, Buying!AddToCart(q, o, i, n)
      PROVE  BuyInv(q)'
  <2> DEFINE want == cached[o][i] + n
             t == [NoCartRequest EXCEPT !.pc = "add_set", !.owner = o, !.item = i, !.asked = n,
                                        !.quantity = want]
  <2>1. cartReq' = [cartReq EXCEPT ![q] = t] /\ UNCHANGED cached
    BY <1>1, <1>2, BuyingAlike DEF Buying!AddToCart, Buying!BeginCart
  <2>2. want \in Nat
    <3>1. cached[o] \in [Items -> Nat] /\ n \in Nat
      BY AmountsAreNumbers, BuyFacts DEF Contents
    <3> QED BY <3>1
  <2>3. BuyShaped(t) /\ t.pc = "add_set"
    BY <2>2, NothingToBuy DEF BuyShaped
  <2> HIDE DEF t
  <2>4. cached' \in [Owners -> Contents] /\ \A r1 \in saved' : RowShaped(r1)
    BY <1>1, <2>1, BuyFacts
  <2> QED BY <1>1, <2>1, <2>3, <2>4, BuyIdles DEF Waits
<1>3. CASE Buying!AddSet(q)
  <2> DEFINE t == [r EXCEPT !.pc = "view"]
  <2>1. /\ cartReq' = [cartReq EXCEPT ![q] = t]
        /\ cached' = [cached EXCEPT ![r.owner][r.item] = r.quantity]
    BY <1>1, <1>3 DEF Buying!AddSet, Buying!CartStep, Buying!SetField
  <2>2. BuyShaped(t) /\ t.pc = "view"
    BY <1>1 DEF BuyShaped
  <2>3. cached' \in [Owners -> Contents]
    <3>1. cached \in [Owners -> Contents] /\ r.owner \in Owners /\ r.item \in Items /\ r.quantity \in Nat
      BY <1>1, BuyFacts DEF BuyShaped
    <3> QED BY <2>1, <3>1 DEF Contents
  <2> HIDE DEF t
  <2>4. \A r1 \in saved' : RowShaped(r1)
    BY <1>1, BuyFacts
  <2> QED BY <1>1, <2>1, <2>2, <2>3, <2>4, BuyIdles DEF Waits
<1> QED BY <1>2, <1>3

LEMMA ViewingBuys ==
  ASSUME NEW q, BuyInv(q), Waits(q), UNCHANGED <<moving, placed>>, Buying!ViewCart(q) \/ Buying!WarmCart(q)
  PROVE  BuyInv(q)'
<1> DEFINE r == cartReq[q]
<1>1. /\ BuyShaped(r) /\ redisUp = TRUE /\ redisUp' = redisUp /\ UNCHANGED saved
      /\ cached \in [Owners -> Contents] /\ r.owner \in Owners /\ r.basket \in Contents
  BY BuyFacts DEF Buying!ViewCart, Buying!WarmCart, BuyShaped
<1>2. ASSUME Buying!CartEnd(q), cached' \in [Owners -> Contents] PROVE BuyInv(q)'
  BY <1>1, <1>2, BuyFacts, BuyEnds DEF Waits
<1>3. ASSUME NEW t, BuyShaped(t), t.pc = "warm", cartReq' = [cartReq EXCEPT ![q] = t],
             cached' \in [Owners -> Contents]
      PROVE  BuyInv(q)'
  <2>1. \A r1 \in saved' : RowShaped(r1)
    BY <1>1, BuyFacts
  <2> QED BY <1>1, <1>3, <2>1, BuyIdles DEF Waits
<1>4. CASE Buying!ViewCart(q)
  <2>1. CASE Buying!DropFields(r.owner, offSale) /\ Buying!CartEnd(q)
    BY <1>1, <1>2, <2>1, BuyDrops
  <2>2. ASSUME NEW basket \in [Items -> {0} \cup {row.quantity : row \in Buying!RowsOf(r.owner)}],
               cartReq' = [cartReq EXCEPT ![q].pc = "warm", ![q].basket = basket], UNCHANGED cached
        PROVE  BuyInv(q)'
    <3> DEFINE t == [r EXCEPT !.pc = "warm", !.basket = basket]
    <3>1. \A row \in Buying!RowsOf(r.owner) : row.quantity \in Nat
      BY BuyFacts DEF Buying!RowsOf, RowShaped
    <3>2. basket \in Contents
      BY <3>1 DEF Contents
    <3>3. BuyShaped(t) /\ t.pc = "warm"
      BY <1>1, <3>2 DEF BuyShaped
    <3>4. cartReq' = [cartReq EXCEPT ![q] = t]
      BY <2>2
    <3> HIDE DEF t
    <3> QED BY <1>1, <1>3, <2>2, <3>3, <3>4
  <2> QED BY <1>4, <2>1, <2>2 DEF Buying!ViewCart
<1>5. CASE Buying!WarmCart(q)
  <2>1. CASE UNCHANGED cached /\ Buying!CartEnd(q)
    BY <1>1, <1>2, <2>1
  <2>2. ASSUME NEW i \in Items, cached' = [cached EXCEPT ![r.owner][i] = r.basket[i]],
               cartReq' = [cartReq EXCEPT ![q].basket[i] = 0], r.pc = "warm"
        PROVE  BuyInv(q)'
    <3> DEFINE basket == [r.basket EXCEPT ![i] = 0]
               t == [r EXCEPT !.basket = basket]
    <3>1. cartReq' = [cartReq EXCEPT ![q] = t]
      BY <2>2
    <3>2. basket \in Contents
      BY <1>1 DEF Contents
    <3>3. BuyShaped(t) /\ t.pc = "warm"
      BY <1>1, <2>2, <3>2 DEF BuyShaped
    <3>4. cached' \in [Owners -> Contents]
      BY <1>1, <2>2 DEF Contents
    <3> HIDE DEF t
    <3> QED BY <1>3, <3>1, <3>3, <3>4
  <2>3. r.pc = "warm"
    BY <1>5 DEF Buying!WarmCart, Buying!AtCart
  <2> QED BY <1>1, <1>5, <2>1, <2>2, <2>3 DEF Buying!WarmCart, Buying!FillOne, Buying!SetField
<1> QED BY <1>4, <1>5

LEMMA CheckoutBuys ==
  ASSUME NEW q, BuyInv(q), Waits(q), UNCHANGED moving, Buying!GetCheckout(q) \/ Buying!NoCart(q)
  PROVE  BuyInv(q)'
<1> DEFINE t == [NoCartRequest EXCEPT !.pc = "no_cart", !.owner = "user", !.item = NoCartRequest.item,
                                      !.asked = 0, !.quantity = 0]
<1>1. UNCHANGED <<redisUp, cached, saved, placed>>
  BY DEF Buying!GetCheckout, Buying!NoCart, Buying!checkoutVars
<1>2. BuyShaped(t) /\ t.pc = "no_cart"
  BY NothingToBuy DEF BuyShaped, Owners
<1>3. CASE Buying!GetCheckout(q) /\ cartReq' # cartReq
  <2>1. cartReq' = [cartReq EXCEPT ![q] = t]
    BY <1>3, BuyingAlike DEF Buying!GetCheckout, Buying!BeginCart
  <2> HIDE DEF t
  <2>2. cached' \in [Owners -> Contents] /\ \A r \in saved' : RowShaped(r)
    BY <1>1, BuyFacts
  <2> QED BY <1>1, <1>2, <2>1, <2>2, BuyIdles DEF Waits
<1>4. CASE cartReq' = cartReq
  <2>1. cartReq' = [cartReq EXCEPT ![q] = cartReq[q]]
    BY <1>4 DEF BuyInv
  <2> QED BY <1>1, <2>1, BuyFacts, BuyGoesOn DEF Waits
<1>5. CASE Buying!NoCart(q)
  BY <1>1, <1>5, BuyFacts, BuyEnds DEF Buying!NoCart, Waits
<1> QED BY <1>3, <1>4, <1>5

LEMMA PlacingBuys ==
  ASSUME NEW q, BuyInv(q), Waits(q), UNCHANGED moving, NEW k \in Keys, Buying!PlaceOrder(q, k)
  PROVE  BuyInv(q)'
<1> DEFINE order == [NoChoice EXCEPT !.key = k, !.online = FALSE, !.buyNow = FALSE]
           t == [NoCartRequest EXCEPT !.pc = "reserve", !.rows = {}, !.shown = Buying!CartContents,
                                      !.order = order]
<1>1. UNCHANGED <<redisUp, cached, saved, placed>>
  BY DEF Buying!PlaceOrder, Buying!checkoutVars
<1>2. cartReq' = [cartReq EXCEPT ![q] = t]
  <2>1. Buying!NoChoice = NoChoice
    BY DEF Buying!NoChoice, NoChoice
  <2> QED BY <2>1, BuyingAlike DEF Buying!PlaceOrder
<1>3. order \in [key: {order.key}, online: {FALSE}, buyNow: {FALSE}, reservation: {order.reservation}]
  BY DEF NoChoice
<1> HIDE DEF order
<1>4. BuyShaped(t) /\ t.pc = "reserve" /\ t.shown = Buying!CartContents
  BY <1>3, NothingToBuy DEF BuyShaped
<1> HIDE DEF t
<1>5. Sees(t)
  BY <1>4 DEF Sees
<1> QED BY <1>1, <1>2, <1>4, <1>5, BuyGoesOn DEF Waits

LEMMA ReservingBuys ==
  ASSUME NEW q, BuyInv(q), Waits(q), UNCHANGED moving, Buying!TakeReservation(q)
  PROVE  BuyInv(q)'
<1> DEFINE r == cartReq[q]
<1>1. /\ UNCHANGED <<redisUp, cached, saved, placed>> /\ r.pc = "reserve" /\ BuyShaped(r) /\ Sees(r)
      /\ r.order.buyNow = FALSE
  BY BuyFacts DEF Buying!TakeReservation, Buying!AtCart, BuyShaped
<1>2. PICK v : cartReq' = [cartReq EXCEPT ![q].pc = IF r.order.buyNow THEN "place" ELSE "sync",
                                          ![q].order.reservation = v]
  BY DEF Buying!TakeReservation
<1> DEFINE order == [r.order EXCEPT !.reservation = v]
           t == [r EXCEPT !.pc = "sync", !.order = order]
<1>3. cartReq' = [cartReq EXCEPT ![q] = t]
  BY <1>1, <1>2
<1>4. order \in [key: {order.key}, online: {FALSE}, buyNow: {FALSE}, reservation: {order.reservation}]
  BY <1>1 DEF BuyShaped
<1> HIDE DEF order
<1>5. BuyShaped(t) /\ t.pc = "sync" /\ t.shown = r.shown
  BY <1>1, <1>4 DEF BuyShaped
<1> HIDE DEF t
<1>6. Sees(t)
  BY <1>1, <1>5 DEF Sees
<1> QED BY <1>1, <1>3, <1>5, <1>6, BuyGoesOn DEF Waits

LEMMA SyncReadBuys ==
  ASSUME NEW q, BuyInv(q), Waits(q), UNCHANGED moving, Buying!SyncRead(q) PROVE BuyInv(q)'
<1> DEFINE r == cartReq[q]
           t == [r EXCEPT !.pc = IF cached["user"] # Empty THEN "sync_delete" ELSE "read_rows",
                          !.basket = cached["user"]]
<1>1. /\ UNCHANGED <<redisUp, cached, saved, placed>> /\ BuyShaped(r) /\ r.shown = Buying!CartContents
      /\ redisUp = TRUE /\ cached["user"] \in Contents
  BY BuyFacts DEF Buying!SyncRead, Buying!AtCart, Sees, Owners, Buying!checkoutVars
<1>2. cartReq' = [cartReq EXCEPT ![q] = t]
  BY <1>1, BuyingAlike DEF Buying!SyncRead, Buying!IsCached
<1>3. r.shown = [i \in Items |-> IF cached["user"] # Empty THEN cached["user"][i]
                                 ELSE Buying!Together(Buying!RowsFor("user", i))]
  BY <1>1, BuyingAlike DEF Buying!CartContents, Buying!Shown, Buying!IsCached
<1>4. BuyShaped(t) /\ t.shown = r.shown /\ t.basket = cached["user"]
      /\ t.pc = IF cached["user"] # Empty THEN "sync_delete" ELSE "read_rows"
  BY <1>1 DEF BuyShaped
<1> HIDE DEF t
<1>5. Sees(t)
  <2>1. CASE cached["user"] # Empty
    <3>1. r.shown = cached["user"]
      BY <1>1, <1>3, <2>1 DEF Contents
    <3> QED BY <1>4, <2>1, <3>1 DEF Sees
  <2>2. CASE cached["user"] = Empty
    <3>1. \A i : Buying!RowsWith(RowsOf("user"), i) = Buying!RowsFor("user", i)
      BY BuyingAlike DEF Buying!RowsWith, Buying!RowsFor
    <3>2. Bought(RowsOf("user")) = r.shown
      BY <1>3, <2>2, <3>1 DEF Bought, Buying!Units
    <3> QED BY <1>4, <2>2, <3>2 DEF Sees
  <2> QED BY <2>1, <2>2
<1> QED BY <1>1, <1>2, <1>4, <1>5, BuyGoesOn DEF Waits

LEMMA SyncDeleteBuys ==
  ASSUME NEW q, BuyInv(q), Waits(q), UNCHANGED moving, Buying!SyncDelete(q) PROVE BuyInv(q)'
<1> DEFINE r == cartReq[q]
           t == [r EXCEPT !.pc = "sync_commit", !.rows = RowsOf("user")]
<1>1. /\ UNCHANGED <<redisUp, cached, saved, placed>> /\ BuyShaped(r) /\ r.shown = r.basket
  BY BuyFacts DEF Buying!SyncDelete, Buying!AtCart, Sees, Buying!checkoutVars
<1>2. cartReq' = [cartReq EXCEPT ![q] = t]
  BY BuyingAlike DEF Buying!SyncDelete, Buying!OldRows
<1>3. /\ BuyShaped(t) /\ t.shown = r.shown /\ t.basket = r.basket
      /\ t.rows = RowsOf("user") /\ t.pc = "sync_commit"
  BY <1>1 DEF BuyShaped
<1> HIDE DEF t
<1>4. Sees(t)
  BY <1>1, <1>3 DEF Sees
<1> QED BY <1>1, <1>2, <1>3, <1>4, BuyGoesOn DEF Waits

\* The rows that are written say what the hash said, item by item.
LEMMA SyncCommitBuys ==
  ASSUME NEW q, BuyInv(q), Waits(q), UNCHANGED moving, Buying!SyncCommit(q) PROVE BuyInv(q)'
<1> DEFINE r == cartReq[q]
           gone == {x.id : x \in r.rows}
           kept == {x \in saved : x.id \notin gone}
           t == [r EXCEPT !.pc = "read_rows", !.rows = {}, !.basket = Empty]
<1>1. /\ UNCHANGED <<redisUp, cached, placed>> /\ BuyShaped(r) /\ r.shown = r.basket
      /\ r.rows = RowsOf("user") /\ r.basket \in Contents
  BY BuyFacts DEF Buying!SyncCommit, Buying!AtCart, Sees, BuyShaped, Buying!checkoutVars
<1>2. CASE UNCHANGED saved /\ Buying!CartEnd(q)
  BY <1>1, <1>2, BuyFacts, BuyEnds DEF Waits
<1>3. ASSUME saved' = kept \cup Buying!SyncedRows(q),
             cartReq' = [cartReq EXCEPT ![q].pc = "read_rows", ![q].rows = {}, ![q].basket = Empty]
      PROVE  BuyInv(q)'
  <2> DEFINE wanted == {i \in Items : r.basket[i] > 0}
             ids == CHOOSE f \in [wanted -> Buying!FreeIds] : \A i, j \in wanted : i # j => f[i] # f[j]
             row(i) == [id |-> ids[i], owner |-> "user", item |-> i, quantity |-> r.basket[i]]
             rows == {row(i) : i \in wanted}
  <2>1. saved' = kept \cup rows
    BY <1>3 DEF Buying!SyncedRows
  <2> HIDE DEF ids
  <2>2. \A i \in wanted : row(i).owner = "user" /\ row(i).item = i /\ row(i).quantity = r.basket[i]
                          /\ RowShaped(row(i))
    BY <1>1 DEF RowShaped, Contents
  <2>3. \A x \in kept : x.owner # "user"
    BY <1>1 DEF RowsOf
  <2> HIDE DEF row, kept
  <2>4. RowsOf("user")' = rows
    BY <2>1, <2>2, <2>3 DEF RowsOf
  <2>5. Bought(rows) = r.basket
    <3>1. \A x \in rows : x.quantity = r.basket[x.item]
      BY <2>2
    <3>2. \A x, y \in rows : x.item = y.item => x = y
      BY <2>2
    <3>3. \A i \in Items : r.basket[i] > 0 <=> \E x \in rows : x.item = i
      BY <2>2
    <3> HIDE DEF rows
    <3> QED BY <1>1, <3>1, <3>2, <3>3, RowsBought
  <2>6. \A x \in saved' : RowShaped(x)
    <3>1. \A x \in kept : RowShaped(x)
      BY BuyFacts DEF kept
    <3> QED BY <2>1, <2>2, <3>1
  <2>7. cartReq' = [cartReq EXCEPT ![q] = t]
    BY <1>3
  <2>8. BuyShaped(t) /\ t.pc = "read_rows" /\ t.shown = r.shown
    BY <1>1, NothingToBuy DEF BuyShaped
  <2> HIDE DEF t, rows
  <2>9. PICK s : s = t
    OBVIOUS
  <2>10. Sees(s)'
    <3>1. s.pc = "read_rows" /\ s.shown = Bought(rows)
      BY <1>1, <2>5, <2>8, <2>9
    <3>2. Bought(RowsOf("user"))' = Bought(rows)
      BY <2>4 DEF Bought
    <3> QED BY <3>1, <3>2 DEF Sees
  <2> QED BY <1>1, <2>6, <2>7, <2>8, <2>9, <2>10, BuyFacts, BuyMoves DEF Waits
<1> QED BY <1>2, <1>3, BuyingAlike DEF Buying!SyncCommit

LEMMA ReadRowsBuys ==
  ASSUME NEW q, BuyInv(q), Waits(q), UNCHANGED moving, Buying!ReadRows(q) PROVE BuyInv(q)'
<1> DEFINE r == cartReq[q]
           t == [r EXCEPT !.pc = "place", !.rows = RowsOf("user"), !.basket = Empty]
<1>1. /\ UNCHANGED <<redisUp, cached, saved, placed>> /\ BuyShaped(r) /\ r.shown = Bought(RowsOf("user"))
  BY BuyFacts DEF Buying!ReadRows, Buying!AtCart, Sees, Buying!checkoutVars
<1>2. CASE Buying!CartEnd(q)
  BY <1>1, <1>2, BuyFacts, BuyEnds DEF Waits
<1>3. CASE cartReq' = [cartReq EXCEPT ![q].pc = "place", ![q].rows = RowsOf("user"), ![q].basket = Empty]
  <2>1. cartReq' = [cartReq EXCEPT ![q] = t]
    BY <1>3
  <2>2. BuyShaped(t) /\ t.pc = "place" /\ t.shown = r.shown /\ t.rows = RowsOf("user")
    BY <1>1, NothingToBuy DEF BuyShaped
  <2> HIDE DEF t
  <2>3. Sees(t)
    BY <1>1, <2>2 DEF Sees
  <2> QED BY <1>1, <2>1, <2>2, <2>3, BuyGoesOn DEF Waits
<1> QED BY <1>2, <1>3, BuyingAlike DEF Buying!ReadRows

LEMMA ClearingBuys ==
  ASSUME NEW q, BuyInv(q), Waits(q), UNCHANGED moving,
         Buying!ClearBeforeCommit(q) \/ Buying!RefuseOrder(q) \/ Buying!ClearHash(q)
  PROVE  BuyInv(q)'
<1> DEFINE r == cartReq[q]
           t == [r EXCEPT !.pc = "commit"]
<1>1. UNCHANGED <<redisUp, saved, placed>> /\ cached' \in [Owners -> Contents]
  BY BuyFacts, BuyDrops DEF Buying!ClearBeforeCommit, Buying!RefuseOrder, Buying!ClearHash, Buying!checkoutVars, Owners
<1>2. CASE Buying!CartEnd(q)
  BY <1>1, <1>2, BuyFacts, BuyEnds DEF Waits
<1>3. CASE Buying!ClearBeforeCommit(q)
  <2>1. cartReq' = [cartReq EXCEPT ![q] = t]
    BY <1>3 DEF Buying!ClearBeforeCommit, Buying!CartStep
  <2>2. BuyShaped(t) /\ t.pc = "commit" /\ t.shown = r.shown /\ t.rows = r.rows
        /\ r.shown = Bought(r.rows)
    BY ZenonT(30), <1>3, BuyFacts DEF BuyShaped, Sees, Buying!ClearBeforeCommit, Buying!AtCart
  <2> HIDE DEF t
  <2>3. PICK s : s = t
    OBVIOUS
  <2>4. Sees(s)'
    <3>1. PICK shown, rows : shown = s.shown /\ rows = s.rows /\ shown = Bought(rows)
      BY <2>2, <2>3
    <3>2. Bought(rows)' = Bought(rows)
      BY DEF Bought
    <3> QED BY <2>2, <2>3, <3>1, <3>2 DEF Sees
  <2> QED BY <1>1, <2>1, <2>2, <2>3, <2>4, BuyFacts, BuyMoves DEF Waits
<1> QED BY <1>2, <1>3 DEF Buying!RefuseOrder, Buying!ClearHash

\* The order is for the rows that were read, and those are what was shown.
LEMMA CommitBuys ==
  ASSUME NEW q, BuyInv(q), Waits(q), UNCHANGED moving, Buying!CommitOrder(q) PROVE BuyInv(q)'
<1> DEFINE r == cartReq[q]
           order == [status |-> IF r.order.online THEN "pending" ELSE "placed", rows |-> r.rows,
                     buyNow |-> r.order.buyNow, shown |-> r.shown]
           t == [r EXCEPT !.pc = "clear"]
<1>1. /\ UNCHANGED <<redisUp, cached>> /\ BuyShaped(r) /\ r.shown = Bought(r.rows)
      /\ saved' \subseteq saved /\ placed' = [placed EXCEPT ![r.order.key] = order]
  BY BuyFacts DEF Buying!CommitOrder, Buying!Commit, Buying!AtCart, Sees
<1>2. AsShown(order)
  BY <1>1 DEF AsShown, Bought
<1> HIDE DEF order
<1>3. placed' = [k \in Keys |-> placed'[k]] /\ \A k \in Keys : AsShown(placed'[k])
  <2>1. \A k \in Keys : placed'[k] = order \/ placed'[k] = placed[k]
    BY <1>1, BuyFacts
  <2>2. placed' = [k \in Keys |-> placed'[k]]
    BY <1>1, BuyFacts
  <2> QED BY <1>2, <2>1, <2>2, BuyFacts
<1>4. \A x \in saved' : RowShaped(x)
  BY <1>1, BuyFacts
<1>5. CASE Buying!CartEnd(q)
  BY <1>1, <1>3, <1>4, <1>5, BuyFacts, BuyEnds DEF Waits
<1>6. CASE Buying!CartStep(q, "clear")
  <2>1. cartReq' = [cartReq EXCEPT ![q] = t]
    BY <1>6 DEF Buying!CartStep
  <2>2. BuyShaped(t) /\ t.pc = "clear"
    BY <1>1 DEF BuyShaped
  <2> HIDE DEF t
  <2>3. PICK s : s = t
    OBVIOUS
  <2>4. Sees(s)'
    BY <2>2, <2>3 DEF Sees
  <2> QED BY <1>1, <1>3, <1>4, <2>1, <2>2, <2>3, <2>4, BuyFacts, BuyMoves DEF Waits
<1> QED BY <1>5, <1>6 DEF Buying!CommitOrder

-----------------------------------------------------------------------------
(* The wishlist, and ordering again *)

\* While no order is asked for, rows may come and go.
LEMMA BuyingWaits ==
  ASSUME NEW q, BuyInv(q), cartReq[q].pc = "idle", UNCHANGED <<redisUp, cached, cartReq, placed>>,
         NEW m, moving' = [moving EXCEPT ![q] = m], MoveShaped(m), \A r \in saved' : RowShaped(r)
  PROVE  BuyInv(q)'
<1>1. moving' = [x \in {q} |-> moving'[x]] /\ moving'[q] = m
  BY DEF BuyInv
<1>2. \A k \in Keys : AsShown(placed[k])'
  BY DEF BuyInv, AsShown
<1>3. Sees(cartReq[q])'
  BY DEF Sees
<1>4. BuyShaped(cartReq[q])'
  BY DEF BuyInv, BuyShaped
<1>5. placed' = [k \in Keys |-> placed'[k]] /\ cached' \in [Owners -> Contents] /\ redisUp' = TRUE
      /\ cartReq' = [x \in {q} |-> cartReq'[x]]
  BY DEF BuyInv
<1> QED BY <1>1, <1>2, <1>3, <1>4, <1>5 DEF BuyInv

\* A row of the cart changes, or one comes.
LEMMA RowsStayShaped ==
  ASSUME \A r \in saved : RowShaped(r), NEW n \in Nat
  PROVE  /\ \A r \in saved : \A x \in Buying!WithQuantity(r, n) : RowShaped(x)
         /\ \A o, i : \A x \in saved \cup {Buying!NewRow(o, i, n)} : RowShaped(x)
<1>1. ASSUME NEW r \in saved PROVE RowShaped([r EXCEPT !.quantity = n])
  BY DEF RowShaped
<1>2. ASSUME NEW o, NEW i PROVE RowShaped(Buying!NewRow(o, i, n))
  BY DEF RowShaped, Buying!NewRow
<1> QED BY <1>1, <1>2 DEF Buying!WithQuantity

LEMMA WishingBuys ==
  ASSUME NEW q, BuyInv(q), NEW i \in Items,
         \/ Buying!AddToWishlist(q, i) \/ Buying!RemoveFromWishlist(q, i)
         \/ \E n \in Amounts : Buying!MoveToCart(q, i, n)
  PROVE  BuyInv(q)'
<1> DEFINE to(pc, n, rows) == [pc |-> pc, item |-> i, quantity |-> n, rows |-> rows]
<1>1. \A r \in saved : RowShaped(r)
  BY DEF BuyInv
<1>2. /\ UNCHANGED <<redisUp, cached, cartReq, placed, saved>> /\ cartReq[q].pc = "idle"
  BY DEF Buying!AddToWishlist, Buying!RemoveFromWishlist, Buying!MoveToCart, Buying!BeginMove,
         Buying!cartCheckoutVars, Buying!cartVars, Buying!checkoutVars, Buying!AtCart
<1>3. ASSUME NEW pc \in {"wish_create", "move_save"}, NEW n \in Nat, NEW rows, Buying!BeginMove(q, pc, i, n, rows)
      PROVE  BuyInv(q)'
  <2>1. moving' = [moving EXCEPT ![q] = to(pc, n, rows)]
    BY <1>3 DEF Buying!BeginMove
  <2>2. MoveShaped(to(pc, n, rows))
    BY DEF MoveShaped
  <2> HIDE DEF to
  <2> QED BY <1>1, <1>2, <2>1, <2>2, BuyingWaits
<1>4. CASE Buying!AddToWishlist(q, i)
  BY <1>3, <1>4 DEF Buying!AddToWishlist
<1>5. CASE Buying!RemoveFromWishlist(q, i)
  <2>1. moving' = [moving EXCEPT ![q] = moving[q]] /\ MoveShaped(moving[q])
    BY <1>5 DEF Buying!RemoveFromWishlist, BuyInv
  <2> QED BY <1>1, <1>2, <2>1, BuyingWaits
<1>6. ASSUME NEW n \in Amounts, Buying!MoveToCart(q, i, n) PROVE BuyInv(q)'
  <2>1. n \in Nat
    BY AmountsAreNumbers
  <2>2. CASE Buying!BeginMove(q, "move_save", i, n, {})
    BY <1>3, <2>1, <2>2
  <2>3. ASSUME NEW r \in Buying!RowsFor("user", i), Buying!BeginMove(q, "move_save", i, r.quantity + n, {r})
        PROVE  BuyInv(q)'
    <3>1. r.quantity \in Nat
      BY <1>1 DEF Buying!RowsFor, Buying!RowsOf, RowShaped
    <3> QED BY <1>3, <2>1, <2>3, <3>1
  <2> QED BY <1>6, <2>2, <2>3 DEF Buying!MoveToCart
<1> QED BY <1>4, <1>5, <1>6

LEMMA MovingBuys ==
  ASSUME NEW q, BuyInv(q), Buying!CreateWish(q) \/ Buying!MoveSave(q) \/ Buying!MoveDelete(q)
  PROVE  BuyInv(q)'
<1> DEFINE m == moving[q]
<1>1. /\ \A r \in saved : RowShaped(r)
      /\ MoveShaped(m)
      /\ m.pc # "idle" => cartReq[q].pc = "idle"
  BY DEF BuyInv
<1>2. /\ UNCHANGED <<redisUp, cached, cartReq, placed>> /\ cartReq[q].pc = "idle"
  BY <1>1 DEF Buying!CreateWish, Buying!MoveSave, Buying!MoveDelete,
              Buying!cartCheckoutVars, Buying!cartVars, Buying!checkoutVars
<1>3. ASSUME Buying!EndMove(q), UNCHANGED saved PROVE BuyInv(q)'
  <2>1. MoveShaped(Buying!NotMoving)
    BY DEF MoveShaped, Buying!NotMoving
  <2> QED BY <1>1, <1>2, <1>3, <2>1, BuyingWaits DEF Buying!EndMove
<1>4. CASE Buying!CreateWish(q) \/ Buying!MoveDelete(q)
  BY <1>3, <1>4 DEF Buying!CreateWish, Buying!MoveDelete, Buying!cartCheckoutVars, Buying!cartVars
<1>5. CASE Buying!MoveSave(q)
  <2>1. m.quantity \in Nat
    BY <1>1 DEF MoveShaped
  <2>2. ASSUME NEW rows, moving' = [moving EXCEPT ![q].pc = "move_delete", ![q].rows = rows],
               \A r \in saved' : RowShaped(r)
        PROVE  BuyInv(q)'
    <3> DEFINE t == [m EXCEPT !.pc = "move_delete", !.rows = rows]
    <3>1. moving' = [moving EXCEPT ![q] = t]
      BY <2>2
    <3>2. MoveShaped(t)
      BY <1>1 DEF MoveShaped
    <3> HIDE DEF t
    <3> QED BY <1>2, <2>2, <3>1, <3>2, BuyingWaits
  <2>3. CASE /\ saved' = saved \cup {Buying!NewRow("user", m.item, m.quantity)}
             /\ moving' = [moving EXCEPT ![q].pc = "move_delete"]
    <3>1. moving' = [moving EXCEPT ![q].pc = "move_delete", ![q].rows = m.rows]
      <4>1. moving = [x \in {q} |-> moving[x]] /\ MoveShaped(m)
        BY DEF BuyInv
      <4>2. [m EXCEPT !.pc = "move_delete", !.rows = m.rows] = [m EXCEPT !.pc = "move_delete"]
        BY <4>1 DEF MoveShaped
      <4> QED BY <2>3, <4>1, <4>2
    <3>2. \A r \in saved' : RowShaped(r)
      BY <1>1, <2>1, <2>3, RowsStayShaped
    <3> QED BY <2>2, <3>1, <3>2
  <2>4. ASSUME NEW r \in saved, saved' = Buying!WithQuantity(r, m.quantity),
               moving' = [moving EXCEPT ![q].pc = "move_delete", ![q].rows = {}]
        PROVE  BuyInv(q)'
    <3>1. \A x \in saved' : RowShaped(x)
      BY <1>1, <2>1, <2>4, RowsStayShaped
    <3> QED BY <2>2, <2>4, <3>1
  <2> QED BY <1>3, <1>5, <2>3, <2>4 DEF Buying!MoveSave
<1> QED BY <1>4, <1>5

LEMMA ReorderBuys ==
  ASSUME NEW q, BuyInv(q), NEW i \in Items, NEW n \in Amounts, Buying!Reorder(q, i, n)
  PROVE  BuyInv(q)'
<1>1. n \in Nat /\ \A r \in saved : RowShaped(r)
  BY AmountsAreNumbers DEF BuyInv
<1>2. /\ UNCHANGED <<redisUp, cached, cartReq, placed, moving>> /\ cartReq[q].pc = "idle"
      /\ moving' = [moving EXCEPT ![q] = moving[q]] /\ MoveShaped(moving[q])
  BY DEF Buying!Reorder, Buying!AtCart, Buying!checkoutVars, Buying!sourceVars, BuyInv
<1>3. \A r \in saved' : RowShaped(r)
  <2>1. CASE saved' = saved \cup {Buying!NewRow("user", i, n)}
    BY <1>1, <2>1, RowsStayShaped
  <2>2. ASSUME NEW r \in Buying!RowsFor("user", i), saved' = Buying!WithQuantity(r, r.quantity + n)
        PROVE  \A x \in saved' : RowShaped(x)
    <3>1. r \in saved /\ r.quantity \in Nat /\ n \in Nat
      BY <1>1 DEF Buying!RowsFor, Buying!RowsOf, RowShaped
    <3>2. r.quantity + n \in Nat
      BY <3>1
    <3> QED BY <1>1, <2>2, <3>1, <3>2, RowsStayShaped
  <2> QED BY <2>1, <2>2 DEF Buying!Reorder
<1> QED BY <1>2, <1>3, BuyingWaits

-----------------------------------------------------------------------------
(* Every step, and the theorem *)

LEMMA BuyingUndisturbed ==
  ASSUME NEW q, BuyInv(q), UNCHANGED <<redisUp, cached, saved, cartReq, moving, placed>> PROVE BuyInv(q)'
<1>1. cartReq' = [cartReq EXCEPT ![q] = cartReq[q]] /\ Sees(cartReq[q]) /\ BuyShaped(cartReq[q])
  BY DEF BuyInv
<1> QED BY <1>1, BuyGoesOn

LEMMA BuyCartFits ==
  ASSUME NEW q, OneRequest = {q}, BuyInv(q), Waits(q), Buying!CartNext, UNCHANGED <<moving, placed>>
  PROVE  BuyInv(q)'
<1>1. BuyShaped(cartReq[q])
  BY DEF BuyInv
<1>2. ASSUME Buying!CartRequestNext(q) PROVE BuyInv(q)'
  <2>1. ~(\E i \in Items, n \in Amounts : Buying!UpdateItem(q, i, n))
    BY DEF Buying!UpdateItem
  <2>2. ~((\E i \in Items : Buying!RemoveItem(q, i)) \/ \E o \in Buying!Owners : Buying!GetCart(q, o))
    BY DEF Buying!RemoveItem, Buying!GetCart
  <2>3. ~(\/ Buying!AddDb(q) \/ Buying!AddSave(q) \/ Buying!UpdateSet(q) \/ Buying!UpdateSave(q)
          \/ Buying!RemoveField(q) \/ Buying!RemoveRow(q))
    BY <1>1 DEF BuyShaped, Buying!AddDb, Buying!AddSave, Buying!UpdateSet, Buying!UpdateSave,
                Buying!RemoveField, Buying!RemoveRow, Buying!AtCart
  <2>4. ~(Buying!MergeCart(q) \/ Buying!CartCrash(q))
    BY DEF Buying!MergeCart, Buying!CartCrash
  <2>5. ~(Buying!MergeSet(q) \/ Buying!MergeClear(q) \/ Buying!MergeRead(q) \/ Buying!MergeRows(q))
    BY <1>1 DEF BuyShaped, Buying!MergeSet, Buying!MergeClear, Buying!MergeRead, Buying!MergeRows, Buying!AtCart
  <2>6. CASE Buying!ViewCart(q) \/ Buying!WarmCart(q)
    BY <2>6, ViewingBuys
  <2>7. CASE Buying!AddSet(q)
    BY <2>7, AddingBuys
  <2>8. ASSUME NEW i \in Items, NEW n \in Amounts, NEW o \in Buying!Owners, Buying!AddToCart(q, o, i, n)
        PROVE  BuyInv(q)'
    <3>1. o \in Owners
      BY DEF Buying!Owners, Owners
    <3> QED BY <2>8, <3>1, AddingBuys
  <2> QED BY <1>2, <2>1, <2>2, <2>3, <2>4, <2>5, <2>6, <2>7, <2>8 DEF Buying!CartRequestNext
<1>3. ASSUME NEW i \in Items PROVE ~(Buying!ShelfChanges(i) \/ Buying!GoesOffSale(i))
  BY DEF Buying!ShelfChanges, Buying!GoesOffSale
<1>4. ASSUME NEW o \in Buying!Owners PROVE ~Buying!HashExpires(o)
  BY DEF Buying!HashExpires
<1>5. ~Buying!RedisFlips
  BY DEF Buying!RedisFlips
<1> QED BY <1>2, <1>3, <1>4, <1>5 DEF Buying!CartNext

LEMMA BuyCheckoutFits ==
  ASSUME NEW q, BuyInv(q), Waits(q), Buying!CheckoutRequestNext(q), UNCHANGED moving
  PROVE  BuyInv(q)'
<1>1. ~\E k \in Keys : Buying!ConfirmPayment(q, k)
  BY DEF Buying!ConfirmPayment
<1>2. CASE Buying!GetCheckout(q) \/ Buying!NoCart(q)
  BY <1>2, CheckoutBuys
<1>3. ASSUME NEW i \in Items, NEW n \in Amounts, Buying!GetBuyNowCheckout(q, i, n) PROVE BuyInv(q)'
  BY <1>3, BuyingUndisturbed DEF Buying!GetBuyNowCheckout, Buying!cartVars
<1>4. ASSUME NEW k \in Keys, Buying!PlaceOrder(q, k) PROVE BuyInv(q)'
  BY <1>4, PlacingBuys
<1>5. CASE Buying!TakeReservation(q) \/ Buying!SyncRead(q) \/ Buying!SyncDelete(q)
  BY <1>5, ReservingBuys, SyncReadBuys, SyncDeleteBuys
<1>6. CASE Buying!SyncCommit(q) \/ Buying!ReadRows(q) \/ Buying!CommitOrder(q)
  BY <1>6, SyncCommitBuys, ReadRowsBuys, CommitBuys
<1>7. CASE Buying!ClearBeforeCommit(q) \/ Buying!RefuseOrder(q) \/ Buying!ClearHash(q)
  BY <1>7, ClearingBuys
<1> QED BY <1>1, <1>2, <1>3, <1>4, <1>5, <1>6, <1>7 DEF Buying!CheckoutRequestNext

LEMMA BuyStepFits ==
  ASSUME NEW q, OneRequest = {q}, BuyInv(q), Buying!SourcesNext PROVE BuyInv(q)'
<1>1. ASSUME Buying!CartCheckoutNext, UNCHANGED moving, Waits(q) PROVE BuyInv(q)'
  <2>1. CASE Buying!CartNext /\ UNCHANGED Buying!checkoutVars
    BY <1>1, <2>1, BuyCartFits DEF Buying!checkoutVars
  <2>2. CASE Buying!CheckoutRequestNext(q)
    BY <1>1, <2>2, BuyCheckoutFits
  <2>3. ASSUME NEW v \in Reservations, Buying!ReservationExpires(v) \/ Buying!CleanReservation(v)
        PROVE  BuyInv(q)'
    BY <1>1, <2>3, BuyingUndisturbed DEF Buying!ReservationExpires, Buying!CleanReservation, Buying!cartVars
  <2> QED BY <1>1, <2>1, <2>2, <2>3 DEF Buying!CartCheckoutNext
<1>2. CASE Buying!CreateWish(q) \/ Buying!MoveSave(q) \/ Buying!MoveDelete(q)
  BY <1>2, MovingBuys
<1>3. ASSUME NEW i \in Items,
             \/ Buying!AddToWishlist(q, i) \/ Buying!RemoveFromWishlist(q, i)
             \/ \E n \in Amounts : Buying!MoveToCart(q, i, n) \/ Buying!Reorder(q, i, n)
      PROVE  BuyInv(q)'
  BY <1>3, WishingBuys, ReorderBuys
<1> QED BY <1>1, <1>2, <1>3 DEF Buying!SourcesNext, Buying!sourceVars, Waits

\* One request at a time, through every source of a cart: an order from the cart
\* is for what the cart showed when it was asked for, item by item, whether the
\* cart was in the hash, in rows that the wishlist wrote, or in both.
THEOREM OrdersAreAsShown ==
  ASSUME NEW q, OneRequest = {q} PROVE MCSpec => []OrderedAsShownInTurn
<1> DEFINE Inv == area = "buying" => BuyInv(q)
<1>1. MCInit => Inv
  <2> SUFFICES ASSUME MCInit, area = "buying" PROVE BuyInv(q)
    OBVIOUS
  <2>1. Buying!CartSourcesInit
    BY DEF MCInit
  <2>2. /\ redisUp = TRUE /\ saved = {}
        /\ cached = [o \in Owners |-> Empty]
        /\ cartReq = [x \in {q} |-> NoCartRequest]
        /\ placed = [k \in Keys |-> Buying!NotPlaced]
        /\ moving = [x \in {q} |-> Buying!NotMoving]
    BY <2>1, BuyingAlike DEF Buying!CartSourcesInit, Buying!CartCheckoutInit, Buying!CartInit,
                             Buying!Owners, Owners
  <2>3. cached \in [Owners -> Contents]
    BY <2>2, NothingToBuy
  <2>4. AsShown(Buying!NotPlaced) /\ MoveShaped(Buying!NotMoving)
    BY DEF AsShown, Buying!NotPlaced, MoveShaped, Buying!NotMoving
  <2>5. Sees(cartReq[q]) /\ BuyShaped(cartReq[q]) /\ moving[q].pc = "idle"
    BY <2>2, NothingToBuy DEF Sees, Buying!NotMoving
  <2> QED BY <2>2, <2>3, <2>4, <2>5 DEF BuyInv
<1>2. Inv /\ [MCNext]_<<allVars, area>> => Inv'
  <2> SUFFICES ASSUME Inv, [MCNext]_<<allVars, area>>, area' = "buying" PROVE BuyInv(q)'
    OBVIOUS
  <2>1. CASE MCNext
    <3>1. area = "buying" /\ Buying!SourcesNext
      BY <2>1 DEF MCNext
    <3> QED BY <3>1, BuyStepFits
  <2>2. CASE UNCHANGED <<allVars, area>>
    BY <2>2, BuyingUndisturbed
       DEF allVars, cartSourceVars, cartCheckoutVars, cartVars, checkoutVars, sourceVars
  <2> QED BY <2>1, <2>2
<1>3. Inv => OrderedAsShownInTurn
  BY DEF BuyInv, AsShown, OrderedAsShownInTurn, Buying!OrderedAsShown
<1> QED BY <1>1, <1>2, <1>3, PTL DEF MCSpec

-----------------------------------------------------------------------------
(* Units that are sold.  They are counted one by one, each with its row and  *)
(* its order, so that an order adds to what was sold before exactly what its *)
(* rows say.                                                                 *)

Countable(rows) == IsFiniteSet(rows) /\ \A r \in rows : r.quantity \in Nat

LEMMA UnitsAreFinite ==
  ASSUME NEW rows, Countable(rows)
  PROVE  IsFiniteSet(UnitsIn(rows)) /\ \A i : Countable(RowsWith(rows, i))
<1> DEFINE f == [r \in rows |-> {r} \X (1..r.quantity)]
           T == {{r} \X (1..r.quantity) : r \in rows}
<1>1. f \in Surjection(rows, T)
  BY DEF Surjection
<1>2. \A S \in T : IsFiniteSet(S)
  <2> SUFFICES ASSUME NEW r \in rows PROVE IsFiniteSet({r} \X (1..r.quantity))
    OBVIOUS
  <2>1. PICK n \in Nat : n = r.quantity
    BY DEF Countable
  <2>2. IsFiniteSet({r})
    BY FS_Singleton
  <2>3. IsFiniteSet(1..n)
    BY FS_Interval
  <2> QED BY <2>1, <2>2, <2>3, FS_Product
<1> HIDE DEF f, T
<1>3. IsFiniteSet(T)
  BY <1>1, FS_Surjection DEF Countable
<1>4. IsFiniteSet(UNION T)
  BY <1>2, <1>3, FS_UNION
<1>5. \A i : Countable(RowsWith(rows, i))
  <2> SUFFICES ASSUME NEW i PROVE Countable(RowsWith(rows, i))
    OBVIOUS
  <2>1. RowsWith(rows, i) \subseteq rows
    BY DEF RowsWith
  <2> QED BY <2>1, FS_Subset DEF Countable
<1> QED BY <1>4, <1>5 DEF T, UnitsIn

LEMMA CountedUnits ==
  ASSUME NEW rows, Countable(rows), NEW i
  PROVE  /\ IsFiniteSet(UnitsIn(RowsWith(rows, i)))
         /\ Units(rows, i) = Cardinality(UnitsIn(RowsWith(rows, i))) /\ Units(rows, i) \in Nat
<1>1. IsFiniteSet(UnitsIn(RowsWith(rows, i)))
  BY UnitsAreFinite
<1> QED BY <1>1, FS_CardinalityType DEF Units, Together

LEMMA FewerCounted == ASSUME NEW rows, Countable(rows), NEW S, S \subseteq rows PROVE Countable(S)
BY FS_Subset DEF Countable

\* What the orders of S took of an item.
Lots(S, i) == UNION {{k} \X UnitsIn(RowsWith(placed[k].rows, i)) : k \in S}

LEMMA LotsAreFinite ==
  ASSUME NEW S, IsFiniteSet(S), \A k \in S : Countable(placed[k].rows), NEW i
  PROVE  IsFiniteSet(Lots(S, i))
<1> DEFINE lot(k) == {k} \X UnitsIn(RowsWith(placed[k].rows, i))
           f == [k \in S |-> lot(k)]
           T == {lot(k) : k \in S}
<1>1. \A k \in S : IsFiniteSet(lot(k))
  BY CountedUnits, FS_Singleton, FS_Product
<1> HIDE DEF lot
<1>2. f \in Surjection(S, T)
  BY DEF Surjection
<1>3. \A U \in T : IsFiniteSet(U)
  BY <1>1
<1> HIDE DEF f, T
<1>4. IsFiniteSet(T)
  BY <1>2, FS_Surjection
<1>5. IsFiniteSet(UNION T)
  BY <1>3, <1>4, FS_UNION
<1> QED BY <1>5 DEF T, lot, Lots

\* An order more.
LEMMA LotsGrow ==
  ASSUME NEW S, IsFiniteSet(S), \A k \in S : Countable(placed[k].rows), NEW i,
         NEW k, k \notin S, NEW rows, Countable(rows)
  PROVE  /\ Cardinality(Lots(S, i)) \in Nat
         /\ Cardinality(Lots(S, i) \cup ({k} \X UnitsIn(RowsWith(rows, i))))
              = Cardinality(Lots(S, i)) + Units(rows, i)
<1> DEFINE U == UnitsIn(RowsWith(rows, i))
           L == Lots(S, i)
           M == {k} \X U
<1>1. IsFiniteSet(U) /\ Units(rows, i) = Cardinality(U) /\ Cardinality(U) \in Nat
  BY CountedUnits
<1>2. IsFiniteSet(L) /\ Cardinality(L) \in Nat
  BY LotsAreFinite, FS_CardinalityType
<1>3. L \cap M = {}
  BY DEF Lots
<1> HIDE DEF U, L
<1>4. IsFiniteSet({k}) /\ Cardinality({k}) = 1
  BY FS_Singleton
<1>5. IsFiniteSet(M) /\ Cardinality(M) = 1 * Cardinality(U)
  BY <1>1, <1>4, FS_Product
<1>6. Cardinality(M) = Cardinality(U)
  BY <1>1, <1>5
<1> HIDE DEF M
<1>7. Cardinality(L \cap M) = 0
  BY <1>3, FS_EmptySet
<1>8. Cardinality(L \cup M) = Cardinality(L) + Cardinality(M) - Cardinality(L \cap M)
  BY <1>2, <1>5, FS_Union
<1>9. Cardinality(L \cup M) = Cardinality(L) + Cardinality(U)
  BY <1>1, <1>2, <1>6, <1>7, <1>8
<1> QED BY <1>1, <1>2, <1>9 DEF U, L, M

-----------------------------------------------------------------------------
(* Orders that are placed at once, from the cart and past it, paid now or    *)
(* later.  What is inductive is that a request whose transaction is about to *)
(* commit is the only one with its key, and that the key has no order yet.   *)

OrderShaped(o) ==
  o \in [status: {"none", "pending", "placed"}, rows: {o.rows}, buyNow: {o.buyNow}, shown: {o.shown}]

Ordering == {"reserve", "sync", "sync_delete", "sync_commit", "read_rows", "place", "commit"}

PlaceShaped(r) ==
  r \in [pc: Ordering \cup {"idle", "clear"}, owner: {r.owner}, item: {r.item}, asked: {r.asked},
         quantity: {r.quantity}, rows: {r.rows}, basket: Contents, shown: {r.shown},
         order: [key: {r.order.key}, online: {r.order.online}, buyNow: {r.order.buyNow},
                 reservation: {r.order.reservation}]]

PlaceFits(r) ==
  /\ PlaceShaped(r) /\ Countable(r.rows)
  /\ r.pc \in Ordering => r.order.key \in Keys

Committing(q) == cartReq[q].pc = "commit"
KeyOf(q) == cartReq[q].order.key

PlacingInv ==
  /\ shelf \in [Items -> Int] /\ cached \in [Owners -> Contents] /\ Countable(saved)
  /\ placed = [k \in Keys |-> placed[k]]
  /\ \A k \in Keys : OrderShaped(placed[k]) /\ Countable(placed[k].rows)
  /\ cartReq = [q \in Requests |-> cartReq[q]] /\ \A q \in Requests : PlaceFits(cartReq[q])
  /\ \A q \in Requests : moving[q].pc = "idle"
  /\ \A q \in Requests : Committing(q) => placed[KeyOf(q)].status = "none"
  /\ \A q, x \in Requests : Committing(q) /\ Committing(x) /\ KeyOf(q) = KeyOf(x) => q = x
  /\ \A i \in Items : shelf[i] + Taken(i) = OnShelf[i]

\* The instance works on the same carts and counts as this module does.
LEMMA PlacingAlike ==
  /\ Placing!Empty = Empty /\ Placing!NoCartRequest = NoCartRequest /\ Placing!NoChoice = NoChoice
  /\ \A o : Placing!RowsOf(o) = RowsOf(o) /\ Placing!Hash(o) = Hash(o)
  /\ \A rows, i : Placing!Units(rows, i) = Units(rows, i)
  /\ \A i : Placing!Taken(i) = Taken(i)
<1>1. Placing!Empty = Empty
  BY DEF Placing!Empty, Empty
<1>2. Placing!NoCartRequest = NoCartRequest /\ Placing!NoChoice = NoChoice
  BY <1>1 DEF Placing!NoCartRequest, NoCartRequest, Placing!NoChoice, NoChoice
<1>3. \A o : Placing!RowsOf(o) = RowsOf(o) /\ Placing!Hash(o) = Hash(o)
  BY <1>1 DEF Placing!RowsOf, RowsOf, Placing!Hash, Hash
<1>4. \A S : Placing!Cardinality(S) = Cardinality(S)
  BY DEF Cardinality, Placing!Cardinality, IsFiniteSet, Placing!IsFiniteSet
<1>5. \A rows, i : Placing!UnitsIn(Placing!RowsWith(rows, i)) = UnitsIn(RowsWith(rows, i))
  BY DEF Placing!UnitsIn, UnitsIn, Placing!RowsWith, RowsWith
<1>6. \A rows, i : Placing!Units(rows, i) = Units(rows, i)
  BY <1>4, <1>5 DEF Placing!Units, Units, Placing!Together, Together
<1>7. \A i : Placing!Taken(i) = Taken(i)
  BY <1>4, <1>5 DEF Placing!Taken, Taken, Placing!Standing, Standing
<1> QED BY <1>1, <1>2, <1>3, <1>6, <1>7

LEMMA NothingPlaced ==
  PlaceFits(NoCartRequest) /\ NoCartRequest.pc = "idle" /\ Empty \in Contents
<1>1. Empty \in Contents
  BY DEF Contents, Empty
<1>2. PlaceShaped(NoCartRequest) /\ NoCartRequest.pc = "idle" /\ NoCartRequest.rows = {}
  BY <1>1 DEF PlaceShaped, NoCartRequest, NoChoice
<1>3. Countable({})
  BY FS_EmptySet DEF Countable
<1> QED BY <1>1, <1>2, <1>3 DEF PlaceFits, Ordering

LEMMA SoldByStanding ==
  ASSUME PlacingInv, NEW i
  PROVE  /\ Taken(i) = Cardinality(Lots(Standing, i)) /\ Taken(i) \in Nat
         /\ IsFiniteSet(Standing) /\ \A k \in Standing : k \in Keys /\ Countable(placed[k].rows)
<1>1. IsFiniteSet(Standing) /\ \A k \in Standing : k \in Keys
  BY CartAssumption, FS_Subset DEF Standing
<1>2. \A k \in Standing : Countable(placed[k].rows)
  BY <1>1 DEF PlacingInv
<1>3. IsFiniteSet(Lots(Standing, i))
  BY <1>1, <1>2, LotsAreFinite
<1>4. Taken(i) = Cardinality(Lots(Standing, i))
  BY DEF Taken, Lots
<1> QED BY <1>1, <1>2, <1>3, <1>4, FS_CardinalityType

\* Orders that do not stand yet take nothing.
LEMMA TakesNothing ==
  ASSUME Standing' = Standing, \A k \in Standing : placed'[k].rows = placed[k].rows, NEW i
  PROVE  Taken(i)' = Taken(i)
<1>1. Lots(Standing, i)' = Lots(Standing, i)
  BY DEF Lots
<1>2. Taken(i) = Cardinality(Lots(Standing, i)) /\ Taken(i)' = Cardinality(Lots(Standing, i)')
  BY DEF Taken, Lots
<1> QED BY <1>1, <1>2

\* An order that stands from now on takes what its rows say.
LEMMA TakesItsUnits ==
  ASSUME PlacingInv, NEW k \in Keys, placed[k].status # "placed", NEW o, placed' = [placed EXCEPT ![k] = o],
         o.status = "placed", NEW rows, o.rows = rows, Countable(rows), NEW i
  PROVE  Taken(i)' = Taken(i) + Units(rows, i)
<1>1. /\ Taken(i) = Cardinality(Lots(Standing, i)) /\ IsFiniteSet(Standing)
      /\ \A x \in Standing : x \in Keys /\ Countable(placed[x].rows)
  BY SoldByStanding
<1>2. k \notin Standing
  BY DEF Standing
<1>3. placed'[k] = o /\ \A x \in Keys : x # k => placed'[x] = placed[x]
  BY DEF PlacingInv
<1>4. Standing' = Standing \cup {k}
  BY <1>3 DEF Standing
<1>5. Lots(Standing, i)' = Lots(Standing, i) \cup ({k} \X UnitsIn(RowsWith(rows, i)))
  <2> DEFINE lot(x) == {x} \X UnitsIn(RowsWith(placed[x].rows, i))
             new(x) == {x} \X UnitsIn(RowsWith(placed'[x].rows, i))
             mine == {k} \X UnitsIn(RowsWith(rows, i))
  <2>1. Lots(Standing, i) = UNION {lot(x) : x \in Standing}
    BY DEF Lots
  <2>2. Lots(Standing, i)' = UNION {new(x) : x \in Standing \cup {k}}
    BY <1>4 DEF Lots
  <2>3. new(k) = mine /\ \A x \in Standing : new(x) = lot(x)
    BY <1>1, <1>2, <1>3
  <2> HIDE DEF lot, new, mine
  <2>4. UNION {new(x) : x \in Standing \cup {k}} = (UNION {lot(x) : x \in Standing}) \cup mine
    BY <2>3
  <2> QED BY <2>1, <2>2, <2>4 DEF mine
<1>6. Taken(i)' = Cardinality(Lots(Standing, i)')
  BY DEF Taken, Lots
<1> QED BY <1>1, <1>2, <1>5, <1>6, LotsGrow

-----------------------------------------------------------------------------
(* The steps of requests that place orders at once *)

\* The request goes on as `t`, and no order changes.
LEMMA PlacingMoves ==
  ASSUME PlacingInv, NEW q \in Requests, NEW t, cartReq' = [cartReq EXCEPT ![q] = t],
         UNCHANGED <<shelf, placed, moving>>, cached' \in [Owners -> Contents], Countable(saved'),
         PlaceFits(t),
         t.pc = "commit" =>
           /\ placed[t.order.key].status = "none"
           /\ \A x \in Requests : x # q /\ Committing(x) => KeyOf(x) # t.order.key
  PROVE  PlacingInv'
<1>1. /\ cartReq' = [x \in Requests |-> cartReq'[x]] /\ cartReq'[q] = t
      /\ \A x \in Requests : x # q => cartReq'[x] = cartReq[x]
  BY DEF PlacingInv
<1>2. \A x \in Requests : PlaceFits(cartReq[x])'
  <2>1. \A x \in Requests : PlaceFits(cartReq[x])
    BY DEF PlacingInv
  <2>2. \A x \in Requests : cartReq'[x] = t \/ cartReq'[x] = cartReq[x]
    BY <1>1
  <2>3. \A x \in Requests : PlaceFits(cartReq'[x])
    BY <2>1, <2>2
  <2> QED BY <2>3 DEF PlaceFits, PlaceShaped
<1>3. \A x \in Requests : (Committing(x) => placed[KeyOf(x)].status = "none")'
  BY <1>1 DEF PlacingInv, Committing, KeyOf
<1>4. \A x, y \in Requests : (Committing(x) /\ Committing(y) /\ KeyOf(x) = KeyOf(y) => x = y)'
  BY <1>1 DEF PlacingInv, Committing, KeyOf
<1>5. \A i : Taken(i)' = Taken(i)
  BY TakesNothing DEF Standing
<1>6. \A i \in Items : (shelf[i] + Taken(i) = OnShelf[i])'
  BY <1>5 DEF PlacingInv
<1>7. \A k \in Keys : (OrderShaped(placed[k]) /\ Countable(placed[k].rows))'
  BY DEF PlacingInv, OrderShaped
<1>8. (shelf \in [Items -> Int])' /\ (placed = [k \in Keys |-> placed[k]])'
      /\ \A x \in Requests : (moving[x].pc = "idle")'
  BY DEF PlacingInv
<1> QED BY <1>1, <1>2, <1>3, <1>4, <1>6, <1>7, <1>8 DEF PlacingInv

LEMMA PlacingEnds ==
  ASSUME PlacingInv, NEW q \in Requests, Placing!CartEnd(q),
         UNCHANGED <<shelf, placed, moving>>, cached' \in [Owners -> Contents], Countable(saved')
  PROVE  PlacingInv'
<1>1. cartReq' = [cartReq EXCEPT ![q] = NoCartRequest]
  BY PlacingAlike DEF Placing!CartEnd
<1> QED BY <1>1, NothingPlaced, PlacingMoves

\* Facts that most steps need.
LEMMA PlacingFacts ==
  ASSUME PlacingInv, NEW q \in Requests
  PROVE  /\ cached \in [Owners -> Contents] /\ Countable(saved) /\ Countable(RowsOf("user"))
         /\ PlaceFits(cartReq[q]) /\ PlaceShaped(cartReq[q]) /\ Hash("user") \in Contents
<1>1. RowsOf("user") \subseteq saved
  BY DEF RowsOf
<1>2. Hash("user") \in Contents
  BY NothingPlaced DEF PlacingInv, Hash, Owners
<1> QED BY <1>1, <1>2, FewerCounted DEF PlacingInv, PlaceFits

LEMMA PlacingDrops ==
  ASSUME PlacingInv, NEW S, Placing!DropFields("user", S) PROVE cached' \in [Owners -> Contents]
<1>1. cached \in [Owners -> Contents]
  BY DEF PlacingInv
<1>2. CASE cached' = cached
  BY <1>1, <1>2
<1>3. CASE cached' = [cached EXCEPT !["user"] = [i \in Items |-> IF i \in S THEN 0 ELSE @[i]]]
  <2>1. [i \in Items |-> IF i \in S THEN 0 ELSE cached["user"][i]] \in Contents
    BY <1>1 DEF Contents, Owners
  <2> QED BY <1>1, <1>3, <2>1
<1> QED BY <1>2, <1>3 DEF Placing!DropFields

LEMMA RequestsArePlaced ==
  ASSUME PlacingInv, NEW q \in Requests, NEW k \in Keys, UNCHANGED moving, Placing!PlaceOrder(q, k)
  PROVE  PlacingInv'
<1> DEFINE asks(o, b, i, n) ==
             cartReq' = [cartReq EXCEPT ![q] =
               [Placing!NoCartRequest EXCEPT
                  !.pc = "reserve",
                  !.rows = IF b THEN {[id |-> Placing!Min(RowIds), owner |-> "user", item |-> i, quantity |-> n]}
                           ELSE {},
                  !.shown = Placing!CartContents,
                  !.order = [Placing!NoChoice EXCEPT !.key = k, !.online = o, !.buyNow = b]]]
<1>1. PICK online, buyNow : \E i \in Items, n \in Amounts : asks(online, buyNow, i, n)
  BY ZenonT(60) DEF Placing!PlaceOrder
<1>2. PICK i \in Items, n \in Amounts : asks(online, buyNow, i, n)
  BY <1>1
<1> DEFINE row == [id |-> Placing!Min(RowIds), owner |-> "user", item |-> i, quantity |-> n]
           rows == IF buyNow THEN {row} ELSE {}
           shown == Placing!CartContents
           order == [NoChoice EXCEPT !.key = k, !.online = online, !.buyNow = buyNow]
           t == [NoCartRequest EXCEPT !.pc = "reserve", !.rows = rows, !.shown = shown, !.order = order]
<1>3. Countable(rows)
  <2>1. row.quantity \in Nat
    BY AmountsAreNumbers
  <2> HIDE DEF row
  <2> QED BY <2>1, FS_Singleton, FS_EmptySet DEF Countable
<1> HIDE DEF row
<1>4. cartReq' = [cartReq EXCEPT ![q] = t]
  BY <1>2, PlacingAlike DEF row
<1>5. order \in [key: {order.key}, online: {order.online}, buyNow: {order.buyNow}, reservation: {order.reservation}]
      /\ order.key = k
  BY DEF NoChoice
<1> HIDE DEF order, rows, shown
<1>6. PlaceShaped(t) /\ t.pc = "reserve" /\ t.rows = rows /\ t.order = order
  <2>1. PlaceShaped(NoCartRequest)
    BY NothingPlaced DEF PlaceFits
  <2> QED BY <1>5, <2>1 DEF PlaceShaped, Ordering
<1> HIDE DEF t
<1>7. PlaceFits(t)
  BY <1>3, <1>5, <1>6 DEF PlaceFits
<1>8. UNCHANGED <<shelf, placed, cached, saved>>
  BY DEF Placing!PlaceOrder, Placing!checkoutVars
<1> QED BY <1>4, <1>6, <1>7, <1>8, PlacingFacts, PlacingMoves

LEMMA ReservationsAreTaken ==
  ASSUME PlacingInv, NEW q \in Requests, UNCHANGED moving, Placing!TakeReservation(q)
  PROVE  PlacingInv'
<1> DEFINE r == cartReq[q]
<1>1. /\ UNCHANGED <<shelf, cached, saved, placed>> /\ r.pc = "reserve" /\ PlaceFits(r) /\ PlaceShaped(r)
  BY PlacingFacts DEF Placing!TakeReservation, Placing!AtCart
<1>2. PICK v : cartReq' = [cartReq EXCEPT ![q].pc = IF r.order.buyNow THEN "place" ELSE "sync",
                                          ![q].order.reservation = v]
  BY DEF Placing!TakeReservation
<1> DEFINE order == [r.order EXCEPT !.reservation = v]
           t == [r EXCEPT !.pc = IF r.order.buyNow THEN "place" ELSE "sync", !.order = order]
<1>3. cartReq' = [cartReq EXCEPT ![q] = t]
  BY <1>2
<1>4. order \in [key: {order.key}, online: {order.online}, buyNow: {order.buyNow}, reservation: {order.reservation}]
      /\ order.key = r.order.key
  BY <1>1 DEF PlaceShaped
<1> HIDE DEF order
<1>5. PlaceShaped(t) /\ t.pc \in {"place", "sync"} /\ t.rows = r.rows /\ t.order = order
  BY <1>1, <1>4 DEF PlaceShaped, Ordering
<1> HIDE DEF t
<1>6. PlaceFits(t)
  BY <1>1, <1>4, <1>5 DEF PlaceFits, Ordering
<1> QED BY <1>1, <1>3, <1>5, <1>6, PlacingFacts, PlacingMoves

\* The hash is read, the rows are looked up, the rows are read.
LEMMA CartsAreRead ==
  ASSUME PlacingInv, NEW q \in Requests, UNCHANGED moving,
         Placing!SyncRead(q) \/ Placing!SyncDelete(q) \/ Placing!ReadRows(q)
  PROVE  PlacingInv'
<1> DEFINE r == cartReq[q]
<1>1. /\ UNCHANGED <<shelf, cached, saved, placed>> /\ PlaceFits(r) /\ PlaceShaped(r)
      /\ r.pc \in {"sync", "sync_delete", "read_rows"}
  BY PlacingFacts DEF Placing!SyncRead, Placing!SyncDelete, Placing!ReadRows, Placing!AtCart, Placing!checkoutVars
<1>2. ASSUME NEW pc \in {"sync_delete", "read_rows", "sync_commit", "place"}, NEW rows, Countable(rows),
             NEW basket \in Contents,
             cartReq' = [cartReq EXCEPT ![q] = [r EXCEPT !.pc = pc, !.rows = rows, !.basket = basket]]
      PROVE  PlacingInv'
  <2> DEFINE t == [r EXCEPT !.pc = pc, !.rows = rows, !.basket = basket]
  <2>1. PlaceShaped(t) /\ t.pc = pc /\ t.rows = rows /\ t.order = r.order
    BY <1>1, <1>2 DEF PlaceShaped, Ordering
  <2>2. cartReq' = [cartReq EXCEPT ![q] = t]
    BY <1>2
  <2> HIDE DEF t
  <2>3. PlaceFits(t)
    BY <1>1, <1>2, <2>1 DEF PlaceFits, Ordering
  <2> QED BY <1>1, <1>2, <2>1, <2>2, <2>3, PlacingFacts, PlacingMoves
<1>3. CASE Placing!SyncRead(q)
  <2>1. PICK pc \in {"sync_delete", "read_rows"} :
          cartReq' = [cartReq EXCEPT ![q].pc = pc, ![q].basket = Hash("user")]
    BY <1>3, PlacingAlike DEF Placing!SyncRead
  <2>2. r.rows = r.rows /\ cartReq' = [cartReq EXCEPT ![q] = [r EXCEPT !.pc = pc, !.rows = r.rows, !.basket = Hash("user")]]
    BY <1>1, <2>1 DEF PlaceShaped
  <2> QED BY <1>1, <1>2, <2>2, PlacingFacts DEF PlaceFits
<1>4. CASE Placing!SyncDelete(q)
  <2>1. cartReq' = [cartReq EXCEPT ![q].pc = "sync_commit", ![q].rows = RowsOf("user")]
    BY <1>4, PlacingAlike DEF Placing!SyncDelete, Placing!OldRows
  <2>2. cartReq' = [cartReq EXCEPT ![q] = [r EXCEPT !.pc = "sync_commit", !.rows = RowsOf("user"), !.basket = r.basket]]
    BY <1>1, <2>1 DEF PlaceShaped
  <2>3. r.basket \in Contents
    BY <1>1 DEF PlaceShaped
  <2> QED BY <1>2, <2>2, <2>3, PlacingFacts
<1>5. CASE Placing!ReadRows(q)
  <2>1. CASE Placing!CartEnd(q)
    BY <1>1, <2>1, PlacingFacts, PlacingEnds
  <2>2. CASE cartReq' = [cartReq EXCEPT ![q].pc = "place", ![q].rows = RowsOf("user"), ![q].basket = Empty]
    <3>1. cartReq' = [cartReq EXCEPT ![q] = [r EXCEPT !.pc = "place", !.rows = RowsOf("user"), !.basket = Empty]]
      BY <2>2
    <3> QED BY <1>2, <3>1, PlacingFacts, NothingPlaced
  <2> QED BY <1>5, <2>1, <2>2, PlacingAlike DEF Placing!ReadRows
<1> QED BY <1>3, <1>4, <1>5

LEMMA RowsAreSynced ==
  ASSUME PlacingInv, NEW q \in Requests, UNCHANGED moving, Placing!SyncCommit(q)
  PROVE  PlacingInv'
<1> DEFINE r == cartReq[q]
           gone == {x.id : x \in r.rows}
           kept == {x \in saved : x.id \notin gone}
           t == [r EXCEPT !.pc = "read_rows", !.rows = {}, !.basket = Empty]
<1>1. UNCHANGED <<shelf, cached, placed>> /\ PlaceFits(r) /\ PlaceShaped(r) /\ r.pc = "sync_commit"
  BY PlacingFacts DEF Placing!SyncCommit, Placing!AtCart, Placing!checkoutVars
<1>2. CASE UNCHANGED saved /\ Placing!CartEnd(q)
  BY <1>1, <1>2, PlacingFacts, PlacingEnds
<1>3. ASSUME saved' = kept \cup Placing!SyncedRows(q),
             cartReq' = [cartReq EXCEPT ![q].pc = "read_rows", ![q].rows = {}, ![q].basket = Empty]
      PROVE  PlacingInv'
  <2> DEFINE wanted == {i \in Items : r.basket[i] > 0}
             ids == CHOOSE f \in [wanted -> Placing!FreeIds] : \A i, j \in wanted : i # j => f[i] # f[j]
             row(i) == [id |-> ids[i], owner |-> "user", item |-> i, quantity |-> r.basket[i]]
             rows == {row(i) : i \in wanted}
             f == [i \in wanted |-> row(i)]
  <2>1. saved' = kept \cup rows
    BY <1>3 DEF Placing!SyncedRows
  <2> HIDE DEF ids
  <2>2. \A i \in wanted : row(i).quantity \in Nat
    BY <1>1 DEF PlaceShaped, Contents
  <2>3. IsFiniteSet(wanted)
    BY CartAssumption, FS_Subset
  <2> HIDE DEF row
  <2>4. f \in Surjection(wanted, rows)
    BY DEF Surjection
  <2>5. \A x \in rows : x.quantity \in Nat
    BY <2>2
  <2> HIDE DEF f, rows, wanted
  <2>6. Countable(rows)
    BY <2>3, <2>4, <2>5, FS_Surjection DEF Countable
  <2>7. kept \subseteq saved
    OBVIOUS
  <2> HIDE DEF kept
  <2>8. Countable(kept)
    BY <2>7, FewerCounted, PlacingFacts
  <2>9. Countable(saved')
    BY <2>1, <2>6, <2>8, FS_Union DEF Countable
  <2>10. cartReq' = [cartReq EXCEPT ![q] = t]
    BY <1>3
  <2>11. PlaceShaped(t) /\ t.pc = "read_rows" /\ t.rows = {} /\ t.order = r.order
    BY <1>1, NothingPlaced DEF PlaceShaped, Ordering
  <2> HIDE DEF t
  <2>12. Countable({})
    BY FS_EmptySet DEF Countable
  <2>13. PlaceFits(t)
    BY <1>1, <2>11, <2>12 DEF PlaceFits, Ordering
  <2> QED BY <1>1, <2>9, <2>10, <2>11, <2>13, PlacingFacts, PlacingMoves
<1> QED BY <1>2, <1>3, PlacingAlike DEF Placing!SyncCommit

LEMMA CartsAreCleared ==
  ASSUME PlacingInv, NEW q \in Requests, UNCHANGED moving,
         Placing!ClearBeforeCommit(q) \/ Placing!RefuseOrder(q) \/ Placing!ClearHash(q)
  PROVE  PlacingInv'
<1> DEFINE r == cartReq[q]
           t == [r EXCEPT !.pc = "commit"]
<1>1. UNCHANGED <<shelf, saved, placed>> /\ cached' \in [Owners -> Contents]
  BY PlacingFacts, PlacingDrops
     DEF Placing!ClearBeforeCommit, Placing!RefuseOrder, Placing!ClearHash, Placing!checkoutVars
<1>2. CASE Placing!CartEnd(q)
  BY <1>1, <1>2, PlacingFacts, PlacingEnds
<1>3. CASE Placing!ClearBeforeCommit(q)
  <2>1. cartReq' = [cartReq EXCEPT ![q] = t]
    BY <1>3 DEF Placing!ClearBeforeCommit, Placing!CartStep
  <2>2. PlaceFits(r) /\ PlaceShaped(r) /\ r.pc = "place"
    BY <1>3, PlacingFacts DEF Placing!ClearBeforeCommit, Placing!AtCart
  <2>3. PlaceShaped(t) /\ t.pc = "commit" /\ t.rows = r.rows /\ t.order = r.order
    BY <2>2 DEF PlaceShaped, Ordering
  <2> HIDE DEF t
  <2>4. PlaceFits(t)
    BY <2>2, <2>3 DEF PlaceFits, Ordering
  <2>5. /\ placed[r.order.key].status = "none"
        /\ \A x \in Requests : x # q /\ Committing(x) => KeyOf(x) # r.order.key
    BY <1>3 DEF Placing!ClearBeforeCommit, Placing!Accepted, Placing!KeyIsNew, Placing!Blocked,
                Placing!AtCart, Committing, KeyOf
  <2> QED BY <1>1, <2>1, <2>3, <2>4, <2>5, PlacingFacts, PlacingMoves
<1> QED BY <1>2, <1>3 DEF Placing!RefuseOrder, Placing!ClearHash

\* An order is placed, or a placed one is paid, and the request leaves its transaction.
LEMMA PlacingSells ==
  ASSUME PlacingInv, NEW q \in Requests, NEW t, cartReq' = [cartReq EXCEPT ![q] = t],
         PlaceFits(t), t.pc # "commit", UNCHANGED moving,
         cached' \in [Owners -> Contents], Countable(saved'),
         NEW k \in Keys, placed[k].status # "placed",
         \A x \in Requests : x # q /\ Committing(x) => KeyOf(x) # k,
         NEW o, OrderShaped(o), Countable(o.rows), placed' = [placed EXCEPT ![k] = o],
         \/ o.status # "placed" /\ shelf' = shelf
         \/ o.status = "placed" /\ shelf' = [i \in Items |-> shelf[i] - Units(o.rows, i)]
  PROVE  PlacingInv'
<1>1. /\ cartReq' = [x \in Requests |-> cartReq'[x]] /\ cartReq'[q] = t
      /\ \A x \in Requests : x # q => cartReq'[x] = cartReq[x]
  BY DEF PlacingInv
<1>2. \A x \in Requests : PlaceFits(cartReq[x])'
  <2>1. \A x \in Requests : PlaceFits(cartReq[x])
    BY DEF PlacingInv
  <2>2. \A x \in Requests : cartReq'[x] = t \/ cartReq'[x] = cartReq[x]
    BY <1>1
  <2>3. \A x \in Requests : PlaceFits(cartReq'[x])
    BY <2>1, <2>2
  <2> QED BY <2>3 DEF PlaceFits, PlaceShaped
<1>3. /\ placed' = [x \in Keys |-> placed'[x]] /\ placed'[k] = o
      /\ \A x \in Keys : x # k => placed'[x] = placed[x]
  BY DEF PlacingInv
<1>4. \A x \in Keys : (OrderShaped(placed[x]) /\ Countable(placed[x].rows))'
  <2>1. \A x \in Keys : OrderShaped(placed[x]) /\ Countable(placed[x].rows)
    BY DEF PlacingInv
  <2>2. \A x \in Keys : placed'[x] = o \/ placed'[x] = placed[x]
    BY <1>3
  <2>3. \A x \in Keys : OrderShaped(placed'[x]) /\ Countable(placed'[x].rows)
    BY <2>1, <2>2
  <2> QED BY <2>3 DEF OrderShaped
<1>5. \A x \in Requests : (Committing(x) => placed[KeyOf(x)].status = "none")'
  <2> SUFFICES ASSUME NEW x \in Requests, Committing(x)' PROVE placed'[KeyOf(x)'].status = "none"
    OBVIOUS
  <2>1. x # q /\ Committing(x) /\ KeyOf(x)' = KeyOf(x) /\ PlaceFits(cartReq[x])
    BY <1>1 DEF Committing, KeyOf, PlacingInv
  <2>2. KeyOf(x) \in Keys /\ KeyOf(x) # k /\ placed[KeyOf(x)].status = "none"
    BY <2>1 DEF PlacingInv, PlaceFits, Committing, KeyOf, Ordering
  <2> QED BY <1>3, <2>1, <2>2
<1>6. \A x, y \in Requests : (Committing(x) /\ Committing(y) /\ KeyOf(x) = KeyOf(y) => x = y)'
  BY <1>1 DEF PlacingInv, Committing, KeyOf
<1>7. (shelf \in [Items -> Int])' /\ \A i \in Items : (shelf[i] + Taken(i) = OnShelf[i])'
  <2>1. /\ shelf \in [Items -> Int] /\ \A i \in Items : shelf[i] + Taken(i) = OnShelf[i]
        /\ \A i : Taken(i) \in Nat /\ Units(o.rows, i) \in Nat
    BY SoldByStanding, CountedUnits DEF PlacingInv
  <2>2. CASE o.status # "placed" /\ shelf' = shelf
    <3>1. Standing' = Standing /\ \A x \in Standing : placed'[x].rows = placed[x].rows
      BY <1>3, <2>2 DEF Standing
    <3>2. \A i : Taken(i)' = Taken(i)
      BY <3>1, TakesNothing
    <3> QED BY <2>1, <2>2, <3>2
  <2>3. CASE o.status = "placed" /\ shelf' = [i \in Items |-> shelf[i] - Units(o.rows, i)]
    <3>1. PICK rows : rows = o.rows
      OBVIOUS
    <3>2. \A i : Taken(i)' = Taken(i) + Units(rows, i)
      BY <2>3, <3>1, TakesItsUnits
    <3> QED BY <2>1, <2>3, <3>1, <3>2
  <2> QED BY <2>2, <2>3
<1>8. \A x \in Requests : (moving[x].pc = "idle")'
  BY DEF PlacingInv
<1> QED BY <1>1, <1>2, <1>3, <1>4, <1>5, <1>6, <1>7, <1>8 DEF PlacingInv

LEMMA OrdersAreCommitted ==
  ASSUME PlacingInv, NEW q \in Requests, UNCHANGED moving, Placing!CommitOrder(q)
  PROVE  PlacingInv'
<1> DEFINE r == cartReq[q]
           o == [status |-> IF r.order.online THEN "pending" ELSE "placed", rows |-> r.rows,
                 buyNow |-> r.order.buyNow, shown |-> r.shown]
           t == [r EXCEPT !.pc = "clear"]
<1>1. /\ r.pc \in {"place", "commit"} /\ PlaceFits(r) /\ PlaceShaped(r) /\ r.order.key \in Keys
      /\ cached' = cached /\ placed' = [placed EXCEPT ![r.order.key] = o] /\ saved' \subseteq saved
      /\ shelf' = IF r.order.online THEN shelf ELSE [i \in Items |-> shelf[i] - Units(r.rows, i)]
  <2>1. r.pc \in {"place", "commit"} /\ PlaceFits(r) /\ PlaceShaped(r) /\ cached' = cached
    BY PlacingFacts DEF Placing!CommitOrder, Placing!AtCart
  <2>2. r.order.key \in Keys
    BY <2>1 DEF PlaceFits, Ordering
  <2> HIDE DEF t
  <2>3. /\ placed' = [placed EXCEPT ![r.order.key] = o] /\ saved' \subseteq saved
        /\ shelf' = IF r.order.online THEN shelf ELSE [i \in Items |-> shelf[i] - Placing!Units(r.rows, i)]
    BY DEF Placing!CommitOrder, Placing!Commit
  <2> QED BY <2>1, <2>2, <2>3, PlacingAlike
<1>2. /\ placed[r.order.key].status = "none"
      /\ \A x \in Requests : x # q /\ Committing(x) => KeyOf(x) # r.order.key
  <2>1. CASE r.pc = "commit"
    BY <2>1 DEF PlacingInv, Committing, KeyOf
  <2>2. CASE Placing!Accepted(q)
    BY <2>2 DEF Placing!Accepted, Placing!KeyIsNew, Placing!Blocked, Placing!AtCart, Committing, KeyOf
  <2> QED BY <2>1, <2>2 DEF Placing!CommitOrder, Placing!AtCart
<1>3. OrderShaped(o) /\ o.rows = r.rows /\ Countable(r.rows)
      /\ o.status = IF r.order.online THEN "pending" ELSE "placed"
  BY <1>1 DEF OrderShaped, PlaceFits
<1> HIDE DEF o
<1>4. \E s : cartReq' = [cartReq EXCEPT ![q] = s] /\ PlaceFits(s) /\ s.pc # "commit"
  <2>1. CASE Placing!CartEnd(q)
    BY <2>1, PlacingAlike, NothingPlaced DEF Placing!CartEnd
  <2>2. CASE Placing!CartStep(q, "clear")
    <3>1. cartReq' = [cartReq EXCEPT ![q] = t]
      BY <2>2 DEF Placing!CartStep
    <3>2. PlaceShaped(t) /\ t.pc = "clear" /\ t.rows = r.rows
      BY <1>1 DEF PlaceShaped
    <3> HIDE DEF t
    <3>3. PlaceFits(t)
      BY <1>1, <3>2 DEF PlaceFits, Ordering
    <3> QED BY <3>1, <3>2, <3>3
  <2> QED BY <2>1, <2>2 DEF Placing!CommitOrder
<1> HIDE DEF t
<1>5. PICK s : cartReq' = [cartReq EXCEPT ![q] = s] /\ PlaceFits(s) /\ s.pc # "commit"
  BY <1>4
<1>6. cached' \in [Owners -> Contents] /\ Countable(saved')
  BY <1>1, PlacingFacts, FewerCounted
<1>7. \/ o.status # "placed" /\ shelf' = shelf
      \/ o.status = "placed" /\ shelf' = [i \in Items |-> shelf[i] - Units(o.rows, i)]
  BY <1>1, <1>3
<1> QED BY <1>1, <1>2, <1>3, <1>5, <1>6, <1>7, PlacingSells

LEMMA PaymentsAreConfirmed ==
  ASSUME PlacingInv, NEW q \in Requests, NEW k \in Keys, UNCHANGED moving, Placing!ConfirmPayment(q, k)
  PROVE  PlacingInv'
<1> DEFINE o == [placed[k] EXCEPT !.status = "placed"]
           t == [NoCartRequest EXCEPT !.pc = "clear", !.owner = "user", !.item = NoCartRequest.item,
                                      !.asked = 0, !.quantity = 0]
<1>1. /\ placed[k].status = "pending" /\ OrderShaped(placed[k]) /\ Countable(placed[k].rows)
      /\ placed = [x \in Keys |-> placed[x]]
  BY DEF Placing!ConfirmPayment, PlacingInv
<1>2. placed' = [placed EXCEPT ![k] = o] /\ saved' \subseteq saved /\ cached' = cached
      /\ shelf' = [i \in Items |-> shelf[i] - Placing!Units(placed[k].rows, i)]
  BY DEF Placing!ConfirmPayment
<1>3. cartReq' = [cartReq EXCEPT ![q] = t]
  BY PlacingAlike DEF Placing!ConfirmPayment, Placing!BeginCart
<1>4. OrderShaped(o) /\ o.rows = placed[k].rows /\ o.status = "placed"
  BY <1>1 DEF OrderShaped
<1> HIDE DEF o
<1>5. PlaceShaped(t) /\ t.pc = "clear" /\ t.rows = NoCartRequest.rows
  <2>1. PlaceShaped(NoCartRequest)
    BY NothingPlaced DEF PlaceFits
  <2> QED BY <2>1 DEF PlaceShaped
<1> HIDE DEF t
<1>6. PlaceFits(t)
  BY <1>5, NothingPlaced DEF PlaceFits, Ordering
<1>7. \A x \in Requests : x # q /\ Committing(x) => KeyOf(x) # k
  BY <1>1 DEF PlacingInv
<1>8. cached' \in [Owners -> Contents] /\ Countable(saved')
  BY <1>2, PlacingFacts, FewerCounted
<1>9. shelf' = [i \in Items |-> shelf[i] - Units(o.rows, i)]
  BY <1>2, <1>4, PlacingAlike
<1> QED BY <1>1, <1>2, <1>3, <1>4, <1>5, <1>6, <1>7, <1>8, <1>9, PlacingSells

-----------------------------------------------------------------------------
(* Every step of the orders at once, and the theorem *)

LEMMA PlacingUndisturbed ==
  ASSUME PlacingInv, UNCHANGED <<shelf, cached, saved, cartReq, placed, moving>> PROVE PlacingInv'
<1>1. \A i : Taken(i)' = Taken(i)
  BY TakesNothing DEF Standing
<1>2. \A q \in Requests : PlaceFits(cartReq[q])'
  BY DEF PlacingInv, PlaceFits, PlaceShaped
<1>3. \A k \in Keys : (OrderShaped(placed[k]) /\ Countable(placed[k].rows))'
  BY DEF PlacingInv, OrderShaped
<1>4. \A i \in Items : (shelf[i] + Taken(i) = OnShelf[i])'
  BY <1>1 DEF PlacingInv
<1>5. \A q \in Requests : (Committing(q) => placed[KeyOf(q)].status = "none")'
  BY DEF PlacingInv, Committing, KeyOf
<1>6. \A q, x \in Requests : (Committing(q) /\ Committing(x) /\ KeyOf(q) = KeyOf(x) => q = x)'
  BY DEF PlacingInv, Committing, KeyOf
<1>7. /\ (shelf \in [Items -> Int])' /\ (cached \in [Owners -> Contents])' /\ Countable(saved)'
      /\ (placed = [k \in Keys |-> placed[k]])' /\ (cartReq = [q \in Requests |-> cartReq[q]])'
      /\ \A q \in Requests : (moving[q].pc = "idle")'
  BY DEF PlacingInv
<1> QED BY <1>2, <1>3, <1>4, <1>5, <1>6, <1>7 DEF PlacingInv

\* No other request of the cart is made.
LEMMA NoCartOfPlacing == ASSUME PlacingInv PROVE ~Placing!CartNext
<1>1. ASSUME NEW q \in Requests, Placing!CartRequestNext(q) PROVE FALSE
  <2>1. cartReq[q].pc \in Ordering \cup {"idle", "clear"}
    BY PlacingFacts DEF PlaceShaped
  <2>2. ASSUME NEW i, NEW n PROVE ~((\E o \in Placing!Owners : Placing!AddToCart(q, o, i, n)) \/ Placing!UpdateItem(q, i, n))
    BY DEF Placing!UpdateItem, Placing!AddToCart
  <2>3. ~((\E i \in Items : Placing!RemoveItem(q, i)) \/ \E o \in Placing!Owners : Placing!GetCart(q, o))
    BY DEF Placing!RemoveItem, Placing!GetCart
  <2>4. ~(\/ Placing!AddSet(q) \/ Placing!AddDb(q) \/ Placing!AddSave(q) \/ Placing!UpdateSet(q)
          \/ Placing!UpdateSave(q) \/ Placing!RemoveField(q) \/ Placing!RemoveRow(q)
          \/ Placing!ViewCart(q) \/ Placing!WarmCart(q))
    BY <2>1 DEF Ordering, Placing!AddSet, Placing!AddDb, Placing!AddSave, Placing!UpdateSet, Placing!UpdateSave,
                Placing!RemoveField, Placing!RemoveRow, Placing!ViewCart, Placing!WarmCart, Placing!AtCart
  <2>5. ~(\/ Placing!MergeCart(q) \/ Placing!CartCrash(q) \/ Placing!MergeSet(q) \/ Placing!MergeClear(q)
          \/ Placing!MergeRead(q) \/ Placing!MergeRows(q))
    BY <2>1 DEF Ordering, Placing!MergeCart, Placing!CartCrash, Placing!MergeSet, Placing!MergeClear,
                Placing!MergeRead, Placing!MergeRows, Placing!AtCart
  <2> QED BY <1>1, <2>2, <2>3, <2>4, <2>5 DEF Placing!CartRequestNext
<1>2. ASSUME NEW i \in Items PROVE ~(Placing!ShelfChanges(i) \/ Placing!GoesOffSale(i))
  BY DEF Placing!ShelfChanges, Placing!GoesOffSale
<1>3. ASSUME NEW o \in Placing!Owners PROVE ~Placing!HashExpires(o)
  BY DEF Placing!HashExpires
<1>4. ~Placing!RedisFlips
  BY DEF Placing!RedisFlips
<1> QED BY <1>1, <1>2, <1>3, <1>4 DEF Placing!CartNext

LEMMA PlacingCheckoutFits ==
  ASSUME PlacingInv, NEW q \in Requests, Placing!CheckoutRequestNext(q), UNCHANGED moving
  PROVE  PlacingInv'
<1>1. ~(Placing!GetCheckout(q) \/ \E i \in Items, n \in Amounts : Placing!GetBuyNowCheckout(q, i, n))
  BY DEF Placing!GetCheckout, Placing!GetBuyNowCheckout
<1>2. ~Placing!NoCart(q)
  BY PlacingFacts DEF PlaceShaped, Ordering, Placing!NoCart, Placing!AtCart
<1>3. ASSUME NEW k \in Keys, Placing!PlaceOrder(q, k) \/ Placing!ConfirmPayment(q, k) PROVE PlacingInv'
  BY <1>3, RequestsArePlaced, PaymentsAreConfirmed
<1>4. CASE Placing!TakeReservation(q) \/ Placing!SyncCommit(q) \/ Placing!CommitOrder(q)
  BY <1>4, ReservationsAreTaken, RowsAreSynced, OrdersAreCommitted
<1>5. CASE Placing!SyncRead(q) \/ Placing!SyncDelete(q) \/ Placing!ReadRows(q)
  BY <1>5, CartsAreRead
<1>6. CASE Placing!ClearBeforeCommit(q) \/ Placing!RefuseOrder(q) \/ Placing!ClearHash(q)
  BY <1>6, CartsAreCleared
<1> QED BY <1>1, <1>2, <1>3, <1>4, <1>5, <1>6 DEF Placing!CheckoutRequestNext

LEMMA PlacingStepFits ==
  ASSUME PlacingInv, Placing!SourcesNext PROVE PlacingInv'
<1>1. ASSUME Placing!CartCheckoutNext, UNCHANGED moving PROVE PlacingInv'
  <2>1. ASSUME NEW q \in Requests, Placing!CheckoutRequestNext(q) PROVE PlacingInv'
    BY <1>1, <2>1, PlacingCheckoutFits
  <2>2. ASSUME NEW v \in Reservations, Placing!ReservationExpires(v) \/ Placing!CleanReservation(v)
        PROVE  PlacingInv'
    BY <1>1, <2>2, PlacingUndisturbed DEF Placing!ReservationExpires, Placing!CleanReservation, Placing!cartVars
  <2> QED BY <1>1, <2>1, <2>2, NoCartOfPlacing DEF Placing!CartCheckoutNext
<1>2. ASSUME NEW q \in Requests PROVE ~(Placing!CreateWish(q) \/ Placing!MoveSave(q) \/ Placing!MoveDelete(q))
  BY DEF PlacingInv, Placing!CreateWish, Placing!MoveSave, Placing!MoveDelete
<1>3. ASSUME NEW q \in Requests, NEW i \in Items
      PROVE  ~(\/ Placing!AddToWishlist(q, i) \/ Placing!RemoveFromWishlist(q, i)
               \/ \E n \in Amounts : Placing!MoveToCart(q, i, n) \/ Placing!Reorder(q, i, n))
  BY DEF Placing!AddToWishlist, Placing!RemoveFromWishlist, Placing!MoveToCart, Placing!Reorder
<1> QED BY <1>1, <1>2, <1>3 DEF Placing!SourcesNext, Placing!sourceVars

\* Orders placed at once, from the cart and past it, paid at the door or online,
\* with keys that are used again: the shelf has lost exactly the units of the
\* orders that stand, each of them once.
THEOREM OrdersTakeWhatTheySell == MCSpec => []ShelfIsAccountedForAtOnce
<1> DEFINE Inv == area = "placing" => PlacingInv
<1>1. MCInit => Inv
  <2> SUFFICES ASSUME MCInit, area = "placing" PROVE PlacingInv
    OBVIOUS
  <2>1. /\ shelf = OnShelf /\ saved = {}
        /\ cached = [o \in Owners |-> IF o = "user" THEN FullCart ELSE Empty]
        /\ cartReq = [q \in Requests |-> NoCartRequest]
        /\ placed = [k \in Keys |-> NotPlaced]
        /\ moving = [q \in Requests |-> NotMoving]
    BY DEF MCInit, RequestsOf
  <2>2. cached \in [Owners -> Contents]
    BY <2>1, NothingPlaced DEF FullCart, Contents
  <2>3. OrderShaped(NotPlaced) /\ NotPlaced.rows = {} /\ NotPlaced.status = "none" /\ NotMoving.pc = "idle"
    BY DEF OrderShaped, NotPlaced, NotMoving
  <2>4. Countable({})
    BY FS_EmptySet DEF Countable
  <2>5. \A i : Taken(i) = 0
    <3>1. Standing = {}
      BY <2>1, <2>3 DEF Standing
    <3>2. \A i : Taken(i) = Cardinality({})
      BY <3>1 DEF Taken
    <3> QED BY <3>2, FS_EmptySet
  <2>6. \A q \in Requests : PlaceFits(cartReq[q]) /\ ~Committing(q) /\ moving[q].pc = "idle"
    BY <2>1, <2>3, NothingPlaced DEF Committing
  <2>7. \A k \in Keys : OrderShaped(placed[k]) /\ Countable(placed[k].rows)
    BY <2>1, <2>3, <2>4
  <2>8. shelf \in [Items -> Int] /\ \A i \in Items : shelf[i] + Taken(i) = OnShelf[i]
    BY <2>1, <2>5, CartAssumption
  <2> QED BY <2>1, <2>2, <2>4, <2>6, <2>7, <2>8 DEF PlacingInv
<1>2. Inv /\ [MCNext]_<<allVars, area>> => Inv'
  <2> SUFFICES ASSUME Inv, [MCNext]_<<allVars, area>>, area' = "placing" PROVE PlacingInv'
    OBVIOUS
  <2>1. CASE MCNext
    <3>1. area = "placing" /\ Placing!SourcesNext
      BY <2>1 DEF MCNext
    <3> QED BY <3>1, PlacingStepFits
  <2>2. CASE UNCHANGED <<allVars, area>>
    BY <2>2, PlacingUndisturbed
       DEF allVars, cartSourceVars, cartCheckoutVars, cartVars, checkoutVars, sourceVars
  <2> QED BY <2>1, <2>2
<1>3. Inv => ShelfIsAccountedForAtOnce
  BY PlacingAlike DEF PlacingInv, ShelfIsAccountedForAtOnce, Placing!ShelfIsAccountedFor
<1> QED BY <1>1, <1>2, <1>3, PTL DEF MCSpec
=============================================================================
