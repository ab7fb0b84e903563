------------------------ MODULE CatalogueCacheProofs ------------------------
(* Requests in turn: the pages of products and the home page show what is    *)
(* there.  A write is announced before it is shown to anyone: its pages wait *)
(* to be dropped, and nobody else is on the way.                             *)
EXTENDS CatalogueCache, TLAPS

\* An id is never a slug.
Named == Goods \cap Slugs = {}
Told == CacheOps \cap {"silent", "testimonial"} = {} /\ "redis" \notin CacheFaults

\* A product in the database, live or deleted, has a slug of its own, and a
\* category.
SlugsApart ==
  \A p \in Goods : goods[p].state # "none" =>
    /\ goods[p].slug \in Slugs /\ goods[p].aisle \in Aisles
    /\ \A q \in Goods \ {p} : goods[q].state # "none" => goods[q].slug # goods[p].slug

Alone ==
  /\ \A v, w \in Visitors : visitors[v].pc # "idle" /\ visitors[w].pc # "idle" => v = w
  /\ \A d, e \in Editors : editors[d].pc # "idle" /\ editors[e].pc # "idle" => d = e
  /\ \A v \in Visitors, e \in Editors : visitors[v].pc = "idle" \/ editors[e].pc = "idle"

\* The pages that are to be current, and those that are about to be dropped.
Lists == {List("feed")}
OnSale == {p \in Goods : goods[p].state = "live"}
Watched == Lists \cup {Details(p) : p \in OnSale} \cup {Details(goods[p].slug) : p \in OnSale}
AsNow(k, shows) ==
  IF k = List("feed") THEN shows = HomeFeed ELSE \E p \in Found(k.of) : IsPageOf(p, shows)
Current(k) == pages[k].left > 0 => AsNow(k, pages[k].shows)
Awaited(k) ==
  \E e \in Editors :
    \/ editors[e].pc = "drop" /\ k \in editors[e].keys
    \/ editors[e].pc \in {"drop", "feed"} /\ k = List("feed")

\* A page that was read is still what is there.
Fresh(v) == visitors[v].pc = "keep" => \A k \in visitors[v].keys : visitors[v].shows = ReadOf(k)
\* A stock update knows the slug that its product has.
Knows(e) == editors[e].pc = "stock" =>
  editors[e].product \in OnSale /\ editors[e].keys = PagesOf(editors[e].product, goods[editors[e].product].slug)

PagesInv ==
  /\ CacheTypeOK /\ redisUp /\ SlugsApart /\ Alone
  /\ \A v \in Visitors : Fresh(v)
  /\ \A e \in Editors : Knows(e)
  /\ \A k \in Watched : Current(k) \/ Awaited(k)

-----------------------------------------------------------------------------
(* Types *)

LEMMA KeysAre ==
  /\ \A x \in Goods \cup Slugs : Details(x) \in Key
  /\ Lists \subseteq Key
BY DEF Key, Details, List, Lists

LEMMA KeysApart ==
  /\ \A x : Details(x).kind = "details" /\ Details(x).of = x /\ Details(x) \notin Lists
  /\ \A x, y : Details(x) = Details(y) => x = y
  /\ \A k \in Lists : k = List("feed")
BY DEF Details, List, Lists

LEMMA NothingFits == NoVisit \in Visit /\ NoEdit \in Edit /\ NoPage \in Page
BY DEF NoVisit, Visit, NoEdit, Edit, NoPage, Page, Key, List

LEMMA ShownFits ==
  ASSUME CacheTypeOK
  PROVE  /\ \A S \in SUBSET Goods : OfGoods(S) \in SUBSET Shown
         /\ \A S \in SUBSET Aisles : OfAisles(S) \in SUBSET Shown
         /\ Testimonials \in SUBSET Shown
<1>1. ASSUME NEW S \in SUBSET Goods, NEW x \in OfGoods(S) PROVE x \in Shown
  <2>1. PICK p \in S : x = [row |-> p, version |-> goods[p].version]
    BY <1>1 DEF OfGoods
  <2>2. goods[p].version \in 0..MaxVersion
    BY <2>1 DEF CacheTypeOK, GoodsRow
  <2> QED BY <2>1, <2>2 DEF Shown, Rows
<1>2. ASSUME NEW S \in SUBSET Aisles, NEW x \in OfAisles(S) PROVE x \in Shown
  <2>1. PICK c \in S : x = [row |-> c, version |-> aisles[c].version]
    BY <1>2 DEF OfAisles
  <2>2. aisles[c].version \in 0..MaxVersion
    BY <2>1 DEF CacheTypeOK, AisleRow
  <2> QED BY <2>1, <2>2 DEF Shown, Rows
<1>3. Testimonials \in SUBSET Shown
  BY DEF Testimonials, CacheTypeOK, Shown, Rows
<1> QED BY <1>1, <1>2, <1>3

LEMMA ReadsAre ==
  /\ \A x : ReadOf(Details(x)) = ProductPage(x)
  /\ ReadOf(List("feed")) = HomeFeed
BY DEF ReadOf, Details, List

LEMMA ReadFits == ASSUME CacheTypeOK, SlugsApart, NEW k \in Key PROVE ReadOf(k) \in SUBSET Shown
<1>1. Found(k.of) \in SUBSET Goods /\ AnyGoods \in SUBSET Goods /\ Roots \in SUBSET Aisles
  BY DEF Found, AnyGoods, Roots, AllAisles
<1>2. {goods[p].aisle : p \in Found(k.of)} \in SUBSET Aisles
  BY DEF SlugsApart, Found
<1>3. /\ ProductPage(k.of) \in SUBSET Shown /\ HomeFeed \in SUBSET Shown /\ Testimonials \in SUBSET Shown
      /\ Filters \in SUBSET Shown /\ Suggestions \in SUBSET Shown
  BY <1>1, <1>2, ShownFits DEF ProductPage, HomeFeed, Filters, Suggestions
<1>4. k.kind \in {"details", "feed", "testimonials", "filters", "suggestions"}
  BY DEF Key
<1> QED BY <1>3, <1>4 DEF ReadOf

LEMMA PagesTyped ==
  ASSUME CacheAssumption, CacheTypeOK
  PROVE  /\ \A k \in Key, shows \in SUBSET Shown : Keep(k, shows) => pages' \in [Key -> Page]
         /\ \A keys : Drop(keys) => pages' \in [Key -> Page]
<1>1. pages \in [Key -> Page] /\ NoPage \in Page
  BY NothingFits DEF CacheTypeOK
<1>2. \A k \in Key, shows \in SUBSET Shown : [left |-> Ttl(k), shows |-> shows] \in Page
  BY DEF CacheAssumption, Ttl, Page
<1>3. \A k \in Key, shows \in SUBSET Shown : Keep(k, shows) => pages' \in [Key -> Page]
  BY <1>1, <1>2 DEF Keep
<1>4. \A keys : Drop(keys) => pages' \in [Key -> Page]
  BY <1>1 DEF Drop
<1> QED BY <1>3, <1>4

LEMMA VisitorsTyped ==
  ASSUME CacheAssumption, CacheTypeOK, SlugsApart, NEW v \in Visitors,
         VisitorStep(v) \/ \E k \in Key : Visited(v, k) \/ Ask(v, k)
  PROVE  CacheTypeOK'
<1> DEFINE w == visitors[v]
<1>1. /\ goods \in [Goods -> GoodsRow] /\ aisles \in [Aisles -> AisleRow] /\ stories \in 0..MaxVersion
      /\ pages \in [Key -> Page] /\ redisUp \in BOOLEAN /\ w \in Visit
      /\ visitors \in [Visitors -> Visit] /\ editors \in [Editors -> Edit]
  BY DEF CacheTypeOK
<1>2. ASSUME NEW k \in Key, Visited(v, k) PROVE CacheTypeOK'
  BY <1>1, <1>2 DEF Visited, AfterHit, CacheTypeOK
<1>3. ASSUME NEW k \in Key, Ask(v, k) PROVE CacheTypeOK'
  <2>1. [NoVisit EXCEPT !.pc = "read", !.key = k] \in Visit
    BY NothingFits DEF Visit
  <2> QED BY <1>1, <1>3, <2>1 DEF Ask, CacheTypeOK
<1>4. CASE Read(v)
  <2> DEFINE k == w.key
             work == [w EXCEPT !.pc = "keep", !.keys = KeysOfPage(k), !.shows = ReadOf(k)]
  <2>1. k \in Key
    BY <1>1 DEF Visit
  <2>2. KeysOfPage(k) \in SUBSET Key
    BY <2>1, KeysAre DEF KeysOfPage, Found, SlugsApart
  <2>3. work \in Visit
    BY <1>1, <2>1, <2>2, ReadFits DEF Visit
  <2>4. visitors' \in [Visitors -> Visit]
    BY <1>1, <1>4, <2>3, NothingFits DEF Read
  <2> QED BY <1>1, <1>4, <2>4 DEF Read, CacheTypeOK
<1>5. ASSUME NEW k \in Key, KeepOne(v, k) PROVE CacheTypeOK'
  <2>1. w.shows \in SUBSET Shown /\ [w EXCEPT !.keys = @ \ {k}] \in Visit
    BY <1>1 DEF Visit
  <2>2. pages' \in [Key -> Page]
    BY <1>5, <2>1, PagesTyped DEF KeepOne
  <2>3. visitors' \in [Visitors -> Visit]
    BY <1>1, <1>5, <2>1, NothingFits DEF KeepOne
  <2> QED BY <1>1, <1>5, <2>2, <2>3 DEF KeepOne, CacheTypeOK
<1> QED BY <1>2, <1>3, <1>4, <1>5 DEF VisitorStep

LEMMA DropTyped ==
  ASSUME CacheTypeOK, NEW e \in Editors, NEW keys \in SUBSET Key, DropThen(e, keys)
  PROVE  editors' \in [Editors -> Edit]
<1>1. [NoEdit EXCEPT !.pc = "drop", !.keys = keys] \in Edit
  BY NothingFits DEF Edit
<1> QED BY <1>1 DEF DropThen, CacheTypeOK

LEMMA VersionsGo == ASSUME CacheAssumption, NEW n \in 0..MaxVersion, n < MaxVersion PROVE Next1(n) \in 0..MaxVersion
BY DEF CacheAssumption, Next1

LEMMA GoneFits ==
  ASSUME CacheAssumption, CacheTypeOK, NEW p \in Goods, MayChange(p), NEW permanent \in BOOLEAN
  PROVE  GoneProduct(p, permanent) \in GoodsRow
<1>1. goods[p] \in GoodsRow /\ Next1(goods[p].version) \in 0..MaxVersion
  BY VersionsGo DEF CacheTypeOK, GoodsRow, MayChange
<1>2. [goods[p] EXCEPT !.state = "deleted", !.version = Next1(@)] \in GoodsRow
  BY <1>1 DEF GoodsRow, RowStates
<1>3. [state |-> "none", slug |-> Nothing, aisle |-> Nothing, version |-> Next1(goods[p].version)] \in GoodsRow
  BY <1>1 DEF GoodsRow, RowStates
<1> QED BY <1>2, <1>3 DEF GoneProduct

LEMMA BumpFits ==
  ASSUME CacheAssumption, CacheTypeOK, NEW p \in Goods, MayChange(p)
  PROVE  Bumped(p) \in [Goods -> GoodsRow]
<1>1. goods[p] \in GoodsRow /\ Next1(goods[p].version) \in 0..MaxVersion
  BY VersionsGo DEF CacheTypeOK, GoodsRow, MayChange
<1>2. [goods[p] EXCEPT !.version = Next1(@)] \in GoodsRow
  BY <1>1 DEF GoodsRow
<1>3. Bumped(p) = [goods EXCEPT ![p] = [goods[p] EXCEPT !.version = Next1(@)]]
  BY DEF Bumped, CacheTypeOK
<1> QED BY <1>2, <1>3 DEF CacheTypeOK

LEMMA SlugPages ==
  ASSUME SlugsApart, NEW p \in Goods, goods[p].state # "none"
  PROVE  PagesOf(p, goods[p].slug) \in SUBSET Key
BY KeysAre DEF SlugsApart, PagesOf

LEMMA EditsTyped ==
  ASSUME CacheAssumption, CacheTypeOK, SlugsApart, NEW e \in Editors, EditRequest(e) \/ EditorStep(e)
  PROVE  CacheTypeOK'
<1>1. /\ goods \in [Goods -> GoodsRow] /\ aisles \in [Aisles -> AisleRow] /\ stories \in 0..MaxVersion
      /\ pages \in [Key -> Page] /\ redisUp \in BOOLEAN /\ editors[e] \in Edit
      /\ visitors \in [Visitors -> Visit] /\ editors \in [Editors -> Edit]
  BY DEF CacheTypeOK
<1>2. ASSUME NEW p \in Goods, NEW s \in Slugs, NEW c \in Aisles, SaveProduct(e, p, s, c) PROVE CacheTypeOK'
  <2>1. Next1(goods[p].version) \in 0..MaxVersion
    BY <1>1, <1>2, VersionsGo DEF SaveProduct, MayChange, GoodsRow
  <2>2. [state |-> "live", slug |-> s, aisle |-> c, version |-> Next1(goods[p].version)] \in GoodsRow
    BY <2>1 DEF GoodsRow, RowStates
  <2>3. goods' \in [Goods -> GoodsRow]
    BY <1>1, <1>2, <2>2 DEF SaveProduct
  <2>4. PagesOf(p, s) \in SUBSET Key
    BY KeysAre DEF PagesOf
  <2>5. editors' \in [Editors -> Edit]
    BY <1>2, <2>4, DropTyped DEF SaveProduct
  <2> QED BY <1>1, <1>2, <2>3, <2>5 DEF SaveProduct, CacheTypeOK
<1>3. ASSUME NEW p \in Goods, StockEdit(e, p) PROVE CacheTypeOK'
  <2>1. PagesOf(p, goods[p].slug) \in SUBSET Key
    BY <1>3, SlugPages DEF StockEdit
  <2>2. [pc |-> "stock", product |-> p, keys |-> PagesOf(p, goods[p].slug)] \in Edit
    BY <2>1 DEF Edit
  <2> QED BY <1>1, <1>3, <2>2 DEF StockEdit, CacheTypeOK
<1>4. ASSUME NEW p \in Goods, NEW permanent \in BOOLEAN, NEW bulk \in BOOLEAN, DeleteProduct(e, p, permanent, bulk)
      PROVE  CacheTypeOK'
  <2>1. goods' \in [Goods -> GoodsRow]
    BY <1>1, <1>4, GoneFits DEF DeleteProduct
  <2>2. (IF bulk THEN PagesOf(p, goods[p].slug) ELSE {Details(p)}) \in SUBSET Key
    BY <1>4, SlugPages, KeysAre DEF DeleteProduct
  <2>3. editors' \in [Editors -> Edit]
    BY <1>4, <2>2, DropTyped DEF DeleteProduct
  <2> QED BY <1>1, <1>4, <2>1, <2>3 DEF DeleteProduct, CacheTypeOK
<1>5. {} \in SUBSET Key
  OBVIOUS
<1>6. ASSUME NEW c \in Aisles, NEW permanent \in BOOLEAN, DeleteAisle(e, c, permanent) PROVE CacheTypeOK'
  <2> DEFINE gone == {c} \cup {x \in ChildrenOf({c}) : permanent \/ aisles[x].state = "live"}
             inside == {p \in AnyGoods : goods[p].aisle \in gone}
  <2>1. ASSUME NEW x \in Aisles PROVE aisles'[x] \in AisleRow
    <3>1. aisles[x] \in AisleRow /\ (x \in gone => Next1(aisles[x].version) \in 0..MaxVersion)
      BY <1>1, <1>6, VersionsGo DEF DeleteAisle, AisleRow
    <3>2. x \in gone => [aisles[x] EXCEPT !.state = "deleted", !.version = Next1(@)] \in AisleRow
      BY <3>1 DEF AisleRow, RowStates
    <3>3. x \in gone => [state |-> "none", parent |-> Nothing, version |-> Next1(aisles[x].version)] \in AisleRow
      BY <3>1 DEF AisleRow, RowStates
    <3>4. aisles'[x] = IF x \notin gone THEN aisles[x]
                       ELSE IF permanent THEN [state |-> "none", parent |-> Nothing, version |-> Next1(aisles[x].version)]
                       ELSE [aisles[x] EXCEPT !.state = "deleted", !.version = Next1(@)]
      BY <1>6 DEF DeleteAisle
    <3> QED BY <3>1, <3>2, <3>3, <3>4
  <2>2. ASSUME NEW p \in Goods PROVE goods'[p] \in GoodsRow
    <3>1. p \in inside => GoneProduct(p, permanent) \in GoodsRow
      BY <1>6, GoneFits DEF DeleteAisle
    <3>2. goods'[p] = IF p \in inside /\ (permanent \/ goods[p].state = "live") THEN GoneProduct(p, permanent) ELSE goods[p]
      BY <1>6 DEF DeleteAisle
    <3> QED BY <1>1, <3>1, <3>2
  <2>3. aisles' \in [Aisles -> AisleRow] /\ goods' \in [Goods -> GoodsRow]
    BY <1>6, <2>1, <2>2 DEF DeleteAisle
  <2>4. editors' \in [Editors -> Edit]
    BY <1>5, <1>6, DropTyped DEF DeleteAisle
  <2> QED BY <1>1, <1>6, <2>3, <2>4 DEF DeleteAisle, CacheTypeOK
<1>7. ASSUME NEW c \in Aisles, NEW parent \in Aisles \cup {Nothing}, SaveCategory(e, c, parent) PROVE CacheTypeOK'
  <2>1. Next1(aisles[c].version) \in 0..MaxVersion
    BY <1>1, <1>7, VersionsGo DEF SaveCategory, AisleRow
  <2>2. [state |-> "live", parent |-> parent, version |-> Next1(aisles[c].version)] \in AisleRow
    BY <2>1 DEF AisleRow, RowStates
  <2>3. aisles' \in [Aisles -> AisleRow]
    BY <1>1, <1>7, <2>2 DEF SaveCategory
  <2>4. editors' \in [Editors -> Edit]
    BY <1>5, <1>7, DropTyped DEF SaveCategory
  <2> QED BY <1>1, <1>7, <2>3, <2>4 DEF SaveCategory, CacheTypeOK
<1>8. CASE SaveStock(e)
  <2> DEFINE p == editors[e].product
  <2>1. CASE goods[p].state = "none" \/ ~MayChange(p)
    BY <1>1, <1>8, <2>1, NothingFits DEF SaveStock, CacheTypeOK
  <2>2. CASE ~(goods[p].state = "none" \/ ~MayChange(p))
    <3>1. Bumped(p) \in [Goods -> GoodsRow]
      <4>1. CASE p \in Goods
        BY <2>2, <4>1, BumpFits
      <4>2. CASE p \notin Goods
        BY <1>1, <4>2 DEF Bumped
      <4> QED BY <4>1, <4>2
    <3>2. editors' \in [Editors -> Edit]
      BY <1>1, <1>8, <2>2, DropTyped DEF SaveStock, Edit
    <3> QED BY <1>1, <1>8, <2>2, <3>1, <3>2 DEF SaveStock, CacheTypeOK
  <2> QED BY <2>1, <2>2
<1>9. CASE DropPages(e)
  <2>1. [NoEdit EXCEPT !.pc = "feed"] \in Edit
    BY NothingFits DEF Edit
  <2> QED BY <1>1, <1>9, <2>1, PagesTyped DEF DropPages, CacheTypeOK
<1>10. CASE DropFeed(e)
  BY <1>1, <1>10, NothingFits, PagesTyped DEF DropFeed, CacheTypeOK
<1> QED BY <1>2, <1>3, <1>4, <1>6, <1>7, <1>8, <1>9, <1>10 DEF EditRequest, EditorStep

LEMMA OthersTyped ==
  ASSUME CacheAssumption, CacheTypeOK, (\E p \in Goods : SilentChange(p)) \/ EditTestimonial \/ LoseRedis \/ Tick
  PROVE  CacheTypeOK'
<1>1. ASSUME NEW p \in Goods, SilentChange(p) PROVE CacheTypeOK'
  BY <1>1, BumpFits DEF SilentChange, CacheTypeOK
<1>2. CASE EditTestimonial
  BY <1>2, VersionsGo DEF EditTestimonial, CacheTypeOK
<1>3. CASE LoseRedis
  BY <1>3 DEF LoseRedis, CacheTypeOK
<1>4. CASE Tick
  <2>1. ASSUME NEW k \in Key, ~(pages[k].left <= 1) PROVE [pages[k] EXCEPT !.left = @ - 1] \in Page
    BY <2>1 DEF CacheTypeOK, Page
  <2>2. pages' \in [Key -> Page]
    BY <1>4, <2>1, NothingFits DEF Tick, CacheTypeOK
  <2> QED BY <1>4, <2>2 DEF Tick, CacheTypeOK
<1> QED BY <1>1, <1>2, <1>3, <1>4

LEMMA CacheTyped ==
  ASSUME CacheAssumption, CacheTypeOK, SlugsApart, [CacheNext]_cacheVars
  PROVE  CacheTypeOK'
<1>1. CASE UNCHANGED cacheVars
  BY <1>1 DEF cacheVars, CacheTypeOK
<1>2. CASE CacheNext
  BY <1>2, VisitorsTyped, EditsTyped, OthersTyped DEF CacheNext
<1> QED BY <1>1, <1>2

LEMMA InTurnIsCache == ASSUME InTurnNext PROVE CacheNext
BY DEF InTurnNext, CacheNext

-----------------------------------------------------------------------------
(* Slugs, and who is on the way *)

\* A row is renamed to a slug that is free, or has the one it had, or goes.
LEMMA SlugsStay ==
  ASSUME CacheTypeOK, SlugsApart, NEW p \in Goods, goods' \in [Goods -> GoodsRow],
         \A q \in Goods : q # p => goods'[q] = goods[q] \/ goods'[q].state = "none"
                                   \/ (goods[q].state # "none" /\ goods'[q].slug = goods[q].slug
                                       /\ goods'[q].aisle = goods[q].aisle),
         \/ goods'[p].state = "none"
         \/ goods[p].state # "none" /\ goods'[p].slug = goods[p].slug /\ goods'[p].aisle = goods[p].aisle
         \/ goods'[p].slug \in Slugs /\ goods'[p].aisle \in Aisles /\ Free(goods'[p].slug, p)
  PROVE  SlugsApart'
<1> SUFFICES ASSUME NEW q \in Goods, goods'[q].state # "none"
             PROVE  /\ goods'[q].slug \in Slugs /\ goods'[q].aisle \in Aisles
                    /\ \A r \in Goods \ {q} : goods'[r].state # "none" => goods'[r].slug # goods'[q].slug
  BY DEF SlugsApart
<1>1. \A r \in Goods : r # p /\ goods'[r].state # "none" =>
        goods[r].state # "none" /\ goods'[r].slug = goods[r].slug /\ goods'[r].aisle = goods[r].aisle
  OBVIOUS
<1>2. CASE q = p
  BY <1>1, <1>2 DEF SlugsApart, Free
<1>3. CASE q # p
  BY <1>1, <1>3 DEF SlugsApart, Free
<1> QED BY <1>2, <1>3

LEMMA SlugsStep ==
  ASSUME CacheAssumption, CacheTypeOK, SlugsApart, [CacheNext]_cacheVars
  PROVE  SlugsApart'
<1>1. CacheTypeOK' /\ goods \in [Goods -> GoodsRow] /\ goods' \in [Goods -> GoodsRow]
  BY CacheTyped DEF CacheTypeOK
<1>2. CASE UNCHANGED goods
  BY <1>2 DEF SlugsApart
<1>3. ASSUME NEW e \in Editors, NEW p \in Goods, NEW s \in Slugs, NEW c \in Aisles, SaveProduct(e, p, s, c)
      PROVE  SlugsApart'
  <2>1. goods'[p].slug = s /\ goods'[p].aisle = c /\ Free(s, p) /\ \A q \in Goods : q # p => goods'[q] = goods[q]
    BY <1>1, <1>3 DEF SaveProduct
  <2> QED BY <1>1, <2>1, SlugsStay
<1>4. ASSUME NEW p \in Goods, goods' = Bumped(p) PROVE SlugsApart'
  <2>1. \A q \in Goods : /\ goods'[q].state = goods[q].state /\ goods'[q].slug = goods[q].slug
                         /\ goods'[q].aisle = goods[q].aisle
    BY <1>1, <1>4 DEF Bumped, GoodsRow
  <2> QED BY <2>1 DEF SlugsApart
<1>5. \A p \in Goods, permanent \in BOOLEAN :
        \/ GoneProduct(p, permanent).state = "none"
        \/ /\ GoneProduct(p, permanent).state = "deleted" /\ GoneProduct(p, permanent).slug = goods[p].slug
           /\ GoneProduct(p, permanent).aisle = goods[p].aisle
  BY <1>1 DEF GoneProduct, GoodsRow
<1>6. ASSUME NEW e \in Editors, NEW p \in Goods, NEW permanent \in BOOLEAN, NEW bulk \in BOOLEAN,
             DeleteProduct(e, p, permanent, bulk)
      PROVE  SlugsApart'
  <2>1. /\ goods'[p] = GoneProduct(p, permanent) /\ goods[p].state # "none"
        /\ \A q \in Goods : q # p => goods'[q] = goods[q]
    BY <1>1, <1>6 DEF DeleteProduct
  <2> QED BY <1>1, <1>5, <2>1, SlugsStay
<1>7. ASSUME NEW e \in Editors, NEW c \in Aisles, NEW permanent \in BOOLEAN, DeleteAisle(e, c, permanent)
      PROVE  SlugsApart'
  <2>1. \A q \in Goods : \/ goods'[q] = goods[q]
                         \/ goods[q].state # "none" /\ goods'[q] = GoneProduct(q, permanent)
    BY <1>7 DEF DeleteAisle, AnyGoods
  <2>2. \A q \in Goods : goods'[q].state # "none" =>
          goods[q].state # "none" /\ goods'[q].slug = goods[q].slug /\ goods'[q].aisle = goods[q].aisle
    BY <1>5, <2>1
  <2> QED BY <2>2 DEF SlugsApart
<1>8. ASSUME NEW e \in Editors, SaveStock(e) PROVE SlugsApart'
  <2>1. goods' = goods \/ goods' = Bumped(editors[e].product)
    BY <1>8 DEF SaveStock
  <2>2. editors[e].product \notin Goods => Bumped(editors[e].product) = goods
    BY <1>1 DEF Bumped
  <2> QED BY <1>2, <1>4, <2>1, <2>2
<1>9. ASSUME NEW v \in Visitors, VisitorStep(v) \/ \E k \in Key : Visited(v, k) \/ Ask(v, k) PROVE UNCHANGED goods
  BY <1>9 DEF VisitorStep, Visited, Ask, Read, KeepOne
<1>10. ASSUME NEW e \in Editors, EditRequest(e) \/ EditorStep(e) PROVE SlugsApart'
  <2>1. \A p : StockEdit(e, p) => UNCHANGED goods
    BY DEF StockEdit
  <2>2. \A c, parent : SaveCategory(e, c, parent) => UNCHANGED goods
    BY DEF SaveCategory
  <2>3. DropPages(e) \/ DropFeed(e) => UNCHANGED goods
    BY DEF DropPages, DropFeed
  <2> QED BY <1>2, <1>3, <1>6, <1>7, <1>8, <1>10, <2>1, <2>2, <2>3 DEF EditRequest, EditorStep
<1>11. EditTestimonial \/ LoseRedis \/ Tick \/ UNCHANGED cacheVars => UNCHANGED goods
  BY DEF EditTestimonial, LoseRedis, Tick, cacheVars
<1>12. \A p \in Goods : SilentChange(p) => goods' = Bumped(p)
  BY DEF SilentChange
<1> QED BY <1>2, <1>4, <1>9, <1>10, <1>11, <1>12 DEF CacheNext

\* Who begins, begins alone; who is on the way changes nobody else's way.
LEMMA OnesWay ==
  ASSUME CacheTypeOK
  PROVE  /\ \A v \in Visitors : VisitorStep(v) \/ (\E k \in Key : Visited(v, k) \/ Ask(v, k)) =>
              UNCHANGED editors /\ \A w \in Visitors : w # v => visitors'[w] = visitors[w]
         /\ \A e \in Editors : EditRequest(e) \/ EditorStep(e) =>
              UNCHANGED visitors /\ \A d \in Editors : d # e => editors'[d] = editors[d]
         /\ \A v \in Visitors : VisitorStep(v) => visitors[v].pc # "idle"
         /\ \A e \in Editors : EditorStep(e) => editors[e].pc # "idle"
         /\ (\E p \in Goods : SilentChange(p)) \/ EditTestimonial \/ LoseRedis \/ Tick \/ UNCHANGED cacheVars =>
              UNCHANGED <<visitors, editors>>
<1>1. visitors \in [Visitors -> Visit] /\ editors \in [Editors -> Edit]
  BY DEF CacheTypeOK
<1>2. ASSUME NEW v \in Visitors
      PROVE  /\ VisitorStep(v) \/ (\E k \in Key : Visited(v, k) \/ Ask(v, k)) =>
                  UNCHANGED editors /\ \A w \in Visitors : w # v => visitors'[w] = visitors[w]
             /\ VisitorStep(v) => visitors[v].pc # "idle"
  BY <1>1 DEF VisitorStep, Visited, Ask, Read, KeepOne
<1>3. ASSUME NEW e \in Editors
      PROVE  /\ EditRequest(e) => UNCHANGED visitors /\ \A d \in Editors : d # e => editors'[d] = editors[d]
             /\ EditorStep(e) => UNCHANGED visitors /\ \A d \in Editors : d # e => editors'[d] = editors[d]
             /\ EditorStep(e) => editors[e].pc # "idle"
  BY <1>1 DEF EditRequest, EditorStep, SaveProduct, StockEdit, DeleteProduct, SaveCategory, DeleteAisle, DropThen,
              SaveStock, DropPages, DropFeed
<1>4. (\E p \in Goods : SilentChange(p)) \/ EditTestimonial \/ LoseRedis \/ Tick \/ UNCHANGED cacheVars =>
        UNCHANGED <<visitors, editors>>
  BY DEF SilentChange, EditTestimonial, LoseRedis, Tick, cacheVars
<1> QED BY <1>2, <1>3, <1>4

LEMMA AloneStep == ASSUME CacheTypeOK, Alone, [InTurnNext]_cacheVars PROVE Alone'
<1>1. ASSUME NEW v \in Visitors, Quiet \/ visitors[v].pc # "idle", UNCHANGED editors,
             \A w \in Visitors : w # v => visitors'[w] = visitors[w]
      PROVE  Alone'
  BY <1>1 DEF Alone, Quiet
<1>2. ASSUME NEW e \in Editors, Quiet \/ editors[e].pc # "idle", UNCHANGED visitors,
             \A d \in Editors : d # e => editors'[d] = editors[d]
      PROVE  Alone'
  BY <1>2 DEF Alone, Quiet
<1>3. CASE UNCHANGED <<visitors, editors>>
  BY <1>3 DEF Alone
<1> QED BY <1>1, <1>2, <1>3, OnesWay DEF InTurnNext, CacheNext

-----------------------------------------------------------------------------
(* What is read, now and then *)

LEMMA OneIsFound ==
  ASSUME Named, NEW g \in [Goods -> GoodsRow], NEW p \in Goods, g[p].state = "live", NEW x \in {p, g[p].slug},
         \A r \in Goods : g[r].state # "none" =>
           g[r].slug \in Slugs /\ \A q \in Goods \ {r} : g[q].state # "none" => g[q].slug # g[r].slug
  PROVE  {q \in Goods : g[q].state = "live" /\ (q = x \/ g[q].slug = x)} = {p}
<1> SUFFICES ASSUME NEW q \in Goods PROVE g[q].state = "live" /\ (q = x \/ g[q].slug = x) <=> q = p
  OBVIOUS
<1>1. g[p].slug \in Slugs /\ \A r \in Slugs : r \notin Goods
  BY DEF Named
<1> QED BY <1>1

LEMMA FoundNow ==
  ASSUME Named, CacheTypeOK, SlugsApart, NEW p \in Goods, goods[p].state = "live", NEW x \in {p, goods[p].slug}
  PROVE  Found(x) = {p} /\ ReadOf(Details(x)) = OfGoods({p}) \cup OfAisles({goods[p].aisle})
<1>1. Found(x) = {p}
  BY OneIsFound DEF CacheTypeOK, SlugsApart, Found
<1> QED BY <1>1, ReadsAre DEF ProductPage

LEMMA FoundThen ==
  ASSUME Named, CacheTypeOK', SlugsApart', NEW p \in Goods, goods'[p].state = "live", NEW x \in {p, goods'[p].slug}
  PROVE  Found(x)' = {p}
<1>1. {q \in Goods : goods'[q].state = "live" /\ (q = x \/ goods'[q].slug = x)} = {p}
  BY OneIsFound DEF CacheTypeOK, SlugsApart
<1> QED BY <1>1 DEF Found

LEMMA WatchedAre ==
  ASSUME NEW k \in Watched
  PROVE  k = List("feed") \/ \E p \in OnSale : \E x \in {p, goods[p].slug} : k = Details(x)
BY DEF Watched, Lists

\* What has just been read is as it is now.
LEMMA ReadIsNow ==
  ASSUME Named, CacheTypeOK, SlugsApart, NEW k \in Watched PROVE AsNow(k, ReadOf(k))
<1>1. CASE k = List("feed")
  BY <1>1, ReadsAre DEF AsNow
<1>2. ASSUME NEW p \in OnSale, NEW x \in {p, goods[p].slug}, k = Details(x) PROVE AsNow(k, ReadOf(k))
  <2> DEFINE c == goods[p].aisle
  <2>1. p \in Goods /\ goods[p].state = "live" /\ c \in Aisles
    BY DEF OnSale, SlugsApart
  <2>2. Found(x) = {p} /\ ReadOf(k) = OfGoods({p}) \cup OfAisles({c})
    BY <1>2, <2>1, FoundNow
  <2>3. OfAisles({c}) = {[row |-> c, version |-> aisles[c].version]}
    BY DEF OfAisles
  <2>4. aisles[c].version \in 0..aisles[c].version
    <3>1. aisles[c].version \in 0..MaxVersion
      BY <2>1 DEF CacheTypeOK, AisleRow
    <3> QED BY <3>1
  <2>5. IsPageOf(p, ReadOf(k))
    BY <2>2, <2>3, <2>4 DEF IsPageOf
  <2>6. k # List("feed") /\ k.of = x
    BY <1>2, KeysApart DEF Lists
  <2> QED BY <2>2, <2>5, <2>6 DEF AsNow
<1> QED BY <1>1, <1>2, WatchedAre

\* The version of a category only grows.
LEMMA VersionsRise ==
  ASSUME CacheAssumption, CacheTypeOK, NEW e \in Editors, EditRequest(e) \/ EditorStep(e)
  PROVE  \A c \in Aisles : 0..aisles[c].version \subseteq 0..aisles'[c].version
<1>1. \A c \in Aisles : aisles[c] \in AisleRow /\ aisles[c].version \in Nat /\ aisles \in [Aisles -> AisleRow]
  BY DEF CacheTypeOK, AisleRow, CacheAssumption
<1>2. CASE UNCHANGED aisles
  BY <1>2
<1>3. \A n \in Nat : Next1(n) = n + 1
  BY DEF Next1
<1>4. SUFFICES ASSUME NEW c \in Aisles, aisles'[c].version \in {aisles[c].version, Next1(aisles[c].version)}
               PROVE  0..aisles[c].version \subseteq 0..aisles'[c].version
  <2>1. ASSUME NEW c \in Aisles, NEW x \in Aisles, NEW parent \in Aisles \cup {Nothing}, SaveCategory(e, x, parent)
        PROVE  aisles'[c].version \in {aisles[c].version, Next1(aisles[c].version)}
    BY <1>1, <2>1 DEF SaveCategory
  <2>2. ASSUME NEW c \in Aisles, NEW x \in Aisles, NEW permanent \in BOOLEAN, DeleteAisle(e, x, permanent)
        PROVE  aisles'[c].version \in {aisles[c].version, Next1(aisles[c].version)}
    <3>1. \/ aisles'[c] = aisles[c]
          \/ aisles'[c] = [state |-> "none", parent |-> Nothing, version |-> Next1(aisles[c].version)]
          \/ aisles'[c] = [aisles[c] EXCEPT !.state = "deleted", !.version = Next1(@)]
      BY <2>2 DEF DeleteAisle
    <3>2. \A n : [aisles[c] EXCEPT !.state = "deleted", !.version = n].version = n
      <4> DEFINE row == aisles[c]
      <4>1. row \in AisleRow
        BY <1>1, <2>2
      <4> HIDE DEF row
      <4>2. \A n : [row EXCEPT !.state = "deleted", !.version = n].version = n
        BY <4>1 DEF AisleRow
      <4> QED BY <4>2 DEF row
    <3>3. aisles'[c] = aisles[c] => aisles'[c].version = aisles[c].version
      OBVIOUS
    <3> DEFINE next == Next1(aisles[c].version)
    <3>4. CASE aisles'[c] = [state |-> "none", parent |-> Nothing, version |-> next]
      <4> HIDE DEF next
      <4>1. aisles'[c].version = next
        BY <3>4
      <4> QED BY <4>1 DEF next
    <3>5. CASE aisles'[c] = [aisles[c] EXCEPT !.state = "deleted", !.version = next]
      <4> HIDE DEF next
      <4>1. aisles'[c].version = next
        BY <3>2, <3>5
      <4> QED BY <4>1 DEF next
    <3> QED BY <3>1, <3>3, <3>4, <3>5
  <2>3. (\E x \in Aisles : (\E permanent \in BOOLEAN : DeleteAisle(e, x, permanent))
                           \/ \E parent \in Aisles \cup {Nothing} : SaveCategory(e, x, parent))
        \/ UNCHANGED aisles
    BY DEF EditRequest, EditorStep, SaveProduct, StockEdit, DeleteProduct, SaveStock, DropPages, DropFeed
  <2> QED BY <1>2, <1>4, <2>1, <2>2, <2>3
<1> QED BY <1>1, <1>3, <1>4

LEMMA SeenAgain ==
  ASSUME UNCHANGED <<goods, aisles, stories>>
  PROVE  /\ \A k : ReadOf(k)' = ReadOf(k)
         /\ \A k, shows : AsNow(k, shows)' <=> AsNow(k, shows)
         /\ Watched' = Watched /\ OnSale' = OnSale
<1>1. UNCHANGED <<AnyGoods, AllAisles, Roots, OnSale, Watched, Testimonials>>
  BY DEF AnyGoods, AllAisles, Roots, OnSale, Watched, Testimonials
<1>2. \A S : OfGoods(S)' = OfGoods(S) /\ OfAisles(S)' = OfAisles(S)
  BY DEF OfGoods, OfAisles
<1>3. \A x : Found(x)' = Found(x)
  BY DEF Found
<1>4. UNCHANGED <<HomeFeed, Filters, Suggestions>>
  BY <1>1, <1>2 DEF HomeFeed, Filters, Suggestions
<1>5. ASSUME NEW x PROVE ProductPage(x)' = ProductPage(x)
  <2>1. {goods'[p].aisle : p \in Found(x)'} = {goods[p].aisle : p \in Found(x)}
    BY <1>3
  <2> QED BY <1>2, <1>3, <2>1 DEF ProductPage
<1>6. ASSUME NEW k PROVE ReadOf(k)' = ReadOf(k)
  BY <1>1, <1>4, <1>5 DEF ReadOf
<1>7. ASSUME NEW p, NEW shows PROVE IsPageOf(p, shows)' <=> IsPageOf(p, shows)
  BY <1>2 DEF IsPageOf
<1>8. ASSUME NEW k, NEW shows PROVE AsNow(k, shows)' <=> AsNow(k, shows)
  BY <1>3, <1>4, <1>7 DEF AsNow
<1> QED BY <1>1, <1>6, <1>8

LEMMA KeysShowOne ==
  ASSUME Named, CacheTypeOK, SlugsApart, NEW k \in Key, NEW j \in KeysOfPage(k)
  PROVE  ReadOf(j) = ReadOf(k)
<1>1. CASE k.kind # "details"
  BY <1>1 DEF KeysOfPage
<1>2. CASE k.kind = "details"
  <2>1. PICK x : k = Details(x)
    BY <1>2 DEF Key, Details
  <2>2. k.of = x
    BY <2>1, KeysApart
  <2>3. ASSUME NEW p \in Found(x), j \in {Details(p), Details(goods[p].slug)} PROVE ReadOf(j) = ReadOf(k)
    <3>1. p \in Goods /\ goods[p].state = "live" /\ x \in {p, goods[p].slug}
      BY DEF Found
    <3>2. PICK y \in {p, goods[p].slug} : j = Details(y)
      BY <2>3
    <3> QED BY <2>1, <3>1, <3>2, FoundNow
  <2> QED BY <1>2, <2>2, <2>3 DEF KeysOfPage
<1> QED BY <1>1, <1>2

\* What a write may make stale is among the pages that it drops, or the feed.
LEMMA StaleIsDropped ==
  ASSUME Named, CacheTypeOK, CacheTypeOK', SlugsApart, SlugsApart', NEW keys,
         \A q \in Goods : goods'[q].state = "live" =>
           goods'[q] = goods[q] \/ {Details(q), Details(goods'[q].slug)} \subseteq keys,
         \A c \in Aisles : 0..aisles[c].version \subseteq 0..aisles'[c].version,
         NEW k \in Watched'
  PROVE  \/ k \in keys \/ k = List("feed")
         \/ k \in Watched /\ \A shows : AsNow(k, shows) => AsNow(k, shows)'
<1>1. ASSUME NEW q \in Goods, goods'[q].state = "live", NEW x \in {q, goods'[q].slug}, k = Details(x),
             goods'[q] = goods[q]
      PROVE  k \in Watched /\ \A shows : AsNow(k, shows) => AsNow(k, shows)'
  <2>1. Found(x) = {q}
    BY <1>1, FoundNow
  <2>2. Found(x)' = {q}
    BY <1>1, FoundThen
  <2>3. k \in Watched
    BY <1>1 DEF Watched, OnSale
  <2>4. k # List("feed") /\ k.of = x
    BY <1>1, KeysApart DEF Lists
  <2>5. goods[q].aisle \in Aisles
    BY <1>1 DEF SlugsApart
  <2>6. OfGoods({q})' = OfGoods({q})
    BY <1>1 DEF OfGoods
  <2>7. ASSUME NEW shows, IsPageOf(q, shows) PROVE IsPageOf(q, shows)'
    <3>1. PICK n \in 0..aisles[goods[q].aisle].version :
            shows = OfGoods({q}) \cup {[row |-> goods[q].aisle, version |-> n]}
      BY <2>7 DEF IsPageOf
    <3>2. n \in 0..aisles'[goods'[q].aisle].version
      BY <1>1, <2>5
    <3> QED BY <1>1, <2>6, <3>1, <3>2 DEF IsPageOf
  <2> QED BY <2>1, <2>2, <2>3, <2>4, <2>7 DEF AsNow
<1>2. k = List("feed") \/ \E q \in Goods : goods'[q].state = "live" /\ \E x \in {q, goods'[q].slug} : k = Details(x)
  BY DEF Watched, OnSale, Lists
<1>3. ASSUME NEW q \in Goods, goods'[q].state = "live", NEW x \in {q, goods'[q].slug}, k = Details(x),
             goods'[q] # goods[q]
      PROVE  k \in keys
  BY <1>3
<1> QED BY <1>1, <1>2, <1>3

-----------------------------------------------------------------------------
(* The pages *)

Tended == \A k \in Watched : Current(k) \/ Awaited(k)

\* A write that says which pages it drops.
LEMMA Announced ==
  ASSUME Named, CacheTypeOK, CacheTypeOK', SlugsApart, SlugsApart', Tended,
         NEW e \in Editors, NEW keys, DropThen(e, keys), UNCHANGED pages,
         \A d \in Editors : editors[d].pc \notin {"drop", "feed"},
         \A q \in Goods : goods'[q].state = "live" =>
           goods'[q] = goods[q] \/ {Details(q), Details(goods'[q].slug)} \subseteq keys,
         \A c \in Aisles : 0..aisles[c].version \subseteq 0..aisles'[c].version
  PROVE  Tended'
<1> SUFFICES ASSUME NEW k \in Watched' PROVE Current(k)' \/ Awaited(k)'
  BY DEF Tended
<1>1. editors'[e].pc = "drop" /\ editors'[e].keys = keys
  BY DEF DropThen, CacheTypeOK, NoEdit
<1>2. k \in keys \/ k = List("feed") => Awaited(k)'
  BY <1>1 DEF Awaited
<1>3. k \in Watched /\ (\A shows : AsNow(k, shows) => AsNow(k, shows)') => Current(k)'
  BY DEF Tended, Awaited, Current
<1> QED BY <1>2, <1>3, StaleIsDropped

LEMMA WritesAnnounce ==
  ASSUME CacheAssumption, Named, CacheTypeOK, CacheTypeOK', SlugsApart, SlugsApart', Tended, Alone,
         NEW e \in Editors, Quiet \/ editors[e].pc # "idle", Knows(e), EditRequest(e) \/ SaveStock(e)
  PROVE  Tended'
<1>1. goods \in [Goods -> GoodsRow] /\ editors \in [Editors -> Edit]
  BY DEF CacheTypeOK
<1>2. /\ \A d \in Editors : d # e => editors[d].pc = "idle"
      /\ \A c \in Aisles : 0..aisles[c].version \subseteq 0..aisles'[c].version
  BY VersionsRise DEF Alone, Quiet, EditorStep
<1>3. ASSUME NEW p \in Goods, NEW s \in Slugs, NEW c \in Aisles, SaveProduct(e, p, s, c) PROVE Tended'
  <2>1. goods'[p].slug = s /\ \A q \in Goods : q # p => goods'[q] = goods[q]
    BY <1>1, <1>3 DEF SaveProduct
  <2>2. \A q \in Goods : goods'[q] = goods[q] \/ {Details(q), Details(goods'[q].slug)} \subseteq PagesOf(p, s)
    BY <2>1 DEF PagesOf
  <2>3. DropThen(e, PagesOf(p, s)) /\ UNCHANGED <<pages, aisles>> /\ editors[e].pc = "idle"
    BY <1>3 DEF SaveProduct
  <2> QED BY <1>2, <2>2, <2>3, Announced
<1>4. ASSUME NEW p \in Goods, StockEdit(e, p) PROVE Tended'
  <2>1. UNCHANGED <<goods, aisles, stories, pages>> /\ editors[e].pc = "idle"
    BY <1>4 DEF StockEdit
  <2>2. \A k \in Watched : Current(k)
    BY <1>2, <2>1 DEF Tended, Awaited
  <2> QED BY <2>1, <2>2, SeenAgain DEF Tended, Current
<1>5. ASSUME NEW p \in Goods, NEW permanent \in BOOLEAN, NEW bulk \in BOOLEAN, DeleteProduct(e, p, permanent, bulk)
      PROVE  Tended'
  <2> DEFINE keys == IF bulk THEN PagesOf(p, goods[p].slug) ELSE {Details(p)}
  <2>1. goods'[p].state # "live" /\ \A q \in Goods : q # p => goods'[q] = goods[q]
    BY <1>1, <1>5 DEF DeleteProduct, GoneProduct, GoodsRow
  <2>2. DropThen(e, keys) /\ UNCHANGED <<pages, aisles>> /\ editors[e].pc = "idle"
    BY <1>5 DEF DeleteProduct
  <2> HIDE DEF keys
  <2> QED BY <1>2, <2>1, <2>2, Announced
<1>6. ASSUME NEW c \in Aisles, NEW permanent \in BOOLEAN, DeleteAisle(e, c, permanent) PROVE Tended'
  <2> DEFINE keys == {}
  <2>1. ASSUME NEW q \in Goods, goods'[q] # goods[q] PROVE goods'[q].state # "live"
    <3>1. goods'[q] = GoneProduct(q, permanent)
      BY <1>6, <2>1 DEF DeleteAisle
    <3> QED BY <1>1, <3>1 DEF GoneProduct, GoodsRow
  <2>2. DropThen(e, keys) /\ UNCHANGED pages /\ editors[e].pc = "idle"
    BY <1>6 DEF DeleteAisle
  <2> QED BY <1>2, <2>1, <2>2, Announced
<1>7. ASSUME NEW c \in Aisles, NEW parent \in Aisles \cup {Nothing}, SaveCategory(e, c, parent) PROVE Tended'
  <2> DEFINE keys == {}
  <2>1. DropThen(e, keys) /\ UNCHANGED <<pages, goods>> /\ editors[e].pc = "idle"
    BY <1>7 DEF SaveCategory
  <2> QED BY <1>2, <2>1, Announced
<1>8. CASE SaveStock(e)
  <2> DEFINE p == editors[e].product
             keys == editors[e].keys
  <2>1. p \in Goods /\ goods[p].state = "live" /\ keys = PagesOf(p, goods[p].slug) /\ editors[e].pc = "stock"
    BY <1>8 DEF SaveStock, Knows, OnSale
  <2>2. CASE goods' = goods /\ editors' = [editors EXCEPT ![e] = NoEdit]
    <3>1. UNCHANGED <<goods, aisles, stories, pages>>
      BY <1>8, <2>2 DEF SaveStock
    <3>2. \A k \in Watched : Current(k)
      BY <1>2, <2>1 DEF Tended, Awaited
    <3> QED BY <3>1, <3>2, SeenAgain DEF Tended, Current
  <2>3. CASE goods' = Bumped(p) /\ DropThen(e, keys)
    <3>1. goods'[p].slug = goods[p].slug /\ \A q \in Goods : q # p => goods'[q] = goods[q]
      BY <1>1, <2>1, <2>3 DEF Bumped, GoodsRow
    <3>2. \A q \in Goods : goods'[q] = goods[q] \/ {Details(q), Details(goods'[q].slug)} \subseteq keys
      BY <2>1, <3>1 DEF PagesOf
    <3>3. UNCHANGED <<pages, aisles>>
      BY <1>8 DEF SaveStock
    <3> HIDE DEF keys
    <3> QED BY <1>2, <2>1, <2>3, <3>2, <3>3, Announced
  <2> QED BY <1>8, <2>2, <2>3 DEF SaveStock
<1> QED BY <1>3, <1>4, <1>5, <1>6, <1>7, <1>8 DEF EditRequest

LEMMA WatchedAreKeys == ASSUME SlugsApart PROVE Watched \subseteq Key
BY KeysAre DEF SlugsApart, Watched, OnSale

\* What drops pages, keeps one, or lets them expire.
LEMMA PagesGo ==
  ASSUME Named, CacheTypeOK, SlugsApart, redisUp, Tended, UNCHANGED <<goods, aisles, stories>>,
         \/ \E e \in Editors : DropPages(e) \/ DropFeed(e)
         \/ \E v \in Visitors : Fresh(v) /\ (Read(v) \/ \E k \in Key : Visited(v, k) \/ Ask(v, k) \/ KeepOne(v, k))
         \/ Tick \/ UNCHANGED <<pages, editors>>
  PROVE  Tended'
<1> SUFFICES ASSUME NEW k \in Watched PROVE Current(k)' \/ Awaited(k)'
  BY SeenAgain DEF Tended
<1>1. /\ \A shows : AsNow(k, shows)' <=> AsNow(k, shows)
      /\ (Current(k) \/ Awaited(k)) /\ editors \in [Editors -> Edit]
  BY SeenAgain DEF Tended, CacheTypeOK
<1>2. k \in Key /\ pages \in [Key -> Page] /\ NoPage.left = 0
  BY WatchedAreKeys DEF CacheTypeOK, NoPage
<1>3. ASSUME UNCHANGED editors PROVE Awaited(k) => Awaited(k)'
  BY <1>3 DEF Awaited
<1>4. pages'[k] = NoPage => Current(k)'
  BY <1>2 DEF Current
<1>5. pages'[k] = pages[k] => (Current(k) => Current(k)')
  BY <1>1 DEF Current
<1>6. ASSUME NEW e \in Editors, DropPages(e) PROVE Current(k)' \/ Awaited(k)'
  <2>1. /\ editors'[e].pc = "feed" /\ \A d \in Editors : d # e => editors'[d] = editors[d]
        /\ pages' = [j \in Key |-> IF j \in editors[e].keys THEN NoPage ELSE pages[j]]
    BY <1>1, <1>6 DEF DropPages, Drop, NoEdit
  <2>2. CASE k = List("feed")
    BY <2>1, <2>2 DEF Awaited
  <2>3. CASE k \in editors[e].keys
    BY <1>2, <1>4, <2>1, <2>3
  <2>4. CASE k \notin editors[e].keys /\ k # List("feed")
    <3>1. Awaited(k) => Awaited(k)'
      BY <2>1, <2>4 DEF Awaited
    <3> QED BY <1>1, <1>2, <1>5, <2>1, <2>4, <3>1
  <2> QED BY <2>2, <2>3, <2>4
<1>7. ASSUME NEW e \in Editors, DropFeed(e) PROVE Current(k)' \/ Awaited(k)'
  <2>1. /\ editors[e].pc = "feed" /\ \A d \in Editors : d # e => editors'[d] = editors[d]
        /\ pages' = [j \in Key |-> IF j \in {List("feed")} THEN NoPage ELSE pages[j]]
    BY <1>1, <1>7 DEF DropFeed, Drop
  <2>2. CASE k = List("feed")
    BY <1>2, <1>4, <2>1, <2>2
  <2>3. CASE k # List("feed")
    <3>1. Awaited(k) => Awaited(k)'
      BY <2>1, <2>3 DEF Awaited
    <3> QED BY <1>1, <1>2, <1>5, <2>1, <2>3, <3>1
  <2> QED BY <2>2, <2>3
<1>8. ASSUME NEW v \in Visitors, Fresh(v), NEW j \in Key, KeepOne(v, j) PROVE Current(k)' \/ Awaited(k)'
  <2>1. /\ pages' = [pages EXCEPT ![j] = [left |-> Ttl(j), shows |-> visitors[v].shows]]
        /\ visitors[v].shows = ReadOf(j) /\ UNCHANGED editors
    BY <1>8 DEF KeepOne, Keep, Fresh
  <2>2. CASE k = j
    BY <1>1, <1>2, <2>1, <2>2, ReadIsNow DEF Current
  <2>3. CASE k # j
    BY <1>1, <1>2, <1>3, <1>5, <2>1, <2>3
  <2> QED BY <2>2, <2>3
<1>9. ASSUME NEW v \in Visitors, Read(v) \/ \E j \in Key : Visited(v, j) \/ Ask(v, j) PROVE UNCHANGED <<pages, editors>>
  BY <1>9 DEF Read, Visited, Ask, AfterHit
<1>10. CASE Tick
  <2>1. pages'[k] = (IF pages[k].left <= 1 THEN NoPage ELSE [pages[k] EXCEPT !.left = @ - 1]) /\ UNCHANGED editors
    BY <1>2, <1>10 DEF Tick
  <2>2. CASE pages[k].left <= 1
    BY <1>4, <2>1, <2>2
  <2>3. CASE ~(pages[k].left <= 1)
    <3>1. pages'[k].shows = pages[k].shows /\ pages[k].left > 0
      BY <1>2, <2>1, <2>3 DEF Page
    <3>2. Current(k) => Current(k)'
      BY <1>1, <3>1 DEF Current
    <3> QED BY <1>1, <1>3, <2>1, <3>2
  <2> QED BY <2>2, <2>3
<1>11. UNCHANGED <<pages, editors>> => Current(k)' \/ Awaited(k)'
  BY <1>1, <1>3, <1>5
<1> QED BY <1>6, <1>7, <1>8, <1>9, <1>10, <1>11

LEMMA TendedStep ==
  ASSUME CacheAssumption, Named, Told, PagesInv, [InTurnNext]_cacheVars
  PROVE  Tended'
<1>1. /\ CacheTypeOK /\ SlugsApart /\ Alone /\ redisUp /\ Tended
      /\ (\A v \in Visitors : Fresh(v)) /\ \A e \in Editors : Knows(e)
  BY DEF PagesInv, Tended
<1>2. CacheTypeOK' /\ SlugsApart'
  BY <1>1, InTurnIsCache, CacheTyped, SlugsStep
<1>3. ASSUME NEW e \in Editors, Quiet \/ editors[e].pc # "idle", EditRequest(e) \/ EditorStep(e) PROVE Tended'
  <2>1. CASE EditRequest(e) \/ SaveStock(e)
    BY <1>1, <1>2, <1>3, <2>1, WritesAnnounce
  <2>2. CASE DropPages(e) \/ DropFeed(e)
    <3>1. UNCHANGED <<goods, aisles, stories>>
      BY <2>2 DEF DropPages, DropFeed
    <3> QED BY <1>1, <2>2, <3>1, PagesGo
  <2> QED BY <1>3, <2>1, <2>2 DEF EditorStep
<1>4. ASSUME NEW v \in Visitors, VisitorStep(v) \/ \E k \in Key : Visited(v, k) \/ Ask(v, k) PROVE Tended'
  <2>1. UNCHANGED <<goods, aisles, stories>>
    BY <1>4 DEF VisitorStep, Read, KeepOne, Visited, Ask
  <2> QED BY <1>1, <1>4, <2>1, PagesGo DEF VisitorStep
<1>5. CASE Tick \/ UNCHANGED cacheVars
  <2>1. UNCHANGED <<goods, aisles, stories>> /\ (Tick \/ UNCHANGED <<pages, editors>>)
    BY <1>5 DEF Tick, cacheVars
  <2> QED BY <1>1, <2>1, PagesGo
<1>6. ~(\E p : SilentChange(p)) /\ ~EditTestimonial /\ ~LoseRedis
  BY DEF Told, SilentChange, EditTestimonial, LoseRedis
<1>7. ASSUME NEW e \in Editors, EditorStep(e) PROVE editors[e].pc # "idle"
  BY <1>1, <1>7, OnesWay
<1> QED BY <1>3, <1>4, <1>5, <1>6, <1>7 DEF InTurnNext, CacheNext

LEMMA OnTheWayStep ==
  ASSUME CacheAssumption, Named, Told, PagesInv, [InTurnNext]_cacheVars
  PROVE  (\A v \in Visitors : Fresh(v)') /\ (\A e \in Editors : Knows(e)') /\ redisUp'
<1>1. /\ CacheTypeOK /\ SlugsApart /\ Alone /\ redisUp
      /\ (\A v \in Visitors : Fresh(v)) /\ \A e \in Editors : Knows(e)
  BY DEF PagesInv
<1>2. visitors \in [Visitors -> Visit] /\ editors \in [Editors -> Edit]
  BY <1>1 DEF CacheTypeOK
<1>3. ASSUME NEW e \in Editors, Quiet \/ editors[e].pc # "idle", EditRequest(e) \/ EditorStep(e)
      PROVE  (\A v \in Visitors : Fresh(v)') /\ (\A d \in Editors : Knows(d)') /\ redisUp'
  <2>1. UNCHANGED visitors /\ \A d \in Editors : d # e => editors'[d] = editors[d]
    BY <1>1, <1>3, OnesWay
  <2>2. (\A v \in Visitors : visitors[v].pc = "idle") /\ \A d \in Editors : d # e => editors[d].pc = "idle"
    BY <1>1, <1>3 DEF Alone, Quiet
  <2>3. redisUp'
    BY <1>1, <1>3 DEF EditRequest, EditorStep, SaveProduct, StockEdit, DeleteProduct, SaveCategory, DeleteAisle,
                      SaveStock, DropPages, DropFeed
  <2>4. ASSUME NEW p \in Goods, StockEdit(e, p) PROVE Knows(e)'
    <3>1. /\ editors'[e].product = p /\ editors'[e].keys = PagesOf(p, goods[p].slug)
          /\ UNCHANGED goods /\ goods[p].state = "live"
      BY <1>2, <2>4 DEF StockEdit
    <3> QED BY <3>1 DEF Knows, OnSale, PagesOf
  <2>5. ASSUME ~\E p \in Goods : StockEdit(e, p) PROVE editors'[e].pc # "stock"
    <3>1. \A keys : DropThen(e, keys) => editors'[e].pc = "drop"
      BY <1>2 DEF DropThen, NoEdit
    <3>2. EditRequest(e) => editors'[e].pc = "drop"
      BY <2>5, <3>1 DEF EditRequest, SaveProduct, DeleteProduct, SaveCategory, DeleteAisle
    <3>3. DropPages(e) \/ DropFeed(e) => editors'[e].pc \in {"feed", "idle"}
      BY <1>2 DEF DropPages, DropFeed, NoEdit
    <3>4. SaveStock(e) => editors'[e].pc \in {"drop", "idle"}
      BY <1>2, <3>1 DEF SaveStock, NoEdit
    <3> QED BY <1>3, <3>2, <3>3, <3>4 DEF EditorStep
  <2>6. Knows(e)'
    BY <2>4, <2>5 DEF Knows
  <2> QED BY <2>1, <2>2, <2>3, <2>6 DEF Fresh, Knows
<1>4. ASSUME NEW v \in Visitors, VisitorStep(v) \/ \E k \in Key : Visited(v, k) \/ Ask(v, k)
      PROVE  (\A w \in Visitors : Fresh(w)') /\ (\A e \in Editors : Knows(e)') /\ redisUp'
  <2>1. UNCHANGED <<goods, aisles, stories, redisUp, editors>> /\ \A w \in Visitors : w # v => visitors'[w] = visitors[w]
    BY <1>2, <1>4 DEF VisitorStep, Read, KeepOne, Visited, Ask
  <2>2. \A k : ReadOf(k)' = ReadOf(k)
    BY <2>1, SeenAgain
  <2>3. Fresh(v)'
    <3>1. CASE Read(v)
      <4> DEFINE k == visitors[v].key
                 work == [visitors[v] EXCEPT !.pc = "keep", !.keys = KeysOfPage(k), !.shows = ReadOf(k)]
      <4>1. k \in Key /\ work.keys = KeysOfPage(k) /\ work.shows = ReadOf(k)
        BY <1>2 DEF Visit
      <4>2. visitors'[v] = NoVisit \/ visitors'[v] = work
        BY <1>2, <3>1 DEF Read
      <4>3. \A j \in KeysOfPage(k) : ReadOf(j) = ReadOf(k)
        BY <1>1, <4>1, KeysShowOne
      <4> HIDE DEF k, work
      <4> QED BY <2>2, <4>1, <4>2, <4>3 DEF Fresh, NoVisit
    <3>2. ASSUME NEW k \in Key, KeepOne(v, k) PROVE Fresh(v)'
      <4> DEFINE rest == [visitors[v] EXCEPT !.keys = @ \ {k}]
      <4>1. visitors[v].pc = "keep" /\ (visitors'[v] = NoVisit \/ visitors'[v] = rest)
        BY <1>2, <3>2 DEF KeepOne
      <4>2. rest.keys \subseteq visitors[v].keys /\ rest.shows = visitors[v].shows
        BY <1>2 DEF Visit
      <4> HIDE DEF rest
      <4> QED BY <1>1, <2>2, <4>1, <4>2 DEF Fresh, NoVisit
    <3>3. ASSUME NEW k \in Key, Visited(v, k) \/ Ask(v, k) PROVE Fresh(v)'
      <4>1. visitors' = visitors \/ visitors'[v] = [NoVisit EXCEPT !.pc = "read", !.key = k]
        BY <1>2, <3>3 DEF Visited, Ask
      <4> QED BY <1>1, <2>2, <4>1 DEF Fresh, NoVisit
    <3> QED BY <1>4, <3>1, <3>2, <3>3 DEF VisitorStep
  <2>4. \A e \in Editors : Knows(e)'
    BY <1>1, <2>1 DEF Knows, OnSale, PagesOf
  <2> QED BY <1>1, <2>1, <2>2, <2>3, <2>4 DEF Fresh
<1>5. CASE Tick \/ UNCHANGED cacheVars
  <2>1. UNCHANGED <<goods, aisles, stories, redisUp, visitors, editors>>
    BY <1>5 DEF Tick, cacheVars
  <2>2. \A k : ReadOf(k)' = ReadOf(k)
    BY <2>1, SeenAgain
  <2> QED BY <1>1, <2>1, <2>2 DEF Fresh, Knows, OnSale, PagesOf
<1>6. ~(\E p : SilentChange(p)) /\ ~EditTestimonial /\ ~LoseRedis
  BY DEF Told, SilentChange, EditTestimonial, LoseRedis
<1>7. ASSUME NEW e \in Editors, EditorStep(e) PROVE editors[e].pc # "idle"
  BY <1>1, <1>7, OnesWay
<1> QED BY <1>3, <1>4, <1>5, <1>6, <1>7 DEF InTurnNext, CacheNext

LEMMA PagesStep ==
  ASSUME CacheAssumption, Named, Told, PagesInv, [InTurnNext]_cacheVars
  PROVE  PagesInv'
<1>1. CacheTypeOK /\ SlugsApart /\ Alone
  BY DEF PagesInv
<1>2. CacheTypeOK' /\ SlugsApart' /\ Alone'
  BY <1>1, InTurnIsCache, CacheTyped, SlugsStep, AloneStep
<1>3. Tended' /\ (\A v \in Visitors : Fresh(v)') /\ (\A e \in Editors : Knows(e)') /\ redisUp'
  BY TendedStep, OnTheWayStep
<1> QED BY <1>2, <1>3 DEF PagesInv, Tended

LEMMA PagesMeanCurrent ==
  ASSUME Named, PagesInv PROVE DetailsAreCurrent /\ FeedIsCurrent
<1>1. CacheTypeOK /\ SlugsApart /\ Tended
  BY DEF PagesInv, Tended
<1>2. Quiet => \A k \in Watched : Current(k)
  BY <1>1 DEF Quiet, Tended, Awaited
<1>3. ASSUME Quiet, NEW p \in Goods, goods[p].state = "live", NEW x \in {p, goods[p].slug}, pages[Details(x)].left > 0
      PROVE  IsPageOf(p, pages[Details(x)].shows)
  <2>1. Details(x) \in Watched /\ Found(x) = {p}
    BY <1>1, <1>3, FoundNow DEF Watched, OnSale
  <2>2. Details(x) # List("feed") /\ Details(x).of = x
    BY KeysApart DEF Lists
  <2> QED BY <1>2, <1>3, <2>1, <2>2 DEF Current, AsNow
<1>4. DetailsAreCurrent
  BY <1>3 DEF DetailsAreCurrent
<1>5. FeedIsCurrent
  BY <1>2 DEF FeedIsCurrent, Current, AsNow, Watched, Lists
<1> QED BY <1>4, <1>5

\* Before anything is asked for, or written.
LEMMA PagesStart ==
  ASSUME CacheTypeOK, SlugsApart, redisUp, pages = [k \in Key |-> NoPage],
         \A v \in Visitors : visitors[v] = NoVisit, \A e \in Editors : editors[e] = NoEdit
  PROVE  PagesInv
<1>1. (\A v \in Visitors : visitors[v].pc = "idle") /\ \A e \in Editors : editors[e].pc = "idle"
  BY DEF NoVisit, NoEdit
<1>2. \A k \in Watched : Current(k)
  BY WatchedAreKeys DEF Current, NoPage
<1> QED BY <1>1, <1>2 DEF PagesInv, Alone, Fresh, Knows

LEMMA NoGoodsFit == ASSUME CacheAssumption PROVE NoGoods \in [Goods -> GoodsRow]
BY DEF CacheAssumption, NoGoods, GoodsRow, RowStates

\* However many products, categories and pages: requests that take turns leave
\* every product's page, under its id and its slug, with the product and the
\* category of now (though maybe an older row of it), and the home page as
\* things are, if whatever is written is told and Redis stays connected.
THEOREM PagesCurrentInTurn ==
  ASSUME CacheAssumption, Named, Told
  PROVE  InTurnSpec => [](DetailsAreCurrent /\ FeedIsCurrent)
<1>1. CacheInit => PagesInv
  <2> SUFFICES ASSUME CacheInit PROVE PagesInv
    OBVIOUS
  <2>1. /\ goods = NoGoods /\ aisles \in [Aisles -> AisleRow] /\ stories \in 0..MaxVersion
        /\ pages = [k \in Key |-> NoPage] /\ redisUp = TRUE
        /\ visitors = [v \in Visitors |-> NoVisit] /\ editors = [e \in Editors |-> NoEdit]
    BY DEF CacheInit, CacheInitWith, CacheAssumption, AisleRow, RowStates
  <2>2. CacheTypeOK
    BY <2>1, NoGoodsFit, NothingFits DEF CacheTypeOK
  <2>3. SlugsApart
    BY <2>1 DEF SlugsApart, NoGoods
  <2> QED BY <2>1, <2>2, <2>3, PagesStart
<1>2. PagesInv /\ [InTurnNext]_cacheVars => PagesInv'
  BY PagesStep
<1>3. PagesInv => DetailsAreCurrent /\ FeedIsCurrent
  BY PagesMeanCurrent
<1> QED BY <1>1, <1>2, <1>3, PTL DEF InTurnSpec
=============================================================================
