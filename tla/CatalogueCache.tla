--------------------------- MODULE CatalogueCache ---------------------------
(* What visitors see of the catalogue: every endpoint looks in Redis first,  *)
(* else reads the database and keeps the answer for a while, and the back    *)
(* office drops the pages that its writes have made stale (RedisService,     *)
(* CacheKeys).  A page is reduced to the versions of the rows it shows.  The *)
(* lists of categories in HomeService have no route: nothing keeps them.     *)
EXTENDS Naturals, FiniteSets

CONSTANTS
  Goods, Aisles,     \* ids of products and of categories: BOUND
  Slugs,             \* names that products are found by: BOUND
  Story,             \* the testimonials
  Visitors, Editors, \* requests in flight: BOUND on concurrency
  MaxVersion,        \* BOUND on the changes of a row
  DetailsTtl, ListTtl, FeedTtl,  \* how long a page is kept, in ticks
  Kinds,             \* the pages that visitors ask for
  CacheOps,          \* the writes that are exercised
  CacheFaults,       \* "redis": its connection may be lost
  Nothing            \* null

\* What an instance of this module has to satisfy.
CacheAssumption ==
  /\ MaxVersion \in Nat
  /\ {DetailsTtl, ListTtl, FeedTtl} \subseteq Nat \ {0}
  /\ Nothing \notin Goods \cup Aisles \cup Slugs

VARIABLES
  goods, aisles, stories,  \* the rows
  pages,     \* what Redis holds
  redisUp,   \* the connection is ready
  visitors, editors  \* what each request is doing

cacheVars == <<goods, aisles, stories, pages, redisUp, visitors, editors>>

Rows == Goods \cup Aisles \cup {Story}
Shown == [row: Rows, version: 0..MaxVersion]

RowStates == {"none", "live", "deleted"}
GoodsRow == [state: RowStates, slug: Slugs \cup {Nothing}, aisle: Aisles \cup {Nothing},
             version: 0..MaxVersion]
AisleRow == [state: RowStates, parent: Aisles \cup {Nothing}, version: 0..MaxVersion]

\* CacheKeys
Key == [kind: {"details"}, of: Goods \cup Slugs]
       \cup [kind: {"feed", "testimonials", "filters", "suggestions"}, of: {Nothing}]
Details(x) == [kind |-> "details", of |-> x]
List(kind) == [kind |-> kind, of |-> Nothing]

Ttl(k) == CASE k.kind = "details" -> DetailsTtl [] k.kind = "feed" -> FeedTtl [] OTHER -> ListTtl

\* `left`: ticks until the page expires, 0 when there is none.
Page == [left: Nat, shows: SUBSET Shown]
NoPage == [left |-> 0, shows |-> {}]

\* `keys`: what remains to be kept, or to be dropped.
Visit == [pc: {"idle", "read", "keep"}, key: Key, keys: SUBSET Key, shows: SUBSET Shown]
NoVisit == [pc |-> "idle", key |-> List("feed"), keys |-> {}, shows |-> {}]
Edit == [pc: {"idle", "stock", "drop", "feed"}, product: Goods \cup {Nothing}, keys: SUBSET Key]
NoEdit == [pc |-> "idle", product |-> Nothing, keys |-> {}]

CacheTypeOK ==
  /\ goods \in [Goods -> GoodsRow]
  /\ aisles \in [Aisles -> AisleRow]
  /\ stories \in 0..MaxVersion
  /\ pages \in [Key -> Page]
  /\ redisUp \in BOOLEAN
  /\ visitors \in [Visitors -> Visit]
  /\ editors \in [Editors -> Edit]

NoGoods == [p \in Goods |-> [state |-> "none", slug |-> Nothing, aisle |-> Nothing, version |-> 0]]
CacheInitWith(atFirst, open) ==
  /\ goods = atFirst
  /\ aisles = open
  /\ stories = 0
  /\ pages = [k \in Key |-> NoPage]
  /\ redisUp = TRUE
  /\ visitors = [v \in Visitors |-> NoVisit]
  /\ editors = [e \in Editors |-> NoEdit]
CacheInit ==
  CacheInitWith(NoGoods, [c \in Aisles |-> [state |-> "live", parent |-> Nothing, version |-> 0]])

-----------------------------------------------------------------------------
(* What each page is read from *)

OfGoods(S) == {[row |-> p, version |-> goods[p].version] : p \in S}
OfAisles(S) == {[row |-> c, version |-> aisles[c].version] : c \in S}
AnyGoods == {p \in Goods : goods[p].state # "none"}
AllAisles == {c \in Aisles : aisles[c].state # "none"}
Roots == {c \in AllAisles : aisles[c].parent = Nothing}
ChildrenOf(S) == {c \in AllAisles : aisles[c].parent \in S}

\* By id or by slug, what is on sale only, and with its category.
Found(x) == {p \in Goods : goods[p].state = "live" /\ (p = x \/ goods[p].slug = x)}
ProductPage(x) == OfGoods(Found(x)) \cup OfAisles({goods[p].aisle : p \in Found(x)})

\* Rows that were deleted and kept are in every list: none of them asks.
Testimonials == {[row |-> Story, version |-> stories]}
HomeFeed == OfGoods(AnyGoods) \cup OfAisles(Roots) \cup Testimonials
Filters == OfGoods(AnyGoods)
Suggestions == OfGoods(AnyGoods)

ReadOf(k) ==
  CASE k.kind = "details"      -> ProductPage(k.of)
    [] k.kind = "feed"         -> HomeFeed
    [] k.kind = "testimonials" -> Testimonials
    [] k.kind = "filters"      -> Filters
    [] k.kind = "suggestions"  -> Suggestions

-----------------------------------------------------------------------------
(* RedisService: without a connection, reads find nothing and writes are lost *)

Hit(k) == redisUp /\ pages[k].left > 0
Keep(k, shows) ==
  pages' = IF redisUp THEN [pages EXCEPT ![k] = [left |-> Ttl(k), shows |-> shows]]
           ELSE pages
Drop(keys) ==
  pages' = IF redisUp THEN [k \in Key |-> IF k \in keys THEN NoPage ELSE pages[k]] ELSE pages

LoseRedis ==
  /\ "redis" \in CacheFaults
  /\ redisUp' = ~redisUp
  /\ UNCHANGED <<goods, aisles, stories, pages, visitors, editors>>

-----------------------------------------------------------------------------
(* Visitors *)

\* Mutant: a page that is asked for stays for longer.
Renewed(k) == [pages EXCEPT ![k].left = Ttl(k)]

\* A hit is answered as it is, and nothing is written.
AfterHit(k) == pages

Visited(v, k) ==
  /\ visitors[v].pc = "idle" /\ Hit(k)
  /\ pages' = AfterHit(k)
  /\ UNCHANGED <<goods, aisles, stories, redisUp, visitors, editors>>

Ask(v, k) ==
  /\ visitors[v].pc = "idle" /\ ~Hit(k)
  /\ visitors' = [visitors EXCEPT ![v] = [NoVisit EXCEPT !.pc = "read", !.key = k]]
  /\ UNCHANGED <<goods, aisles, stories, pages, redisUp, editors>>

\* A product's page is kept under what was asked, its slug and its id.
KeysOfPage(k) ==
  {k} \cup (IF k.kind # "details" THEN {}
            ELSE {Details(p) : p \in Found(k.of)} \cup {Details(goods[p].slug) : p \in Found(k.of)})

\* What is not there is refused, and not kept.
Read(v) ==
  LET k == visitors[v].key IN
  /\ visitors[v].pc = "read"
  /\ visitors' = [visitors EXCEPT ![v] =
       IF k.kind = "details" /\ ReadOf(k) = {} THEN NoVisit
       ELSE [@ EXCEPT !.pc = "keep", !.keys = KeysOfPage(k), !.shows = ReadOf(k)]]
  /\ UNCHANGED <<goods, aisles, stories, pages, redisUp, editors>>

\* One set() after the other.
KeepOne(v, k) ==
  LET w == visitors[v] IN
  /\ w.pc = "keep" /\ k \in w.keys
  /\ Keep(k, w.shows)
  /\ visitors' = [visitors EXCEPT ![v] =
       IF w.keys = {k} THEN NoVisit ELSE [w EXCEPT !.keys = @ \ {k}]]
  /\ UNCHANGED <<goods, aisles, stories, redisUp, editors>>

-----------------------------------------------------------------------------
(* The back office, orders and reviews *)

Next1(n) == n + 1
Bumped(p) == [goods EXCEPT ![p].version = Next1(@)]
MayChange(p) == goods[p].version < MaxVersion

\* Mutant: the page under the slug stays.
IdOnly(p, slug) == {Details(p)}

\* invalidateProductCache(id, slug)
PagesOf(p, slug) == {Details(p), Details(slug)}

DropThen(e, keys) == editors' = [editors EXCEPT ![e] = [NoEdit EXCEPT !.pc = "drop", !.keys = keys]]

\* ensureUniqueSlug: deleted products keep theirs.
Free(s, p) == \A o \in Goods \ {p} : goods[o].state # "none" => goods[o].slug # s

\* createProduct and updateProduct; updateProductStatus keeps the slug.
SaveProduct(e, p, s, c) ==
  /\ editors[e].pc = "idle" /\ Free(s, p) /\ c \in AllAisles
  /\ \/ "create" \in CacheOps /\ goods[p].state = "none"
     \/ "update" \in CacheOps /\ goods[p].state = "live"
  /\ MayChange(p)
  /\ goods' = [goods EXCEPT ![p] = [state |-> "live", slug |-> s, aisle |-> c, version |-> Next1(@.version)]]
  /\ DropThen(e, PagesOf(p, s))
  /\ UNCHANGED <<aisles, stories, pages, redisUp, visitors>>

\* updateStock drops the page under the slug that it has read first.
StockEdit(e, p) ==
  /\ "stock" \in CacheOps
  /\ editors[e].pc = "idle" /\ goods[p].state = "live"
  /\ editors' = [editors EXCEPT ![e] =
       [pc |-> "stock", product |-> p, keys |-> PagesOf(p, goods[p].slug)]]
  /\ UNCHANGED <<goods, aisles, stories, pages, redisUp, visitors>>
SaveStock(e) ==
  LET p == editors[e].product IN
  /\ editors[e].pc = "stock"
  /\ IF goods[p].state = "none" \/ ~MayChange(p)
     THEN goods' = goods /\ editors' = [editors EXCEPT ![e] = NoEdit]
     ELSE goods' = Bumped(p) /\ DropThen(e, editors[e].keys)
  /\ UNCHANGED <<aisles, stories, pages, redisUp, visitors>>

\* A row that is deleted is kept with its slug, unless it goes for good.
GoneProduct(p, permanent) ==
  IF permanent THEN [state |-> "none", slug |-> Nothing, aisle |-> Nothing, version |-> Next1(goods[p].version)]
  ELSE [goods[p] EXCEPT !.state = "deleted", !.version = Next1(@)]

\* deleteProduct knows no slug; bulkDelete does.
DeleteProduct(e, p, permanent, bulk) ==
  /\ "delete" \in CacheOps
  /\ editors[e].pc = "idle"
  /\ goods[p].state = "live" \/ (permanent /\ goods[p].state = "deleted")
  /\ MayChange(p)
  /\ goods' = [goods EXCEPT ![p] = GoneProduct(p, permanent)]
  /\ DropThen(e, IF bulk THEN PagesOf(p, goods[p].slug) ELSE {Details(p)})
  /\ UNCHANGED <<aisles, stories, pages, redisUp, visitors>>

\* bulkUpdateStatus, an order's units and a review's rating drop nothing.
SilentChange(p) ==
  /\ "silent" \in CacheOps
  /\ goods[p].state = "live" /\ MayChange(p)
  /\ goods' = Bumped(p)
  /\ UNCHANGED <<aisles, stories, pages, redisUp, visitors, editors>>

\* Nor do testimonials.
EditTestimonial ==
  /\ "testimonial" \in CacheOps
  /\ stories < MaxVersion
  /\ stories' = Next1(stories)
  /\ UNCHANGED <<goods, aisles, pages, redisUp, visitors, editors>>

\* createCategory, updateCategory, updateStatus and reorderCategories.  What
\* invalidateCategoryCache() deletes are keys that nothing is kept under; then
\* the feed goes.  BOUND: two levels of categories.
SaveCategory(e, c, parent) ==
  /\ "category" \in CacheOps
  /\ editors[e].pc = "idle"
  /\ aisles[c].state # "deleted"
  /\ parent # Nothing => parent # c /\ aisles[parent].state = "live" /\ aisles[parent].parent = Nothing
  /\ aisles[c].version < MaxVersion
  /\ aisles' = [aisles EXCEPT ![c] = [state |-> "live", parent |-> parent, version |-> Next1(@.version)]]
  /\ DropThen(e, {})
  /\ UNCHANGED <<goods, stories, pages, redisUp, visitors>>

\* deleteCategory takes the subcategories and the products along, and leaves
\* their pages where they are.
DeleteAisle(e, c, permanent) ==
  LET gone == {c} \cup {x \in ChildrenOf({c}) : permanent \/ aisles[x].state = "live"}
      inside == {p \in AnyGoods : goods[p].aisle \in gone}
  IN
  /\ "category" \in CacheOps
  /\ editors[e].pc = "idle" /\ (aisles[c].state = "live" \/ (permanent /\ aisles[c].state = "deleted"))
  /\ \A x \in gone : aisles[x].version < MaxVersion
  /\ \A p \in inside : MayChange(p)
  /\ aisles' = [x \in Aisles |->
       IF x \notin gone THEN aisles[x]
       ELSE IF permanent THEN [state |-> "none", parent |-> Nothing, version |-> Next1(aisles[x].version)]
       ELSE [aisles[x] EXCEPT !.state = "deleted", !.version = Next1(@)]]
  /\ goods' = [p \in Goods |-> IF p \in inside /\ (permanent \/ goods[p].state = "live")
                               THEN GoneProduct(p, permanent) ELSE goods[p]]
  /\ DropThen(e, {})
  /\ UNCHANGED <<stories, pages, redisUp, visitors>>

\* redis.del(keys), and then delByPattern('cache:catalog:home:feed*').
DropPages(e) ==
  /\ editors[e].pc = "drop"
  /\ Drop(editors[e].keys)
  /\ editors' = [editors EXCEPT ![e] = [NoEdit EXCEPT !.pc = "feed"]]
  /\ UNCHANGED <<goods, aisles, stories, redisUp, visitors>>
DropFeed(e) ==
  /\ editors[e].pc = "feed"
  /\ Drop({List("feed")})
  /\ editors' = [editors EXCEPT ![e] = NoEdit]
  /\ UNCHANGED <<goods, aisles, stories, redisUp, visitors>>

\* Time passes.  BOUND: no request takes as long as a tick.
Tick ==
  /\ \A v \in Visitors : visitors[v].pc = "idle"
  /\ \E k \in Key : pages[k].left > 0
  /\ pages' = [k \in Key |-> IF pages[k].left <= 1 THEN NoPage
                             ELSE [pages[k] EXCEPT !.left = @ - 1]]
  /\ UNCHANGED <<goods, aisles, stories, redisUp, visitors, editors>>

-----------------------------------------------------------------------------

VisitorStep(v) == Read(v) \/ \E k \in Key : KeepOne(v, k)
EditorStep(e) == SaveStock(e) \/ DropPages(e) \/ DropFeed(e)
EditRequest(e) ==
  \/ \E p \in Goods : \/ \E s \in Slugs, c \in Aisles : SaveProduct(e, p, s, c)
                      \/ StockEdit(e, p)
                      \/ \E permanent, bulk \in BOOLEAN : DeleteProduct(e, p, permanent, bulk)
  \/ \E c \in Aisles : (\E permanent \in BOOLEAN : DeleteAisle(e, c, permanent)) \/ \E parent \in Aisles \cup {Nothing} : SaveCategory(e, c, parent)

CacheNext ==
  \/ \E v \in Visitors : VisitorStep(v) \/ \E k \in Key : k.kind \in Kinds /\ (Visited(v, k) \/ Ask(v, k))
  \/ \E e \in Editors : EditRequest(e) \/ EditorStep(e)
  \/ \E p \in Goods : SilentChange(p)
  \/ EditTestimonial \/ LoseRedis \/ Tick

\* One request after the other.
Quiet == (\A v \in Visitors : visitors[v].pc = "idle") /\ \A e \in Editors : editors[e].pc = "idle"
InTurnNext ==
  \/ Quiet /\ CacheNext
  \/ \E v \in Visitors : VisitorStep(v)
  \/ \E e \in Editors : EditorStep(e)

InTurnSpec == CacheInit /\ [][InTurnNext]_cacheVars

CacheSpec == CacheInit /\ [][CacheNext]_cacheVars

\* Requests that have begun end, and Redis forgets what has expired.
CacheFairness ==
  /\ \A v \in Visitors : WF_cacheVars(VisitorStep(v))
  /\ \A e \in Editors : WF_cacheVars(EditorStep(e))
  /\ SF_cacheVars(Tick)
CacheFairSpec == CacheSpec /\ CacheFairness

-----------------------------------------------------------------------------
(* Properties *)

\* A product as it is, in the category it is in; that category's row may be one
\* of before.
IsPageOf(p, shows) ==
  \E n \in 0..aisles[goods[p].aisle].version :
    shows = OfGoods({p}) \cup {[row |-> goods[p].aisle, version |-> n]}

\* Requests in turn: what is kept under a product's id and under its slug is the
\* product of now in its category of now, whatever it, or another product, was
\* called before and wherever it was.
DetailsAreCurrent ==
  Quiet => \A p \in Goods : goods[p].state = "live" =>
    \A k \in {Details(p), Details(goods[p].slug)} :
      pages[k].left > 0 => IsPageOf(p, pages[k].shows)

\* Requests in turn: the home page shows every product and category as it is.
FeedIsCurrent == Quiet /\ pages[List("feed")].left > 0 => pages[List("feed")].shows = HomeFeed

\* Whatever overlaps, is written without a word, or is lost with Redis: once
\* nothing is written any more, every page comes to show what is.
EveryChangeIsShown ==
  <>[][UNCHANGED <<goods, aisles, stories>>]_cacheVars =>
    <>[](\A k \in Key : pages[k].left > 0 => pages[k].shows = ReadOf(k))
=============================================================================
