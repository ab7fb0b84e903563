---------------------------- MODULE MCBackoffice ----------------------------
(* The back office, one area of it after the other: `area` says which.  Each *)
(* area is an instance of the component, with what is proved about it.       *)
EXTENDS Catalogue

CONSTANTS
  Areas,     \* the areas that are explored
  OneAdmin,  \* the only request of the instances in turn
  c1, c2, p1, v1, v2, i1, i2,
  Slugs, Story, Visitors, Editors, MaxVersion, DetailsTtl, ListTtl, FeedTtl

ASSUME BackofficeAssumption ==
  /\ {c1, c2} \subseteq Categories /\ p1 \in Products /\ {v1, v2} \subseteq VariantIds /\ v1 # v2
  /\ {i1, i2} \subseteq Images /\ Nobody \notin Images /\ MaxUnits >= 1
  /\ Slugs # {} /\ Products \cap Slugs = {}
  /\ \A a, b \in OneAdmin : a = b

VARIABLES area, goods, aisles, stories, pages, redisUp, visitors, editors

\* Categories only, with one product in one of them: requests in turn.
Tree == INSTANCE CatalogueProofs WITH
  Admins <- OneAdmin, CatalogueOps <- {"tree", "delete_category", "upload"}, Images <- {i1},
  Galleries <- {}, Primaries <- {}, Stocks <- {}, VariantLists <- {}, Shelves <- {}, Owns <- {}

\* Updates of one product's variants that overlap, of a back office that sends
\* the product's own fields with them.
Row(v, d) == [id |-> v, stock |-> 1, isDefault |-> d, images |-> {}]
Lists == {<<>>} \cup {<<Row(Nobody, d)>> : d \in BOOLEAN} \cup {<<Row(v1, FALSE), Row(x, d)>> :
           x \in {v2, Nobody}, d \in BOOLEAN}
Edits == INSTANCE CatalogueProofs WITH
  Products <- {p1}, CatalogueOps <- {"create", "update"}, Images <- {}, Galleries <- {{}},
  Primaries <- {NoUrl}, Stocks <- {-1}, VariantLists <- Lists, Shelves <- {Nobody}, Owns <- {TRUE}

\* Stock, requests in turn.
Counts == INSTANCE CatalogueProofs WITH
  Admins <- OneAdmin, CatalogueOps <- {"create", "update", "stock", "delete", "bulk_delete"}, Images <- {},
  Galleries <- {{}}, Primaries <- {NoUrl}, Stocks <- {-1}, VariantLists <- Lists,
  Shelves <- {Nobody, c1}, Owns <- {FALSE}

\* Images, requests in turn.
New(i) == [image |-> i, at |-> "categories"]
Old(i) == [image |-> i, at |-> "products"]
Shows(S) == <<[id |-> Nobody, stock |-> 0, isDefault |-> TRUE, images |-> S]>>
Media == INSTANCE CatalogueProofs WITH
  Admins <- OneAdmin, Products <- {p1},
  CatalogueOps <- {"create", "update", "upload", "delete"},
  Galleries <- {{}, {New(i1)}, {Old(i1)}, {Old(i2)}}, Primaries <- {NoUrl, Old(i1)}, Stocks <- {-1},
  VariantLists <- {<<>>, Shows({New(i1)}), Shows({Old(i1)})}, Shelves <- {Nobody}, Owns <- {FALSE}

\* Pages, requests in turn: products that are renamed, moved, deleted and made
\* again, and categories that change.
Pages == INSTANCE CatalogueCacheProofs WITH
  Goods <- Products, Aisles <- {c1, c2}, Nothing <- Nobody, CacheFaults <- {},
  Kinds <- {"details", "feed"},
  CacheOps <- {"create", "update", "delete", "stock", "category"}

ASSUME PagesAssumption == Pages!CacheAssumption

-----------------------------------------------------------------------------
cacheVars == <<goods, aisles, stories, pages, redisUp, visitors, editors>>

\* A category with a product in it, on sale.
OneCategory == [c \in Categories |->
  IF c = c1 THEN [state |-> "live", parent |-> Nobody, image |-> NoUrl] ELSE NoCategory]
OneProduct == [p \in Products |->
  IF p = p1 THEN [state |-> "live", category |-> c1, stock |-> 1, images |-> {}, primary |-> NoUrl]
  ELSE NoProduct]

\* What the pages show at first: one category.
OneAisle == [c \in {c1, c2} |->
  [state |-> IF c = c1 THEN "live" ELSE "none", parent |-> Nobody, version |-> 0]]

AllAreas == {"tree", "edits", "counts", "media", "pages"}

MCInit ==
  /\ area \in Areas
  /\ files = {}
  /\ categories = OneCategory
  /\ products = IF area = "tree" THEN OneProduct ELSE [p \in IF area \in {"edits", "media"} THEN {p1} ELSE Products |-> NoProduct]
  /\ variants = [v \in VariantIds |-> NoVariant]
  /\ admin = [a \in IF area = "edits" THEN Admins ELSE OneAdmin |-> NoWork]
  /\ Pages!CacheInitWith(Pages!NoGoods, OneAisle)

MCNext ==
  /\ UNCHANGED area
  /\ \/ /\ UNCHANGED cacheVars
        /\ \/ area = "tree"   /\ Tree!CatalogueNext
           \/ area = "edits"  /\ Edits!CatalogueNext
           \/ area = "counts" /\ Counts!CatalogueNext
           \/ area = "media"  /\ Media!CatalogueNext
     \/ /\ UNCHANGED catalogueVars
        /\ area = "pages" /\ Pages!InTurnNext

MCSpec == MCInit /\ [][MCNext]_<<catalogueVars, cacheVars, area>>

-----------------------------------------------------------------------------
(* Properties of some of the instances *)

\* Every row, file and request has its type.
BackofficeTypeOK ==
  /\ area = "tree" => Tree!CatalogueTypeOK
  /\ area = "edits" => Edits!CatalogueTypeOK
  /\ area = "counts" => Counts!CatalogueTypeOK
  /\ area = "media" => Media!CatalogueTypeOK
  /\ area = "pages" => Pages!CacheTypeOK

\* The rows have their types, and moves and deletions in turn keep the tree of
\* categories a tree, with nothing on sale below what was deleted.
TreeStandsInTurn ==
  /\ BackofficeTypeOK
  /\ area = "tree" =>
       Tree!NoCircularHierarchy /\ Tree!LiveUnderLive /\ Tree!LiveProductsInLiveCategories

\* Updates at once that each send a field of the product itself leave it one
\* default variant.  (Two that send variants only lock nothing and may leave two.)
OneDefaultVariantAtOnce == area = "edits" => Edits!OneDefaultVariant

\* Requests in turn keep a product's stock the sum of its variants'.
StockIsDerivedInTurn == area = "counts" => Counts!StockIsDerived

\* Requests in turn: a product's page is the one of now under its id and under
\* its slug, and the home page shows every product and category as it is.
PagesAreCurrentInTurn == area = "pages" => Pages!DetailsAreCurrent /\ Pages!FeedIsCurrent

\* Requests in turn delete no file that the product's variants show.
GalleryKeepsVariantsInTurn == [][area = "media" => Media!GalleryStepKeepsVariants]_catalogueVars
=============================================================================
