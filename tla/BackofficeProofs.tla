-------------------------- MODULE BackofficeProofs --------------------------
(* What holds in every area of the back office, for every instance.          *)
EXTENDS MCBackoffice, TLAPS

mcVars == <<catalogueVars, cacheVars, area>>

LEMMA AreasStay == ASSUME [MCNext]_mcVars PROVE UNCHANGED area
BY DEF MCNext, mcVars

-----------------------------------------------------------------------------
(* Updates of one product at once *)

LEMMA RowsNamed == \A v, d : Row(v, d).id = v
BY DEF Row

LEMMA ListsAre ==
  \A vs \in Lists :
    \/ vs = <<>> \/ \E d \in BOOLEAN : vs = <<Row(Nobody, d)>>
    \/ \E x \in {v2, Nobody}, d \in BOOLEAN : vs = <<Row(v1, FALSE), Row(x, d)>>
<1> SUFFICES ASSUME NEW vs \in Lists
             PROVE  \/ vs = <<>> \/ \E d \in BOOLEAN : vs = <<Row(Nobody, d)>>
                    \/ \E x \in {v2, Nobody}, d \in BOOLEAN : vs = <<Row(v1, FALSE), Row(x, d)>>
  OBVIOUS
<1> DEFINE r == Row(v1, FALSE)
           X == {v2, Nobody}
           D == BOOLEAN
<1>1. Lists = {<<>>} \cup {<<Row(Nobody, d)>> : d \in D} \cup {<<r, Row(x, d)>> : x \in X, d \in D}
  BY DEF Lists
<1>2. SUFFICES vs = <<>> \/ (\E d \in D : vs = <<Row(Nobody, d)>>) \/ \E x \in X, d \in D : vs = <<r, Row(x, d)>>
  OBVIOUS
<1> HIDE DEF r, X, D
<1>3. vs \in {<<Row(Nobody, d)>> : d \in D} => \E d \in D : vs = <<Row(Nobody, d)>>
  OBVIOUS
<1>4. vs \in {<<r, Row(x, d)>> : x \in X, d \in D} => \E x \in X, d \in D : vs = <<r, Row(x, d)>>
  OBVIOUS
<1> DEFINE One == {<<Row(Nobody, d)>> : d \in D}
           Two == {<<r, Row(x, d)>> : x \in X, d \in D}
<1>5. vs \in {<<>>} \cup One \cup Two
  BY <1>1
<1> HIDE DEF One, Two
<1> QED BY <1>3, <1>4, <1>5 DEF One, Two

LEMMA ListsNameOnce ==
  \A vs \in Lists : \A i, j \in DOMAIN vs : vs[i].id = vs[j].id => i = j \/ vs[i].id = Nobody
<1> SUFFICES ASSUME NEW vs \in Lists, NEW i \in DOMAIN vs, NEW j \in DOMAIN vs, vs[i].id = vs[j].id
             PROVE  i = j \/ vs[i].id = Nobody
  OBVIOUS
<1>1. CASE vs = <<>>
  BY <1>1
<1>2. CASE \E d \in BOOLEAN : vs = <<Row(Nobody, d)>>
  BY <1>2
<1>3. ASSUME NEW x \in {v2, Nobody}, NEW d \in BOOLEAN, vs = <<Row(v1, FALSE), Row(x, d)>>
      PROVE  i = j \/ vs[i].id = Nobody
  <2>1. v1 # x
    BY BackofficeAssumption, CatalogueAssumption
  <2> DEFINE r == Row(v1, FALSE)
             q == Row(x, d)
  <2>4. vs = <<r, q>> /\ r.id = v1 /\ q.id = x
    BY <1>3, RowsNamed
  <2> HIDE DEF r, q
  <2>2. vs[1].id = v1 /\ vs[2].id = x /\ DOMAIN vs = 1..2
    BY <2>4
  <2>3. i \in {1, 2} /\ j \in {1, 2}
    BY <2>2
  <2> QED BY <2>1, <2>2, <2>3
<1> QED BY <1>1, <1>2, <1>3, ListsAre

LEMMA ListsFit == Lists \subseteq Seq(Edits!VariantInput) /\ Lists \subseteq Seq(Counts!VariantInput)
<1>1. \A v \in {v1, v2, Nobody}, d \in BOOLEAN : Row(v, d) \in Edits!VariantInput /\ Row(v, d) \in Counts!VariantInput
  BY BackofficeAssumption, CatalogueAssumption DEF Row, Edits!VariantInput, Counts!VariantInput
<1>2. ASSUME NEW vs \in Lists PROVE vs \in Seq(Edits!VariantInput) /\ vs \in Seq(Counts!VariantInput)
  <2>1. CASE vs = <<>>
    BY <2>1
  <2>2. CASE \E d \in BOOLEAN : vs = <<Row(Nobody, d)>>
    BY <1>1, <2>2
  <2>3. ASSUME NEW x \in {v2, Nobody}, NEW d \in BOOLEAN, vs = <<Row(v1, FALSE), Row(x, d)>>
        PROVE  vs \in Seq(Edits!VariantInput) /\ vs \in Seq(Counts!VariantInput)
    <3> DEFINE r == Row(v1, FALSE)
               q == Row(x, d)
    <3>1. vs = <<r, q>> /\ {r, q} \subseteq Edits!VariantInput /\ {r, q} \subseteq Counts!VariantInput
      BY <1>1, <2>3
    <3> HIDE DEF r, q
    <3> QED BY <3>1
  <2> QED BY <2>1, <2>2, <2>3, ListsAre
<1> QED BY <1>2

LEMMA EditsAssumed ==
  /\ MaxUnits \in Nat /\ Nobody \notin Categories \cup {p1} \cup VariantIds /\ Edits!IsFiniteSet(VariantIds)
  /\ {{}} \subseteq SUBSET Edits!Url /\ {NoUrl} \subseteq Edits!Urls /\ {-1} \subseteq Int
  /\ Lists \subseteq Seq(Edits!VariantInput)
  /\ {Nobody} \subseteq Categories \cup {Nobody} /\ {TRUE} \subseteq BOOLEAN
<1>1. Edits!IsFiniteSet(VariantIds)
  BY CatalogueAssumption DEF IsFiniteSet, Edits!IsFiniteSet
<1>2. NoUrl \in Edits!Urls
  BY DEF NoUrl, Edits!NoUrl, Edits!Urls
<1> QED BY <1>1, <1>2, ListsFit, CatalogueAssumption, BackofficeAssumption

LEMMA EditsPlain == Edits!PlainForms /\ Edits!Serial
BY ListsNameOnce DEF Edits!PlainForms, Edits!NamedOnce, Edits!Serial, Edits!OwnForms

LEMMA OneCategoryFits ==
  /\ OneCategory \in [Categories -> Tree!CategoryRow] /\ OneCategory \in [Categories -> Edits!CategoryRow]
  /\ OneCategory \in [Categories -> Counts!CategoryRow] /\ OneCategory \in [Categories -> Media!CategoryRow]
<1> DEFINE row(c) == IF c = c1 THEN [state |-> "live", parent |-> Nobody, image |-> NoUrl] ELSE NoCategory
<1>1. ASSUME NEW c \in Categories
      PROVE  row(c) \in Tree!CategoryRow /\ row(c) \in Edits!CategoryRow
             /\ row(c) \in Counts!CategoryRow /\ row(c) \in Media!CategoryRow
  <2>1. row(c) \in Tree!CategoryRow
    BY DEF NoCategory, NoUrl, Tree!CategoryRow, Tree!RowState, Tree!Urls, Tree!NoUrl
  <2>2. row(c) \in Edits!CategoryRow
    BY DEF NoCategory, NoUrl, Edits!CategoryRow, Edits!RowState, Edits!Urls, Edits!NoUrl
  <2>3. row(c) \in Counts!CategoryRow
    BY DEF NoCategory, NoUrl, Counts!CategoryRow, Counts!RowState, Counts!Urls, Counts!NoUrl
  <2>4. row(c) \in Media!CategoryRow
    BY DEF NoCategory, NoUrl, Media!CategoryRow, Media!RowState, Media!Urls, Media!NoUrl
  <2> QED BY <2>1, <2>2, <2>3, <2>4
<1>2. OneCategory = [c \in Categories |-> row(c)]
  BY DEF OneCategory
<1> HIDE DEF row
<1> QED BY <1>1, <1>2

LEMMA EditsStart == ASSUME MCInit, area = "edits" PROVE Edits!DefaultsInv
<1>1. Edits!Blank /\ admin = [a \in Admins |-> Edits!NoWork]
  BY DEF MCInit, Edits!Blank, NoVariant, Edits!NoWork, NoWork, Edits!NoForm, NoForm, Edits!NoUrl, NoUrl
<1>2. Edits!NoWork \in Edits!Work
  BY EditsAssumed, Edits!NoWorkFits
<1>3. Edits!NoCategory \in Edits!CategoryRow /\ Edits!NoProduct \in Edits!ProductRow /\ Edits!NoVariant \in Edits!VariantRow
  BY EditsAssumed, Edits!SellsNothing
<1>4. Edits!CatalogueTypeOK
  <2>1. files = {} /\ variants = [v \in VariantIds |-> Edits!NoVariant]
    BY DEF MCInit, NoVariant, Edits!NoVariant
  <2>2. products = [p \in {p1} |-> Edits!NoProduct]
    BY DEF MCInit, NoProduct, Edits!NoProduct, NoUrl, Edits!NoUrl
  <2>3. categories \in [Categories -> Edits!CategoryRow]
    BY OneCategoryFits DEF MCInit
  <2> QED BY <1>1, <1>2, <1>3, <2>1, <2>2, <2>3 DEF Edits!CatalogueTypeOK
<1> QED BY <1>1, <1>4, EditsAssumed, Edits!DefaultsStart

LEMMA EditsStep == ASSUME area = "edits" => Edits!DefaultsInv, [MCNext]_mcVars PROVE (area = "edits" => Edits!DefaultsInv)'
<1> SUFFICES ASSUME area' = "edits" PROVE Edits!DefaultsInv'
  OBVIOUS
<1>1. area = "edits"
  BY AreasStay
<1>2. [Edits!CatalogueNext]_Edits!catalogueVars
  BY <1>1 DEF MCNext, mcVars, catalogueVars, Edits!catalogueVars
<1> QED BY <1>1, <1>2, EditsAssumed, EditsPlain, Edits!DefaultsStep

\* Updates of a product that overlap leave it one default variant, as long as
\* each sends a field of the product itself.
THEOREM OneDefaultAtOnce == MCSpec => []OneDefaultVariantAtOnce
<1>1. MCInit => (area = "edits" => Edits!DefaultsInv)
  BY EditsStart
<1>2. (area = "edits" => Edits!DefaultsInv) /\ [MCNext]_mcVars => (area = "edits" => Edits!DefaultsInv)'
  BY EditsStep
<1>3. (area = "edits" => Edits!DefaultsInv) => OneDefaultVariantAtOnce
  BY EditsAssumed, Edits!DefaultsMeanOne DEF OneDefaultVariantAtOnce
<1> QED BY <1>1, <1>2, <1>3, PTL DEF MCSpec, mcVars
-----------------------------------------------------------------------------
(* Stock, requests in turn *)

LEMMA CountsAssumed ==
  /\ MaxUnits \in Nat /\ Nobody \notin Categories \cup Products \cup VariantIds /\ Counts!IsFiniteSet(VariantIds)
  /\ {{}} \subseteq SUBSET Counts!Url /\ {NoUrl} \subseteq Counts!Urls /\ {-1} \subseteq Int
  /\ Lists \subseteq Seq(Counts!VariantInput)
  /\ {Nobody, c1} \subseteq Categories \cup {Nobody} /\ {FALSE} \subseteq BOOLEAN
<1>1. Counts!IsFiniteSet(VariantIds)
  BY CatalogueAssumption DEF IsFiniteSet, Counts!IsFiniteSet
<1>2. NoUrl \in Counts!Urls
  BY DEF NoUrl, Counts!NoUrl, Counts!Urls
<1> QED BY <1>1, <1>2, ListsFit, CatalogueAssumption, BackofficeAssumption

LEMMA CountsStart == ASSUME MCInit, area = "counts" PROVE Counts!StockInv
<1>1. Counts!Blank /\ admin = [a \in OneAdmin |-> Counts!NoWork]
  BY DEF MCInit, Counts!Blank, NoVariant, Counts!NoWork, NoWork, Counts!NoForm, NoForm, Counts!NoUrl, NoUrl
<1>2. Counts!NoWork \in Counts!Work
  BY CountsAssumed, Counts!NoWorkFits
<1>3. Counts!NoCategory \in Counts!CategoryRow /\ Counts!NoProduct \in Counts!ProductRow /\ Counts!NoVariant \in Counts!VariantRow
  BY CountsAssumed, Counts!SellsNothing
<1>4. Counts!CatalogueTypeOK
  <2>1. files = {} /\ variants = [v \in VariantIds |-> Counts!NoVariant]
    BY DEF MCInit, NoVariant, Counts!NoVariant
  <2>2. products = [p \in Products |-> Counts!NoProduct]
    BY DEF MCInit, NoProduct, Counts!NoProduct, NoUrl, Counts!NoUrl
  <2>3. categories \in [Categories -> Counts!CategoryRow]
    BY OneCategoryFits DEF MCInit
  <2> QED BY <1>1, <1>2, <1>3, <2>1, <2>2, <2>3 DEF Counts!CatalogueTypeOK
<1> QED BY <1>1, <1>4, CountsAssumed, Counts!StockStart

LEMMA CountsStep ==
  ASSUME area = "counts" => Counts!StockInv, [MCNext]_mcVars PROVE (area = "counts" => Counts!StockInv)'
<1> SUFFICES ASSUME area' = "counts" PROVE Counts!StockInv'
  OBVIOUS
<1>1. area = "counts"
  BY AreasStay
<1>2. [Counts!CatalogueNext]_Counts!catalogueVars
  BY <1>1 DEF MCNext, mcVars, catalogueVars, Counts!catalogueVars
<1>3. Counts!OneAtATime /\ Counts!NoSales /\ Counts!PlainForms
  BY BackofficeAssumption, ListsNameOnce DEF Counts!OneAtATime, Counts!NoSales, Counts!PlainForms, Counts!NamedOnce
<1> QED BY <1>1, <1>2, <1>3, CountsAssumed, Counts!StockStep

\* One request after the other, each for variants of its own product: a product
\* that has variants has the sum of their stock.
THEOREM StockDerivedInArea == MCSpec => []StockIsDerivedInTurn
<1>1. MCInit => (area = "counts" => Counts!StockInv)
  BY CountsStart
<1>2. (area = "counts" => Counts!StockInv) /\ [MCNext]_mcVars => (area = "counts" => Counts!StockInv)'
  BY CountsStep
<1>3. (area = "counts" => Counts!StockInv) => StockIsDerivedInTurn
  BY DEF StockIsDerivedInTurn, Counts!StockInv, Counts!StocksDerived, Counts!StockIsDerived
<1> QED BY <1>1, <1>2, <1>3, PTL DEF MCSpec, mcVars

-----------------------------------------------------------------------------
(* Pages, requests in turn *)

LEMMA PagesAssumed == Pages!CacheAssumption /\ Pages!Named /\ Pages!Told
BY PagesAssumption, BackofficeAssumption DEF Pages!Named, Pages!Told

PagesHold == area = "pages" => Pages!PagesInv

LEMMA PagesAreaStart == ASSUME MCInit PROVE Pages!PagesInv
<1>1. Pages!NoGoods \in [Products -> Pages!GoodsRow]
  BY PagesAssumed, Pages!NoGoodsFit
<1>2. OneAisle \in [{c1, c2} -> Pages!AisleRow]
  BY PagesAssumed DEF OneAisle, Pages!AisleRow, Pages!RowStates, Pages!CacheAssumption
<1>3. /\ goods = Pages!NoGoods /\ aisles = OneAisle /\ stories = 0 /\ redisUp = TRUE
      /\ pages = [k \in Pages!Key |-> Pages!NoPage]
      /\ visitors = [v \in Visitors |-> Pages!NoVisit] /\ editors = [e \in Editors |-> Pages!NoEdit]
  BY DEF MCInit, Pages!CacheInitWith
<1>4. Pages!CacheTypeOK
  BY <1>1, <1>2, <1>3, PagesAssumed, Pages!NothingFits DEF Pages!CacheTypeOK, Pages!CacheAssumption
<1>5. Pages!SlugsApart
  BY <1>3 DEF Pages!SlugsApart, Pages!NoGoods
<1> QED BY <1>3, <1>4, <1>5, Pages!PagesStart

LEMMA PagesHoldStep == ASSUME PagesHold, [MCNext]_mcVars PROVE PagesHold'
<1> SUFFICES ASSUME area' = "pages" PROVE Pages!PagesInv'
  BY DEF PagesHold
<1>1. area = "pages"
  BY AreasStay
<1>2. [Pages!InTurnNext]_Pages!cacheVars
  BY <1>1 DEF MCNext, mcVars, cacheVars, Pages!cacheVars
<1> QED BY <1>1, <1>2, PagesAssumed, Pages!PagesStep DEF PagesHold

\* However many products, names, categories and pages, requests in turn: what is
\* kept of a product, and the home page, is what there is; only the category on a
\* product's page may be an older row of it.
THEOREM PagesCurrentInAreas == MCSpec => []PagesAreCurrentInTurn
<1>1. MCInit => PagesHold
  BY PagesAreaStart DEF PagesHold
<1>2. PagesHold /\ [MCNext]_mcVars => PagesHold'
  BY PagesHoldStep
<1>3. PagesHold => PagesAreCurrentInTurn
  BY PagesAssumed, Pages!PagesMeanCurrent DEF PagesHold, PagesAreCurrentInTurn
<1> QED BY <1>1, <1>2, <1>3, PTL DEF MCSpec, mcVars

-----------------------------------------------------------------------------
(* The tree of categories, requests in turn *)

LEMMA TreeAssumed ==
  /\ MaxUnits \in Nat /\ Nobody \notin Categories \cup Products \cup VariantIds /\ Tree!IsFiniteSet(VariantIds)
<1>1. Tree!IsFiniteSet(VariantIds)
  BY CatalogueAssumption DEF IsFiniteSet, Tree!IsFiniteSet
<1> QED BY <1>1, CatalogueAssumption

LEMMA TreeStart == ASSUME MCInit, area = "tree" PROVE Tree!ShelfInv
<1>1. Tree!Blank /\ admin = [a \in OneAdmin |-> Tree!NoWork]
  BY DEF MCInit, Tree!Blank, NoVariant, Tree!NoWork, NoWork, Tree!NoForm, NoForm, Tree!NoUrl, NoUrl
<1>2. Tree!NoWork \in Tree!Work
  BY TreeAssumed, Tree!NoWorkFits
<1>3. Tree!NoCategory \in Tree!CategoryRow /\ Tree!NoProduct \in Tree!ProductRow /\ Tree!NoVariant \in Tree!VariantRow
  BY TreeAssumed, Tree!SellsNothing
<1>4. /\ categories = OneCategory /\ c1 \in Categories /\ Nobody \notin Categories
      /\ products = OneProduct
  BY BackofficeAssumption, CatalogueAssumption DEF MCInit
<1>5. Tree!CatalogueTypeOK
  <2>1. files = {} /\ variants = [v \in VariantIds |-> Tree!NoVariant]
    BY DEF MCInit, NoVariant, Tree!NoVariant
  <2>2. products \in [Products -> Tree!ProductRow]
    <3> SUFFICES ASSUME NEW p \in Products
                 PROVE  (IF p = p1 THEN [state |-> "live", category |-> c1, stock |-> 1, images |-> {}, primary |-> NoUrl]
                         ELSE NoProduct) \in Tree!ProductRow
      BY <1>4 DEF OneProduct
    <3> QED BY <1>4 DEF NoProduct, NoUrl, Tree!ProductRow, Tree!RowState, Tree!Urls, Tree!NoUrl
  <2>3. categories \in [Categories -> Tree!CategoryRow]
    BY <1>4, OneCategoryFits
  <2> QED BY <1>1, <1>2, <1>3, <2>1, <2>2, <2>3 DEF Tree!CatalogueTypeOK
<1>6. /\ \A c \in Categories : categories[c].parent = Nobody
      /\ categories[c1].state = "live" /\ \A p \in Products : products[p].state = "live" => products[p].category = c1
  BY <1>4 DEF OneCategory, OneProduct, NoCategory, NoProduct
<1>7. Tree!TreeRows
  BY <1>4, <1>6 DEF Tree!TreeRows, Tree!RowsRefer, Tree!LiveUnder, Tree!LiveCategory, Tree!NoCircularHierarchy
<1>8. Tree!QuietCatalogue
  BY <1>1 DEF Tree!QuietCatalogue, Tree!At, Tree!NoWork
<1>9. Tree!FormsInv
  BY <1>1, <1>5, TreeAssumed, Tree!FormsStart
<1> QED BY <1>4, <1>6, <1>7, <1>8, <1>9, TreeAssumed, Tree!ShelfStart
        DEF Tree!InOrder, Tree!LiveProduct, Tree!Shelved, Tree!LiveCategory

LEMMA TreeAreaStep ==
  ASSUME area = "tree" => Tree!ShelfInv, [MCNext]_mcVars PROVE (area = "tree" => Tree!ShelfInv)'
<1> SUFFICES ASSUME area' = "tree" PROVE Tree!ShelfInv'
  OBVIOUS
<1>1. area = "tree"
  BY AreasStay
<1>2. [Tree!CatalogueNext]_Tree!catalogueVars
  BY <1>1 DEF MCNext, mcVars, catalogueVars, Tree!catalogueVars
<1>3. Tree!OneAtATime
  BY BackofficeAssumption DEF Tree!OneAtATime
<1> QED BY <1>1, <1>2, <1>3, TreeAssumed, Tree!ShelfStep
-----------------------------------------------------------------------------
(* Images, requests in turn *)

MediaGalleries == {{}, {New(i1)}, {Old(i1)}, {Old(i2)}}
MediaLists == {<<>>, Shows({New(i1)}), Shows({Old(i1)})}

LEMMA MediaUrls ==
  /\ New(i1) \in Media!Url /\ Old(i1) \in Media!Url /\ Old(i2) \in Media!Url
  /\ NoUrl \in Media!Urls /\ Old(i1) \in Media!Urls
BY BackofficeAssumption DEF New, Old, NoUrl, Media!Url, Media!Urls, Media!NoUrl, Media!Namespaces

LEMMA ShownFits ==
  ASSUME NEW S \in SUBSET Media!Url
  PROVE  Shows(S) \in Seq(Media!VariantInput) /\ \A i, j \in DOMAIN Shows(S) : i = j
<1> DEFINE r == [id |-> Nobody, stock |-> 0, isDefault |-> TRUE, images |-> S]
<1>1. r \in Media!VariantInput
  BY CatalogueAssumption DEF Media!VariantInput
<1>2. Shows(S) = <<r>>
  BY DEF Shows
<1> HIDE DEF r
<1> QED BY <1>1, <1>2

LEMMA MediaNamesOnce ==
  \A vs \in MediaLists : \A i, j \in DOMAIN vs : vs[i].id = vs[j].id => i = j \/ vs[i].id = Nobody
<1> SUFFICES ASSUME NEW vs \in MediaLists, NEW i \in DOMAIN vs, NEW j \in DOMAIN vs PROVE i = j
  OBVIOUS
<1>1. {New(i1)} \in SUBSET Media!Url /\ {Old(i1)} \in SUBSET Media!Url
  BY MediaUrls
<1>2. CASE vs = <<>>
  BY <1>2
<1>3. CASE vs = Shows({New(i1)})
  BY <1>1, <1>3, ShownFits
<1>4. CASE vs = Shows({Old(i1)})
  BY <1>1, <1>4, ShownFits
<1> QED BY <1>2, <1>3, <1>4 DEF MediaLists

LEMMA MediaAssumed ==
  /\ MaxUnits \in Nat /\ Nobody \notin Categories \cup {p1} \cup VariantIds /\ Media!IsFiniteSet(VariantIds)
  /\ MediaGalleries \subseteq SUBSET Media!Url /\ {NoUrl, Old(i1)} \subseteq Media!Urls /\ {-1} \subseteq Int
  /\ MediaLists \subseteq Seq(Media!VariantInput)
  /\ {Nobody} \subseteq Categories \cup {Nobody} /\ {FALSE} \subseteq BOOLEAN
<1>1. Media!IsFiniteSet(VariantIds)
  BY CatalogueAssumption DEF IsFiniteSet, Media!IsFiniteSet
<1>2. MediaGalleries \subseteq SUBSET Media!Url /\ {NoUrl, Old(i1)} \subseteq Media!Urls
  BY MediaUrls DEF MediaGalleries
<1>3. {New(i1)} \in SUBSET Media!Url /\ {Old(i1)} \in SUBSET Media!Url
  BY MediaUrls
<1>4. MediaLists \subseteq Seq(Media!VariantInput)
  BY <1>3, ShownFits DEF MediaLists
<1> QED BY <1>1, <1>2, <1>4, CatalogueAssumption, BackofficeAssumption

LEMMA MediaStart == ASSUME MCInit, area = "media" PROVE Media!GalleryInv
<1>1. Media!Blank /\ admin = [a \in OneAdmin |-> Media!NoWork]
  BY DEF MCInit, Media!Blank, NoVariant, Media!NoWork, NoWork, Media!NoForm, NoForm, Media!NoUrl, NoUrl
<1>2. Media!NoWork \in Media!Work
  BY MediaAssumed, Media!NoWorkFits DEF MediaGalleries, MediaLists
<1>3. Media!NoCategory \in Media!CategoryRow /\ Media!NoProduct \in Media!ProductRow /\ Media!NoVariant \in Media!VariantRow
  BY MediaAssumed, Media!SellsNothing DEF MediaGalleries, MediaLists
<1>4. Media!CatalogueTypeOK
  <2>1. files = {} /\ variants = [v \in VariantIds |-> Media!NoVariant]
    BY DEF MCInit, NoVariant, Media!NoVariant
  <2>2. products = [p \in {p1} |-> Media!NoProduct]
    BY DEF MCInit, NoProduct, Media!NoProduct, NoUrl, Media!NoUrl
  <2>3. categories \in [Categories -> Media!CategoryRow]
    BY OneCategoryFits DEF MCInit
  <2> QED BY <1>1, <1>2, <1>3, <2>1, <2>2, <2>3 DEF Media!CatalogueTypeOK
<1> QED BY <1>1, <1>4, MediaAssumed, Media!GalleryStart DEF MediaGalleries, MediaLists

LEMMA MediaStep ==
  ASSUME area = "media" => Media!GalleryInv, [MCNext]_mcVars PROVE (area = "media" => Media!GalleryInv)'
<1> SUFFICES ASSUME area' = "media" PROVE Media!GalleryInv'
  OBVIOUS
<1>1. area = "media"
  BY AreasStay
<1>2. [Media!CatalogueNext]_Media!catalogueVars
  BY <1>1 DEF MCNext, mcVars, catalogueVars, Media!catalogueVars
<1>3. Media!OneAtATime /\ Media!PlainForms
  BY BackofficeAssumption, MediaNamesOnce DEF Media!OneAtATime, Media!PlainForms, Media!NamedOnce, MediaLists
<1> QED BY <1>1, <1>2, <1>3, MediaAssumed, Media!GalleryStep DEF MediaGalleries, MediaLists

\* Whatever is uploaded, moved and deleted, one request after the other: no file
\* is deleted that a variant of the product shows.
THEOREM GalleryKeepsInArea == MCSpec => GalleryKeepsVariantsInTurn
<1>1. MCInit => (area = "media" => Media!GalleryInv)
  BY MediaStart
<1>2. (area = "media" => Media!GalleryInv) /\ [MCNext]_mcVars => (area = "media" => Media!GalleryInv)'
  BY MediaStep
<1>3. (area = "media" => Media!GalleryInv) => (area = "media" => Media!GalleryStepKeepsVariants)
  BY MediaAssumed, Media!GalleryKeeps DEF MediaGalleries, MediaLists
<1> QED BY <1>1, <1>2, <1>3, PTL DEF MCSpec, mcVars, GalleryKeepsVariantsInTurn, catalogueVars

-----------------------------------------------------------------------------
(* Every area *)

AreasHold ==
  /\ area = "tree" => Tree!ShelfInv
  /\ area = "edits" => Edits!DefaultsInv
  /\ area = "counts" => Counts!StockInv
  /\ area = "media" => Media!GalleryInv
  /\ PagesHold

LEMMA AreasMean == ASSUME AreasHold PROVE TreeStandsInTurn
<1>1. BackofficeTypeOK
  BY DEF AreasHold, PagesHold, BackofficeTypeOK, Tree!ShelfInv, Tree!TreeInv, Tree!FormsInv,
         Edits!DefaultsInv, Edits!FormsInv, Counts!StockInv, Counts!DefaultsInv, Counts!FormsInv,
         Media!GalleryInv, Media!DefaultsInv, Media!FormsInv, Pages!PagesInv
<1>2. ASSUME area = "tree"
      PROVE  Tree!NoCircularHierarchy /\ Tree!LiveUnderLive /\ Tree!LiveProductsInLiveCategories
  <2>1. /\ Tree!NoCircularHierarchy /\ Tree!LiveUnder
        /\ \A p \in Products : Tree!LiveProduct(p) => Tree!Shelved(p)
    BY <1>2 DEF AreasHold, Tree!ShelfInv, Tree!TreeInv, Tree!TreeRows
  <2>2. Tree!LiveUnderLive
    BY <2>1 DEF Tree!LiveUnder, Tree!LiveUnderLive
  <2> QED BY <2>1, <2>2 DEF Tree!Shelved, Tree!LiveProductsInLiveCategories
<1> QED BY <1>1, <1>2 DEF TreeStandsInTurn

\* In every area the rows keep their types, and moves and deletions in turn
\* leave a tree, with no product on sale in a category that is gone.
THEOREM TreeStandsInAreas == MCSpec => []TreeStandsInTurn
<1>1. MCInit => AreasHold
  BY TreeStart, EditsStart, CountsStart, MediaStart, PagesAreaStart DEF AreasHold, PagesHold
<1>2. AreasHold /\ [MCNext]_mcVars => AreasHold'
  BY TreeAreaStep, EditsStep, CountsStep, MediaStep, PagesHoldStep DEF AreasHold
<1>3. AreasHold => TreeStandsInTurn
  BY AreasMean
<1> QED BY <1>1, <1>2, <1>3, PTL DEF MCSpec, mcVars
=============================================================================
