-------------------------- MODULE ProductCatalogue --------------------------
(* ProductsService of the back office: products with their variants, stock   *)
(* and images.  Creating and updating run in one transaction each; the moves *)
(* of images before it, and their deletion after it, are outside.            *)
EXTENDS CatalogueState

CONSTANTS
  Galleries, Primaries, Stocks, VariantLists,  \* BOUND on what a form says of a product
  Shelves, Owns  \* BOUND: the category it says, and whether it says anything else

ASSUME FormsAssumption ==
  /\ Galleries \subseteq SUBSET Url /\ Primaries \subseteq Urls /\ Stocks \subseteq Int
  /\ VariantLists \subseteq Seq(VariantInput)
  /\ Shelves \subseteq Categories \cup {Nobody} /\ Owns \subseteq BOOLEAN

\* Mutant: a form without a default has none.
ChosenOnly(input) == input

\* normalizeVariants: the one that is marked is the default, else the first; a
\* form with two is refused.
WithDefault(input) ==
  IF \E i \in DOMAIN input : input[i].isDefault THEN input
  ELSE [i \in DOMAIN input |-> [input[i] EXCEPT !.isDefault = (i = 1)]]
TwoDefaults(input) ==
  \E i, j \in DOMAIN input : i # j /\ input[i].isDefault /\ input[j].isDefault

InputImages(input) == UNION {input[i].images : i \in DOMAIN input}

\* validateVariantImagesOwnership: the images of variants, not of products.
OthersImages(p) ==
  UNION {products[o].images \cup {products[o].primary} : o \in Products \ {p}}
  \cup UNION {variants[v].images : v \in {x \in VariantIds : variants[x].product \notin {p, Nobody}}}
BelongToAnother(p, form) == InputImages(form.variants) \cap OthersImages(p) # {}

Move(urls, at) == {Relocated(u, at) : u \in urls}
Moved(input) == [i \in DOMAIN input |-> [input[i] EXCEPT !.images = Move(@, "products")]]

\* Rows for what a form sends, when the rows `rows` stay: a variant with an id is
\* written where it is, whosever it is, and new ones get ids that nobody knows.
Known == UNION {Named(admin[b].form) \cup {admin[b].units[1]} : b \in Admins}
FreeVariants == {v \in VariantIds : variants[v].product = Nobody} \ Known
Unnamed(input) == {i \in DOMAIN input : input[i].id = Nobody}
NewIds(input) == CHOOSE f \in Injection(Unnamed(input), FreeVariants) : TRUE
IdOf(input, i) == IF input[i].id # Nobody THEN input[i].id ELSE NewIds(input)[i]
Enough(input) == Cardinality(Unnamed(input)) <= Cardinality(FreeVariants)
RowFor(p, item) == [product |-> p, stock |-> item.stock, isDefault |-> item.isDefault, images |-> item.images]
\* The row of one that is sent twice is the last that was sent.
LastOf(S) == CHOOSE i \in S : \A j \in S : j <= i
Written(p, input, rows) ==
  [v \in VariantIds |->
     LET sent == {i \in DOMAIN input : IdOf(input, i) = v}
     IN  IF sent = {} THEN rows[v]
         ELSE RowFor(IF rows[v].product = Nobody THEN p ELSE rows[v].product, input[LastOf(sent)])]
UnitsIn(input) == Units(input, DOMAIN input)

PrimaryOf(form) == IF form.primary # NoUrl \/ form.images = {} THEN {form.primary} ELSE form.images

-----------------------------------------------------------------------------
(* POST /admin/products *)

\* The category may be one that is deleted.  What the form gets wrong shows later.
CreateProduct(a, p, c, form) ==
  /\ "create" \in CatalogueOps
  /\ categories[c].state # "none" /\ Named(form) = {}
  /\ products[p].state = "none" /\ \A b \in Admins : admin[b].product # p
  /\ Begin(a, [NoWork EXCEPT !.pc = "create_images", !.product = p, !.category = c, !.form = form])
  /\ UNCHANGED <<files, categories, products, variants>>

\* relocateMultipleToNamespace, and then the image of its own, which may be one
\* of those that have moved.
CreateImages(a) ==
  LET f == admin[a].form
      urls == IF f.images # {} THEN f.images ELSE {f.primary} \ {NoUrl}
  IN
  /\ At(a, "create_images")
  /\ MoveFiles(urls, "products")
  /\ Become(a, [admin[a] EXCEPT !.pc = "create_primary", !.form.images = Move(urls, "products")])
  /\ UNCHANGED <<categories, products, variants>>

CreatePrimary(a) ==
  LET f == admin[a].form IN
  /\ At(a, "create_primary")
  /\ MoveFiles({f.primary}, "products")
  /\ \E u \in PrimaryOf([f EXCEPT !.primary = Relocated(@, "products")]) :
       Become(a, [admin[a] EXCEPT !.pc = "create_check", !.form.primary = u])
  /\ UNCHANGED <<categories, products, variants>>

\* A price, a package, a SKU or a combination of attributes that is refused:
\* the images have moved.
RefuseProduct(a) ==
  /\ admin[a].pc \in {"create_check", "update_check", "create_save", "update_save"}
  /\ Finish(a)
  /\ UNCHANGED <<files, categories, products, variants>>

CheckNewProduct(a) ==
  LET f == admin[a].form IN
  /\ At(a, "create_check")
  /\ IF BelongToAnother(admin[a].product, f) THEN Finish(a) ELSE Step(a, "create_variants")
  /\ UNCHANGED <<files, categories, products, variants>>

CreateVariants(a) ==
  LET input == admin[a].form.variants IN
  /\ At(a, "create_variants")
  /\ IF TwoDefaults(input) THEN UNCHANGED files /\ Finish(a)
     ELSE /\ MoveFiles(InputImages(input), "products")
          /\ Become(a, [admin[a] EXCEPT !.pc = "create_save", !.form.variants = Moved(WithDefault(input))])
  /\ UNCHANGED <<categories, products, variants>>

\* A category that is gone by now fails the transaction.
CreateSave(a) ==
  LET w == admin[a]  f == w.form IN
  /\ At(a, "create_save") /\ Enough(f.variants)
  /\ IF categories[w.category].state = "none" THEN UNCHANGED <<products, variants>>
     ELSE /\ products' = [products EXCEPT ![w.product] =
               [state |-> "live", category |-> w.category,
                stock |-> IF f.variants # <<>> THEN UnitsIn(f.variants) ELSE IF f.stock < 0 THEN 0 ELSE f.stock,
                images |-> f.images, primary |-> f.primary]]
          /\ variants' = Written(w.product, f.variants, variants)
  /\ Finish(a)
  /\ UNCHANGED <<files, categories>>

-----------------------------------------------------------------------------
(* PATCH /admin/products/:id *)

\* The product is read with its images and its variants, and the category that
\* it moves to, which may be one that is deleted.  A product with variants keeps
\* at least one.  Whose variants the form names is not looked at: without
\* "foreign", the forms are those of a back office that names the product's own.
UpdateProduct(a, p, form) ==
  /\ "update" \in CatalogueOps
  /\ LiveProduct(p)
  /\ form.category # Nobody => categories[form.category].state # "none"
  /\ form.hasVariants /\ VariantsOf(p) # {} => form.variants # <<>>
  /\ "foreign" \in CatalogueOps \/ Named(form) \subseteq VariantsOf(p)
  /\ Begin(a, [NoWork EXCEPT !.pc = "update_check", !.product = p, !.form = form,
                             !.before = products[p].images, !.kept = VariantImages(p)])
  /\ UNCHANGED <<files, categories, products, variants>>

CheckUpdate(a) ==
  LET w == admin[a] IN
  /\ At(a, "update_check")
  /\ IF BelongToAnother(w.product, w.form) \/ TwoDefaults(w.form.variants) THEN Finish(a)
     ELSE Step(a, "update_variants")
  /\ UNCHANGED <<files, categories, products, variants>>

\* Here the images of the variants move first.
UpdateVariants(a) ==
  LET input == admin[a].form.variants IN
  /\ At(a, "update_variants")
  /\ MoveFiles(InputImages(input), "products")
  /\ Become(a, [admin[a] EXCEPT !.pc = "update_images", !.form.variants = Moved(WithDefault(input))])
  /\ UNCHANGED <<categories, products, variants>>

\* Mutant: an image that left the gallery goes, whatever else shows it.
NoneShown(w) == {}

\* "Do NOT delete image if still referenced by any remaining variant": those of
\* the form, or those that were read.
StillShown(w) == IF w.form.variants # <<>> THEN InputImages(w.form.variants) ELSE w.kept

UpdateImages(a) ==
  LET w == admin[a]  moved == Move(w.form.images, "products") IN
  /\ At(a, "update_images")
  /\ MoveFiles(w.form.images, "products")
  /\ Become(a, [w EXCEPT !.pc = "update_primary", !.form.images = moved,
                         !.garbage = IF w.form.hasImages THEN (w.before \ moved) \ StillShown(w) ELSE {}])
  /\ UNCHANGED <<categories, products, variants>>

UpdatePrimary(a) ==
  LET f == admin[a].form IN
  /\ At(a, "update_primary")
  /\ MoveFiles({f.primary}, "products")
  /\ \E u \in PrimaryOf([f EXCEPT !.primary = Relocated(@, "products")]) :
       Become(a, [admin[a] EXCEPT !.pc = "update_save", !.form.primary = u])
  /\ UNCHANGED <<categories, products, variants>>

\* The product's variants that the form does not name go, and the product's
\* stock becomes the sum of what is left: -1 where there is nothing to set.
Dropped(p, f) == IF f.variants = <<>> THEN {} ELSE VariantsOf(p) \ Named(f)
RowsAfter(p, f, dropped) ==
  Written(p, f.variants, [v \in VariantIds |-> IF v \in dropped THEN NoVariant ELSE variants[v]])
StockAfter(p, f, dropped) ==
  LET rows == RowsAfter(p, f, dropped)
      now == {v \in VariantIds : rows[v].product = p}
  IN  IF f.variants # <<>> /\ now # {} THEN Units(rows, now) ELSE f.stock
EditedProduct(p, f, n) ==
  [products[p] EXCEPT !.stock = IF n >= 0 THEN n ELSE @, !.images = IF f.hasImages THEN f.images ELSE @,
                      !.primary = IF f.primary # NoUrl THEN f.primary ELSE @,
                      !.category = IF f.category # Nobody THEN f.category ELSE @]

\* Rows that the transaction updates by their ids and that are gone fail it.
Fails(p, f) ==
  \/ products[p].state = "none" \/ \E v \in Named(f) : variants[v].product = Nobody
  \/ f.category # Nobody /\ categories[f.category].state = "none"
Waits(p, f) == f.variants # <<>> /\ (VariantsOf(p) \cup Named(f)) \cap Held # {}

\* One transaction.  When the form says something of the product, its row is
\* taken first, so that two of them, or one and a sale, do not interleave.
UpdateSave(a) ==
  LET f == admin[a].form  p == admin[a].product IN
  /\ At(a, "update_save") /\ f.own /\ ~Waits(p, f) /\ Enough(f.variants)
  /\ IF Fails(p, f) THEN UNCHANGED <<products, variants>> /\ Finish(a)
     ELSE /\ variants' = RowsAfter(p, f, Dropped(p, f))
          /\ products' = [products EXCEPT ![p] = EditedProduct(p, f, StockAfter(p, f, Dropped(p, f)))]
          /\ Step(a, "files")
  /\ UNCHANGED <<files, categories>>

\* A form of variants only: an update without columns writes no row, and so
\* holds none.  The variants are written, the sum is read, and what others have
\* not committed is in neither.
TakeRows(a) ==
  LET f == admin[a].form  p == admin[a].product IN
  /\ At(a, "update_save") /\ ~f.own /\ ~Waits(p, f) /\ Enough(f.variants)
  /\ IF Fails(p, f) THEN Finish(a)
     ELSE Become(a, [admin[a] EXCEPT !.pc = "update_sum", !.doomed = Dropped(p, f)])
  /\ UNCHANGED <<files, categories, products, variants>>

SumRows(a) ==
  LET w == admin[a] IN
  /\ At(a, "update_sum") /\ Enough(w.form.variants)
  /\ Become(a, [w EXCEPT !.pc = "update_commit", !.form.stock = StockAfter(w.product, w.form, w.doomed)])
  /\ UNCHANGED <<files, categories, products, variants>>

CommitRows(a) ==
  LET w == admin[a]  p == w.product IN
  /\ At(a, "update_commit") /\ Enough(w.form.variants)
  /\ variants' = RowsAfter(p, w.form, w.doomed)
  /\ products' = [products EXCEPT ![p] = EditedProduct(p, w.form, w.form.stock)]
  /\ Step(a, "files")
  /\ UNCHANGED <<files, categories>>

-----------------------------------------------------------------------------
(* DELETE /admin/products/:id and POST /admin/products/bulk-delete *)

UrlsOf(p) == products[p].images \cup VariantImages(p) \cup ({products[p].primary} \ {NoUrl})

DeleteProducts(a, S, permanent) ==
  /\ IF Cardinality(S) = 1
     THEN "delete" \in CatalogueOps /\ \A p \in S : products[p].state # "none" /\ (permanent \/ LiveProduct(p))
     ELSE "bulk_delete" \in CatalogueOps
  /\ Begin(a, [NoWork EXCEPT !.pc = "remove_save", !.group = S, !.permanent = permanent,
                             !.garbage = UNION {UrlsOf(p) : p \in S}])
  /\ UNCHANGED <<files, categories, products, variants>>

RemoveSave(a) ==
  LET w == admin[a] IN
  /\ At(a, "remove_save")
  /\ w.permanent => \A p \in w.group : Deletable(p)
  /\ products' = [p \in Products |->
       IF p \notin w.group THEN products[p] ELSE IF w.permanent THEN NoProduct
       ELSE IF LiveProduct(p) THEN [products[p] EXCEPT !.state = "deleted"] ELSE products[p]]
  /\ variants' = IF ~w.permanent THEN variants
                 ELSE [v \in VariantIds |-> IF variants[v].product \in w.group THEN NoVariant
                                            ELSE variants[v]]
  /\ Step(a, "files")
  /\ UNCHANGED <<files, categories>>

-----------------------------------------------------------------------------
(* PATCH /admin/products/:id/stock, and orders *)

\* The row of a variant is written, whosever it is, and held until the end of
\* the transaction; or, v = Nobody, the product's own stock is given.
UpdateStock(a, p, v, n) ==
  /\ "stock" \in CatalogueOps
  /\ LiveProduct(p) /\ v \notin Held
  /\ v # Nobody => variants[v].product # Nobody /\ ("foreign" \in CatalogueOps \/ v \in VariantsOf(p))
  /\ Begin(a, [NoWork EXCEPT !.pc = "stock_sum", !.product = p, !.units = <<v, n>>])
  /\ UNCHANGED <<files, categories, products, variants>>

\* Mutant: only what was asked for is added up.
AskedFor(w) == w.units[2]

\* "Variant stock is authoritative: product stock is derived sum of variants":
\* the sum of its own write and of what others have committed.
DerivedStock(w) ==
  LET v == w.units[1]  own == VariantsOf(w.product) IN
  IF own = {} THEN w.units[2]
  ELSE Units(variants, own \ {v}) + (IF v \in own THEN w.units[2] ELSE 0)

\* A product without variants keeps its stock when another's variant is named.
SumStock(a) ==
  LET w == admin[a] IN
  /\ At(a, "stock_sum") /\ w.form.stock < 0
  /\ Become(a, [w EXCEPT !.form.stock = DerivedStock(w),
                         !.form.own = VariantsOf(w.product) # {} \/ w.units[1] = Nobody])
  /\ UNCHANGED <<files, categories, products, variants>>

\* A product that is gone for good fails it.
CommitStock(a) ==
  LET w == admin[a]  v == w.units[1] IN
  /\ At(a, "stock_sum") /\ w.form.stock >= 0
  /\ IF w.form.own /\ products[w.product].state = "none" THEN UNCHANGED <<products, variants>>
     ELSE /\ variants' = IF v = Nobody THEN variants ELSE [variants EXCEPT ![v].stock = w.units[2]]
          /\ products' = IF w.form.own THEN [products EXCEPT ![w.product].stock = w.form.stock] ELSE products
  /\ Finish(a)
  /\ UNCHANGED <<files, categories>>

\* CheckoutService takes the units of a variant from its row only.
SellVariant(v) ==
  /\ "sale" \in CatalogueOps
  /\ variants[v].product # Nobody /\ variants[v].stock > 0
  /\ LiveProduct(variants[v].product)
  /\ v \notin Held
  /\ variants' = [variants EXCEPT ![v].stock = @ - 1]
  /\ UNCHANGED <<files, categories, products, admin>>

-----------------------------------------------------------------------------

\* A form names what it sets; what it leaves empty stays.  One that says nothing
\* of variants says something else.
FormOf(g, u, n, vs, c, own) ==
  [images |-> g, hasImages |-> g # {}, primary |-> u, stock |-> n, variants |-> vs,
   hasVariants |-> vs # <<>>, category |-> c,
   own |-> own \/ g # {} \/ u # NoUrl \/ n >= 0 \/ c # Nobody \/ vs = <<>>]

ProductRequest(a) ==
  \/ \E p \in Products :
       \/ \E g \in Galleries, u \in Primaries, n \in Stocks, vs \in VariantLists :
            \/ \E c \in Categories : CreateProduct(a, p, c, FormOf(g, u, n, vs, Nobody, TRUE))
            \/ \E c \in Shelves, own \in Owns : UpdateProduct(a, p, FormOf(g, u, n, vs, c, own))
       \/ \E v \in VariantIds \cup {Nobody}, n \in 0..MaxUnits : UpdateStock(a, p, v, n)
  \/ \E S \in (SUBSET Products) \ {{}}, permanent \in BOOLEAN : DeleteProducts(a, S, permanent)

ProductStep(a) ==
  \/ CreateImages(a) \/ CreatePrimary(a) \/ RefuseProduct(a) \/ CheckNewProduct(a)
  \/ CreateVariants(a) \/ CreateSave(a) \/ CheckUpdate(a) \/ UpdateVariants(a)
  \/ UpdateImages(a) \/ UpdatePrimary(a) \/ UpdateSave(a) \/ TakeRows(a) \/ SumRows(a) \/ CommitRows(a)
  \/ RemoveSave(a)
  \/ SumStock(a) \/ CommitStock(a)

ProductNext ==
  \/ \E a \in Admins : ProductRequest(a) \/ ProductStep(a) \/ CleanUp(a)
  \/ \E v \in VariantIds : SellVariant(v)
  \/ \E image \in Images, at \in Namespaces : Upload(image, at)

-----------------------------------------------------------------------------
(* Properties *)

QuietCatalogue == \A a \in Admins : At(a, "idle")

\* However updates that each send a field of the product itself overlap, a
\* product that has variants shows one of them first: exactly one is its default.
OneDefaultVariant ==
  \A p \in Products : VariantsOf(p) # {} =>
    Cardinality({v \in VariantsOf(p) : variants[v].isDefault}) = 1

\* updateStock: "Variant stock is authoritative: product stock is derived sum of
\* variants".  Between requests the two agree.
StockIsDerived ==
  QuietCatalogue =>
    \A p \in Products : VariantsOf(p) # {} => products[p].stock = UnitsOf(p)

\* Requests in turn: changing a product deletes no file that one of its variants
\* shows.
GalleryStepKeepsVariants ==
  \A a \in Admins : (CleanUp(a) /\ admin[a].product # Nobody) =>
    VariantImages(admin[a].product) \cap files \subseteq files'
=============================================================================
