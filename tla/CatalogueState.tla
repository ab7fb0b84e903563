--------------------------- MODULE CatalogueState ---------------------------
(* What the back office edits: categories, products, their variants, and the *)
(* image files that their rows name (UploadService).  Slugs, SKUs, prices    *)
(* and packages only decide whether a request is refused: that a refusal may *)
(* come, and where, is all that is left of them here.                        *)
EXTENDS Integers, FiniteSets, FiniteSetsExt, Sequences, SequencesExt

CONSTANTS
  Categories, Products, VariantIds, \* BOUND on the rows
  Images,       \* names of image files
  MaxUnits,     \* BOUND on the stock that is entered
  Admins,       \* requests in flight: BOUND on concurrency
  Nobody,       \* null
  CatalogueOps  \* the endpoints that are exercised; "foreign": also for what a
                \* request says of another product's variants

ASSUME CatalogueAssumption ==
  /\ MaxUnits \in Nat
  /\ Nobody \notin Categories \cup Products \cup VariantIds
  /\ IsFiniteSet(VariantIds)

VARIABLES
  files,       \* what the storage holds
  categories, products, variants,   \* the rows
  admin        \* what each request is doing

catalogueVars == <<files, categories, products, variants, admin>>

Namespaces == {"categories", "products", "blogs"}
Url == [image: Images, at: Namespaces]
NoUrl == [image |-> Nobody, at |-> "categories"]
Urls == Url \cup {NoUrl}

RowState == {"none", "live", "deleted"}   \* no row; deletedAt null; set
CategoryRow == [state: RowState, parent: Categories \cup {Nobody}, image: Urls]
\* `primary` is Product.imageUrl.  ProductMedia repeats `images` and is left out.
ProductRow == [state: RowState, category: Categories \cup {Nobody}, stock: Int,
               images: SUBSET Url, primary: Urls]
\* A variant's imageUrl is one of its images.
VariantRow == [product: Products \cup {Nobody}, stock: Nat, isDefault: BOOLEAN, images: SUBSET Url]

NoCategory == [state |-> "none", parent |-> Nobody, image |-> NoUrl]
NoProduct == [state |-> "none", category |-> Nobody, stock |-> 0, images |-> {}, primary |-> NoUrl]
NoVariant == [product |-> Nobody, stock |-> 0, isDefault |-> FALSE, images |-> {}]

\* A variant as a form sends it; `id` of one that exists.
VariantInput == [id: VariantIds \cup {Nobody}, stock: 0..MaxUnits, isDefault: BOOLEAN,
                 images: SUBSET Url]

\* A request for a product, with what it leaves out marked.  `own`: it says
\* something of the product itself, so that the product's row is written first.
Form == [images: SUBSET Url, hasImages: BOOLEAN, primary: Urls, stock: Int,
         variants: Seq(VariantInput), hasVariants: BOOLEAN,
         category: Categories \cup {Nobody}, own: BOOLEAN]
NoForm == [images |-> {}, hasImages |-> FALSE, primary |-> NoUrl, stock |-> -1,
           variants |-> <<>>, hasVariants |-> FALSE, category |-> Nobody, own |-> FALSE]

AdminPC == {"idle",
            "cat_walk", "cat_image", "cat_create", "cat_update",
            "del_descendants", "del_products", "del_images", "del_detach", "del_categories",
            "create_images", "create_primary", "create_check", "create_variants", "create_save",
            "update_check", "update_variants", "update_images", "update_primary", "update_save",
            "update_sum", "update_commit", "remove_save", "stock_sum", "files"}

\* `form`: what is asked for, with the urls as they become; `garbage`: files to
\* delete at the end; `walk`: the ancestor to look at; `group`: rows to delete,
\* `level` those found last; `doomed`: variants that its transaction has deleted;
\* `before`: the product's images, and those its variants keep, as they were read.
Work == [pc: AdminPC, category: Categories \cup {Nobody}, parent: Categories \cup {Nobody},
         moves: BOOLEAN, walk: Categories \cup {Nobody}, image: Urls, sets: BOOLEAN,
         group: SUBSET (Categories \cup Products), level: SUBSET Categories, permanent: BOOLEAN,
         product: Products \cup {Nobody}, form: Form, before: SUBSET Url,
         kept: SUBSET Url, garbage: SUBSET Url, doomed: SUBSET VariantIds,
         units: (VariantIds \cup {Nobody}) \X (0..MaxUnits)]
NoWork == [pc |-> "idle", category |-> Nobody, parent |-> Nobody, moves |-> FALSE,
           walk |-> Nobody, image |-> NoUrl, sets |-> FALSE, group |-> {}, level |-> {},
           permanent |-> FALSE, product |-> Nobody, form |-> NoForm, before |-> {}, kept |-> {}, garbage |-> {},
           doomed |-> {}, units |-> <<Nobody, 0>>]

CatalogueTypeOK ==
  /\ files \subseteq Url
  /\ categories \in [Categories -> CategoryRow]
  /\ products \in [Products -> ProductRow]
  /\ variants \in [VariantIds -> VariantRow]
  /\ admin \in [Admins -> Work]

CatalogueInit ==
  /\ files = {}
  /\ categories = [c \in Categories |-> NoCategory]
  /\ products = [p \in Products |-> NoProduct]
  /\ variants = [v \in VariantIds |-> NoVariant]
  /\ admin = [a \in Admins |-> NoWork]

-----------------------------------------------------------------------------

At(a, pc) == admin[a].pc = pc
Become(a, work) == admin' = [admin EXCEPT ![a] = work]
Begin(a, work) == At(a, "idle") /\ Become(a, work)
Step(a, pc) == Become(a, [admin[a] EXCEPT !.pc = pc])
Finish(a) == Become(a, NoWork)

LiveCategory(c) == categories[c].state = "live"
LiveProduct(p) == products[p].state = "live"
VariantsOf(p) == {v \in VariantIds : variants[v].product = p}
\* The stock of some of the rows, or of the entries of a form.
Units(rows, S) == SumFunctionOnSet([x \in S |-> rows[x].stock], S)
UnitsOf(p) == Units(variants, VariantsOf(p))
VariantImages(p) == UNION {variants[v].images : v \in VariantsOf(p)}

\* The variants that a form gives an id of.
Named(form) == {form.variants[i].id : i \in DOMAIN form.variants} \ {Nobody}

\* The rows of variants that a transaction has written and not committed: who
\* wants to write them waits.
HeldBy(b) ==
  IF At(b, "stock_sum") THEN {admin[b].units[1]} \ {Nobody}
  ELSE IF admin[b].pc \in {"update_sum", "update_commit"} THEN admin[b].doomed \cup Named(admin[b].form)
  ELSE {}
Held == UNION {HeldBy(b) : b \in Admins}

\* A product does not go for good while one of its variants is written, or made.
Deletable(p) ==
  /\ VariantsOf(p) \cap Held = {}
  /\ \A b \in Admins : admin[b].pc \in {"update_sum", "update_commit"} => admin[b].product # p

-----------------------------------------------------------------------------
(* UploadService *)

\* uploadSingleFile: a new name each time, so no file is ever overwritten.
Upload(image, at) ==
  /\ "upload" \in CatalogueOps
  /\ \A u \in files : u.image # image
  /\ \A c \in Categories : categories[c].image.image # image
  /\ \A p \in Products : \A u \in products[p].images \cup {products[p].primary} : u.image # image
  /\ files' = files \cup {[image |-> image, at |-> at]}
  /\ UNCHANGED <<categories, products, variants, admin>>

\* relocateToNamespace: the file moves, and the answer is its new url.  When
\* there is no file under the old one, the answer is the old one.
Relocated(u, at) ==
  IF u.image # Nobody /\ u.at # at /\ u \in files THEN [u EXCEPT !.at = at] ELSE u
MoveFiles(urls, at) == files' = (files \ urls) \cup {Relocated(u, at) : u \in urls \cap files}

\* deleteFilesByUrls
DeleteFiles(urls) == files' = files \ urls

\* What a handler deletes once its rows are saved.
CleanUp(a) ==
  /\ At(a, "files")
  /\ DeleteFiles(admin[a].garbage)
  /\ Finish(a)
  /\ UNCHANGED <<categories, products, variants>>
=============================================================================
