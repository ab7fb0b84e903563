---------------------------- MODULE CategoryTree ----------------------------
(* CategoriesService of the back office.  Nothing of it runs in a            *)
(* transaction but the reordering, which changes nothing that is kept here.  *)
EXTENDS CatalogueState

Children(S) == {c \in Categories : categories[c].state # "none" /\ categories[c].parent \in S}
LiveChildren(S) == {c \in Children(S) : LiveCategory(c)}

\* POST /admin/categories
CreateCategory(a, c, parent, image) ==
  /\ "tree" \in CatalogueOps
  /\ categories[c].state = "none"
  /\ \A b \in Admins : ~(admin[b].pc \in {"cat_image", "cat_create"} /\ admin[b].category = c)
  /\ parent # Nobody => LiveCategory(parent)
  /\ Begin(a, [NoWork EXCEPT !.pc = "cat_image", !.category = c, !.parent = parent,
                             !.image = image, !.sets = TRUE])
  /\ UNCHANGED <<files, categories, products, variants>>

\* The image is moved first, for both handlers.
CategoryImage(a) ==
  LET w == admin[a] IN
  /\ At(a, "cat_image")
  /\ MoveFiles({w.image}, "categories")
  /\ Become(a, [w EXCEPT !.pc = IF categories[w.category].state = "none" THEN "cat_create" ELSE "cat_update",
                         !.image = Relocated(w.image, "categories")])
  /\ UNCHANGED <<categories, products, variants>>

\* The row refers to its parent: when that row is gone, this one is refused.
ParentExists(w) == w.parent = Nobody \/ categories[w.parent].state # "none"

CreateCategoryRow(a) ==
  LET w == admin[a] IN
  /\ At(a, "cat_create")
  /\ categories' = IF ParentExists(w)
                   THEN [categories EXCEPT ![w.category] =
                          [state |-> "live", parent |-> w.parent, image |-> w.image]]
                   ELSE categories
  /\ Finish(a)
  /\ UNCHANGED <<files, products, variants>>

-----------------------------------------------------------------------------
(* PATCH /admin/categories/:id *)

\* Mutant: the ancestors of the new parent are not looked at.
WalkNowhere(parent) == Nobody

\* The first ancestor to look at: the new parent's parent.
WalkFrom(parent) == categories[parent].parent

\* A move to another parent, a new image, or both.  `existing` is read here, and
\* with it the image that may be deleted at the end.
UpdateCategory(a, c, moves, parent, sets, image) ==
  /\ "tree" \in CatalogueOps
  /\ LiveCategory(c) /\ (moves \/ sets)
  /\ moves /\ parent # Nobody => parent # c /\ LiveCategory(parent)
  /\ Begin(a, [NoWork EXCEPT
       !.pc = "cat_walk", !.category = c, !.moves = moves, !.parent = parent,
       !.walk = IF moves /\ parent # Nobody THEN WalkFrom(parent) ELSE Nobody,
       !.sets = sets, !.image = image, !.before = {categories[c].image} \ {NoUrl}])
  /\ UNCHANGED <<files, categories, products, variants>>

\* "creates a circular category hierarchy", or the next ancestor is read.
WalkUp(a) ==
  LET w == admin[a] IN
  /\ At(a, "cat_walk")
  /\ IF w.walk = Nobody THEN Step(a, IF w.sets THEN "cat_image" ELSE "cat_update")
     ELSE IF w.walk = w.category THEN Finish(a)
     ELSE Become(a, [w EXCEPT !.walk = categories[w.walk].parent])
  /\ UNCHANGED <<files, categories, products, variants>>

\* What the request names is set.
EditedRow(w, row) == [row EXCEPT !.parent = IF w.moves THEN w.parent ELSE @,
                                 !.image = IF w.sets THEN w.image ELSE @]

\* update by id, whether or not the row is deleted by now.
UpdateCategoryRow(a) ==
  LET w == admin[a] IN
  /\ At(a, "cat_update")
  /\ IF categories[w.category].state = "none" \/ (w.moves /\ ~ParentExists(w))
     THEN UNCHANGED categories /\ Finish(a)
     ELSE /\ categories' = [categories EXCEPT ![w.category] = EditedRow(w, @)]
          /\ Become(a, [w EXCEPT !.pc = "files", !.garbage = IF w.sets THEN w.before \ {w.image} ELSE {}])
  /\ UNCHANGED <<files, products, variants>>

\* The slug that was free is taken by now.
RefuseCategory(a) ==
  /\ At(a, "cat_create") \/ At(a, "cat_update")
  /\ Finish(a)
  /\ UNCHANGED <<files, categories, products, variants>>

-----------------------------------------------------------------------------
(* DELETE /admin/categories/:id *)

DeleteCategory(a, c, permanent) ==
  /\ "delete_category" \in CatalogueOps
  /\ IF permanent THEN categories[c].state # "none" ELSE LiveCategory(c)
  /\ Begin(a, [NoWork EXCEPT !.pc = "del_descendants", !.category = c,
                             !.group = {c}, !.level = {c}, !.permanent = permanent])
  /\ UNCHANGED <<files, categories, products, variants>>

\* The categories that the next read asks for the children of: those found last.
NextLevel(found) == found

\* getDescendantCategoryIds: one read per level, and nothing is visited twice.
FindDescendants(a) ==
  LET w == admin[a]
      found == (IF w.permanent THEN Children(w.level) ELSE LiveChildren(w.level)) \ w.group
  IN
  /\ At(a, "del_descendants")
  /\ Become(a, [w EXCEPT !.pc = IF NextLevel(found) = {} THEN "del_products" ELSE @,
                         !.group = @ \cup found, !.level = NextLevel(found)])
  /\ UNCHANGED <<files, categories, products, variants>>

\* The variants of a product go with its row.
Gone(S) == [v \in VariantIds |-> IF variants[v].product \in S THEN NoVariant ELSE variants[v]]

DeleteProductsOf(a) ==
  LET w == admin[a]
      inside == {p \in Products : products[p].state # "none" /\ products[p].category \in w.group}
  IN
  /\ At(a, "del_products")
  /\ w.permanent => \A p \in inside : Deletable(p)
  /\ products' = [p \in Products |->
       IF p \notin inside THEN products[p]
       ELSE IF w.permanent THEN NoProduct ELSE [products[p] EXCEPT !.state = "deleted"]]
  /\ variants' = IF w.permanent THEN Gone(inside) ELSE variants
  /\ Step(a, "del_images")
  /\ UNCHANGED <<files, categories>>

CategoryImages(a) ==
  LET w == admin[a] IN
  /\ At(a, "del_images")
  /\ Become(a, [w EXCEPT !.pc = IF w.permanent THEN "del_detach" ELSE "del_categories",
                         !.garbage = {categories[c].image : c \in w.group \cap Categories} \ {NoUrl}])
  /\ UNCHANGED <<files, categories, products, variants>>

Detach(a) ==
  /\ At(a, "del_detach")
  /\ categories' = [c \in Categories |->
       IF c \in admin[a].group THEN [categories[c] EXCEPT !.parent = Nobody] ELSE categories[c]]
  /\ Step(a, "del_categories")
  /\ UNCHANGED <<files, products, variants>>

\* A permanent deletion takes the products that came in between along
\* (onDelete: Cascade), and leaves the subcategories that did without a parent.
DeleteCategories(a) ==
  LET w == admin[a]
      inside == {p \in Products : products[p].category \in w.group}
  IN
  /\ At(a, "del_categories")
  /\ w.permanent => \A p \in inside : Deletable(p)
  /\ IF w.permanent
     THEN /\ categories' = [c \in Categories |->
               IF c \in w.group THEN NoCategory
               ELSE IF categories[c].parent \in w.group THEN [categories[c] EXCEPT !.parent = Nobody]
               ELSE categories[c]]
          /\ products' = [p \in Products |-> IF p \in inside THEN NoProduct ELSE products[p]]
          /\ variants' = Gone(inside)
     ELSE /\ categories' = [c \in Categories |->
               IF c \in w.group /\ categories[c].state # "none"
               THEN [categories[c] EXCEPT !.state = "deleted"] ELSE categories[c]]
          /\ UNCHANGED <<products, variants>>
  /\ Step(a, "files")
  /\ UNCHANGED files

-----------------------------------------------------------------------------

\* The files that a form may name: what is stored, or was when it was opened.
Offered == files \cup {categories[c].image : c \in Categories} \cup {NoUrl}

TreeRequest(a) ==
  \E c \in Categories :
    \/ \E parent \in Categories \cup {Nobody}, image \in Offered :
         \/ CreateCategory(a, c, parent, image)
         \/ UpdateCategory(a, c, TRUE, parent, FALSE, NoUrl)
         \/ UpdateCategory(a, c, FALSE, Nobody, TRUE, image)
    \/ \E permanent \in BOOLEAN : DeleteCategory(a, c, permanent)

TreeStep(a) ==
  \/ CategoryImage(a) \/ CreateCategoryRow(a) \/ WalkUp(a) \/ UpdateCategoryRow(a)
  \/ RefuseCategory(a)
  \/ FindDescendants(a) \/ DeleteProductsOf(a) \/ CategoryImages(a) \/ Detach(a)
  \/ DeleteCategories(a)

-----------------------------------------------------------------------------
(* Properties *)

\* updateCategory: "Prevent circular hierarchy (parent cannot be a descendant of
\* this category)".
NoCircularHierarchy ==
  \A S \in (SUBSET Categories) \ {{}} : \E c \in S : categories[c].parent \notin S

\* Requests in turn: what is on sale hangs from the root by categories that are.
LiveUnderLive ==
  (\A a \in Admins : At(a, "idle")) =>
    \A c \in Categories : LiveCategory(c) =>
      categories[c].parent = Nobody \/ LiveCategory(categories[c].parent)

=============================================================================
