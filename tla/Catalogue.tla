------------------------------ MODULE Catalogue ------------------------------
(* The back office as a whole: categories and products edited side by side,  *)
(* over the same rows and the same files.                                    *)
EXTENDS CategoryTree, ProductCatalogue

CatalogueNext ==
  \/ \E a \in Admins : TreeRequest(a) \/ TreeStep(a)
  \/ ProductNext

CatalogueSpec == CatalogueInit /\ [][CatalogueNext]_catalogueVars

-----------------------------------------------------------------------------
(* Properties *)

\* Requests in turn: no product is on sale in a category that was deleted.
LiveProductsInLiveCategories ==
  QuietCatalogue => \A p \in Products : LiveProduct(p) => LiveCategory(products[p].category)
=============================================================================
