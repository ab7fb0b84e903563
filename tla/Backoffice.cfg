SPECIFICATION MCSpec
CONSTANTS
  Categories = {c1, c2, c3}
  Products = {p1, p2}
  VariantIds = {v1, v2, v3}
  c1 = c1
  c2 = c2
  p1 = p1
  Slugs = {s1, s2}
  Story = story
  Visitors = {v}
  Editors = {e}
  MaxVersion = 2
  DetailsTtl = 1
  ListTtl = 1
  FeedTtl = 1
  v1 = v1
  v2 = v2
  i1 = i1
  i2 = i2
  Images = {i1, i2}
  MaxUnits = 2
  Admins = {a1, a2}
  OneAdmin = {a1}
  Nobody = Nobody
  CatalogueOps = {}
  Galleries = {}
  Primaries = {}
  Stocks = {}
  VariantLists = {}
  Shelves = {}
  Owns = {}
  Areas <- AllAreas
INVARIANTS
  TreeStandsInTurn
  OneDefaultVariantAtOnce
  StockIsDerivedInTurn
  PagesAreCurrentInTurn
PROPERTIES
  GalleryKeepsVariantsInTurn
CHECK_DEADLOCK FALSE
