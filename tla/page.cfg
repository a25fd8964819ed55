SPECIFICATION PageSpec
CONSTANTS
  r1 = r1  r2 = r2  x = x  y = y  None = None
  Recipes = {r1, r2}
  Listed = {r1}
  Hasty = FALSE
  MaxStores = 3
  MaxEdits = 3
  Chars = {x, y}
  MaxLen = 3
  MaxRanges = 2
  Ids = {1, 2}
  Names = {"a", "b"}
  MaxActs = 3
  MaxServings = 3
  MaxTitles = 2
  MaxTyped = 1
  MaxScale = 2
  MaxRenders = 1
  Found = {r1, r2}
  Queries = {"s", "t"}
  Matches <- ScoresOf
  MaxTypes = 3
  Vaults = {"v", "w"}
  Created = {"w"}
  MaxLists = 2
INVARIANTS PageTypeOK LocalEditsKept CatalogFollows ViewIsText  PreviewFollowsPage FoundIsSought BooksSettle
CHECK_DEADLOCK FALSE
