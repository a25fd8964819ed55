SPECIFICATION RecipeViewSpec
CONSTANTS
  None = None
  Recipes = {r1, r2}
  Listed = {r1, r2}
  Hasty = TRUE
  MaxStores = 4
  MaxEdits = 3
INVARIANT CatalogIsDerived
CHECK_DEADLOCK FALSE
