------------------------------- MODULE MCPage ---------------------------------
(* The parts of the page that share no state, side by side in one instance:  *)
(* an initial state chooses a part, and its steps are those of that part.    *)
EXTENDS RecipeView, TextBridge, Ingredients, LinkedRecipes, SearchBox,
        Shelf, TLC

CONSTANTS r1, r2, x, y

VARIABLE part

ScoresOf == [q \in Queries |-> IF q = "s" THEN Found ELSE {}]

pageVars == <<part, viewVars, bridgeVars, ingredientVars, linkedVars, searchVars, shelfVars>>

PageInit ==
  /\ part \in {"recipe", "editor", "ingredients", "linked", "search", "shelf"}
  /\ RecipeViewInit /\ BridgeInit /\ IngredientsInit /\ LinkedInit /\ SearchInit /\ ShelfInit

PageNext ==
  /\ UNCHANGED part
  /\ \/ part = "recipe" /\ RecipeViewNext
     \/ part # "recipe" /\ UNCHANGED viewVars
  /\ \/ part = "editor" /\ BridgeNext
     \/ part # "editor" /\ UNCHANGED bridgeVars
  /\ \/ part = "ingredients" /\ IngredientsNext
     \/ part # "ingredients" /\ UNCHANGED ingredientVars
  /\ \/ part = "linked" /\ LinkedNext
     \/ part # "linked" /\ UNCHANGED linkedVars
  /\ \/ part = "search" /\ SearchNext
     \/ part # "search" /\ UNCHANGED searchVars
  /\ \/ part = "shelf" /\ ShelfNext
     \/ part # "shelf" /\ UNCHANGED shelfVars

PageSpec == PageInit /\ [][PageNext]_pageVars

(* The types of every part, with what else each module's own says.           *)
PageTypeOK ==
  /\ RecipeViewTypeOK /\ BridgeTypeOK /\ IngredientsTypeOK /\ LinkedTypeOK /\ SearchTypeOK /\ ShelfTypeOK
===============================================================================
