------------------------------- MODULE SearchBox -------------------------------
(***************************************************************************)
(* The search box: its text, its dropdown (views/recipe-list.ts), and the  *)
(* hybrid search by vectors or by fzf (lib/search.ts, vector-search.ts,    *)
(* embedding-worker.ts) over an index of recipes.                          *)
(*                                                                         *)
(* Scoring is left out: a text finds every recipe it Matches.  A search by *)
(* vectors ranks the recipes that were embedded and is answered later, in  *)
(* any order; entries are looked up in the index when it answers.          *)
(***************************************************************************)
EXTENDS Naturals, FiniteSets

CONSTANTS
  Found,     \* the recipes
  Queries,   \* texts to search for
  Matches,   \* per text: the recipes fzf scores above zero
  MaxTypes   \* bound: changes of the search text

ASSUME SearchAssumption ==
  "" \notin Queries /\ Matches \in [Queries -> SUBSET Found] /\ MaxTypes \in Nat

VARIABLES
  query, timer,   \* currentSearch; the 80 ms timer is armed
  waiting,        \* texts whose vector search is under way
  dropdown,       \* NoDropdown, or the text and the recipes shown
  indexed,        \* recipes in the search index
  embedded,       \* recipes with an embedding in the worker
  model,          \* the model is loaded
  opened,         \* a recipe chosen from the dropdown, and the text it was found for
  types           \* changes of the text so far

searchVars == <<query, timer, waiting, dropdown, indexed, embedded, model, opened, types>>

NoDropdown == [for |-> "", hits |-> {}]

SearchInit ==
  /\ query = "" /\ timer = FALSE /\ waiting = {} /\ dropdown = NoDropdown
  /\ indexed = Found /\ embedded = {} /\ model = FALSE /\ opened = NoDropdown /\ types = 0

(* search: fzf over the index.                                             *)
Search(t) == Matches[t] \cap indexed

(* hybridSearch when the worker has answered, or failed: fzf when it has   *)
(* no hit.                                                                 *)
HybridSearch(t, fails) == IF fails \/ embedded = {} THEN Search(t) ELSE embedded \cap indexed

Shows(t, hits) == dropdown' = [for |-> t, hits |-> hits]

(* Variant: every answer is shown.                                         *)
Answered_Any(t, hits) == Shows(t, hits)

(* An answer for another text than the current one is dropped.             *)
Answered(t, hits) == IF t = query THEN Shows(t, hits) ELSE UNCHANGED dropdown

(* renderSearchDropdown.                                                   *)
RenderSearchDropdown ==
  IF query = "" THEN dropdown' = NoDropdown /\ UNCHANGED waiting
  ELSE IF model THEN waiting' = waiting \cup {query} /\ UNCHANGED dropdown
  ELSE Answered(query, Search(query)) /\ UNCHANGED waiting

TypeText(t) ==
  /\ types < MaxTypes /\ types' = types + 1 /\ query' = t /\ timer' = TRUE
  /\ UNCHANGED <<waiting, dropdown, indexed, embedded, model, opened>>

SearchTimer ==
  /\ timer /\ timer' = FALSE /\ RenderSearchDropdown
  /\ UNCHANGED <<query, indexed, embedded, model, opened, types>>

FocusSearch ==
  /\ query # "" /\ RenderSearchDropdown
  /\ UNCHANGED <<query, timer, indexed, embedded, model, opened, types>>

(* The worker answers a search, or an error of it does.                    *)
WorkerAnswers(t, fails) ==
  /\ t \in waiting /\ waiting' = waiting \ {t} /\ Answered(t, HybridSearch(t, fails))
  /\ UNCHANGED <<query, timer, indexed, embedded, model, opened, types>>

(* Escape, or a click elsewhere.                                           *)
Dismiss ==
  /\ dropdown # NoDropdown /\ dropdown' = NoDropdown
  /\ UNCHANGED <<query, timer, waiting, indexed, embedded, model, opened, types>>

(* Enter, or a click on an item: the box is emptied.                       *)
ChooseHit(r) ==
  /\ r \in dropdown.hits /\ opened' = [for |-> dropdown.for, hits |-> {r}]
  /\ query' = "" /\ dropdown' = NoDropdown
  /\ UNCHANGED <<timer, waiting, indexed, embedded, model, types>>

(* A recipe comes or goes.                                                 *)
Reindex(r) ==
  /\ indexed' \in {indexed \cup {r}, indexed \ {r}}
  /\ UNCHANGED <<query, timer, waiting, dropdown, embedded, model, opened, types>>

ModelReady ==
  /\ ~model /\ model' = TRUE
  /\ UNCHANGED <<query, timer, waiting, dropdown, indexed, embedded, opened, types>>

EmbedRecipe(r) ==
  /\ model /\ embedded' = embedded \cup {r}
  /\ UNCHANGED <<query, timer, waiting, dropdown, indexed, model, opened, types>>

SearchNext ==
  \/ SearchTimer \/ FocusSearch \/ Dismiss \/ ModelReady
  \/ \E t \in Queries \cup {""} : TypeText(t)
  \/ \E t \in Queries, fails \in BOOLEAN : WorkerAnswers(t, fails)
  \/ \E r \in Found : ChooseHit(r) \/ Reindex(r) \/ EmbedRecipe(r)

SearchSpec == SearchInit /\ [][SearchNext]_searchVars

-----------------------------------------------------------------------------
SearchTypeOK ==
  /\ query \in Queries \cup {""} /\ waiting \subseteq Queries
  /\ dropdown.hits \subseteq Found /\ (waiting # {} => model)

(* What the dropdown shows was found for the text in the box, whatever     *)
(* order the searches answer in, unless this text is still to be searched  *)
(* for: an earlier, slower search never replaces a later one.              *)
FoundIsSought == dropdown # NoDropdown => dropdown.for = query \/ timer \/ query \in waiting
=============================================================================
