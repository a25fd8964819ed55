------------------------------ MODULE PageProofs ------------------------------
(***************************************************************************)
(* Proofs about the parts of the page.                                     *)
(***************************************************************************)
EXTENDS MCPage, Extrema, SequenceTheorems, FiniteSetTheorems, TLAPS

-----------------------------------------------------------------------------
(* SearchBox.                                                              *)

Dropdowns == [for : Queries \cup {""}, hits : SUBSET Found]

(* What SearchTypeOK rests on: an index and embeddings of recipes only.    *)
SearchInv ==
  /\ SearchTypeOK
  /\ indexed \subseteq Found /\ dropdown \in Dropdowns
  /\ model \in BOOLEAN

(* A search, by either way, finds recipes.                                 *)
LEMMA SearchFinds ==
  ASSUME SearchInv, NEW t \in Queries, NEW fails \in BOOLEAN
  PROVE  Search(t) \subseteq Found /\ HybridSearch(t, fails) \subseteq Found
<1>1. Matches[t] \subseteq Found  BY SearchAssumption
<1>2. Search(t) \subseteq Found  BY <1>1 DEF Search
<1>3. embedded \cap indexed \subseteq Found  BY DEF SearchInv
<1> QED  BY <1>2, <1>3, Zenon DEF HybridSearch

LEMMA AnsweredType ==
  ASSUME SearchInv, NEW t \in Queries, NEW hits \in SUBSET Found, Answered(t, hits)
  PROVE  dropdown' \in Dropdowns
<1>1. [for |-> t, hits |-> hits] \in Dropdowns  BY DEF Dropdowns
<1>2. dropdown \in Dropdowns  BY DEF SearchInv
<1> QED  BY <1>1, <1>2 DEF Answered, Shows

LEMMA RenderType ==
  ASSUME SearchInv, RenderSearchDropdown
  PROVE  /\ dropdown' \in Dropdowns /\ waiting' \subseteq Queries
         /\ waiting' # {} => model
<1>1. query \in Queries \cup {""} /\ waiting \subseteq Queries /\ (waiting # {} => model)
  BY DEF SearchInv, SearchTypeOK
<1>2. CASE query = ""
  <2>1. dropdown' = NoDropdown /\ waiting' = waiting  BY <1>2 DEF RenderSearchDropdown
  <2> QED  BY <1>1, <2>1 DEF NoDropdown, Dropdowns
<1>3. CASE query # "" /\ model
  <2>1. waiting' = waiting \cup {query} /\ dropdown' = dropdown
    BY <1>3 DEF RenderSearchDropdown
  <2> QED  BY <1>1, <1>3, <2>1 DEF SearchInv
<1>4. CASE query # "" /\ ~model
  <2>1. Answered(query, Search(query)) /\ waiting' = waiting
    BY <1>4 DEF RenderSearchDropdown
  <2>2. dropdown' \in Dropdowns  BY <1>1, <1>4, <2>1, SearchFinds, AnsweredType
  <2> QED  BY <1>1, <2>1, <2>2
<1> QED  BY <1>2, <1>3, <1>4

LEMMA SearchInvStep == ASSUME SearchInv, [SearchNext]_searchVars PROVE SearchInv'
<1>0. CASE UNCHANGED searchVars
  BY <1>0 DEF searchVars, SearchInv, SearchTypeOK, Dropdowns
<1>1. CASE SearchTimer
  <2>1. RenderSearchDropdown  BY <1>1 DEF SearchTimer
  <2>2. dropdown' \in Dropdowns /\ waiting' \subseteq Queries /\ (waiting' # {} => model)
    BY <2>1, RenderType
  <2> QED  BY <1>1, <2>2 DEF SearchTimer, SearchInv, SearchTypeOK, Dropdowns
<1>2. CASE FocusSearch
  <2>1. RenderSearchDropdown  BY <1>2 DEF FocusSearch
  <2>2. dropdown' \in Dropdowns /\ waiting' \subseteq Queries /\ (waiting' # {} => model)
    BY <2>1, RenderType
  <2> QED  BY <1>2, <2>2 DEF FocusSearch, SearchInv, SearchTypeOK, Dropdowns
<1>3. CASE Dismiss
  BY <1>3 DEF Dismiss, SearchInv, SearchTypeOK, Dropdowns, NoDropdown
<1>4. CASE ModelReady
  BY <1>4 DEF ModelReady, SearchInv, SearchTypeOK, Dropdowns
<1>5. ASSUME NEW t \in Queries \cup {""}, TypeText(t) PROVE SearchInv'
  BY <1>5 DEF TypeText, SearchInv, SearchTypeOK, Dropdowns
<1>6. ASSUME NEW t \in Queries, NEW fails \in BOOLEAN, WorkerAnswers(t, fails)
      PROVE  SearchInv'
  <2>1. Answered(t, HybridSearch(t, fails))  BY <1>6 DEF WorkerAnswers
  <2>2. dropdown' \in Dropdowns  BY <2>1, SearchFinds, AnsweredType
  <2> QED  BY <1>6, <2>2 DEF WorkerAnswers, SearchInv, SearchTypeOK, Dropdowns
<1>7. ASSUME NEW r \in Found, ChooseHit(r) PROVE SearchInv'
  BY <1>7 DEF ChooseHit, SearchInv, SearchTypeOK, Dropdowns, NoDropdown
<1>8. ASSUME NEW r \in Found, Reindex(r) PROVE SearchInv'
  BY <1>8 DEF Reindex, SearchInv, SearchTypeOK, Dropdowns
<1>9. ASSUME NEW r \in Found, EmbedRecipe(r) PROVE SearchInv'
  BY <1>9 DEF EmbedRecipe, SearchInv, SearchTypeOK, Dropdowns
<1> QED
  BY <1>0, <1>1, <1>2, <1>3, <1>4, <1>5, <1>6, <1>7, <1>8, <1>9 DEF SearchNext

LEMMA SearchStart == SearchInit => SearchInv
<1>1. NoDropdown \in Dropdowns  BY DEF Dropdowns, NoDropdown
<1>2. NoDropdown.hits = {}  BY DEF NoDropdown
<1> QED  BY <1>1, <1>2 DEF SearchInit, SearchInv, SearchTypeOK

(* SearchBox keeps its types; only a loaded model is ever asked.           *)
THEOREM SearchTypeCorrect == SearchSpec => []SearchTypeOK
<1>1. SearchInit => SearchInv  BY SearchStart
<1>2. SearchInv /\ [SearchNext]_searchVars => SearchInv'  BY SearchInvStep
<1>3. SearchInv => SearchTypeOK  BY DEF SearchInv
<1> QED  BY <1>1, <1>2, <1>3, PTL DEF SearchSpec

LEMMA AnsweredIsSought ==
  ASSUME NEW t, NEW hits, Answered(t, hits)
  PROVE  UNCHANGED dropdown \/ (t = query /\ dropdown'.for = query)
BY DEF Answered, Shows

(* views/recipe-list.ts: the dropdown shows what was found for the text in *)
(* the box, unless that text is still to be searched for, in whatever      *)
(* order the worker answers.  Inductive as it stands: what takes a text    *)
(* out of "waiting" shows its answer.                                      *)
THEOREM FoundIsSoughtAlways == SearchSpec => []FoundIsSought
<1>1. SearchInit => FoundIsSought  BY DEF SearchInit, FoundIsSought
<1>2. ASSUME FoundIsSought, [SearchNext]_searchVars PROVE FoundIsSought'
  <2>1. ASSUME RenderSearchDropdown, query' = query PROVE FoundIsSought'
    <3>1. CASE query = ""  BY <2>1, <3>1 DEF RenderSearchDropdown, FoundIsSought
    <3>2. CASE query # "" /\ model
      <4>1. query' \in waiting'  BY <2>1, <3>2 DEF RenderSearchDropdown
      <4> QED  BY <4>1 DEF FoundIsSought
    <3>3. CASE query # "" /\ ~model
      <4>1. Shows(query, Search(query))
        BY <2>1, <3>3 DEF RenderSearchDropdown, Answered
      <4>2. dropdown'.for = query'  BY <2>1, <4>1 DEF Shows
      <4> QED  BY <4>2 DEF FoundIsSought
    <3> QED  BY <3>1, <3>2, <3>3
  <2>2. CASE SearchTimer  BY <2>1, <2>2 DEF SearchTimer
  <2>3. CASE FocusSearch  BY <2>1, <2>3 DEF FocusSearch
  <2>4. ASSUME NEW t \in Queries, NEW fails \in BOOLEAN, WorkerAnswers(t, fails)
        PROVE  FoundIsSought'
    <3>1. waiting' = waiting \ {t} /\ query' = query /\ timer' = timer
          /\ Answered(t, HybridSearch(t, fails))
      BY <2>4 DEF WorkerAnswers
    <3>2. CASE t = query
      <4>1. dropdown'.for = query'  BY <3>1, <3>2 DEF Answered, Shows
      <4> QED  BY <4>1 DEF FoundIsSought
    <3>3. CASE t # query
      <4>1. dropdown' = dropdown  BY <3>1, <3>3 DEF Answered
      <4> QED  BY <1>2, <3>1, <3>3, <4>1 DEF FoundIsSought
    <3> QED  BY <3>2, <3>3
  <2>5. ASSUME NEW t \in Queries \cup {""}, TypeText(t) PROVE FoundIsSought'
    BY <2>5 DEF TypeText, FoundIsSought
  <2>6. CASE Dismiss \/ \E r \in Found : ChooseHit(r)
    BY <2>6 DEF Dismiss, ChooseHit, FoundIsSought
  <2>7. CASE ModelReady \/ \E r \in Found : Reindex(r) \/ EmbedRecipe(r)
    <3>1. UNCHANGED <<query, timer, waiting, dropdown>>
      BY <2>7 DEF ModelReady, Reindex, EmbedRecipe
    <3> QED  BY <1>2, <3>1 DEF FoundIsSought
  <2>8. CASE UNCHANGED searchVars  BY <1>2, <2>8 DEF searchVars, FoundIsSought
  <2> QED  BY <1>2, <2>2, <2>3, <2>4, <2>5, <2>6, <2>7, <2>8 DEF SearchNext
<1> QED  BY <1>1, <1>2, PTL DEF SearchSpec

-----------------------------------------------------------------------------
(* LinkedRecipes: the preview.                                             *)

ScaleSet == 1..MaxScale
UnitSet == {Original, "metric", "imperial"}
OverSet == {Original, "unit", "density"}
AmountSet == [scale : ScaleSet, units : UnitSet]
SettingSet == [scale : ScaleSet, units : UnitSet, over : OverSet]
PreviewSet == [scale : ScaleSet, units : UnitSet, over : OverSet, meta : ScaleSet,
               list : SettingSet, text : SettingSet]

(* A preview whose head, list and text show one state, and one that shows  *)
(* the page's amounts.                                                     *)
Consistent(p) == p \in PreviewSet /\ p.list = Settings(p) /\ p.text = Settings(p) /\ p.meta = p.scale
Follows(p, a) == p.scale = a.scale /\ p.units = a.units

(* PreviewFollowsPage with the types it needs; that there is one preview   *)
(* at most is part of LinkedTypeOK.                                        *)
PreviewInv ==
  /\ amounts \in AmountSet /\ mode \in {"closed", "viewing", "editing"}
  /\ card \in {"none", "folded", "opening", "failed", "live"}
  /\ previews # {} <=> card = "live"
  /\ listeners = IF card = "live" THEN {TRUE} ELSE {}
  /\ picker => card = "live"
  /\ \A p, q \in previews : p = q
  /\ \A p \in previews : Consistent(p) /\ (mode = "viewing" => Follows(p, amounts))

LEMMA SettingsType ==
  ASSUME NEW p \in PreviewSet PROVE Settings(p) \in SettingSet
BY DEF Settings, PreviewSet, SettingSet

LEMMA NewPreviewFollows ==
  ASSUME NEW a \in AmountSet
  PROVE  Consistent(NewPreview(a)) /\ Follows(NewPreview(a), a)
<1> DEFINE s == [scale |-> a.scale, units |-> a.units, over |-> Original]
           p == NewPreview(a)
<1>1. s \in SettingSet  BY DEF SettingSet, AmountSet, OverSet
<1>2. p = [scale |-> a.scale, units |-> a.units, over |-> Original, meta |-> a.scale,
           list |-> s, text |-> s]
  BY DEF NewPreview
<1>3. p \in PreviewSet
  <2> HIDE DEF s
  <2> QED  BY <1>1, <1>2 DEF PreviewSet, AmountSet, OverSet
<1>4. Settings(p) = s  BY <1>2 DEF Settings
<1> QED  BY <1>2, <1>3, <1>4 DEF Consistent, Follows

(* What Amounts and PreviewRendered do to a preview whose state is set.    *)
LEMMA AmountsShow ==
  ASSUME NEW p \in PreviewSet
  PROVE  LET q == Amounts(p)
         IN  /\ q \in PreviewSet /\ q.scale = p.scale /\ q.units = p.units /\ q.meta = p.meta
             /\ q.list = Settings(q) /\ q.text = Settings(q)
<1> DEFINE q == Amounts(p)
<1>1. Settings(p) \in SettingSet  BY SettingsType
<1>2. q = [p EXCEPT !.list = Settings(p), !.text = Settings(p)]  BY DEF Amounts
<1>3. /\ q \in PreviewSet /\ q.scale = p.scale /\ q.units = p.units /\ q.over = p.over
      /\ q.meta = p.meta /\ q.list = Settings(p) /\ q.text = Settings(p)
  BY <1>1, <1>2 DEF PreviewSet
<1>4. Settings(q) = Settings(p)  BY <1>3 DEF Settings
<1> QED  BY <1>3, <1>4

LEMMA SetScaleShows ==
  ASSUME NEW p, Consistent(p), NEW n \in ScaleSet
  PROVE  Consistent(SetScale(p, n)) /\ SetScale(p, n).scale = n /\ SetScale(p, n).units = p.units
<1>1. CASE p.scale = n  BY <1>1 DEF SetScale
<1>2. CASE p.scale # n
  <2> DEFINE q == [p EXCEPT !.scale = n]
             r == [q EXCEPT !.meta = q.scale, !.list = Settings(q), !.text = Settings(q)]
  <2>1. q \in PreviewSet /\ q.scale = n /\ q.units = p.units
    BY DEF Consistent, PreviewSet
  <2>2. Settings(q) \in SettingSet  BY <2>1, SettingsType
  <2>3. SetScale(p, n) = r  BY <1>2 DEF SetScale, PreviewRendered
  <2> HIDE DEF q
  <2>4. /\ r \in PreviewSet /\ r.scale = q.scale /\ r.units = q.units /\ r.over = q.over
        /\ r.meta = q.scale /\ r.list = Settings(q) /\ r.text = Settings(q)
    BY <2>1, <2>2 DEF PreviewSet
  <2>5. Settings(r) = Settings(q)  BY <2>4 DEF Settings
  <2> QED  BY <2>1, <2>3, <2>4, <2>5 DEF Consistent
<1> QED  BY <1>1, <1>2

LEMMA SetUnitsShows ==
  ASSUME NEW p, Consistent(p), NEW u \in UnitSet
  PROVE  Consistent(SetUnits(p, u)) /\ SetUnits(p, u).units = u /\ SetUnits(p, u).scale = p.scale
<1>1. CASE p.units = u  BY <1>1 DEF SetUnits
<1>2. CASE p.units # u
  <2> DEFINE q == [p EXCEPT !.units = u, !.over = Original]
  <2>1. q \in PreviewSet /\ q.scale = p.scale /\ q.units = u /\ q.meta = p.meta
    BY DEF Consistent, PreviewSet, OverSet
  <2>2. SetUnits(p, u) = Amounts(q)  BY <1>2 DEF SetUnits
  <2> HIDE DEF q
  <2> QED  BY <2>1, <2>2, AmountsShow DEF Consistent
<1> QED  BY <1>1, <1>2

LEMMA ChooseUnitShows ==
  ASSUME NEW p, Consistent(p), NEW u \in OverSet
  PROVE  Consistent(ChooseUnit(p, u)) /\ ChooseUnit(p, u).scale = p.scale /\ ChooseUnit(p, u).units = p.units
<1> DEFINE q == [p EXCEPT !.over = u]
<1>1. q \in PreviewSet /\ q.scale = p.scale /\ q.units = p.units /\ q.meta = p.meta
  BY DEF Consistent, PreviewSet
<1>2. ChooseUnit(p, u) = Amounts(q)  BY DEF ChooseUnit
<1> HIDE DEF q
<1> QED  BY <1>1, <1>2, AmountsShow DEF Consistent

(* A preview set to the page's scale of 1 before keeps its head.           *)
LEMMA ResetStateShows ==
  ASSUME NEW p, Consistent(p), p.scale = 1
  PROVE  Consistent(ResetState(p)) /\ ResetState(p).scale = 1 /\ ResetState(p).units = Original
<1> DEFINE q == [p EXCEPT !.over = Original, !.scale = 1, !.units = Original]
<1>1. 1 \in ScaleSet  BY DEF Consistent, PreviewSet
<1>2. q \in PreviewSet /\ q.scale = 1 /\ q.units = Original /\ q.meta = p.meta
  BY <1>1 DEF Consistent, PreviewSet, OverSet, UnitSet
<1>3. ResetState(p) = Amounts(q)  BY DEF ResetState
<1> HIDE DEF q
<1> QED  BY <1>2, <1>3, AmountsShow DEF Consistent

LEMMA UpdateFollows ==
  ASSUME PreviewInv, NEW a \in AmountSet
  PROVE  /\ \A q \in UpdateLinkedPreviewState(a) : Consistent(q) /\ Follows(q, a)
         /\ UpdateLinkedPreviewState(a) # {} <=> previews # {}
         /\ \A q, r \in UpdateLinkedPreviewState(a) : q = r
<1>1. a.scale \in ScaleSet /\ a.units \in UnitSet  BY DEF AmountSet
<1>2. ASSUME NEW p \in previews
      PROVE  LET q == SetUnits(SetScale(p, a.scale), a.units)
             IN  Consistent(q) /\ Follows(q, a)
  <2>1. Consistent(p)  BY DEF PreviewInv
  <2>2. Consistent(SetScale(p, a.scale)) /\ SetScale(p, a.scale).scale = a.scale
    BY <1>1, <2>1, SetScaleShows
  <2> QED  BY <1>1, <2>2, SetUnitsShows DEF Follows
<1>3. \A p, q \in previews : p = q  BY DEF PreviewInv
<1> QED  BY <1>2, <1>3 DEF UpdateLinkedPreviewState

(* The section is rendered anew, or left.                                  *)
LEMMA BumpedKeeps ==
  ASSUME NEW c \in {"none", "folded"}, Bumped(c), amounts' \in AmountSet,
         mode' \in {"closed", "viewing", "editing"}
  PROVE  PreviewInv'
BY DEF Bumped, PreviewInv

LEMMA RenderKeeps ==
  ASSUME NEW t, Render(t), amounts' \in AmountSet, mode' \in {"closed", "viewing", "editing"}
  PROVE  PreviewInv'
BY BumpedKeeps DEF Render, RenderLinkedRecipes

LEMMA PreviewUntouched ==
  ASSUME PreviewInv, UNCHANGED <<mode, amounts, card, previews, listeners, picker>>
  PROVE  PreviewInv'
BY DEF PreviewInv

LEMMA CatalogChangeKeeps ==
  ASSUME PreviewInv, NEW entry, CatalogChange(entry) PROVE PreviewInv'
<1>1. PICK t : OnCatalogChanged(t)  BY DEF CatalogChange
<1>2. UNCHANGED <<mode, amounts>>  BY <1>1 DEF OnCatalogChanged
<1>3. CASE mode = "viewing"
  <2>1. Render(t)  BY <1>1, <1>3 DEF OnCatalogChanged
  <2> QED  BY <1>2, <2>1, RenderKeeps DEF PreviewInv
<1>4. CASE mode # "viewing"
  BY <1>1, <1>2, <1>4, PreviewUntouched DEF OnCatalogChanged
<1> QED  BY <1>3, <1>4

LEMMA PreviewStep == ASSUME PreviewInv, [LinkedNext]_linkedVars PROVE PreviewInv'
<1> USE LinkedAssumption
<1>0. CASE UNCHANGED linkedVars  BY <1>0, PreviewUntouched DEF linkedVars
<1>1. CASE OpenRecipe
  <2>1. amounts' \in AmountSet /\ mode' = "viewing"
    BY <1>1 DEF OpenRecipe, PreviewInv, AmountSet, ScaleSet
  <2> QED  BY <1>1, <2>1, RenderKeeps DEF OpenRecipe
<1>2. CASE CloseRecipe
  <2>1. amounts' \in AmountSet /\ mode' = "closed" /\ Bumped("none")
    BY <1>2 DEF CloseRecipe, PreviewInv, AmountSet, ScaleSet
  <2> QED  BY <2>1, BumpedKeeps
<1>3. CASE SetPageEditing
  <2>1. CASE mode = "viewing"
    <3>1. amounts' \in AmountSet /\ mode' = "editing"
      BY <1>3, <2>1 DEF SetPageEditing, PreviewInv, AmountSet, ScaleSet
    <3>2. UNCHANGED <<card, previews, listeners, picker>>
      BY <1>3, <2>1 DEF SetPageEditing
    <3> QED  BY <3>1, <3>2 DEF PreviewInv
  <2>2. CASE mode = "editing"
    <3>1. Render(Title("here")) /\ amounts' = amounts /\ mode' = "viewing"
      BY <1>3, <2>2 DEF SetPageEditing
    <3> QED  BY <3>1, RenderKeeps DEF PreviewInv
  <2> QED  BY <1>3, <2>1, <2>2 DEF SetPageEditing
<1>4. CASE DeleteLinked  BY <1>4, CatalogChangeKeeps DEF DeleteLinked
<1>5. ASSUME NEW s \in Sides, RenameLinked(s) PROVE PreviewInv'
  <2>1. CASE s = "here"
    BY <1>5, <2>1, CatalogChangeKeeps DEF RenameLinked
  <2>2. CASE s # "here"
    <3>1. UNCHANGED uiVars  BY <1>5, <2>2 DEF RenameLinked
    <3> QED  BY <3>1, PreviewUntouched DEF uiVars
  <2> QED  BY <2>1, <2>2
<1>6. ASSUME NEW s \in Sides, TypeLine(s) PROVE PreviewInv'
  <2>1. UNCHANGED uiVars  BY <1>6 DEF TypeLine
  <2> QED  BY <2>1, PreviewUntouched DEF uiVars
<1>7. ASSUME NEW s \in Sides, SyncCatalog(s) PROVE PreviewInv'
  <2>1. CASE s = "here"
    BY <1>7, <2>1, CatalogChangeKeeps DEF SyncCatalog
  <2>2. CASE s # "here"
    <3>1. UNCHANGED uiVars  BY <1>7, <2>2 DEF SyncCatalog
    <3> QED  BY <3>1, PreviewUntouched DEF uiVars
  <2> QED  BY <2>1, <2>2
<1>8. ASSUME NEW s \in Sides, SyncRecipe(s) PROVE PreviewInv'
  <2>1. UNCHANGED <<mode, amounts>>  BY <1>8 DEF SyncRecipe
  <2>2. Render(Title("here")) \/ UNCHANGED <<label, card, stale, previews, listeners, picker>>
    BY <1>8 DEF SyncRecipe
  <2>3. CASE Render(Title("here"))  BY <2>1, <2>3, RenderKeeps DEF PreviewInv
  <2>4. CASE UNCHANGED <<label, card, stale, previews, listeners, picker>>
    BY <2>1, <2>4, PreviewUntouched
  <2> QED  BY <2>2, <2>3, <2>4
<1>9. CASE Toggle \/ OpenFails
  <2>1. UNCHANGED <<mode, amounts, previews, listeners, picker>> /\ card # "live"
        /\ card' \in {"opening", "failed"}
    BY <1>9 DEF Toggle, OpenFails
  <2> QED  BY <2>1 DEF PreviewInv
<1>10. CASE LinkedOpened
  <2>1. UNCHANGED <<mode, amounts, picker>>  BY <1>10 DEF LinkedOpened
  <2>2. CASE UNCHANGED <<card, listeners, previews>>  BY <2>1, <2>2, PreviewUntouched
  <2>3. CASE /\ card = "opening" /\ card' = "live" /\ listeners' = listeners \cup {TRUE}
             /\ previews' = previews \cup {NewPreview(amounts)}
    <3>1. previews' = {NewPreview(amounts)} /\ listeners' = {TRUE}
      BY <2>3 DEF PreviewInv
    <3>2. Consistent(NewPreview(amounts)) /\ Follows(NewPreview(amounts), amounts)
      BY NewPreviewFollows DEF PreviewInv
    <3>3. \A p \in previews' : p = NewPreview(amounts)  BY <3>1
    <3>4. \A p \in previews' : Consistent(p) /\ Follows(p, amounts)  BY <3>2, <3>3
    <3> QED  BY <2>1, <2>3, <3>1, <3>3, <3>4 DEF PreviewInv
  <2> QED  BY <1>10, <2>2, <2>3 DEF LinkedOpened
<1>11. ASSUME amounts' \in AmountSet, UNCHANGED <<mode, card, listeners, picker>>,
              \A q \in previews' : Consistent(q) /\ Follows(q, amounts'),
              previews' # {} <=> previews # {}, \A q, r \in previews' : q = r
       PROVE  PreviewInv'
  BY <1>11 DEF PreviewInv
<1>12. ASSUME NEW n \in 1..MaxScale, ScalePage(n) PROVE PreviewInv'
  <2>1. amounts' \in AmountSet  BY <1>12 DEF ScalePage, PreviewInv, AmountSet, ScaleSet
  <2>2. previews' = UpdateLinkedPreviewState(amounts')
        /\ UNCHANGED <<mode, card, listeners, picker>>
    BY <1>12 DEF ScalePage
  <2> QED  BY <1>11, <2>1, <2>2, UpdateFollows
<1>13. CASE CyclePageUnits
  <2>1. amounts' \in AmountSet
    <3>1. PICK i \in 1..3 : amounts' = [amounts EXCEPT !.units = UnitSystems[(i % 3) + 1]]
      BY <1>13 DEF CyclePageUnits
    <3>2. (i % 3) + 1 \in 1..3  OBVIOUS
    <3>3. \A k \in 1..3 : UnitSystems[k] \in UnitSet  BY DEF UnitSystems, UnitSet
    <3> QED  BY <3>1, <3>2, <3>3 DEF PreviewInv, AmountSet
  <2>2. previews' = UpdateLinkedPreviewState(amounts')
        /\ UNCHANGED <<mode, card, listeners, picker>>
    BY <1>13 DEF CyclePageUnits
  <2> QED  BY <1>11, <2>1, <2>2, UpdateFollows
<1>14. CASE ResetPageScale
  <2> DEFINE P == UpdateLinkedPreviewState(amounts')
  <2>1. amounts' = [scale |-> 1, units |-> Original] /\ amounts' \in AmountSet
    BY <1>14 DEF ResetPageScale, AmountSet, ScaleSet, UnitSet
  <2>2. previews' = {ResetState(p) : p \in P} /\ UNCHANGED <<mode, card, listeners, picker>>
    BY <1>14 DEF ResetPageScale
  <2>3. /\ \A q \in P : Consistent(q) /\ Follows(q, amounts')
        /\ P # {} <=> previews # {}
        /\ \A q, r \in P : q = r
    BY <2>1, UpdateFollows
  <2> HIDE DEF P
  <2>4. \A p \in P : Consistent(ResetState(p)) /\ Follows(ResetState(p), amounts')
    BY <2>1, <2>3, ResetStateShows DEF Follows
  <2>5. \A q \in previews' : Consistent(q) /\ Follows(q, amounts')  BY <2>2, <2>4
  <2>6. (previews' # {} <=> previews # {}) /\ \A q, r \in previews' : q = r
    BY <2>2, <2>3
  <2> QED  BY <1>11, <2>1, <2>2, <2>5, <2>6
<1>15. CASE ShowUnitPicker \/ ClosePicker
  <2>1. UNCHANGED <<mode, amounts, card, previews, listeners>>
        /\ (picker' => previews # {})
    BY <1>15 DEF ShowUnitPicker, ClosePicker
  <2> QED  BY <2>1 DEF PreviewInv
<1>16. ASSUME NEW u \in OverSet, PickUnitOfPreview(u) PROVE PreviewInv'
  <2>1. previews' = {ChooseUnit(p, u) : p \in previews}
        /\ UNCHANGED <<mode, amounts, card, listeners>> /\ ~picker'
    BY <1>16 DEF PickUnitOfPreview
  <2>2. \A p \in previews : Consistent(ChooseUnit(p, u))
                            /\ (mode = "viewing" => Follows(ChooseUnit(p, u), amounts))
    BY ChooseUnitShows DEF PreviewInv, Follows
  <2>3. (previews' # {} <=> previews # {}) /\ \A q, r \in previews' : q = r
    BY <2>1 DEF PreviewInv
  <2>4. \A q \in previews' : Consistent(q) /\ (mode = "viewing" => Follows(q, amounts))
    BY <2>1, <2>2
  <2> QED  BY <2>1, <2>3, <2>4 DEF PreviewInv
<1> QED
  BY <1>0, <1>1, <1>2, <1>3, <1>4, <1>5, <1>6, <1>7, <1>8, <1>9, <1>10, <1>12,
     <1>13, <1>14, <1>15, <1>16 DEF LinkedNext, OverSet

LEMMA PreviewInit == LinkedInit => PreviewInv
BY LinkedAssumption DEF LinkedInit, PreviewInv, AmountSet, ScaleSet, UnitSet

(* recipe-links.ts, recipe-preview.ts: whatever loads, renders and         *)
(* settings interleave, the preview is of the page's latest render, shows  *)
(* the amounts the page shows, the same in its head, list and text, and    *)
(* the subscriptions of older ones are gone.                               *)
THEOREM PreviewFollowsPageAlways == LinkedSpec => []PreviewFollowsPage
<1>1. PreviewInv /\ [LinkedNext]_linkedVars => PreviewInv'  BY PreviewStep
<1>2. PreviewInv => PreviewFollowsPage
  BY DEF PreviewInv, PreviewFollowsPage, Consistent, Follows
<1> QED  BY PreviewInit, <1>1, <1>2, PTL DEF LinkedSpec
-----------------------------------------------------------------------------
(* LinkedRecipes: the text objects of the recipe and the catalog's titles. *)

TextObject == [at : Nat, by : Sides, name : 1..MaxTitles, edits : SUBSET (1..lines)]
Entry == [title : 1..MaxTitles, gone : BOOLEAN]

(* The objects of one side: some newest one exists, as `at` is bounded,    *)
(* although no constant bounds it: two catalogs that disagree about the    *)
(* title rewrite the field in turns.                                       *)
Texts(S) == S \subseteq TextObject /\ S # {} /\ \E n \in Nat : \A o \in S : o.at <= n

LinkedInv ==
  /\ PreviewInv
  /\ lines \in Nat /\ stale \in 0..MaxRenders /\ titles \in [Sides -> Entry]
  /\ DOMAIN docs = Sides /\ \A s \in Sides : Texts(docs[s])

LEMMA NewestIn == ASSUME NEW S, Texts(S) PROVE Newest(S) \in S
<1> DEFINE B == {n \in Nat : \A o \in S : o.at <= n}
<1>1. B \in SUBSET Nat /\ B # {}  BY DEF Texts
<1>2. PICK n \in B : \A k \in B : n <= k  BY <1>1, HasMin
<1>3. n \in Nat /\ \A o \in S : o.at <= n /\ o.at \in Nat  BY <1>2 DEF Texts, TextObject
<1>4. PICK e \in S : TRUE  BY DEF Texts
<1>5. \E o \in S : o.at = n
  <2> SUFFICES ASSUME \A o \in S : o.at # n PROVE FALSE  OBVIOUS
  <2>1. n # 0  BY <1>3, <1>4
  <2>2. n - 1 \in Nat /\ ~(n <= n - 1)  BY <1>3, <2>1
  <2>3. \A o \in S : o.at <= n - 1  BY <1>3
  <2> QED  BY <1>2, <2>2, <2>3
<1> DEFINE Top(o) == \A p \in S : p.at < o.at \/ (p.at = o.at /\ (p.by = o.by \/ o.by = "there"))
<1>6. \E o \in S : Top(o)
  <2>1. CASE \E o \in S : o.at = n /\ o.by = "there"
    <3>1. PICK o \in S : o.at = n /\ o.by = "there"  BY <2>1
    <3>2. Top(o)  BY <1>3, <3>1
    <3> QED  BY <3>2
  <2>2. CASE \A o \in S : o.at = n => o.by # "there"
    <3>1. PICK o \in S : o.at = n  BY <1>5
    <3>2. \A p \in S : p.at = n => p.by = "here"  BY <2>2 DEF Texts, TextObject, Sides
    <3>3. Top(o)  BY <1>3, <3>1, <3>2
    <3> QED  BY <3>3
  <2> QED  BY <2>1, <2>2
<1> QED  BY <1>6 DEF Newest

LEMMA TextFields ==
  ASSUME NEW o \in TextObject
  PROVE  o.at \in Nat /\ o.by \in Sides /\ o.name \in 1..MaxTitles /\ o.edits \subseteq 1..lines
BY DEF TextObject

(* One object more, however late, leaves the objects of a side bounded.    *)
LEMMA OneMore ==
  ASSUME NEW S, Texts(S), NEW R \in SUBSET S, NEW o \in TextObject
  PROVE  Texts(R \cup {o})
<1>1. PICK n \in Nat : \A p \in S : p.at <= n  BY DEF Texts
<1>2. \A p \in S : p.at \in Nat  BY DEF Texts, TextObject
<1>3. o.at \in Nat /\ n + o.at \in Nat  BY TextFields
<1>4. \A p \in R \cup {o} : p.at <= n + o.at  BY <1>1, <1>2, <1>3
<1> QED  BY <1>3, <1>4 DEF Texts

LEMMA ReconciledKeeps ==
  ASSUME NEW s \in Sides, Texts(docs[s]), NEW t \in 0..MaxTitles PROVE Texts(Reconciled(s, t))
<1> DEFINE text == Newest(docs[s])
           new == [text EXCEPT !.at = @ + 1, !.by = s, !.name = t]
<1>1. text \in docs[s] /\ text \in TextObject  BY NewestIn DEF Texts
<1>2. CASE t \in {0, text.name}  BY <1>2 DEF Reconciled
<1>3. CASE t \notin {0, text.name}
  <2>1. t # 0 /\ t \in 1..MaxTitles  BY <1>3, LinkedAssumption
  <2>2. \A o \in TextObject : [o EXCEPT !.at = @ + 1, !.by = s, !.name = t] \in TextObject
    <3> TAKE o \in TextObject
    <3>1. PICK N, E : N = 1..MaxTitles /\ E = SUBSET (1..lines)  OBVIOUS
    <3>2. TextObject = [at : Nat, by : Sides, name : N, edits : E]  BY <3>1 DEF TextObject
    <3>3. o.at + 1 \in Nat /\ t \in N  BY <2>1, <3>1, TextFields
    <3> QED  BY <3>2, <3>3
  <2>3. new \in TextObject  BY <1>1, <2>2
  <2>4. Reconciled(s, t) = docs[s] \cup {new}  BY <1>3 DEF Reconciled
  <2> HIDE DEF new
  <2> QED  BY <2>3, <2>4, OneMore
<1> QED  BY <1>2, <1>3

LEMMA MergeKeeps == ASSUME NEW S, NEW T, Texts(S), Texts(T) PROVE Texts(MergeTexts(S, T))
<1> DEFINE Of(o) == UNION {p.edits : p \in {q \in S \cup T : q.at = o.at /\ q.by = o.by}}
           One(o) == [o EXCEPT !.edits = Of(o)]
<1>1. \A o \in S \cup T : o \in TextObject  BY DEF Texts
<1>2. ASSUME NEW o \in S \cup T PROVE Of(o) \in SUBSET (1..lines)
  <2>1. \A p \in S \cup T : p.edits \subseteq 1..lines  BY <1>1, TextFields
  <2> QED  BY <2>1
<1> HIDE DEF Of
<1>3. ASSUME NEW o \in S \cup T PROVE One(o) \in TextObject /\ One(o).at = o.at
  BY <1>1, <1>2 DEF TextObject
<1>4. MergeTexts(S, T) = {One(o) : o \in S \cup T}  BY DEF MergeTexts, Of
<1> HIDE DEF One
<1>5. PICK n \in Nat : \A p \in S : p.at <= n  BY DEF Texts
<1>6. PICK m \in Nat : \A p \in T : p.at <= m  BY DEF Texts
<1>7. \A p \in S \cup T : p.at \in Nat  BY <1>1, TextFields
<1>8. n + m \in Nat /\ \A p \in S \cup T : p.at <= n + m  BY <1>5, <1>6, <1>7
<1>9. \A p \in MergeTexts(S, T) : p \in TextObject /\ p.at <= n + m  BY <1>3, <1>4, <1>8
<1>10. MergeTexts(S, T) # {}  BY <1>4 DEF Texts
<1> QED  BY <1>8, <1>9, <1>10 DEF Texts

LEMMA TitleType ==
  ASSUME titles \in [Sides -> Entry], NEW s \in Sides
  PROVE  Title(s) \in 0..MaxTitles
<1>1. titles[s].title \in 0..MaxTitles  BY LinkedAssumption DEF Entry
<1>2. 0 \in 0..MaxTitles  BY LinkedAssumption
<1> QED  BY <1>1, <1>2 DEF Title

(* One side's texts are replaced, the lines being those typed so far.      *)
Replaced(s, S) == docs' = [docs EXCEPT ![s] = S]

LEMMA TextsReplaced ==
  ASSUME LinkedInv, NEW s \in Sides, NEW S, Texts(S), Replaced(s, S), lines' = lines
  PROVE  DOMAIN docs' = Sides /\ \A q \in Sides : Texts(docs[q])'
<1>1. DOMAIN docs' = Sides /\ \A q \in Sides : docs'[q] = S \/ docs'[q] = docs[q]
  BY DEF Replaced, LinkedInv
<1>2. \A q \in Sides : Texts(docs'[q])  BY <1>1 DEF LinkedInv
<1> QED  BY <1>1, <1>2 DEF Texts, TextObject

LEMMA TextsStay ==
  ASSUME LinkedInv, UNCHANGED <<docs, lines>>
  PROVE  DOMAIN docs' = Sides /\ \A q \in Sides : Texts(docs[q])'
BY DEF LinkedInv, Texts, TextObject

LEMMA BumpedStale ==
  ASSUME LinkedInv, NEW c, Bumped(c) PROVE stale' \in 0..MaxRenders
<1>1. stale \in Nat /\ (IF card = "opening" THEN 1 ELSE 0) \in Nat  BY LinkedAssumption DEF LinkedInv
<1> QED  BY <1>1, LinkedAssumption DEF Bumped

LEMMA RenderStale ==
  ASSUME LinkedInv, NEW t, Render(t) PROVE stale' \in 0..MaxRenders
BY BumpedStale DEF Render, RenderLinkedRecipes

(* A step of the open page: its catalog changes.                           *)
LEMMA EntryChanges ==
  ASSUME LinkedInv, NEW e \in Entry, CatalogChange(e)
  PROVE  /\ titles' \in [Sides -> Entry] /\ stale' \in 0..MaxRenders /\ lines' = lines
         /\ DOMAIN docs' = Sides /\ \A q \in Sides : Texts(docs[q])'
<1>1. titles' \in [Sides -> Entry]  BY DEF CatalogChange, LinkedInv
<1>2. PICK t \in 0..MaxTitles : OnCatalogChanged(t)
  <2>1. (IF e.gone THEN 0 ELSE e.title) \in 0..MaxTitles  BY LinkedAssumption DEF Entry
  <2> QED  BY <2>1 DEF CatalogChange
<1>3. stale' \in 0..MaxRenders
  <2>1. Render(t) \/ stale' = stale  BY <1>2 DEF OnCatalogChanged
  <2> QED  BY <2>1, RenderStale DEF LinkedInv
<1>4. lines' = lines  BY DEF CatalogChange
<1>5. docs' = docs \/ Replaced("here", Reconciled("here", t))
  BY <1>2 DEF OnCatalogChanged, Replaced
<1>6. "here" \in Sides /\ Texts(docs["here"])  BY DEF Sides, LinkedInv
<1>7. Texts(Reconciled("here", t))  BY <1>2, <1>6, ReconciledKeeps
<1>8. DOMAIN docs' = Sides /\ \A q \in Sides : Texts(docs[q])'
  BY <1>4, <1>5, <1>6, <1>7, TextsReplaced, TextsStay
<1> QED  BY <1>1, <1>3, <1>4, <1>8

(* The other device reconciles its copy at once.                           *)
LEMMA OtherReconciles ==
  ASSUME LinkedInv, NEW s \in Sides, NEW e \in Entry, NEW t \in 0..MaxTitles,
         titles' = [titles EXCEPT ![s] = e], docs' = [docs EXCEPT ![s] = Reconciled(s, t)],
         UNCHANGED <<lines, uiVars>>
  PROVE  LinkedInv'
<1>1. titles' \in [Sides -> Entry]  BY DEF LinkedInv
<1>2. Texts(Reconciled(s, t))  BY ReconciledKeeps DEF LinkedInv
<1>3. DOMAIN docs' = Sides /\ \A q \in Sides : Texts(docs[q])'  BY <1>2, TextsReplaced DEF Replaced
<1>4. PreviewInv'  BY PreviewUntouched DEF LinkedInv, uiVars
<1> QED  BY <1>1, <1>3, <1>4 DEF LinkedInv, uiVars

LEMMA Typed ==
  ASSUME LinkedInv, NEW s \in Sides, TypeLine(s)
  PROVE  /\ lines' \in Nat /\ UNCHANGED <<titles, stale>>
         /\ DOMAIN docs' = Sides /\ \A q \in Sides : Texts(docs[q])'
<1> DEFINE text == Newest(docs[s])
           new == [text EXCEPT !.edits = @ \cup {lines'}]
<1>1. lines \in Nat /\ lines' = lines + 1 /\ 1..lines \subseteq 1..lines' /\ lines' \in 1..lines'
  BY DEF TypeLine, LinkedInv
<1>2. text \in docs[s] /\ text \in TextObject  BY NewestIn DEF LinkedInv, Texts
<1>3. TextObject \subseteq TextObject'
  <2>1. PICK D, E : D = SUBSET (1..lines) /\ E = SUBSET (1..lines')  OBVIOUS
  <2>2. D \subseteq E  BY <1>1, <2>1
  <2>3. PICK N : N = 1..MaxTitles  OBVIOUS
  <2>4. TextObject = [at : Nat, by : Sides, name : N, edits : D]  BY <2>1, <2>3 DEF TextObject
  <2>5. TextObject' = [at : Nat, by : Sides, name : N, edits : E]  BY <2>1, <2>3 DEF TextObject
  <2> QED  BY <2>2, <2>4, <2>5
<1>4. new \in TextObject' /\ new.at = text.at
  <2>1. text.edits \cup {lines'} \in SUBSET (1..lines')  BY <1>1, <1>2, TextFields
  <2>2. PICK N, E : N = 1..MaxTitles /\ E = SUBSET (1..lines')  OBVIOUS
  <2>3. TextObject' = [at : Nat, by : Sides, name : N, edits : E]  BY <2>2 DEF TextObject
  <2> QED  BY <1>2, <1>3, <2>1, <2>2, <2>3
<1>5. docs' = [docs EXCEPT ![s] = (docs[s] \ {text}) \cup {new}]  BY DEF TypeLine
<1> HIDE DEF new, text
<1>6. ASSUME NEW q \in Sides PROVE Texts(docs[q])'
  <2>1. docs'[q] \subseteq docs[q] \cup {new}  BY <1>5 DEF LinkedInv
  <2>2. PICK n \in Nat : \A o \in docs[q] : o.at <= n  BY DEF LinkedInv, Texts
  <2>3. \A o \in docs[q] : o \in TextObject /\ o.at \in Nat  BY TextFields DEF LinkedInv, Texts
  <2>4. text.at \in Nat /\ n + text.at \in Nat  BY <1>2, TextFields
  <2>5. \A o \in docs'[q] : o \in TextObject' /\ o.at <= n + text.at
    BY <1>3, <1>4, <2>1, <2>2, <2>3, <2>4
  <2>6. docs'[q] # {}  BY <1>5 DEF LinkedInv, Texts
  <2> QED  BY <2>4, <2>5, <2>6 DEF Texts
<1>7. UNCHANGED <<titles, stale>>  BY DEF TypeLine, uiVars
<1>8. DOMAIN docs' = Sides  BY <1>5 DEF LinkedInv
<1>9. lines' \in Nat  BY <1>1
<1> QED  BY <1>6, <1>7, <1>8, <1>9

LEMMA LinkedStart == LinkedInit => LinkedInv
<1> SUFFICES ASSUME LinkedInit PROVE LinkedInv  OBVIOUS
<1>1. [at |-> 0, by |-> "there", name |-> 1, edits |-> {}] \in TextObject
  <2>1. 1 \in 1..MaxTitles /\ {} \in SUBSET (1..lines) /\ "there" \in Sides
    BY LinkedAssumption DEF Sides
  <2> QED  BY <2>1, Zenon DEF TextObject
<1>2. \A s \in Sides : Texts(docs[s])
  <2>1. PICK o : o = [at |-> 0, by |-> "there", name |-> 1, edits |-> {}]  OBVIOUS
  <2>2. o \in TextObject /\ o.at = 0  BY <1>1, <2>1
  <2>3. \A s \in Sides : docs[s] = {o}  BY <2>1 DEF LinkedInit
  <2> QED  BY <2>2, <2>3 DEF Texts
<1>3. titles \in [Sides -> Entry]  BY LinkedAssumption DEF LinkedInit, Entry
<1> QED  BY <1>2, <1>3, PreviewInit, LinkedAssumption DEF LinkedInit, LinkedInv

LEMMA LinkedStep == ASSUME LinkedInv, [LinkedNext]_linkedVars PROVE LinkedInv'
<1> DEFINE Kept == DOMAIN docs' = Sides /\ \A q \in Sides : Texts(docs[q])'
           Facts == lines' \in Nat /\ stale' \in 0..MaxRenders /\ titles' \in [Sides -> Entry] /\ Kept
<1>1. PreviewInv'  BY PreviewStep DEF LinkedInv
<1> SUFFICES Facts  BY <1>1 DEF LinkedInv
<1>2. lines \in Nat /\ stale \in 0..MaxRenders /\ titles \in [Sides -> Entry]  BY DEF LinkedInv
<1>3. "here" \in Sides /\ \A s \in Sides : titles[s] \in Entry /\ Texts(docs[s]) /\ Title(s) \in 0..MaxTitles
  BY <1>2, TitleType DEF LinkedInv, Sides
<1>4. ASSUME UNCHANGED <<docs, titles, lines>>, stale' \in 0..MaxRenders PROVE Facts
  BY <1>2, <1>4, TextsStay
<1>5. ASSUME NEW e \in Entry, CatalogChange(e) PROVE Facts  BY <1>2, <1>5, EntryChanges
<1>6. ASSUME LinkedInv' PROVE Facts  BY <1>6 DEF LinkedInv
<1> HIDE DEF Facts
<1>7. CASE UNCHANGED linkedVars  BY <1>2, <1>4, <1>7 DEF linkedVars
<1>8. CASE OpenRecipe
  <2>1. stale' \in 0..MaxRenders  BY <1>8, RenderStale DEF OpenRecipe
  <2>2. Texts(Reconciled("here", Title("here")))  BY <1>3, ReconciledKeeps
  <2>3. Replaced("here", Reconciled("here", Title("here"))) /\ UNCHANGED <<titles, lines>>
    BY <1>8 DEF OpenRecipe, Replaced
  <2>4. Kept  BY <1>3, <2>2, <2>3, TextsReplaced
  <2> QED  BY <1>2, <2>1, <2>3, <2>4 DEF Facts
<1>9. CASE CloseRecipe
  <2>1. stale' \in 0..MaxRenders /\ UNCHANGED <<docs, titles, lines>>
    BY <1>9, BumpedStale DEF CloseRecipe
  <2> QED  BY <1>4, <2>1
<1>10. CASE SetPageEditing
  <2>1. UNCHANGED <<docs, titles, lines>>  BY <1>10 DEF SetPageEditing
  <2>2. stale' = stale \/ Render(Title("here"))  BY <1>10 DEF SetPageEditing
  <2>3. stale' \in 0..MaxRenders  BY <1>2, <2>2, RenderStale
  <2> QED  BY <1>4, <2>1, <2>3
<1>11. CASE DeleteLinked
  <2>1. [titles["here"] EXCEPT !.gone = TRUE] \in Entry  BY <1>3 DEF Entry
  <2> QED  BY <1>5, <1>11, <2>1 DEF DeleteLinked
<1>12. ASSUME NEW s \in Sides, RenameLinked(s) PROVE Facts
  <2> DEFINE e == [titles[s] EXCEPT !.title = @ + 1]
  <2>1. titles[s].title + 1 \in 1..MaxTitles
    BY <1>3, <1>12, LinkedAssumption DEF RenameLinked, Entry
  <2>2. e \in Entry  BY <1>3, <2>1 DEF Entry
  <2>3. e.title \in 0..MaxTitles  BY <2>2, LinkedAssumption DEF Entry
  <2>4. \/ CatalogChange(e)
        \/ titles' = [titles EXCEPT ![s] = e] /\ docs' = [docs EXCEPT ![s] = Reconciled(s, e.title)]
           /\ UNCHANGED <<lines, uiVars>>
    BY <1>12 DEF RenameLinked
  <2> HIDE DEF e
  <2> QED  BY <1>5, <1>6, <2>2, <2>3, <2>4, OtherReconciles
<1>13. ASSUME NEW s \in Sides, TypeLine(s) PROVE Facts  BY <1>2, <1>13, Typed DEF Facts
<1>14. ASSUME NEW s \in Sides, SyncCatalog(s) PROVE Facts
  <2> DEFINE theirs == titles[IF s = "here" THEN "there" ELSE "here"]
             title == IF theirs.title > titles[s].title THEN theirs.title ELSE titles[s].title
             gone == theirs.gone \/ titles[s].gone
             e == [title |-> title, gone |-> gone]
             t == IF e.gone THEN 0 ELSE e.title
  <2>1. theirs \in Entry  BY <1>3 DEF Sides
  <2>2. title \in 1..MaxTitles /\ gone \in BOOLEAN  BY <1>3, <2>1 DEF Entry
  <2>3. e \in Entry  BY <2>2 DEF Entry
  <2>4. t \in 0..MaxTitles  BY <2>2, LinkedAssumption
  <2>5. \/ CatalogChange(e)
        \/ titles' = [titles EXCEPT ![s] = e] /\ docs' = [docs EXCEPT ![s] = Reconciled(s, t)]
           /\ UNCHANGED <<lines, uiVars>>
    BY <1>14 DEF SyncCatalog
  <2> HIDE DEF e, t
  <2> QED  BY <1>5, <1>6, <2>3, <2>4, <2>5, OtherReconciles
<1>15. ASSUME NEW s \in Sides, SyncRecipe(s) PROVE Facts
  <2> DEFINE merged == MergeTexts(docs["here"], docs["there"])
  <2>1. Replaced(s, merged) /\ UNCHANGED <<titles, lines>>  BY <1>15 DEF SyncRecipe, Replaced
  <2>2. Texts(merged)  BY <1>3, MergeKeeps DEF Sides
  <2>3. stale' = stale \/ Render(Title("here"))  BY <1>15 DEF SyncRecipe
  <2>4. stale' \in 0..MaxRenders  BY <1>2, <2>3, RenderStale
  <2> HIDE DEF merged
  <2>5. Kept  BY <2>1, <2>2, TextsReplaced
  <2> QED  BY <1>2, <2>1, <2>4, <2>5 DEF Facts
<1>16. CASE Toggle \/ OpenFails \/ ResetPageScale \/ CyclePageUnits \/ ShowUnitPicker \/ ClosePicker
  <2>1. UNCHANGED <<docs, titles, lines, stale>>
    BY <1>16 DEF Toggle, OpenFails, ResetPageScale, CyclePageUnits, ShowUnitPicker, ClosePicker
  <2> QED  BY <1>2, <1>4, <2>1
<1>17. CASE LinkedOpened
  <2>1. UNCHANGED <<docs, titles, lines>> /\ (stale' = stale \/ (stale > 0 /\ stale' = stale - 1))
    BY <1>17 DEF LinkedOpened
  <2>2. stale' \in 0..MaxRenders  BY <1>2, <2>1, LinkedAssumption
  <2> QED  BY <1>4, <2>1, <2>2
<1>18. ASSUME NEW n \in 1..MaxScale, ScalePage(n) PROVE Facts
  <2>1. UNCHANGED <<docs, titles, lines, stale>>  BY <1>18 DEF ScalePage
  <2> QED  BY <1>2, <1>4, <2>1
<1>19. ASSUME NEW u, PickUnitOfPreview(u) PROVE Facts
  <2>1. UNCHANGED <<docs, titles, lines, stale>>  BY <1>19 DEF PickUnitOfPreview
  <2> QED  BY <1>2, <1>4, <2>1
<1> QED
  BY <1>7, <1>8, <1>9, <1>10, <1>11, <1>12, <1>13, <1>14, <1>15, <1>16, <1>17, <1>18, <1>19
  DEF LinkedNext

LEMMA LinkedTyped == LinkedInv => LinkedTypeOK
<1> SUFFICES ASSUME LinkedInv PROVE LinkedTypeOK  OBVIOUS
<1>1. \A s \in Sides : \A o \in docs[s] : o.by \in Sides /\ o.name \in 1..MaxTitles /\ o.edits \subseteq 1..lines
  BY TextFields DEF LinkedInv, Texts
<1>2. Cardinality(previews) <= 1
  <2>1. CASE previews = {}  BY <2>1, FS_EmptySet
  <2>2. CASE previews # {}
    <3>1. PICK p \in previews : TRUE  BY <2>2
    <3>2. previews = {p}  BY <3>1 DEF LinkedInv, PreviewInv
    <3>3. Cardinality(previews) = 1  BY <3>2, FS_Singleton
    <3> QED  BY <3>3
  <2> QED  BY <2>1, <2>2
<1>3. listeners \subseteq BOOLEAN  BY DEF LinkedInv, PreviewInv
<1> QED  BY <1>1, <1>2, <1>3 DEF LinkedInv, PreviewInv, LinkedTypeOK

(* recipe-links.ts: every text object names one of the recipe's titles, its *)
(* edits are ones typed by then, and one preview at most is shown, however *)
(* the devices rename, type, delete and merge.                             *)
THEOREM LinkedTypeCorrect == LinkedSpec => []LinkedTypeOK
<1>1. LinkedInv /\ [LinkedNext]_linkedVars => LinkedInv'  BY LinkedStep
<1> QED  BY LinkedStart, <1>1, LinkedTyped, PTL DEF LinkedSpec

-----------------------------------------------------------------------------
(* Shelf.                                                                  *)

Book == [vault : Vaults, obj : Nat]
VaultList == [no : Nat, vaults : SUBSET Vaults, stage : {"keys", "pending", "catalogs"},
              left : SUBSET Vaults]

ShelfTypes ==
  /\ index \subseteq Vaults /\ books \subseteq Book /\ \A b, c \in books : b.vault = c.vault => b = c
  /\ active \in Book \cup {NoBook} /\ server \subseteq Vaults /\ pending \subseteq Vaults
  /\ lists \subseteq VaultList /\ listed \in Nat

(* A vault that is not created yet is nowhere.                             *)
FreshIsNew ==
  /\ \A v \in fresh : v \notin server /\ v \notin pending /\ v \notin filled /\ ~Has(v, books)
  /\ \A l \in lists : \A v \in fresh : v \notin l.vaults

(* The active book is listed, or a list that has replaced the books is     *)
(* still to look at it.                                                    *)
ActiveIsLooked ==
  \/ active = NoBook \/ active \in books
  \/ \E l \in lists : l.stage = "catalogs"

(* The recipe of a listed book is indexed, or a list is still to index it, *)
(* or a removal to drop the book.                                          *)
WillBeFound(v) ==
  \/ v \in index
  \/ \E l \in lists : l.stage # "catalogs" \/ v \in l.left
  \/ \E r \in removals : r.vault = v

ShelfInv ==
  ShelfTypes /\ FreshIsNew /\ ActiveIsLooked /\ \A b \in books : b.vault \in filled => WillBeFound(b.vault)

LEMMA SwitchedTo ==
  ASSUME NEW v, NEW B
  PROVE  /\ Has(v, B) => Switched(v, B) \in B /\ BookOf(v, B) \in B /\ BookOf(v, B).vault = v
         /\ ~Has(v, B) => Switched(v, B) = active
BY DEF Has, Switched, BookOf

LEMMA ChangeLooks ==
  ASSUME NEW B, NEW old
  PROVE  BooksChange(B, old) = NoBook \/ BooksChange(B, old) \in B
BY SwitchedTo DEF BooksChange

LEMMA ShelfStart == ShelfInit => ShelfInv
<1> SUFFICES ASSUME ShelfInit PROVE ShelfInv
  OBVIOUS
<1>1. /\ server = Vaults \ Created /\ books = {[vault |-> v, obj |-> 0] : v \in server}
      /\ index = server /\ active = NoBook /\ filled = server /\ fresh = Created
      /\ pending = {} /\ lists = {} /\ removals = {} /\ listed = 0
  BY DEF ShelfInit
<1>2. ShelfTypes  BY <1>1 DEF ShelfTypes, Book
<1>3. FreshIsNew  BY <1>1 DEF FreshIsNew, Has
<1> QED  BY <1>1, <1>2, <1>3 DEF ShelfInv, ActiveIsLooked, WillBeFound

(* A book and its recipe go together.                                      *)
LEMMA WithoutKeeps ==
  ASSUME ShelfInv, NEW v \in Vaults, index' = index \ {v}, Without(v, active.vault = v),
         server' \subseteq server, UNCHANGED <<pending, lists, removals, listed, filled, fresh>>
  PROVE  ShelfInv'
<1>1. /\ books' = {b \in books : b.vault # v}
      /\ active' = NoBook \/ active' \in books' \/ (active' = active /\ active.vault # v)
  BY DEF Without
<1>2. ShelfTypes /\ FreshIsNew  BY DEF ShelfInv
<1>3. active' \in Book \cup {NoBook}  BY <1>1, <1>2 DEF ShelfTypes
<1>4. ShelfTypes'  BY <1>1, <1>2, <1>3 DEF ShelfTypes
<1>5. FreshIsNew'  BY <1>1, <1>2 DEF FreshIsNew, Has
<1>6. ActiveIsLooked'  BY <1>1 DEF ShelfInv, ActiveIsLooked
<1>7. \A b \in books' : b.vault \in filled' => WillBeFound(b.vault)'
  BY <1>1 DEF ShelfInv, WillBeFound
<1> QED  BY <1>4, <1>5, <1>6, <1>7 DEF ShelfInv

(* The active book is another listed one, or as it was.                    *)
LEMMA ActiveMoves ==
  ASSUME ShelfInv, NEW v, active' = Switched(v, books),
         UNCHANGED <<index, books, server, pending, lists, removals, listed, filled, fresh>>
  PROVE  ShelfInv'
<1>1. active' \in books \/ active' = active  BY SwitchedTo
<1>2. ShelfTypes'  BY <1>1 DEF ShelfInv, ShelfTypes
<1>3. FreshIsNew'  BY DEF ShelfInv, FreshIsNew, Has
<1>4. ActiveIsLooked'  BY <1>1 DEF ShelfInv, ActiveIsLooked
<1> QED  BY <1>2, <1>3, <1>4 DEF ShelfInv, WillBeFound

(* A list moves on to the record n.                                        *)
LEMMA AdvanceTo ==
  ASSUME ShelfTypes, NEW l \in lists, NEW stage \in {"pending", "catalogs"}, NEW left \in SUBSET Vaults,
         Advance(l, stage, left)
  PROVE  \E n \in VaultList :
           /\ lists' = (lists \ {l}) \cup {n} /\ n.no = l.no /\ n.vaults = l.vaults
           /\ n.stage = stage /\ n.left = left
<1>1. l \in VaultList  BY DEF ShelfTypes
<1>2. PICK n : n = [l EXCEPT !.stage = stage, !.left = left]  OBVIOUS
<1>3. /\ n \in VaultList /\ n.no = l.no /\ n.vaults = l.vaults /\ n.stage = stage /\ n.left = left
  BY <1>1, <1>2 DEF VaultList
<1> QED  BY <1>2, <1>3 DEF Advance

LEMMA ListSteps ==
  ASSUME ShelfInv, NEW l \in lists,
         ListPending(l) \/ ListApply(l) \/ ListDone(l) \/ \E v \in Vaults : ListCatalog(l, v)
  PROVE  ShelfInv'
<1>1. ShelfTypes /\ FreshIsNew /\ ActiveIsLooked /\ l \in VaultList  BY DEF ShelfInv, ShelfTypes
<1>2. CASE ListPending(l)
  <2>1. l.stage = "keys" /\ Advance(l, "pending", pending)
        /\ UNCHANGED <<index, books, active, server, pending, removals, listed, filled, fresh>>
    BY <1>2 DEF ListPending
  <2>2. PICK n \in VaultList :
          /\ lists' = (lists \ {l}) \cup {n} /\ n.vaults = l.vaults /\ n.stage = "pending"
    BY <1>1, <2>1, AdvanceTo DEF ShelfTypes
  <2>3. ShelfTypes'  BY <1>1, <2>1, <2>2 DEF ShelfTypes
  <2>4. FreshIsNew'  BY <1>1, <2>1, <2>2 DEF FreshIsNew, Has
  <2>5. ActiveIsLooked'  BY <1>1, <2>1, <2>2 DEF ActiveIsLooked
  <2>6. \A v : WillBeFound(v)'  BY <2>2 DEF WillBeFound
  <2> QED  BY <2>3, <2>4, <2>5, <2>6 DEF ShelfInv
<1>3. CASE ListApply(l)
  <2>1. /\ l.stage = "pending"
        /\ books' = {[vault |-> v, obj |-> l.no] : v \in l.vaults}
                    \cup {b \in books : b.vault \in l.left \ l.vaults}
        /\ index' \subseteq index
        /\ Advance(l, "catalogs", {b.vault : b \in books'})
        /\ UNCHANGED <<active, server, pending, removals, listed, filled, fresh>>
    BY <1>3 DEF ListApply
  <2>2. /\ books' \subseteq Book /\ \A b, c \in books' : b.vault = c.vault => b = c
        /\ \A b \in books' : b.vault \in l.vaults \/ b \in books
    BY <1>1, <2>1 DEF ShelfTypes, Book, VaultList
  <2>3. {b.vault : b \in books'} \in SUBSET Vaults  BY <2>2 DEF Book
  <2>4. PICK n \in VaultList :
          /\ lists' = (lists \ {l}) \cup {n} /\ n.vaults = l.vaults /\ n.stage = "catalogs"
          /\ n.left = {b.vault : b \in books'}
    BY <1>1, <2>1, <2>3, AdvanceTo
  <2>5. ShelfTypes'  BY <1>1, <2>1, <2>2, <2>4 DEF ShelfTypes
  <2>6. FreshIsNew'  BY <1>1, <2>1, <2>2, <2>4 DEF FreshIsNew, Has
  <2>7. ActiveIsLooked'  BY <2>4 DEF ActiveIsLooked
  <2>8. \A b \in books' : WillBeFound(b.vault)'  BY <2>4 DEF WillBeFound
  <2> QED  BY <2>5, <2>6, <2>7, <2>8 DEF ShelfInv
<1>4. CASE ListDone(l)
  <2>1. /\ l.stage = "catalogs" /\ l.left = {} /\ lists' = lists \ {l}
        /\ active' = BooksChange(books, active)
        /\ UNCHANGED <<index, books, server, pending, removals, listed, filled, fresh>>
    BY <1>4 DEF ListDone
  <2>2. active' = NoBook \/ active' \in books'  BY <2>1, ChangeLooks
  <2>3. ShelfTypes'  BY <1>1, <2>1, <2>2 DEF ShelfTypes
  <2>4. FreshIsNew'  BY <1>1, <2>1 DEF FreshIsNew, Has
  <2>5. ActiveIsLooked'  BY <2>2 DEF ActiveIsLooked
  <2>6. \A v : WillBeFound(v) => WillBeFound(v)'  BY <2>1 DEF WillBeFound
  <2> QED  BY <2>1, <2>3, <2>4, <2>5, <2>6 DEF ShelfInv
<1>5. ASSUME NEW v \in Vaults, ListCatalog(l, v) PROVE ShelfInv'
  <2>1. /\ l.stage = "catalogs" /\ v \in l.left
        /\ index' = index \cup (filled \cap {v}) /\ Advance(l, "catalogs", l.left \ {v})
        /\ UNCHANGED <<books, active, server, pending, removals, listed, filled, fresh>>
    BY <1>5 DEF ListCatalog
  <2>2. l.left \ {v} \in SUBSET Vaults  BY <1>1 DEF VaultList
  <2>3. PICK n \in VaultList :
          /\ lists' = (lists \ {l}) \cup {n} /\ n.vaults = l.vaults /\ n.stage = "catalogs"
          /\ n.left = l.left \ {v}
    BY <1>1, <2>1, <2>2, AdvanceTo
  <2>4. ShelfTypes'  BY <1>1, <2>1, <2>3 DEF ShelfTypes
  <2>5. FreshIsNew'  BY <1>1, <2>1, <2>3 DEF FreshIsNew, Has
  <2>6. ActiveIsLooked'  BY <2>3 DEF ActiveIsLooked
  <2>7. \A w \in filled : WillBeFound(w) => WillBeFound(w)'  BY <2>1, <2>3 DEF WillBeFound
  <2> QED  BY <2>1, <2>4, <2>5, <2>6, <2>7 DEF ShelfInv
<1> QED  BY <1>2, <1>3, <1>4, <1>5

LEMMA RemovalSteps ==
  ASSUME ShelfInv,
         \/ \E v \in Vaults : OnVaultRemoved(v) \/ RemoveVault(v)
         \/ \E r \in removals : RemovedDone(r)
  PROVE  ShelfInv'
<1>1. ShelfTypes /\ FreshIsNew /\ ActiveIsLooked  BY DEF ShelfInv
<1>2. ASSUME NEW v \in Vaults, OnVaultRemoved(v) PROVE ShelfInv'
  <2>1. PICK r : r.vault = v /\ removals' = removals \cup {r}
    <3>1. PICK r : r = [vault |-> v, wasActive |-> active.vault = v]  OBVIOUS
    <3>2. r.vault = v  BY <3>1
    <3> QED  BY <1>2, <3>1, <3>2 DEF OnVaultRemoved
  <2>2. /\ index' = index \ {v}
        /\ UNCHANGED <<books, active, server, pending, lists, listed, filled, fresh>>
    BY <1>2 DEF OnVaultRemoved
  <2>3. ShelfTypes'  BY <1>1, <2>2 DEF ShelfTypes
  <2>4. FreshIsNew' /\ ActiveIsLooked'  BY <1>1, <2>2 DEF FreshIsNew, Has, ActiveIsLooked
  <2>5. \A w : WillBeFound(w) => WillBeFound(w)'  BY <2>1, <2>2 DEF WillBeFound
  <2> QED  BY <2>2, <2>3, <2>4, <2>5 DEF ShelfInv
<1>3. ASSUME NEW v \in Vaults, RemoveVault(v) PROVE ShelfInv'
  <2>1. /\ server' = server \ {v}
        /\ UNCHANGED <<index, books, active, pending, lists, removals, listed, filled, fresh>>
    BY <1>3 DEF RemoveVault
  <2> QED  BY <1>1, <2>1
           DEF ShelfInv, ShelfTypes, FreshIsNew, Has, ActiveIsLooked, WillBeFound
<1>4. ASSUME NEW r \in removals, RemovedDone(r) PROVE ShelfInv'
  <2>1. /\ removals' = removals \ {r} /\ books' = {b \in books : b.vault # r.vault}
        /\ active' \in books' \/ active' = NoBook \/ active' = BooksChange(books', active)
        /\ UNCHANGED <<index, server, pending, lists, listed, filled, fresh>>
    BY <1>4 DEF RemovedDone
  <2>2. active' = NoBook \/ active' \in books'  BY <2>1, ChangeLooks
  <2>3. ShelfTypes'  BY <1>1, <2>1, <2>2 DEF ShelfTypes
  <2>4. FreshIsNew'  BY <1>1, <2>1 DEF FreshIsNew, Has
  <2>5. ActiveIsLooked'  BY <2>2 DEF ActiveIsLooked
  <2>6. \A w : WillBeFound(w) /\ w # r.vault => WillBeFound(w)'  BY <2>1 DEF WillBeFound
  <2> QED  BY <2>1, <2>3, <2>4, <2>5, <2>6 DEF ShelfInv
<1> QED  BY <1>2, <1>3, <1>4

LEMMA ShelfStep == ASSUME ShelfInv, [ShelfNext]_shelfVars PROVE ShelfInv'
<1>1. ShelfTypes /\ FreshIsNew /\ ActiveIsLooked  BY DEF ShelfInv
<1>2. CASE UNCHANGED shelfVars
  BY <1>2 DEF shelfVars, ShelfInv, ShelfTypes, FreshIsNew, Has, ActiveIsLooked, WillBeFound
<1>3. CASE OnVaultList
  <2>1. PICK l : l = [no |-> listed', vaults |-> server, stage |-> "keys", left |-> {}]  OBVIOUS
  <2>2. /\ index' = {} /\ listed' = listed + 1 /\ lists' = lists \cup {l}
        /\ UNCHANGED <<books, active, server, pending, removals, filled, fresh>>
    BY <1>3, <2>1 DEF OnVaultList
  <2>3. l \in VaultList /\ l.stage = "keys" /\ l.vaults = server /\ listed' \in Nat
    BY <1>1, <2>1, <2>2 DEF ShelfTypes, VaultList
  <2>4. ShelfTypes'  BY <1>1, <2>2, <2>3 DEF ShelfTypes
  <2>5. FreshIsNew'  BY <1>1, <2>2, <2>3 DEF FreshIsNew, Has
  <2>6. ActiveIsLooked'  BY <1>1, <2>2 DEF ActiveIsLooked
  <2>7. \A v : WillBeFound(v)'  BY <2>2, <2>3 DEF WillBeFound
  <2> QED  BY <2>4, <2>5, <2>6, <2>7 DEF ShelfInv
<1>4. ASSUME NEW v \in Vaults, SwitchBook(v) \/ PickFound(v) \/ BookCreated(v) PROVE ShelfInv'
  BY <1>4, ActiveMoves DEF SwitchBook, PickFound, BookCreated
<1>5. ASSUME NEW v \in Vaults, DeleteBook(v) \/ OnVaultDeleted(v) PROVE ShelfInv'
  <2>1. /\ index' = index \ {v} /\ Without(v, active.vault = v) /\ server' \subseteq server
        /\ UNCHANGED <<pending, lists, removals, listed, filled, fresh>>
    BY <1>5 DEF DeleteBook, OnVaultDeleted
  <2> QED  BY <2>1, WithoutKeeps
<1>6. ASSUME NEW v \in Vaults, CreateBook(v) PROVE ShelfInv'
  <2>1. PICK b : b = [vault |-> v, obj |-> 0]  OBVIOUS
  <2>2. /\ v \in fresh /\ fresh' = fresh \ {v} /\ pending' = pending \cup {v}
        /\ books' = books \cup {b}
        /\ UNCHANGED <<index, active, server, lists, removals, listed, filled>>
    BY <1>6, <2>1 DEF CreateBook
  <2>3. b \in Book /\ b.vault = v /\ ~Has(v, books) /\ v \notin filled
    BY <1>1, <2>1, <2>2 DEF Book, FreshIsNew
  <2>4. ShelfTypes'  BY <1>1, <2>2, <2>3 DEF ShelfTypes, Has
  <2>5. FreshIsNew'  BY <1>1, <2>2, <2>3 DEF FreshIsNew, Has
  <2>6. ActiveIsLooked'  BY <1>1, <2>2 DEF ActiveIsLooked
  <2>7. \A w : WillBeFound(w) => WillBeFound(w)'  BY <2>2 DEF WillBeFound
  <2> QED  BY <2>2, <2>3, <2>4, <2>5, <2>6, <2>7 DEF ShelfInv
<1>7. ASSUME NEW v \in Vaults, RebuildBookIndex(v) PROVE ShelfInv'
  <2>1. /\ Has(v, books) /\ index' = index \cup {v} /\ filled' = filled \cup {v}
        /\ UNCHANGED <<books, active, server, pending, lists, removals, listed, fresh>>
    BY <1>7 DEF RebuildBookIndex
  <2>2. ShelfTypes' /\ ActiveIsLooked'  BY <1>1, <2>1 DEF ShelfTypes, ActiveIsLooked
  <2>3. FreshIsNew'  BY <1>1, <2>1 DEF FreshIsNew, Has
  <2>4. WillBeFound(v)' /\ \A w : WillBeFound(w) => WillBeFound(w)'  BY <2>1 DEF WillBeFound
  <2> QED  BY <2>1, <2>2, <2>3, <2>4 DEF ShelfInv
<1>8. ASSUME NEW v \in Vaults, VaultCreated(v) PROVE ShelfInv'
  <2>1. /\ v \in pending /\ server' = server \cup {v} /\ pending' = pending \ {v}
        /\ UNCHANGED <<index, books, active, lists, removals, listed, filled, fresh>>
    BY <1>8 DEF VaultCreated
  <2>2. ShelfTypes' /\ ActiveIsLooked'  BY <1>1, <2>1 DEF ShelfTypes, ActiveIsLooked
  <2>3. FreshIsNew'  BY <1>1, <2>1 DEF FreshIsNew, Has
  <2> QED  BY <2>1, <2>2, <2>3 DEF ShelfInv, WillBeFound
<1>9. ASSUME NEW v \in Vaults, OnVaultRemoved(v) \/ RemoveVault(v) PROVE ShelfInv'
  BY <1>9, RemovalSteps
<1>10. ASSUME NEW r \in removals, RemovedDone(r) PROVE ShelfInv'  BY <1>10, RemovalSteps
<1>11. ASSUME NEW l \in lists,
              ListPending(l) \/ ListApply(l) \/ ListDone(l) \/ \E v \in Vaults : ListCatalog(l, v)
       PROVE  ShelfInv'
  BY <1>11, ListSteps
<1> QED
  BY <1>2, <1>3, <1>4, <1>5, <1>6, <1>7, <1>8, <1>9, <1>10, <1>11 DEF ShelfNext

(* Once every message has been worked off, the active book is the object   *)
(* that the list holds, and every recipe of a listed book is indexed,      *)
(* however many vault lists, removals and creations overlapped.            *)
THEOREM BooksSettleAlways == ShelfSpec => []BooksSettle
<1>1. ShelfInv => BooksSettle
  BY DEF ShelfInv, BooksSettle, ActiveIsLooked, WillBeFound
<1> QED  BY <1>1, ShelfStart, ShelfStep, PTL DEF ShelfSpec
-----------------------------------------------------------------------------
(* Ingredients.                                                            *)

IngredientRow == [id : Ids, name : Names \cup {""}]
Reference == [of : Ids, name : Names \cup {""}]
Oddities == {"remote", "mixed", "cleared"}

DragIsSound == drag = NoDrag \/ (editing /\ drag \in [from : Nat \ {0}, to : Nat \ {0}])

RowsAreTyped ==
  /\ rows \in Seq(IngredientRow) /\ \A i, j \in DOMAIN rows : rows[i].id = rows[j].id => i = j
  /\ refs \subseteq Reference /\ strange \subseteq Oddities /\ DragIsSound

(* A renaming must not reach the references of another row: as long as     *)
(* nothing strange has happened, no two rows have the same name.           *)
NamesTell ==
  Oddities \cap strange = {} =>
    /\ \A i, j \in DOMAIN rows : rows[i].name = rows[j].name => i = j
    /\ \A r \in refs, i \in DOMAIN rows :
         rows[i].id = r.of => r.name = rows[i].name /\ r.name # ""

IngredientsInv == RowsAreTyped /\ NamesTell

LEMMA RemoveAtRow ==
  ASSUME NEW S, NEW s \in Seq(S), NEW i \in DOMAIN s
  PROVE  /\ RemoveAt(s, i) \in Seq(S) /\ Len(RemoveAt(s, i)) = Len(s) - 1
         /\ \A j \in 1..(Len(s) - 1) : RemoveAt(s, i)[j] = IF j < i THEN s[j] ELSE s[j + 1]
<1>1. i \in 1..Len(s) /\ Len(s) \in Nat  OBVIOUS
<1>2. PICK a : a = SubSeq(s, 1, i - 1)  OBVIOUS
<1>3. PICK b : b = SubSeq(s, i + 1, Len(s))  OBVIOUS
<1>4. a \in Seq(S) /\ Len(a) = i - 1 /\ \A j \in 1..(i - 1) : a[j] = s[j]  BY <1>1, <1>2
<1>5. b \in Seq(S) /\ Len(b) = Len(s) - i /\ \A j \in 1..(Len(s) - i) : b[j] = s[i + j]
  BY <1>1, <1>3
<1>6. RemoveAt(s, i) = a \o b  BY <1>2, <1>3 DEF RemoveAt
<1>7. a \o b \in Seq(S) /\ Len(a \o b) = Len(s) - 1  BY <1>1, <1>4, <1>5
<1>8. ASSUME NEW j \in 1..(Len(s) - 1) PROVE (a \o b)[j] = IF j < i THEN s[j] ELSE s[j + 1]
  <2>1. CASE j < i
    <3>1. (a \o b)[j] = a[j]  BY <1>1, <1>4, <1>5, <2>1
    <3> QED  BY <1>1, <1>4, <2>1, <3>1
  <2>2. CASE ~(j < i)
    <3>1. /\ j \in 1..(Len(a) + Len(b)) /\ ~(j <= Len(a)) /\ j - Len(a) = j - (i - 1)
          /\ j - (i - 1) \in 1..(Len(s) - i) /\ i + (j - (i - 1)) = j + 1
      BY <1>1, <1>4, <1>5, <2>2
    <3>2. (a \o b)[j] = b[j - Len(a)]  BY <1>4, <1>5, <3>1, ConcatProperties
    <3> QED  BY <1>5, <2>2, <3>1, <3>2
  <2> QED  BY <2>1, <2>2
<1> QED  BY <1>6, <1>7, <1>8

LEMMA InsertAtRow ==
  ASSUME NEW S, NEW s \in Seq(S), NEW i \in 1..(Len(s) + 1), NEW e \in S
  PROVE  /\ InsertAt(s, i, e) \in Seq(S) /\ Len(InsertAt(s, i, e)) = Len(s) + 1
         /\ \A j \in 1..(Len(s) + 1) :
              InsertAt(s, i, e)[j] = IF j < i THEN s[j] ELSE IF j = i THEN e ELSE s[j - 1]
<1>1. i \in Nat /\ Len(s) \in Nat  OBVIOUS
<1>2. PICK a : a = SubSeq(s, 1, i - 1)  OBVIOUS
<1>3. PICK b : b = SubSeq(s, i, Len(s))  OBVIOUS
<1>4. a \in Seq(S) /\ Len(a) = i - 1 /\ \A j \in 1..(i - 1) : a[j] = s[j]  BY <1>1, <1>2
<1>5. /\ b \in Seq(S) /\ Len(b) = Len(s) - i + 1
      /\ \A j \in 1..(Len(s) - i + 1) : b[j] = s[i + j - 1]
  BY <1>1, <1>3
<1>6. PICK c : c = a \o <<e>>  OBVIOUS
<1>7. c \in Seq(S) /\ Len(c) = i /\ c[i] = e /\ \A j \in 1..(i - 1) : c[j] = s[j]
  BY <1>1, <1>4, <1>6
<1>8. InsertAt(s, i, e) = c \o b  BY <1>2, <1>3, <1>6 DEF InsertAt
<1>9. c \o b \in Seq(S) /\ Len(c \o b) = Len(s) + 1  BY <1>1, <1>5, <1>7
<1>10. ASSUME NEW j \in 1..(Len(s) + 1)
       PROVE  (c \o b)[j] = IF j < i THEN s[j] ELSE IF j = i THEN e ELSE s[j - 1]
  <2>1. CASE j =< i
    <3>1. (c \o b)[j] = c[j]  BY <1>1, <1>5, <1>7, <2>1
    <3>2. CASE j = i  BY <1>1, <1>7, <3>1, <3>2
    <3>3. CASE j # i
      <4>1. j < i /\ j \in 1..(i - 1)  BY <1>1, <2>1, <3>3
      <4> QED  BY <1>7, <3>1, <4>1
    <3> QED  BY <3>2, <3>3
  <2>2. CASE ~(j =< i)
    <3>1. (c \o b)[j] = b[j - i]  BY <1>1, <1>5, <1>7, <2>2
    <3>2. j - i \in 1..(Len(s) - i + 1) /\ i + (j - i) - 1 = j - 1  BY <1>1, <2>2
    <3>3. (c \o b)[j] = s[j - 1] /\ ~(j < i) /\ j # i  BY <1>1, <1>5, <2>2, <3>1, <3>2
    <3> QED  BY <3>3
  <2> QED  BY <2>1, <2>2
<1> QED  BY <1>8, <1>9, <1>10

LEMMA RenderedMeans ==
  ASSUME strange \subseteq Oddities, NEW s, Rendered(s)
  PROVE  /\ rows' = s /\ strange \subseteq strange' /\ strange' \subseteq Oddities
         /\ Oddities \cap strange' = {} =>
              /\ \A i, j \in DOMAIN s : s[i].name = s[j].name => i = j
              /\ \A i \in DOMAIN s : s[i].name # ""
<1>1. rows' = s /\ strange \subseteq strange' /\ strange' \subseteq Oddities
  BY DEF Rendered, Oddities
<1>2. (\E i, j \in DOMAIN s : i # j /\ s[i].name = s[j].name) => "mixed" \in strange'
  BY DEF Rendered
<1>3. (\E i \in DOMAIN s : s[i].name = "") => "cleared" \in strange'  BY DEF Rendered
<1> QED  BY <1>1, <1>2, <1>3 DEF Oddities

(* Rows go, or change places, and nothing else.                            *)
LEMMA RowsPicked ==
  ASSUME IngredientsInv, NEW s \in Seq(IngredientRow), NEW g \in [DOMAIN s -> DOMAIN rows],
         \A i, j \in DOMAIN s : g[i] = g[j] => i = j,
         \A j \in DOMAIN s : s[j] = rows[g[j]],
         rows' = s, refs' = refs, strange \subseteq strange', strange' \subseteq Oddities,
         drag' = NoDrag \/ (drag' = drag /\ editing' = editing)
  PROVE  IngredientsInv'
<1>1. RowsAreTyped /\ NamesTell  BY DEF IngredientsInv
<1>2. \A j \in DOMAIN s : g[j] \in DOMAIN rows  OBVIOUS
<1>3. \A i, j \in DOMAIN s : s[i].id = s[j].id => i = j  BY <1>1, <1>2 DEF RowsAreTyped
<1>4. RowsAreTyped'  BY <1>1, <1>3 DEF RowsAreTyped, DragIsSound
<1>5. NamesTell'
  <2> SUFFICES ASSUME Oddities \cap strange' = {}
               PROVE  /\ \A i, j \in DOMAIN s : s[i].name = s[j].name => i = j
                      /\ \A r \in refs, i \in DOMAIN s :
                           s[i].id = r.of => r.name = s[i].name /\ r.name # ""
    BY DEF NamesTell
  <2>1. /\ \A i, j \in DOMAIN rows : rows[i].name = rows[j].name => i = j
        /\ \A r \in refs, i \in DOMAIN rows :
             rows[i].id = r.of => r.name = rows[i].name /\ r.name # ""
    BY <1>1 DEF NamesTell
  <2>2. ASSUME NEW i \in DOMAIN s, NEW j \in DOMAIN s, s[i].name = s[j].name PROVE i = j
    <3>1. /\ rows[g[i]].name = rows[g[j]].name /\ g[i] \in DOMAIN rows /\ g[j] \in DOMAIN rows
      BY <1>2, <2>2
    <3>2. g[i] = g[j]  BY <2>1, <3>1
    <3> QED  BY <3>2
  <2>3. ASSUME NEW r \in refs, NEW i \in DOMAIN s, s[i].id = r.of
        PROVE  r.name = s[i].name /\ r.name # ""
    <3>1. s[i] = rows[g[i]]  OBVIOUS
    <3>2. PICK j \in DOMAIN rows : j = g[i]  BY <1>2
    <3>3. rows[j].id = r.of  BY <2>3, <3>1, <3>2
    <3>4. r.name = rows[j].name /\ r.name # ""  BY <2>1, <3>3
    <3> QED  BY <3>1, <3>2, <3>4
  <2> QED  BY <2>2, <2>3
<1> QED  BY <1>4, <1>5 DEF IngredientsInv

LEMMA RowsRemain ==
  ASSUME IngredientsInv, rows' = rows, refs' = refs, strange \subseteq strange',
         strange' \subseteq Oddities,
         \/ drag' = NoDrag \/ (drag' = drag /\ editing' = editing)
         \/ drag' \in [from : Nat \ {0}, to : Nat \ {0}] /\ editing'
  PROVE  IngredientsInv'
<1>1. RowsAreTyped /\ NamesTell  BY DEF IngredientsInv
<1>2. DragIsSound'  BY <1>1 DEF RowsAreTyped, DragIsSound
<1>3. RowsAreTyped'  BY <1>1, <1>2 DEF RowsAreTyped
<1>4. NamesTell'  BY <1>1 DEF NamesTell
<1> QED  BY <1>3, <1>4 DEF IngredientsInv

LEMMA DeleteKeeps == ASSUME IngredientsInv, NEW i \in DOMAIN rows, Delete(i) PROVE IngredientsInv'
<1>1. RowsAreTyped  BY DEF IngredientsInv
<1>2. PICK s : s = RemoveAt(rows, i)  OBVIOUS
<1>3. Rendered(s) /\ UNCHANGED <<refs, drag, editing>>  BY <1>2 DEF Delete, page
<1>4. /\ s \in Seq(IngredientRow) /\ Len(s) = Len(rows) - 1
      /\ \A j \in 1..(Len(rows) - 1) : s[j] = IF j < i THEN rows[j] ELSE rows[j + 1]
  BY <1>1, <1>2, RemoveAtRow DEF RowsAreTyped
<1>5. i \in 1..Len(rows) /\ Len(rows) \in Nat /\ DOMAIN rows = 1..Len(rows)
      /\ DOMAIN s = 1..(Len(rows) - 1)
  BY <1>1, <1>4 DEF RowsAreTyped
<1>6. PICK g : g = [j \in DOMAIN s |-> IF j < i THEN j ELSE j + 1]  OBVIOUS
<1>7. g \in [DOMAIN s -> DOMAIN rows] /\ \A j \in DOMAIN s : s[j] = rows[g[j]]
  BY <1>4, <1>5, <1>6
<1>8. \A j, l \in DOMAIN s : g[j] = g[l] => j = l  BY <1>5, <1>6
<1>9. rows' = s /\ strange \subseteq strange' /\ strange' \subseteq Oddities
  BY <1>1, <1>3, RenderedMeans DEF RowsAreTyped
<1> QED  BY <1>3, <1>4, <1>7, <1>8, <1>9, RowsPicked

LEMMA DropKeeps == ASSUME IngredientsInv, Drop PROVE IngredientsInv'
<1>1. RowsAreTyped  BY DEF IngredientsInv
<1>2. PICK to : to = IF drag.to > drag.from THEN drag.to - 1 ELSE drag.to  OBVIOUS
<1>3. PICK from \in Nat \ {0} : from = drag.from /\ to \in Nat \ {0}
  BY <1>1, <1>2 DEF Drop, RowsAreTyped, DragIsSound
<1>4. drag' = NoDrag /\ UNCHANGED <<refs, strange>>  BY DEF Drop
<1>5. strange \subseteq strange' /\ strange' \subseteq Oddities  BY <1>1, <1>4 DEF RowsAreTyped
<1>6. CASE UNCHANGED <<rows, ghost>>  BY <1>4, <1>5, <1>6, RowsRemain
<1>7. CASE ~UNCHANGED <<rows, ghost>>
  <2>1. PICK rest : rest = RemoveAt(rows, from)  OBVIOUS
  <2>2. PICK at : at = IF to <= Len(rest) THEN to ELSE Len(rest) + 1  OBVIOUS
  <2>3. PICK s : s = InsertAt(rest, at, rows[from])  OBVIOUS
  <2>4. from <= Len(rows) /\ rows' = s  BY <1>2, <1>3, <1>7, <2>1, <2>2, <2>3 DEF Drop
  <2>5. rows \in Seq(IngredientRow) /\ DOMAIN rows = 1..Len(rows) /\ Len(rows) \in Nat
        /\ from \in 1..Len(rows) /\ rows[from] \in IngredientRow
    BY <1>1, <1>3, <2>4 DEF RowsAreTyped
  <2>6. /\ rest \in Seq(IngredientRow) /\ Len(rest) = Len(rows) - 1
        /\ \A j \in 1..(Len(rows) - 1) : rest[j] = IF j < from THEN rows[j] ELSE rows[j + 1]
    BY <2>1, <2>5, RemoveAtRow
  <2>7. at \in 1..Len(rows)  BY <1>3, <2>2, <2>5, <2>6
  <2>8. /\ s \in Seq(IngredientRow) /\ Len(s) = Len(rows)
        /\ \A j \in 1..Len(rows) :
             s[j] = IF j < at THEN rest[j] ELSE IF j = at THEN rows[from] ELSE rest[j - 1]
    <3>1. at \in 1..(Len(rest) + 1) /\ Len(rest) + 1 = Len(rows)  BY <2>5, <2>6, <2>7
    <3>2. PICK e \in IngredientRow : e = rows[from]  BY <2>5
    <3>3. /\ s \in Seq(IngredientRow) /\ Len(s) = Len(rest) + 1
          /\ \A j \in 1..(Len(rest) + 1) :
               s[j] = IF j < at THEN rest[j] ELSE IF j = at THEN e ELSE rest[j - 1]
      <4>1. s = InsertAt(rest, at, e)  BY <2>3, <3>2
      <4>2. rest \in Seq(IngredientRow)  BY <2>6
      <4>3. /\ InsertAt(rest, at, e) \in Seq(IngredientRow) /\ Len(InsertAt(rest, at, e)) = Len(rest) + 1
            /\ \A j \in 1..(Len(rest) + 1) :
                 InsertAt(rest, at, e)[j] = IF j < at THEN rest[j] ELSE IF j = at THEN e ELSE rest[j - 1]
        BY <3>1, <4>2, InsertAtRow
      <4> QED  BY <4>1, <4>3
    <3> QED  BY <3>1, <3>2, <3>3
  <2>9. DOMAIN s = 1..Len(rows)  BY <2>8
  <2>10. PICK g : g = [j \in 1..Len(rows) |->
                         IF j = at THEN from
                         ELSE LET n == IF j < at THEN j ELSE j - 1
                              IN  IF n < from THEN n ELSE n + 1]
    OBVIOUS
  <2>11. g \in [DOMAIN s -> DOMAIN rows]  BY <2>5, <2>7, <2>9, <2>10
  <2>12. \A j, l \in DOMAIN s : g[j] = g[l] => j = l  BY <2>5, <2>7, <2>9, <2>10
  <2>13. ASSUME NEW j \in DOMAIN s PROVE s[j] = rows[g[j]]
    <3>1. CASE j = at  BY <2>8, <2>9, <2>10, <3>1
    <3>2. CASE j # at
      <4>1. PICK n \in 1..(Len(rows) - 1) : n = IF j < at THEN j ELSE j - 1
        BY <2>5, <2>7, <2>9, <3>2
      <4>2. s[j] = rest[n]  BY <2>7, <2>8, <2>9, <3>2, <4>1
      <4>3. g[j] = IF n < from THEN n ELSE n + 1  BY <2>9, <2>10, <3>2, <4>1
      <4> QED  BY <2>6, <4>2, <4>3
    <3> QED  BY <3>1, <3>2
  <2> QED  BY <1>4, <1>5, <2>4, <2>8, <2>11, <2>12, <2>13, RowsPicked
<1> QED  BY <1>6, <1>7

LEMMA RenameKeeps ==
  ASSUME IngredientsInv, NEW i \in DOMAIN rows, NEW name \in Names \cup {""}, Rename(i, name)
  PROVE  IngredientsInv'
<1>1. RowsAreTyped /\ NamesTell  BY DEF IngredientsInv
<1>2. PICK old : old = rows[i].name  OBVIOUS
<1>3. PICK s : s = [rows EXCEPT ![i].name = name]  OBVIOUS
<1>4. /\ Rendered(s) /\ UNCHANGED <<drag, editing>>
      /\ refs' = IF "" \in {name, old} THEN refs
                 ELSE {IF r.name = old THEN [r EXCEPT !.name = name] ELSE r : r \in refs}
  BY <1>2, <1>3 DEF Rename, page
<1>5. /\ s \in Seq(IngredientRow) /\ DOMAIN s = DOMAIN rows /\ s[i].name = name
      /\ \A j \in DOMAIN rows : s[j].id = rows[j].id
      /\ \A j \in DOMAIN rows \ {i} : s[j] = rows[j]
  <2>1. rows \in Seq(IngredientRow)  BY <1>1 DEF RowsAreTyped
  <2>2. i \in 1..Len(rows) /\ rows[i] \in IngredientRow
    <3>1. DOMAIN rows = 1..Len(rows)  BY <2>1, LenProperties
    <3>2. i \in 1..Len(rows)  BY <3>1
    <3> QED  BY <2>1, <3>2, ElementOfSeq
  <2>3. PICK e : e = [rows[i] EXCEPT !.name = name]  OBVIOUS
  <2>4. e \in IngredientRow /\ e.name = name /\ e.id = rows[i].id  BY <2>2, <2>3 DEF IngredientRow
  <2>5. s = [rows EXCEPT ![i] = e]  BY <1>3, <2>3
  <2>6. s \in Seq(IngredientRow)  BY <2>1, <2>2, <2>4, <2>5, ExceptSeq
  <2>7. DOMAIN s = DOMAIN rows /\ s[i] = e /\ \A j \in DOMAIN rows \ {i} : s[j] = rows[j]  BY <2>5
  <2>8. \A j \in DOMAIN rows : s[j].id = rows[j].id  BY <2>4, <2>7
  <2> QED  BY <2>4, <2>6, <2>7, <2>8
<1>6. /\ rows' = s /\ strange \subseteq strange' /\ strange' \subseteq Oddities
      /\ Oddities \cap strange' = {} =>
           /\ \A j, l \in DOMAIN s : s[j].name = s[l].name => j = l
           /\ \A j \in DOMAIN s : s[j].name # ""
  BY <1>1, <1>4, RenderedMeans DEF RowsAreTyped
<1>7. \A q \in refs' : \E r \in refs :
        /\ q \in Reference /\ q.of = r.of
        /\ q.name = IF r.name = old /\ name # "" /\ old # "" THEN name ELSE r.name
  <2>1. CASE "" \in {name, old}
    <3>1. refs' = refs  BY <1>4, <2>1
    <3> QED  BY <1>1, <2>1, <3>1 DEF RowsAreTyped
  <2>2. CASE "" \notin {name, old}
    <3> SUFFICES ASSUME NEW q \in refs'
                 PROVE  \E r \in refs : /\ q \in Reference /\ q.of = r.of
                                        /\ q.name = IF r.name = old THEN name ELSE r.name
      BY <2>2
    <3>1. PICK r \in refs : q = IF r.name = old THEN [r EXCEPT !.name = name] ELSE r
      BY <1>4, <2>2
    <3>2. r \in Reference  BY <1>1 DEF RowsAreTyped
    <3> QED  BY <3>1, <3>2 DEF Reference
  <2> QED  BY <2>1, <2>2
<1>8. RowsAreTyped'
  <2>1. \A j, l \in DOMAIN s : s[j].id = s[l].id => j = l  BY <1>1, <1>5 DEF RowsAreTyped
  <2>2. refs' \subseteq Reference  BY <1>7
  <2> QED  BY <1>1, <1>4, <1>5, <1>6, <2>1, <2>2 DEF RowsAreTyped, DragIsSound
<1>9. NamesTell'
  <2> SUFFICES ASSUME Oddities \cap strange' = {}, NEW q \in refs', NEW j \in DOMAIN s, s[j].id = q.of
               PROVE  q.name = s[j].name /\ q.name # ""
    BY <1>6 DEF NamesTell
  <2>1. /\ \A n, l \in DOMAIN rows : rows[n].name = rows[l].name => n = l
        /\ \A r \in refs, n \in DOMAIN rows :
             rows[n].id = r.of => r.name = rows[n].name /\ r.name # ""
    BY <1>1, <1>6 DEF NamesTell
  <2>2. PICK r \in refs : /\ q.of = r.of
                          /\ q.name = IF r.name = old /\ name # "" /\ old # "" THEN name ELSE r.name
    BY <1>7
  <2>3. r.name = rows[j].name /\ r.name # ""  BY <1>5, <2>1, <2>2
  <2>4. name # ""  BY <1>5, <1>6
  <2>5. CASE j = i  BY <1>2, <1>5, <2>2, <2>3, <2>4, <2>5
  <2>6. CASE j # i
    <3>1. r.name # old  BY <1>2, <1>5, <2>1, <2>3, <2>6
    <3> QED  BY <1>5, <2>2, <2>3, <2>6, <3>1
  <2> QED  BY <2>5, <2>6
<1> QED  BY <1>8, <1>9 DEF IngredientsInv

LEMMA CommitKeeps ==
  ASSUME IngredientsInv, NEW id \in Ids, NEW name \in Names, CommitGhost(id, name)
  PROVE  IngredientsInv'
<1>1. RowsAreTyped /\ NamesTell  BY DEF IngredientsInv
<1>2. PICK e : e = [id |-> id, name |-> name]  OBVIOUS
<1>3. PICK s : s = Append(rows, e)  OBVIOUS
<1>4. /\ rows' = s /\ UNCHANGED <<refs, drag, editing>>
      /\ strange' = IF \E i \in DOMAIN rows : rows[i].name = name THEN strange \cup {"mixed"} ELSE strange
  BY <1>2, <1>3 DEF CommitGhost, page
<1>5. /\ \A i \in DOMAIN rows : rows[i].id # id
      /\ \A r \in refs : r.of # id
  BY DEF CommitGhost, Unused
<1>6. e \in IngredientRow /\ e.id = id /\ e.name = name  BY <1>2 DEF IngredientRow
<1>7. /\ s \in Seq(IngredientRow)
      /\ \A j \in DOMAIN s : (j \in DOMAIN rows /\ s[j] = rows[j]) \/ (j = Len(rows) + 1 /\ s[j] = e)
  BY <1>1, <1>3, <1>6 DEF RowsAreTyped
<1>8. strange \subseteq strange' /\ strange' \subseteq Oddities  BY <1>1, <1>4 DEF RowsAreTyped, Oddities
<1>9. \A i, j \in DOMAIN s : s[i].id = s[j].id => i = j  BY <1>1, <1>5, <1>6, <1>7 DEF RowsAreTyped
<1>10. RowsAreTyped'  BY <1>1, <1>4, <1>7, <1>8, <1>9 DEF RowsAreTyped, DragIsSound
<1>11. NamesTell'
  <2> SUFFICES ASSUME Oddities \cap strange' = {}
               PROVE  /\ \A i, j \in DOMAIN s : s[i].name = s[j].name => i = j
                      /\ \A r \in refs, i \in DOMAIN s :
                           s[i].id = r.of => r.name = s[i].name /\ r.name # ""
    BY <1>4 DEF NamesTell
  <2>1. \A i \in DOMAIN rows : rows[i].name # name  BY <1>4 DEF Oddities
  <2>2. /\ \A i, j \in DOMAIN rows : rows[i].name = rows[j].name => i = j
        /\ \A r \in refs, i \in DOMAIN rows :
             rows[i].id = r.of => r.name = rows[i].name /\ r.name # ""
    BY <1>1, <1>8 DEF NamesTell
  <2>3. \A i, j \in DOMAIN s : s[i].name = s[j].name => i = j  BY <1>6, <1>7, <2>1, <2>2
  <2>4. ASSUME NEW r \in refs, NEW i \in DOMAIN s, s[i].id = r.of
        PROVE  r.name = s[i].name /\ r.name # ""
    <3>1. i \in DOMAIN rows /\ s[i] = rows[i]  BY <1>5, <1>6, <1>7, <2>4
    <3>2. rows[i].id = r.of  BY <2>4, <3>1
    <3>3. r.name = rows[i].name /\ r.name # ""  BY <2>2, <3>1, <3>2
    <3> QED  BY <3>1, <3>3
  <2> QED  BY <2>3, <2>4
<1> QED  BY <1>10, <1>11 DEF IngredientsInv

(* Someone else takes a row away or puts one in front.                     *)
LEMMA RemoteKeeps ==
  ASSUME IngredientsInv, NEW s \in Elsewhere, RemoteRows(s)
  PROVE  IngredientsInv'
<1>1. RowsAreTyped  BY DEF IngredientsInv
<1>2. /\ rows' = s /\ UNCHANGED <<refs, drag, editing>> /\ "remote" \in strange'
      /\ strange' \subseteq Oddities
  BY <1>1 DEF RemoteRows, page, RowsAreTyped, Oddities
<1>3. s \in Seq(IngredientRow) /\ \A i, j \in DOMAIN s : s[i].id = s[j].id => i = j
  <2>1. ASSUME NEW i \in DOMAIN rows, s = RemoveAt(rows, i)
        PROVE  s \in Seq(IngredientRow) /\ \A j, l \in DOMAIN s : s[j].id = s[l].id => j = l
    <3>1. /\ s \in Seq(IngredientRow) /\ Len(s) = Len(rows) - 1
          /\ \A j \in 1..(Len(rows) - 1) : s[j] = IF j < i THEN rows[j] ELSE rows[j + 1]
      BY <1>1, <2>1, RemoveAtRow DEF RowsAreTyped
    <3>2. /\ i \in 1..Len(rows) /\ Len(rows) \in Nat /\ DOMAIN rows = 1..Len(rows)
          /\ DOMAIN s = 1..(Len(rows) - 1)
      BY <1>1, <3>1 DEF RowsAreTyped
    <3>3. PICK g : g = [j \in DOMAIN s |-> IF j < i THEN j ELSE j + 1]  OBVIOUS
    <3>4. \A j \in DOMAIN s : g[j] \in DOMAIN rows /\ s[j] = rows[g[j]]  BY <3>1, <3>2, <3>3
    <3>5. \A j, l \in DOMAIN s : g[j] = g[l] => j = l  BY <3>2, <3>3
    <3>6. ASSUME NEW j \in DOMAIN s, NEW l \in DOMAIN s, s[j].id = s[l].id PROVE j = l
      <4>1. rows[g[j]].id = rows[g[l]].id /\ g[j] \in DOMAIN rows /\ g[l] \in DOMAIN rows
        BY <3>4, <3>6
      <4>2. g[j] = g[l]  BY <1>1, <4>1 DEF RowsAreTyped
      <4> QED  BY <3>5, <4>2
    <3> QED  BY <3>1, <3>6
  <2>2. ASSUME NEW e \in [id : Unused, name : Names], s = <<e>> \o rows
        PROVE  s \in Seq(IngredientRow) /\ \A j, l \in DOMAIN s : s[j].id = s[l].id => j = l
    <3>1. e.id \in Unused  OBVIOUS
    <3>2. e \in IngredientRow  BY DEF IngredientRow, Unused
    <3>3. rows \in Seq(IngredientRow) /\ DOMAIN rows = 1..Len(rows) /\ Len(rows) \in Nat
      BY <1>1 DEF RowsAreTyped
    <3>4. /\ s \in Seq(IngredientRow) /\ DOMAIN s = 1..(Len(rows) + 1) /\ s[1] = e
          /\ \A j \in 2..(Len(rows) + 1) : s[j] = rows[j - 1]
      BY <2>2, <3>2, <3>3
    <3>5. \A j \in DOMAIN rows : rows[j].id # e.id  BY <3>1 DEF Unused
    <3>6. ASSUME NEW j \in DOMAIN s, NEW l \in DOMAIN s, s[j].id = s[l].id PROVE j = l
      <4>1. CASE j = 1 \/ l = 1
        <5>1. \A n \in DOMAIN s : n # 1 => s[n].id # e.id
          <6> SUFFICES ASSUME NEW n \in DOMAIN s, n # 1 PROVE s[n].id # e.id  OBVIOUS
          <6>1. n - 1 \in DOMAIN rows /\ s[n] = rows[n - 1]  BY <3>3, <3>4
          <6> QED  BY <3>5, <6>1
        <5> QED  BY <3>4, <3>6, <4>1, <5>1
      <4>2. CASE j # 1 /\ l # 1
        <5>1. j - 1 \in DOMAIN rows /\ l - 1 \in DOMAIN rows /\ rows[j - 1].id = rows[l - 1].id
          BY <3>3, <3>4, <3>6, <4>2
        <5>2. j - 1 = l - 1  BY <1>1, <5>1 DEF RowsAreTyped
        <5> QED  BY <3>4, <5>2
      <4> QED  BY <4>1, <4>2
    <3> QED  BY <3>4, <3>6
  <2>3. \/ \E i \in DOMAIN rows : s = RemoveAt(rows, i)
        \/ \E e \in [id : Unused, name : Names] : s = <<e>> \o rows
    BY DEF Elsewhere
  <2> QED  BY <2>1, <2>2, <2>3
<1>4. RowsAreTyped'  BY <1>1, <1>2, <1>3 DEF RowsAreTyped, DragIsSound
<1>5. NamesTell'  BY <1>2 DEF NamesTell, Oddities
<1> QED  BY <1>4, <1>5 DEF IngredientsInv

LEMMA IngredientsStart == IngredientsInit => IngredientsInv
BY DEF IngredientsInit, IngredientsInv, RowsAreTyped, DragIsSound, NamesTell, Oddities

LEMMA IngredientsStep == ASSUME IngredientsInv, [IngredientsNext]_ingredientVars PROVE IngredientsInv'
<1>1. RowsAreTyped /\ NamesTell  BY DEF IngredientsInv
<1>2. strange \subseteq Oddities  BY <1>1 DEF RowsAreTyped
<1>3. CASE UNCHANGED ingredientVars
  BY <1>2, <1>3, RowsRemain DEF ingredientVars
<1>4. ASSUME NEW i \in DOMAIN rows, Refer(i) PROVE IngredientsInv'
  <2>1. PICK r : r = [of |-> rows[i].id, name |-> rows[i].name]  OBVIOUS
  <2>2. /\ rows[i].name # "" /\ refs' = refs \cup {r} /\ UNCHANGED <<rows, drag, strange, editing>>
    BY <1>4, <2>1 DEF Refer, page
  <2>3. r \in Reference /\ r.of = rows[i].id /\ r.name = rows[i].name
    <3>1. rows[i] \in IngredientRow  BY <1>1 DEF RowsAreTyped
    <3> QED  BY <2>1, <3>1 DEF IngredientRow, Reference
  <2>4. RowsAreTyped'  BY <1>1, <2>2, <2>3 DEF RowsAreTyped, DragIsSound
  <2>5. NamesTell'
    <3>1. \A j \in DOMAIN rows : rows[j].id = r.of => j = i  BY <1>1, <2>3 DEF RowsAreTyped
    <3>2. \A j \in DOMAIN rows : rows[j].id = r.of => r.name = rows[j].name /\ r.name # ""
      BY <2>2, <2>3, <3>1
    <3> SUFFICES ASSUME Oddities \cap strange = {}, NEW q \in refs', NEW j \in DOMAIN rows,
                        rows[j].id = q.of
                 PROVE  q.name = rows[j].name /\ q.name # ""
      BY <1>1, <2>2 DEF NamesTell
    <3>3. CASE q = r  BY <3>2, <3>3
    <3>4. CASE q \in refs  BY <1>1, <3>4 DEF NamesTell
    <3> QED  BY <2>2, <3>3, <3>4
  <2> QED  BY <2>4, <2>5 DEF IngredientsInv
<1>5. ASSUME NEW i \in DOMAIN rows, Check(i) \/ PickUnit(i) PROVE IngredientsInv'
  <2>1. UNCHANGED <<rows, refs, strange, drag, editing>>  BY <1>5 DEF Check, PickUnit
  <2> QED  BY <1>2, <2>1, RowsRemain
<1>6. CASE TypeGhost \/ CycleUnits \/ Reset \/ \E cs \in 1..MaxServings : Scale(cs)
  <2>1. UNCHANGED <<rows, refs, strange, drag, editing>>
    BY <1>6 DEF TypeGhost, CycleUnits, Reset, Scale, page
  <2> QED  BY <1>2, <2>1, RowsRemain
<1>7. CASE EditOther \/ \E n \in {2, 3} : ServingsChange(n)
  <2>1. Rendered(rows) /\ UNCHANGED <<refs, drag, editing>>
    BY <1>7 DEF EditOther, ServingsChange, page
  <2>2. rows' = rows /\ strange \subseteq strange' /\ strange' \subseteq Oddities
    BY <1>2, <2>1, RenderedMeans
  <2> QED  BY <2>1, <2>2, RowsRemain
<1>8. ASSUME NEW i \in DOMAIN rows, NEW to \in 1..(Len(rows) + 1), Drag(i, to) PROVE IngredientsInv'
  <2>1. i \in Nat \ {0} /\ to \in Nat \ {0}  BY <1>1 DEF RowsAreTyped
  <2>2. drag' = [from |-> i, to |-> to] /\ editing' /\ UNCHANGED <<rows, refs, strange>>
    BY <1>8 DEF Drag, page
  <2>3. drag' \in [from : Nat \ {0}, to : Nat \ {0}]  BY <2>1, <2>2
  <2> QED  BY <1>2, <2>2, <2>3, RowsRemain
<1>9. CASE Cancel \/ SetEditing
  <2>1. drag' = NoDrag /\ UNCHANGED <<rows, refs, strange>>  BY <1>9 DEF Cancel, SetEditing
  <2> QED  BY <1>2, <2>1, RowsRemain
<1>10. ASSUME NEW i \in DOMAIN rows, Delete(i) \/ \E n \in Names \cup {""} : Rename(i, n)
       PROVE  IngredientsInv'
  BY <1>10, DeleteKeeps, RenameKeeps
<1>11. ASSUME NEW id \in Ids, NEW n \in Names, CommitGhost(id, n) PROVE IngredientsInv'
  BY <1>11, CommitKeeps
<1>12. ASSUME NEW s \in Elsewhere, RemoteRows(s) PROVE IngredientsInv'  BY <1>12, RemoteKeeps
<1>13. CASE Drop  BY <1>13, DropKeeps
<1> QED
  BY <1>3, <1>4, <1>5, <1>6, <1>7, <1>8, <1>9, <1>10, <1>11, <1>12, <1>13 DEF IngredientsNext

(* The references in the text follow the names of their ingredients, over  *)
(* renames, deletions, drags and new rows in any order, as long as no two  *)
(* rows have had one name, none was cleared, and no one else reordered.    *)
THEOREM RefsFollowAlways == IngredientsSpec => []RefsFollow
<1>1. IngredientsInv => RefsFollow
  BY DEF IngredientsInv, NamesTell, RefsFollow, Oddities
<1> QED  BY <1>1, IngredientsStart, IngredientsStep, PTL DEF IngredientsSpec

-----------------------------------------------------------------------------
(* RecipeView: where an edit is kept, and what the page shows.  A user who *)
(* waits for the page (Hasty = FALSE) has one navigation under way at most.*)

StoreSet == [of : Recipes, doc : Documents, queued : BOOLEAN, shown : BOOLEAN]
OpenSet == [of : Recipes, read : BOOLEAN, doc : Documents]
NavSet == [step : {"close", "open", "add"}, from : Recipes \cup {None},
           to : Recipes \cup {None}, obj : Nat, wait : BOOLEAN]
ViewSet == [obj : Nat, of : Recipes] \cup {NoView}
Own(r, d) == d.title.of \in {None, r}

(* Every copy of a recipe has a title of its own.  The store in the map    *)
(* holds what was typed here, and so does IndexedDB unless a write is      *)
(* queued, which only a store in the map can have.                         *)
HeapInv ==
  /\ heap \in Seq(StoreSet) /\ Len(heap) <= MaxStores /\ stores \in [Recipes -> 0..Len(heap)]
  /\ idb \in [Recipes -> Documents] /\ srv \in [Recipes -> Documents]
  /\ sent \in [Recipes -> Documents] /\ mine \in [Recipes -> SUBSET (1..MaxEdits)]
  /\ \A o \in DOMAIN heap : /\ Own(heap[o].of, heap[o].doc)
                            /\ heap[o].queued => stores[heap[o].of] = o
  /\ \A r \in Recipes :
       /\ Own(r, idb[r]) /\ Own(r, srv[r])
       /\ stores[r] # 0 => heap[stores[r]].of = r /\ mine[r] \subseteq heap[stores[r]].doc.text
       /\ (stores[r] # 0 /\ heap[stores[r]].queued) \/ mine[r] \subseteq idb[r].text

(* A document that is being opened has no store, and nobody writes it in   *)
(* the meantime.                                                           *)
OpensInv ==
  /\ opening \in SUBSET OpenSet
  /\ \A p \in opening : Own(p.of, p.doc) /\ stores[p.of] = 0 /\ (p.read => p.doc = idb[p.of])
  /\ \A p, q \in opening : p.of = q.of => p = q

PageTypes ==
  /\ navs \in SUBSET NavSet /\ detail \in ViewSet
  /\ edits \in 0..MaxEdits /\ titleTyped \in 0..MaxEdits
  /\ subscribed \in SUBSET Recipes /\ selected \in Recipes \cup {None} /\ synced \in Titles
  /\ catalog \in [Recipes -> Titles] /\ \A r \in Recipes : catalog[r].of \in {None, r}

(* A navigation closes the store of the recipe selected, in which nothing  *)
(* is queued that it does not wait for, and opens that of the next.        *)
Closes(n) ==
  IF n.from = None THEN n.obj = 0 /\ selected \in {None, n.to}
  ELSE /\ n.from = selected /\ n.from # n.to /\ n.from \notin subscribed
       /\ n.obj = stores[n.from] /\ n.obj # 0 /\ (heap[n.obj].queued => n.wait)

NavInv ==
  /\ \A m, n \in navs : m = n
  /\ titleTyped # 0 => navs = {}
  /\ \A n \in navs : /\ n.step = "close" => Closes(n)
                     /\ n.step # "close" => n.to # None /\ n.obj = stores[n.to]
                     /\ n.step = "open" => selected = n.to
                     /\ n.step = "add" => selected # n.to

(* Only the recipe selected has a store that is shown, and while it is not *)
(* being exchanged for another, its title is the one last noticed.         *)
Settled == \A n \in navs : n.step # "open"

DetailInv ==
  /\ \A r \in Recipes :
       stores[r] # 0 /\ heap[stores[r]].shown => selected = r /\ detail = [obj |-> stores[r], of |-> r]
  /\ Settled => selected = detail.of
  /\ Settled /\ detail # NoView =>
       /\ detail.obj = stores[detail.of] /\ detail.obj # 0
       /\ heap[detail.obj].shown /\ synced = heap[detail.obj].doc.title
       /\ catalog[detail.of] \in {NoTitle, heap[detail.obj].doc.title}

ViewInv == HeapInv /\ OpensInv /\ PageTypes /\ NavInv /\ DetailInv

LEMMA BlankDoc == Blank \in Documents /\ NoTitle \in Titles /\ \A r : Own(r, Blank)
BY RecipeViewAssumption DEF Blank, Documents, Titles, NoTitle, Own

LEMMA StoreInMap ==
  ASSUME HeapInv, NEW r \in Recipes, stores[r] # 0
  PROVE  /\ stores[r] \in DOMAIN heap /\ stores[r] \in 1..Len(heap) /\ heap[stores[r]] \in StoreSet
         /\ \A q \in Recipes : stores[q] = stores[r] => q = r
BY DEF HeapInv

LEMMA Retitled ==
  ASSUME NEW r \in Recipes, NEW d \in Documents, NEW t \in Titles, t.of \in {None, r}
  PROVE  LET c == [d EXCEPT !.title = t]
         IN  c \in Documents /\ Own(r, c) /\ c.title = t /\ c.text = d.text
BY DEF Documents, Own

LEMMA MergeDocs ==
  ASSUME NEW r \in Recipes, NEW d \in Documents, NEW c \in Documents, Own(r, d), Own(r, c)
  PROVE  /\ Merge(d, c) \in Documents /\ Own(r, Merge(d, c)) /\ d.text \subseteq Merge(d, c).text
BY DEF Documents, Own, Merge

LEMMA ChangedStore ==
  ASSUME HeapInv, NEW o \in DOMAIN heap, NEW d \in Documents
  PROVE  \E s \in StoreSet : /\ Changed(heap, o, d) = [heap EXCEPT ![o] = s]
                             /\ s.of = heap[o].of /\ s.doc = d /\ s.queued /\ s.shown = heap[o].shown
<1>1. heap[o] \in StoreSet /\ heap \in Seq(StoreSet)  BY DEF HeapInv
<1>2. PICK s : s = [heap[o] EXCEPT !.doc = d, !.queued = TRUE]  OBVIOUS
<1>3. s \in StoreSet /\ s.of = heap[o].of /\ s.doc = d /\ s.queued /\ s.shown = heap[o].shown
  BY <1>1, <1>2 DEF StoreSet
<1>5. Changed(heap, o, d) = [heap EXCEPT ![o] = [heap[o] EXCEPT !.doc = d, !.queued = TRUE]]
  BY <1>1 DEF Changed
<1> QED  BY <1>2, <1>3, <1>5

(* The store of one recipe changes: nothing that was in it is lost.        *)
LEMMA HeapMoves ==
  ASSUME HeapInv, NEW r \in Recipes, stores[r] # 0, NEW s \in StoreSet,
         heap' = [heap EXCEPT ![stores[r]] = s], s.of = r, Own(r, s.doc),
         mine' \in [Recipes -> SUBSET (1..MaxEdits)],
         \A q \in Recipes \ {r} : mine'[q] = mine[q],
         mine'[r] \subseteq s.doc.text, s.queued \/ (mine'[r] = mine[r] /\ s.queued = heap[stores[r]].queued),
         UNCHANGED <<stores, idb, srv>>, sent' \in [Recipes -> Documents]
  PROVE  /\ HeapInv' /\ Len(heap') = Len(heap) /\ heap'[stores[r]] = s
         /\ \A o \in DOMAIN heap : o # stores[r] => heap'[o] = heap[o]
<1>1. PICK o : o = stores[r]  OBVIOUS
<1>2. o \in DOMAIN heap /\ heap \in Seq(StoreSet)  BY <1>1, StoreInMap DEF HeapInv
<1>3. /\ heap' \in Seq(StoreSet) /\ Len(heap') = Len(heap) /\ DOMAIN heap' = DOMAIN heap
      /\ heap'[o] = s /\ \A i \in DOMAIN heap : i # o => heap'[i] = heap[i]
  BY <1>1, <1>2
<1>4. ASSUME NEW i \in DOMAIN heap'
      PROVE  Own(heap'[i].of, heap'[i].doc) /\ (heap'[i].queued => stores'[heap'[i].of] = i)
  BY <1>1, <1>3 DEF HeapInv
<1>5. ASSUME NEW q \in Recipes
      PROVE  /\ stores'[q] # 0 => heap'[stores'[q]].of = q /\ mine'[q] \subseteq heap'[stores'[q]].doc.text
             /\ (stores'[q] # 0 /\ heap'[stores'[q]].queued) \/ mine'[q] \subseteq idb'[q].text
  <2>1. CASE q = r  BY <1>1, <1>3, <2>1 DEF HeapInv
  <2>2. CASE q # r
    <3>1. stores[q] # 0 => stores[q] # o /\ stores[q] \in DOMAIN heap  BY <1>1, <2>2, StoreInMap
    <3>2. mine'[q] = mine[q] /\ stores'[q] = stores[q] /\ idb'[q] = idb[q]  BY <2>2
    <3> QED  BY <1>3, <3>1, <3>2 DEF HeapInv
  <2> QED  BY <2>1, <2>2
<1>6. HeapInv'  BY <1>3, <1>4, <1>5 DEF HeapInv
<1> QED  BY <1>1, <1>3, <1>6

LEMMA OpensBegin ==
  ASSUME OpensInv, NEW map \in [Recipes -> Nat], \A p \in opening : map[p.of] = 0,
         NEW rs \in SUBSET Recipes, opening' = OpenBegin(opening, map, rs), stores' = map, idb' = idb
  PROVE  OpensInv'
<1>1. \A p \in opening' : p \notin opening =>
        \E r \in rs : /\ p = [of |-> r, read |-> FALSE, doc |-> Blank]
                      /\ map[r] = 0 /\ \A q \in opening : q.of # r
  BY DEF OpenBegin
<1>2. \A p \in opening' : p \notin opening =>
        /\ p = [of |-> p.of, read |-> FALSE, doc |-> Blank] /\ p.of \in Recipes /\ p.read = FALSE
        /\ p.doc = Blank /\ map[p.of] = 0 /\ \A q \in opening : q.of # p.of
  BY <1>1
<1>3. ASSUME NEW p \in opening', p \notin opening PROVE p \in OpenSet
  <2>1. PICK r \in rs : p = [of |-> r, read |-> FALSE, doc |-> Blank]  BY <1>1, <1>3
  <2>2. [of |-> r, read |-> FALSE, doc |-> Blank] \in OpenSet  BY BlankDoc DEF OpenSet
  <2> QED  BY <2>1, <2>2
<1>4. opening' \in SUBSET OpenSet  BY <1>3 DEF OpensInv
<1>5. \A p \in opening' : Own(p.of, p.doc) /\ stores'[p.of] = 0 /\ (p.read => p.doc = idb'[p.of])
  BY <1>2, BlankDoc DEF OpensInv
<1>6. \A p, q \in opening' : p.of = q.of => p = q  BY <1>2 DEF OpensInv
<1> QED  BY <1>4, <1>5, <1>6 DEF OpensInv

LEMMA MirroredTitle ==
  ASSUME PageTypes, NEW sel \in Recipes \cup {None}, NEW t \in Titles, t.of \in {None, sel}
  PROVE  LET cat == Mirrored(catalog, sel, t)
         IN  /\ cat \in [Recipes -> Titles]
             /\ \A r \in Recipes : /\ cat[r].of \in {None, r}
                                   /\ r # sel => cat[r] = catalog[r]
                                   /\ r = sel => cat[r] \in {NoTitle, t}
<1>1. CASE sel # None /\ catalog[sel] # NoTitle
  <2>1. Mirrored(catalog, sel, t) = [catalog EXCEPT ![sel] = t]  BY <1>1 DEF Mirrored
  <2> QED  BY <1>1, <2>1 DEF PageTypes
<1>2. CASE ~(sel # None /\ catalog[sel] # NoTitle)
  <2>1. Mirrored(catalog, sel, t) = catalog  BY <1>2 DEF Mirrored
  <2> QED  BY <1>2, <2>1, RecipeViewAssumption DEF PageTypes
<1> QED  BY <1>1, <1>2

LEMMA HeapStays ==
  ASSUME HeapInv, UNCHANGED <<heap, stores, idb, mine, srv>>, sent' \in [Recipes -> Documents]
  PROVE  HeapInv'
BY DEF HeapInv

LEMMA OpensStay == ASSUME OpensInv, UNCHANGED <<opening, stores, idb>> PROVE OpensInv'
BY DEF OpensInv

LEMMA NavsStay ==
  ASSUME NavInv, UNCHANGED <<navs, titleTyped, stores, subscribed, selected>>,
         \A n \in navs : n.step = "close" /\ n.from # None => (heap'[n.obj].queued => heap[n.obj].queued)
  PROVE  NavInv'
BY DEF NavInv, Closes

LEMMA DetailStays ==
  ASSUME DetailInv, UNCHANGED <<heap, stores, selected, detail, synced, catalog>>, Settled' => Settled
  PROVE  DetailInv'
BY DEF DetailInv

LEMMA OpenReadKeeps ==
  ASSUME ViewInv, NEW p \in opening, OpenRead(p) PROVE ViewInv'
<1>1. PICK s : s = [p EXCEPT !.read = TRUE, !.doc = idb[p.of]]  OBVIOUS
<1>2. p \in OpenSet /\ stores[p.of] = 0  BY DEF ViewInv, OpensInv
<1>3. s \in OpenSet /\ s.of = p.of /\ s.doc = idb[p.of] /\ Own(s.of, s.doc)
  BY <1>1, <1>2 DEF OpenSet, ViewInv, HeapInv, Own
<1>4. /\ opening' = (opening \ {p}) \cup {s}
      /\ UNCHANGED <<idb, heap, stores, subscribed, sent, srv, selected, detail, titleTyped, synced,
                     navs, catalog, mine, edits>>
  BY <1>1 DEF OpenRead
<1>5. OpensInv'  BY <1>2, <1>3, <1>4 DEF ViewInv, OpensInv
<1>6. HeapInv'  BY <1>4, HeapStays DEF ViewInv, HeapInv
<1>7. PageTypes'  BY <1>4 DEF ViewInv, PageTypes
<1>8. NavInv'  BY <1>4, NavsStay DEF ViewInv
<1>9. DetailInv'  BY <1>4, DetailStays DEF ViewInv, Settled
<1> QED  BY <1>5, <1>6, <1>7, <1>8, <1>9 DEF ViewInv

(* A navigation that goes on may learn of its object, or that the write it *)
(* waits for is done.                                                      *)
LEMMA NavsFollow ==
  ASSUME NavInv, \A m, n \in navs' : m = n, navs = {} => navs' = {},
         UNCHANGED <<titleTyped, subscribed, selected>>,
         \A m \in navs' : \E n \in navs :
           /\ m.step = n.step /\ m.from = n.from /\ m.to = n.to
           /\ n.step # "close" => m.obj = stores'[n.to]
           /\ n.step = "close" /\ n.from = None => m.obj = 0
           /\ n.step = "close" /\ n.from # None =>
                m.obj = stores'[n.from] /\ m.obj # 0 /\ (heap'[m.obj].queued => m.wait)
  PROVE  NavInv'
<1>1. ASSUME NEW m \in navs'
      PROVE  /\ m.step = "close" => Closes(m)'
             /\ m.step # "close" => m.to # None /\ m.obj = stores'[m.to]
             /\ m.step = "open" => selected' = m.to
             /\ m.step = "add" => selected' # m.to
  <2>1. PICK n \in navs :
           /\ m.step = n.step /\ m.from = n.from /\ m.to = n.to
           /\ n.step # "close" => m.obj = stores'[n.to]
           /\ n.step = "close" /\ n.from = None => m.obj = 0
           /\ n.step = "close" /\ n.from # None =>
                m.obj = stores'[n.from] /\ m.obj # 0 /\ (heap'[m.obj].queued => m.wait)
    OBVIOUS
  <2>2. /\ n.step = "close" => Closes(n)
        /\ n.step # "close" => n.to # None /\ n.obj = stores[n.to]
        /\ n.step = "open" => selected = n.to
        /\ n.step = "add" => selected # n.to
    BY DEF NavInv
  <2> QED  BY <2>1, <2>2 DEF Closes
<1>2. titleTyped' # 0 => navs' = {}  BY DEF NavInv
<1> QED  BY <1>1, <1>2 DEF NavInv

LEMMA OpenDoneKeeps ==
  ASSUME ViewInv, NEW p \in opening, OpenDone(p) PROVE ViewInv'
<1>1. PICK r \in Recipes : r = p.of  BY DEF ViewInv, OpensInv, OpenSet
<1>2. PICK k : k = Len(heap) + 1  OBVIOUS
<1>3. PICK s : s = [of |-> r, doc |-> p.doc, queued |-> FALSE, shown |-> FALSE]  OBVIOUS
<1>4. /\ p \in OpenSet /\ stores[r] = 0 /\ p.doc = idb[r] /\ Own(r, p.doc)
      /\ \A q \in opening \ {p} : q.of # r
  BY <1>1 DEF OpenDone, ViewInv, OpensInv
<1>5. /\ opening' = opening \ {p} /\ heap' = Append(heap, s) /\ stores' = [stores EXCEPT ![r] = k]
      /\ idb' = [idb EXCEPT ![r] = p.doc] /\ Len(heap) < MaxStores
      /\ navs' = {IF n.step \in {"add", "open"} /\ n.to = r /\ n.obj = 0
                    THEN [n EXCEPT !.obj = k] ELSE n : n \in navs}
      /\ UNCHANGED <<subscribed, sent, srv, selected, detail, titleTyped, synced, catalog, mine, edits>>
  BY <1>1, <1>2, <1>3 DEF OpenDone
<1>6. /\ heap \in Seq(StoreSet) /\ idb \in [Recipes -> Documents] /\ stores \in [Recipes -> 0..Len(heap)]
  BY DEF ViewInv, HeapInv
<1>7. idb' = idb  BY <1>4, <1>5, <1>6
<1>8. s \in StoreSet /\ s.of = r /\ s.doc = p.doc /\ ~s.queued /\ ~s.shown
  BY <1>3, <1>4 DEF StoreSet, OpenSet
<1>9. /\ heap' \in Seq(StoreSet) /\ Len(heap') = k /\ heap'[k] = s /\ k \in Nat /\ k # 0
      /\ \A i \in DOMAIN heap : heap'[i] = heap[i] /\ i \in DOMAIN heap' /\ i # k
      /\ \A i \in DOMAIN heap' : i = k \/ i \in DOMAIN heap
  BY <1>2, <1>5, <1>6, <1>8
<1>10. stores' \in [Recipes -> 0..Len(heap')] /\ Len(heap') <= MaxStores
  BY <1>2, <1>5, <1>6, <1>9, RecipeViewAssumption
<1>11. ASSUME NEW i \in DOMAIN heap'
       PROVE  Own(heap'[i].of, heap'[i].doc) /\ (heap'[i].queued => stores'[heap'[i].of] = i)
  <2>1. CASE i = k  BY <1>4, <1>8, <1>9, <2>1
  <2>2. CASE i # k
    <3>1. i \in DOMAIN heap /\ heap'[i] = heap[i] /\ i # 0  BY <1>6, <1>9, <2>2
    <3>2. heap[i].queued => stores[heap[i].of] = i  BY <3>1 DEF ViewInv, HeapInv
    <3> QED  BY <1>4, <1>5, <3>1, <3>2 DEF ViewInv, HeapInv
  <2> QED  BY <2>1, <2>2
<1>12. ASSUME NEW q \in Recipes
       PROVE  /\ stores'[q] # 0 => heap'[stores'[q]].of = q /\ mine'[q] \subseteq heap'[stores'[q]].doc.text
              /\ (stores'[q] # 0 /\ heap'[stores'[q]].queued) \/ mine'[q] \subseteq idb'[q].text
  <2>1. CASE q = r
    <3>1. stores'[q] = k /\ mine[r] \subseteq idb[r].text  BY <1>4, <1>5, <1>6, <2>1 DEF ViewInv, HeapInv
    <3> QED  BY <1>4, <1>5, <1>7, <1>8, <1>9, <2>1, <3>1
  <2>2. CASE q # r
    <3>1. stores'[q] = stores[q]  BY <1>5, <1>6, <2>2
    <3>2. stores[q] # 0 => stores[q] \in DOMAIN heap  BY <1>6
    <3> QED  BY <1>5, <1>7, <1>9, <3>1, <3>2 DEF ViewInv, HeapInv
  <2> QED  BY <2>1, <2>2
<1>13. HeapInv'  BY <1>5, <1>7, <1>9, <1>10, <1>11, <1>12 DEF ViewInv, HeapInv
<1>14. OpensInv'  BY <1>4, <1>5, <1>6, <1>7 DEF ViewInv, OpensInv, OpenSet
<1>15. ASSUME NEW m \in navs'
       PROVE  \E n \in navs :
                /\ m \in NavSet /\ m.step = n.step /\ m.from = n.from /\ m.to = n.to
                /\ n.step # "close" => m.obj = stores'[n.to]
                /\ n.step = "close" /\ n.from = None => m.obj = 0
                /\ n.step = "close" /\ n.from # None =>
                     m.obj = stores'[n.from] /\ m.obj # 0 /\ (heap'[m.obj].queued => m.wait)
  <2>1. PICK n \in navs : m = IF n.step \in {"add", "open"} /\ n.to = r /\ n.obj = 0
                                THEN [n EXCEPT !.obj = k] ELSE n
    BY <1>5
  <2>2. n \in NavSet  BY DEF ViewInv, PageTypes
  <2>3. /\ m \in NavSet /\ m.step = n.step /\ m.from = n.from /\ m.to = n.to /\ m.wait = n.wait
        /\ m.obj = IF n.step \in {"add", "open"} /\ n.to = r /\ n.obj = 0 THEN k ELSE n.obj
    BY <1>9, <2>1, <2>2 DEF NavSet
  <2>4. CASE n.step # "close"
    <3>1. n.to \in Recipes /\ n.obj = stores[n.to] /\ n.step \in {"add", "open"}
      BY <2>2, <2>4 DEF NavSet, ViewInv, NavInv
    <3> QED  BY <1>4, <1>5, <1>6, <2>3, <2>4, <3>1
  <2>5. CASE n.step = "close" /\ n.from = None
    BY <2>3, <2>5 DEF ViewInv, NavInv, Closes
  <2>6. CASE n.step = "close" /\ n.from # None
    <3>1. n.from \in Recipes /\ n.obj = stores[n.from] /\ n.obj # 0 /\ (heap[n.obj].queued => n.wait)
      BY <2>2, <2>6 DEF NavSet, ViewInv, NavInv, Closes
    <3>2. n.from # r /\ n.obj \in DOMAIN heap  BY <1>4, <1>6, <3>1
    <3> QED  BY <1>5, <1>6, <1>9, <2>3, <2>6, <3>1, <3>2
  <2> QED  BY <2>4, <2>5, <2>6
<1>18. NavInv'
  <2>1. (\A m, n \in navs' : m = n) /\ (navs = {} => navs' = {})  BY <1>5 DEF ViewInv, NavInv
  <2> QED  BY <1>5, <1>15, <2>1, NavsFollow DEF ViewInv
<1>19. Settled' => Settled
  <2>1. ASSUME NEW n \in navs PROVE \E m \in navs' : m.step = n.step
    <3>1. PICK m : m = IF n.step \in {"add", "open"} /\ n.to = r /\ n.obj = 0
                         THEN [n EXCEPT !.obj = k] ELSE n
      OBVIOUS
    <3>2. n \in NavSet /\ m \in navs'  BY <1>5, <3>1 DEF ViewInv, PageTypes
    <3> QED  BY <3>1, <3>2 DEF NavSet
  <2> QED  BY <2>1 DEF Settled
<1>16. PageTypes'
  <2>1. navs' \in SUBSET NavSet  BY <1>15
  <2> QED  BY <1>5, <2>1 DEF ViewInv, PageTypes
<1>17. DetailInv'
  <2>1. ASSUME NEW q \in Recipes, stores'[q] # 0, heap'[stores'[q]].shown
        PROVE  selected = q /\ detail = [obj |-> stores'[q], of |-> q]
    <3>1. q # r  BY <1>5, <1>6, <1>8, <1>9, <2>1
    <3>2. stores'[q] = stores[q] /\ stores[q] \in DOMAIN heap  BY <1>5, <1>6, <2>1, <3>1
    <3> QED  BY <1>9, <2>1, <3>2 DEF ViewInv, DetailInv
  <2>2. ASSUME Settled, detail # NoView
        PROVE  /\ detail.of \in Recipes /\ detail.of # r /\ detail.obj \in DOMAIN heap
    BY <1>4, <1>6, <2>2 DEF ViewInv, DetailInv, PageTypes, ViewSet
  <2>3. Settled /\ detail # NoView => stores'[detail.of] = stores[detail.of] /\ heap'[detail.obj] = heap[detail.obj]
    BY <1>5, <1>6, <1>9, <2>2
  <2> QED  BY <1>5, <1>19, <2>1, <2>3 DEF ViewInv, DetailInv
<1> QED  BY <1>13, <1>14, <1>16, <1>17, <1>18 DEF ViewInv

LEMMA PersistKeeps ==
  ASSUME ViewInv, NEW o \in DOMAIN heap, Persist(o) PROVE ViewInv'
<1>1. heap[o] \in StoreSet /\ heap \in Seq(StoreSet)  BY DEF ViewInv, HeapInv
<1>2. PICK r \in Recipes : r = heap[o].of  BY <1>1 DEF StoreSet
<1>3. PICK s : s = [heap[o] EXCEPT !.queued = FALSE]  OBVIOUS
<1>4. /\ heap[o].queued /\ heap' = [heap EXCEPT ![o] = s] /\ idb' = [idb EXCEPT ![r] = heap[o].doc]
      /\ navs' = {IF n.step = "close" /\ n.obj = o THEN [n EXCEPT !.wait = FALSE] ELSE n : n \in navs}
      /\ UNCHANGED <<stores, opening, subscribed, sent, srv, selected, detail, titleTyped, synced,
                     catalog, mine, edits>>
  BY <1>2, <1>3 DEF Persist
<1>5. s \in StoreSet /\ s.of = r /\ s.doc = heap[o].doc /\ ~s.queued /\ s.shown = heap[o].shown
  BY <1>1, <1>2, <1>3 DEF StoreSet
<1>6. stores[r] = o /\ o # 0 /\ o \in 1..Len(heap)  BY <1>1, <1>2, <1>4 DEF ViewInv, HeapInv
<1>7. /\ heap' \in Seq(StoreSet) /\ Len(heap') = Len(heap) /\ DOMAIN heap' = DOMAIN heap
      /\ heap'[o] = s /\ \A i \in DOMAIN heap : i # o => heap'[i] = heap[i]
  BY <1>1, <1>4, <1>5
<1>8. /\ idb \in [Recipes -> Documents] /\ heap[o].doc \in Documents /\ Own(r, heap[o].doc)
  BY <1>1, <1>2 DEF ViewInv, HeapInv, StoreSet
<1>9. idb' \in [Recipes -> Documents] /\ idb'[r] = heap[o].doc /\ \A q \in Recipes : q # r => idb'[q] = idb[q]
  BY <1>4, <1>8
<1>10. ASSUME NEW i \in DOMAIN heap'
       PROVE  Own(heap'[i].of, heap'[i].doc) /\ (heap'[i].queued => stores'[heap'[i].of] = i)
  BY <1>2, <1>4, <1>5, <1>6, <1>7, <1>8 DEF ViewInv, HeapInv
<1>11. ASSUME NEW q \in Recipes
       PROVE  /\ Own(q, idb'[q])
              /\ stores'[q] # 0 => heap'[stores'[q]].of = q /\ mine'[q] \subseteq heap'[stores'[q]].doc.text
              /\ (stores'[q] # 0 /\ heap'[stores'[q]].queued) \/ mine'[q] \subseteq idb'[q].text
  <2>1. CASE q = r
    <3>1. mine[r] \subseteq heap[o].doc.text  BY <1>6 DEF ViewInv, HeapInv
    <3> QED  BY <1>4, <1>5, <1>6, <1>7, <1>8, <1>9, <2>1, <3>1
  <2>2. CASE q # r
    <3>1. stores[q] # 0 => stores[q] # o /\ stores[q] \in DOMAIN heap
      BY <1>6, <2>2, StoreInMap DEF ViewInv
    <3>2. stores'[q] = stores[q] /\ mine'[q] = mine[q] /\ idb'[q] = idb[q]  BY <1>4, <1>9, <2>2
    <3> QED  BY <1>7, <3>1, <3>2 DEF ViewInv, HeapInv
  <2> QED  BY <2>1, <2>2
<1>12. HeapInv'  BY <1>4, <1>7, <1>9, <1>10, <1>11 DEF ViewInv, HeapInv
<1>13. OpensInv'
  <2>1. \A p \in opening : p.of \in Recipes /\ p.of # r
    BY <1>6 DEF ViewInv, OpensInv, OpenSet
  <2> QED  BY <1>4, <1>9, <2>1 DEF ViewInv, OpensInv
<1>14. ASSUME NEW m \in navs'
       PROVE  \E n \in navs :
                /\ m \in NavSet /\ m.step = n.step /\ m.from = n.from /\ m.to = n.to
                /\ n.step # "close" => m.obj = stores'[n.to]
                /\ n.step = "close" /\ n.from = None => m.obj = 0
                /\ n.step = "close" /\ n.from # None =>
                     m.obj = stores'[n.from] /\ m.obj # 0 /\ (heap'[m.obj].queued => m.wait)
  <2>1. PICK n \in navs : m = IF n.step = "close" /\ n.obj = o THEN [n EXCEPT !.wait = FALSE] ELSE n
    BY <1>4
  <2>2. n \in NavSet  BY DEF ViewInv, PageTypes
  <2>3. /\ m \in NavSet /\ m.step = n.step /\ m.from = n.from /\ m.to = n.to /\ m.obj = n.obj
        /\ n.obj # o => m.wait = n.wait
    BY <2>1, <2>2 DEF NavSet
  <2>4. CASE n.step # "close" \/ n.from = None
    BY <1>4, <2>3, <2>4 DEF ViewInv, NavInv, Closes
  <2>5. CASE n.step = "close" /\ n.from # None
    <3>1. n.from \in Recipes /\ n.obj = stores[n.from] /\ n.obj # 0 /\ (heap[n.obj].queued => n.wait)
      BY <2>2, <2>5 DEF NavSet, ViewInv, NavInv, Closes
    <3>2. n.obj \in DOMAIN heap  BY <3>1 DEF ViewInv, HeapInv
    <3> QED  BY <1>4, <1>5, <1>7, <2>3, <2>5, <3>1, <3>2
  <2> QED  BY <2>4, <2>5
<1>15. NavInv'
  <2>1. \A m, n \in navs : m = n  BY DEF ViewInv, NavInv
  <2>2. ASSUME NEW m \in navs', NEW n \in navs' PROVE m = n
    <3>1. PICK i \in navs : m = IF i.step = "close" /\ i.obj = o THEN [i EXCEPT !.wait = FALSE] ELSE i
      BY <1>4
    <3>2. PICK j \in navs : n = IF j.step = "close" /\ j.obj = o THEN [j EXCEPT !.wait = FALSE] ELSE j
      BY <1>4
    <3> QED  BY <2>1, <3>1, <3>2
  <2>3. navs = {} => navs' = {}  BY <1>4
  <2> QED  BY <1>4, <1>14, <2>2, <2>3, NavsFollow DEF ViewInv
<1>16. Settled' => Settled
  <2>1. ASSUME NEW n \in navs PROVE \E m \in navs' : m.step = n.step
    <3>1. PICK m : m = IF n.step = "close" /\ n.obj = o THEN [n EXCEPT !.wait = FALSE] ELSE n
      OBVIOUS
    <3>2. n \in NavSet /\ m \in navs'  BY <1>4, <3>1 DEF ViewInv, PageTypes
    <3> QED  BY <3>1, <3>2 DEF NavSet
  <2> QED  BY <2>1 DEF Settled
<1>17. PageTypes'
  <2>1. navs' \in SUBSET NavSet  BY <1>14
  <2> QED  BY <1>4, <2>1 DEF ViewInv, PageTypes
<1>18. DetailInv'
  <2>1. \A i \in DOMAIN heap : heap'[i].shown = heap[i].shown /\ heap'[i].doc = heap[i].doc
    BY <1>5, <1>7
  <2>2. \A q \in Recipes : stores[q] # 0 => stores[q] \in DOMAIN heap  BY DEF ViewInv, HeapInv
  <2>3. Settled /\ detail # NoView => detail.obj \in DOMAIN heap
    BY <2>2 DEF ViewInv, DetailInv, PageTypes, ViewSet
  <2> QED  BY <1>4, <1>16, <2>1, <2>2, <2>3 DEF ViewInv, DetailInv
<1> QED  BY <1>12, <1>13, <1>15, <1>17, <1>18 DEF ViewInv

(* A navigation that begins closes the store of the recipe selected.       *)
LEMMA Leaves ==
  ASSUME ViewInv, Settled, NEW to \in Recipes \cup {None}, NEW from, NEW m,
         from = IF selected = to THEN None ELSE selected, m = [Leave(from) EXCEPT !.to = to],
         subscribed' = subscribed \ {from}, UNCHANGED <<selected, stores>>,
         from # None => heap'[stores[from]].queued = heap[stores[from]].queued
  PROVE  m \in NavSet /\ m.step = "close" /\ Closes(m)'
<1>1. selected \in Recipes \cup {None} /\ from \in Recipes \cup {None}  BY DEF ViewInv, PageTypes
<1>2. from # None => stores[from] \in DOMAIN heap /\ stores[from] # 0 /\ stores[from] \in Nat
  <2>1. from # None => detail.of = from /\ detail # NoView /\ from \in Recipes
    BY <1>1, RecipeViewAssumption DEF NoView, ViewInv, DetailInv
  <2> QED  BY <2>1 DEF ViewInv, DetailInv, HeapInv
<1>3. from # None => heap[stores[from]].queued \in BOOLEAN
  <2>1. heap \in Seq(StoreSet)  BY DEF ViewInv, HeapInv
  <2>2. from # None => heap[stores[from]] \in StoreSet  BY <1>2, <2>1
  <2> QED  BY <2>2 DEF StoreSet
<1>4. PICK k : k = IF from = None THEN 0 ELSE stores[from]  OBVIOUS
<1>5. PICK b : b = (k # 0 /\ heap[k].queued)  OBVIOUS
<1>6. Leave(from) = [step |-> "close", from |-> from, to |-> None, obj |-> k, wait |-> b]
  BY <1>4, <1>5 DEF Leave, Nav
<1>7. /\ m.step = "close" /\ m.from = from /\ m.to = to /\ m.obj = k /\ m.wait = b
      /\ m = [step |-> "close", from |-> from, to |-> to, obj |-> k, wait |-> b]
  BY <1>6
<1>8. k \in Nat /\ b \in BOOLEAN  BY <1>2, <1>3, <1>4, <1>5
<1>9. m \in NavSet  BY <1>1, <1>7, <1>8 DEF NavSet
<1>10. Closes(m)'
  <2>1. CASE from = None  BY <1>4, <1>7, <2>1 DEF Closes
  <2>2. CASE from # None  BY <1>2, <1>4, <1>5, <1>7, <2>2 DEF Closes
  <2> QED  BY <2>1, <2>2
<1> QED  BY <1>7, <1>9, <1>10

LEMMA OneNav ==
  ASSUME NEW m \in NavSet, navs' = {m}, titleTyped' = 0, m.step = "close" => Closes(m)',
         m.step # "close" => m.to # None /\ m.obj = stores'[m.to],
         m.step = "open" => selected' = m.to, m.step = "add" => selected' # m.to
  PROVE  NavInv' /\ navs' \in SUBSET NavSet /\ (Settled' <=> m.step # "open")
<1>1. navs' \in SUBSET NavSet /\ (Settled' <=> m.step # "open")  BY DEF Settled
<1>2. NavInv'  BY DEF NavInv
<1> QED  BY <1>1, <1>2

LEMMA SelectKeeps ==
  ASSUME ViewInv, Hasty = FALSE, NEW r \in Recipes, Select(r) PROVE ViewInv'
<1>1. PICK from : from = IF selected = r THEN None ELSE selected  OBVIOUS
<1>2. PICK m : m = [Leave(from) EXCEPT !.to = r]  OBVIOUS
<1>3. /\ navs = {} /\ titleTyped = 0 /\ subscribed' = subscribed \ {from} /\ navs' = {m}
      /\ UNCHANGED <<idb, heap, stores, opening, sent, srv, selected, detail, titleTyped,
                     synced, catalog, mine, edits>>
  BY <1>1, <1>2 DEF Select, Calm, Begin
<1>4. m \in NavSet /\ m.step = "close" /\ Closes(m)' /\ Settled
  <2>1. Settled  BY <1>3 DEF Settled
  <2> QED  BY <1>1, <1>2, <1>3, <2>1, Leaves
<1>5. NavInv' /\ navs' \in SUBSET NavSet  BY <1>3, <1>4, OneNav
<1>6. PageTypes'  BY <1>3, <1>5 DEF ViewInv, PageTypes
<1>7. HeapInv'  BY <1>3, HeapStays DEF ViewInv, HeapInv
<1>8. OpensInv'  BY <1>3, OpensStay DEF ViewInv
<1>9. DetailInv'  BY <1>3, <1>4, DetailStays DEF ViewInv
<1> QED  BY <1>5, <1>6, <1>7, <1>8, <1>9 DEF ViewInv

LEMMA DeselectKeeps ==
  ASSUME ViewInv, Hasty = FALSE, NEW delete \in BOOLEAN, Deselect(delete) PROVE ViewInv'
<1>1. PICK from : from = IF selected = None THEN None ELSE selected  OBVIOUS
<1>2. PICK m : m = [Leave(from) EXCEPT !.to = None]  OBVIOUS
<1>3. /\ navs = {} /\ titleTyped = 0 /\ subscribed' = subscribed \ {from} /\ navs' = {m}
      /\ catalog' = IF delete THEN [catalog EXCEPT ![selected] = NoTitle] ELSE catalog
      /\ UNCHANGED <<idb, heap, stores, opening, sent, srv, selected, detail, titleTyped,
                     synced, mine, edits>>
  BY <1>1, <1>2 DEF Deselect, Calm, Begin
<1>4. m \in NavSet /\ m.step = "close" /\ Closes(m)' /\ Settled
  <2>1. Settled  BY <1>3 DEF Settled
  <2> QED  BY <1>1, <1>2, <1>3, <2>1, Leaves
<1>5. NavInv' /\ navs' \in SUBSET NavSet  BY <1>3, <1>4, OneNav
<1>6. /\ catalog' \in [Recipes -> Titles]
      /\ \A r \in Recipes : catalog'[r] = catalog[r] \/ catalog'[r] = NoTitle
  BY <1>3, BlankDoc DEF ViewInv, PageTypes
<1>7. PageTypes'
  <2>1. NoTitle.of = None  BY DEF NoTitle
  <2>2. \A r \in Recipes : catalog'[r].of \in {None, r}  BY <1>6, <2>1 DEF ViewInv, PageTypes
  <2> QED  BY <1>3, <1>5, <1>6, <2>2 DEF ViewInv, PageTypes
<1>8. HeapInv'  BY <1>3, HeapStays DEF ViewInv, HeapInv
<1>9. OpensInv'  BY <1>3, OpensStay DEF ViewInv
<1>10. DetailInv'
  <2>1. detail # NoView => detail.of \in Recipes  BY DEF ViewInv, PageTypes, ViewSet
  <2> QED  BY <1>3, <1>4, <1>6, <2>1 DEF ViewInv, DetailInv
<1> QED  BY <1>5, <1>7, <1>8, <1>9, <1>10 DEF ViewInv

LEMMA AddRecipeKeeps ==
  ASSUME ViewInv, Hasty = FALSE, NEW r \in Recipes, AddRecipe(r) PROVE ViewInv'
<1>1. PICK m : m = [step |-> "add", from |-> None, to |-> r, obj |-> 0, wait |-> FALSE]  OBVIOUS
<1>2. PICK t : t = [of |-> r, n |-> edits + 1]  OBVIOUS
<1>3. /\ navs = {} /\ titleTyped = 0 /\ edits < MaxEdits /\ edits' = edits + 1 /\ stores[r] = 0
      /\ catalog' = [catalog EXCEPT ![r] = t] /\ opening' = OpenBegin(opening, stores, {r})
      /\ navs' = {m}
      /\ UNCHANGED <<idb, heap, stores, subscribed, sent, srv, selected, detail, titleTyped, synced, mine>>
  BY <1>1, <1>2 DEF AddRecipe, Calm, Nav
<1>4. Settled  BY <1>3 DEF Settled
<1>5. edits' \in 0..MaxEdits /\ t \in Titles /\ t.of = r
  BY <1>2, <1>3, RecipeViewAssumption DEF ViewInv, PageTypes, Titles
<1>6. selected # r /\ detail.of # r /\ r # None
  <2>1. r # None  BY RecipeViewAssumption
  <2>2. detail.of # r  BY <1>3, <1>4, <2>1 DEF ViewInv, DetailInv, NoView
  <2> QED  BY <1>4, <2>1, <2>2 DEF ViewInv, DetailInv
<1>7. m \in NavSet  BY <1>1 DEF NavSet
<1>8. NavInv' /\ navs' \in SUBSET NavSet
  <2>1. /\ m.step = "add" /\ m.to = r /\ m.obj = 0  BY <1>1
  <2> QED  BY <1>3, <1>6, <1>7, <2>1, OneNav
<1>9. PageTypes'
  <2>1. catalog' \in [Recipes -> Titles] /\ \A q \in Recipes : catalog'[q].of \in {None, q}
    BY <1>3, <1>5 DEF ViewInv, PageTypes
  <2> QED  BY <1>3, <1>5, <1>8, <2>1 DEF ViewInv, PageTypes
<1>10. HeapInv'  BY <1>3, HeapStays DEF ViewInv, HeapInv
<1>11. OpensInv'
  <2>1. stores \in [Recipes -> Nat] /\ \A p \in opening : stores[p.of] = 0
    BY DEF ViewInv, HeapInv, OpensInv
  <2> QED  BY <1>3, <2>1, OpensBegin DEF ViewInv
<1>12. DetailInv'
  <2>1. detail # NoView => catalog'[detail.of] = catalog[detail.of]
    BY <1>3, <1>6 DEF ViewInv, PageTypes, ViewSet
  <2> QED  BY <1>3, <1>4, <2>1 DEF ViewInv, DetailInv
<1> QED  BY <1>8, <1>9, <1>10, <1>11, <1>12 DEF ViewInv

LEMMA AddedKeeps ==
  ASSUME ViewInv, NEW n \in navs, Added(n) PROVE ViewInv'
<1>1. PICK r \in Recipes : r = n.to
  BY DEF Added, ViewInv, PageTypes, NavInv, NavSet
<1>2. /\ n.step = "add" /\ n.obj = stores[r] /\ stores[r] # 0 /\ selected # r /\ navs = {n} /\ titleTyped = 0
  BY <1>1 DEF Added, ViewInv, NavInv
<1>3. Settled  BY <1>2 DEF Settled
<1>4. PICK o : o = stores[r]  OBVIOUS
<1>5. PICK d : d = [heap[o].doc EXCEPT !.title = catalog[r]]  OBVIOUS
<1>6. /\ o \in DOMAIN heap /\ heap[o] \in StoreSet /\ heap[o].of = r
      /\ heap[o].doc \in Documents /\ Own(r, heap[o].doc) /\ mine[r] \subseteq heap[o].doc.text
  BY <1>2, <1>4, StoreInMap DEF ViewInv, HeapInv, StoreSet
<1>7. d \in Documents /\ Own(r, d) /\ d.text = heap[o].doc.text
  <2>1. catalog[r] \in Titles /\ catalog[r].of \in {None, r}  BY DEF ViewInv, PageTypes
  <2> QED  BY <1>5, <1>6, <2>1, Retitled
<1>8. PICK s \in StoreSet : /\ Changed(heap, o, d) = [heap EXCEPT ![o] = s]
                            /\ s.of = r /\ s.doc = d /\ s.queued /\ s.shown = heap[o].shown
  BY <1>6, <1>7, ChangedStore DEF ViewInv
<1>9. PICK from : from = IF selected = r THEN None ELSE selected  OBVIOUS
<1>10. PICK m : m = [Leave(from) EXCEPT !.to = r]  OBVIOUS
<1>11. /\ heap' = [heap EXCEPT ![stores[r]] = s] /\ subscribed' = subscribed \ {from} /\ navs' = {m}
       /\ UNCHANGED <<idb, stores, opening, sent, srv, selected, detail, titleTyped, synced,
                      catalog, mine, edits>>
  BY <1>1, <1>2, <1>4, <1>5, <1>8, <1>9, <1>10 DEF Added
<1>12. HeapInv' /\ Len(heap') = Len(heap) /\ \A i \in DOMAIN heap : i # o => heap'[i] = heap[i]
  <2>1. mine' \in [Recipes -> SUBSET (1..MaxEdits)] /\ sent' \in [Recipes -> Documents]
    BY <1>11 DEF ViewInv, HeapInv
  <2>2. mine'[r] \subseteq s.doc.text /\ \A q \in Recipes \ {r} : mine'[q] = mine[q]
    BY <1>6, <1>7, <1>8, <1>11
  <2> QED  BY <1>2, <1>4, <1>7, <1>8, <1>11, <2>1, <2>2, HeapMoves DEF ViewInv
<1>13. \A q \in Recipes : q # r /\ stores[q] # 0 => stores[q] \in DOMAIN heap /\ heap'[stores[q]] = heap[stores[q]]
  BY <1>2, <1>4, <1>12, StoreInMap DEF ViewInv
<1>14. m \in NavSet /\ m.step = "close" /\ Closes(m)'
  <2>1. from # None => heap'[stores[from]].queued = heap[stores[from]].queued
    <3>1. from # None => from \in Recipes /\ from # r /\ from = detail.of
      BY <1>2, <1>3, <1>9 DEF ViewInv, PageTypes, DetailInv
    <3>2. from # None => stores[from] # 0
      BY <1>3, <3>1, RecipeViewAssumption DEF ViewInv, DetailInv, NoView
    <3> QED  BY <1>13, <3>1, <3>2
  <2> QED  BY <1>3, <1>9, <1>10, <1>11, <2>1, Leaves
<1>15. NavInv' /\ navs' \in SUBSET NavSet  BY <1>2, <1>11, <1>14, OneNav
<1>16. PageTypes'  BY <1>11, <1>15 DEF ViewInv, PageTypes
<1>17. OpensInv'  BY <1>11, OpensStay DEF ViewInv
<1>18. DetailInv'
  <2>1. ASSUME NEW q \in Recipes, stores[q] # 0, heap'[stores[q]].shown
        PROVE  selected = q /\ detail = [obj |-> stores[q], of |-> q]
    <3>1. heap[stores[q]].shown
      <4>1. CASE q = r  BY <1>4, <1>6, <1>8, <1>11, <2>1, <4>1 DEF ViewInv, HeapInv
      <4>2. CASE q # r  BY <1>13, <2>1, <4>2
      <4> QED  BY <4>1, <4>2
    <3> QED  BY <2>1, <3>1 DEF ViewInv, DetailInv
  <2>2. detail # NoView => heap'[detail.obj] = heap[detail.obj]
    <3>1. detail # NoView => detail.of \in Recipes /\ detail.of # r
      BY <1>2, <1>3 DEF ViewInv, DetailInv, PageTypes, ViewSet
    <3> QED  BY <1>3, <1>13, <3>1 DEF ViewInv, DetailInv
  <2> QED  BY <1>3, <1>11, <2>1, <2>2 DEF ViewInv, DetailInv
<1> QED  BY <1>12, <1>15, <1>16, <1>17, <1>18 DEF ViewInv

LEMMA LeftPreviousKeeps ==
  ASSUME ViewInv, NEW n \in navs, LeftPrevious(n) PROVE ViewInv'
<1>1. /\ n \in NavSet /\ n.step = "close" /\ ~n.wait /\ Closes(n) /\ navs = {n} /\ titleTyped = 0
  BY DEF LeftPrevious, ViewInv, PageTypes, NavInv
<1>2. PICK map : map = IF n.obj = 0 THEN stores ELSE [stores EXCEPT ![n.from] = 0]  OBVIOUS
<1>3. /\ stores' = map /\ selected' = n.to
      /\ IF n.to = None
           THEN /\ navs' = {} /\ detail' = NoView /\ titleTyped' = 0 /\ UNCHANGED <<heap, catalog, opening>>
           ELSE /\ navs' = {Nav("open", None, n.to, map[n.to], FALSE)}
                /\ opening' = OpenBegin(opening, map, {n.to})
                /\ UNCHANGED <<detail, titleTyped, heap, catalog>>
      /\ UNCHANGED <<idb, subscribed, sent, srv, synced, mine, edits>>
  BY <1>1, <1>2 DEF LeftPrevious, Flushed
<1>4. UNCHANGED <<heap, catalog, idb, subscribed, sent, srv, synced, mine, edits>> /\ titleTyped' = 0
  BY <1>1, <1>3
<1>5. n.to \in Recipes \cup {None} /\ n.from \in Recipes \cup {None} /\ None \notin Recipes
  BY <1>1, RecipeViewAssumption DEF NavSet
<1>6. stores \in [Recipes -> 0..Len(heap)] /\ Len(heap) \in Nat  BY DEF ViewInv, HeapInv
<1>7. /\ map \in [Recipes -> 0..Len(heap)]
      /\ \A q \in Recipes : map[q] = IF q = n.from THEN 0 ELSE stores[q]
  BY <1>1, <1>2, <1>5, <1>6 DEF Closes
<1>8. n.from # None => stores[n.from] \in DOMAIN heap /\ ~heap[stores[n.from]].queued
  BY <1>1, <1>5, <1>6 DEF Closes, ViewInv, HeapInv
<1>9. HeapInv'
  <2>1. ASSUME NEW i \in DOMAIN heap, heap[i].queued PROVE map[heap[i].of] = i
    <3>0. heap[i] \in StoreSet  BY DEF ViewInv, HeapInv
    <3>1. stores[heap[i].of] = i /\ heap[i].of \in Recipes  BY <2>1, <3>0 DEF ViewInv, HeapInv, StoreSet
    <3>2. heap[i].of # n.from  BY <1>5, <1>8, <2>1, <3>1
    <3> QED  BY <1>7, <3>1, <3>2
  <2>2. ASSUME NEW q \in Recipes
        PROVE  /\ map[q] # 0 => heap[map[q]].of = q /\ mine[q] \subseteq heap[map[q]].doc.text
               /\ (map[q] # 0 /\ heap[map[q]].queued) \/ mine[q] \subseteq idb[q].text
    <3>1. CASE q = n.from  BY <1>5, <1>7, <1>8, <3>1 DEF ViewInv, HeapInv
    <3>2. CASE q # n.from  BY <1>7, <3>2 DEF ViewInv, HeapInv
    <3> QED  BY <3>1, <3>2
  <2> QED  BY <1>3, <1>4, <1>7, <2>1, <2>2 DEF ViewInv, HeapInv
<1>10. \A p \in opening : p.of \in Recipes /\ map[p.of] = 0  BY <1>7 DEF ViewInv, OpensInv, OpenSet
<1>11. ASSUME NEW q \in Recipes, map[q] # 0, heap[map[q]].shown
       PROVE  n.to = q /\ detail = [obj |-> map[q], of |-> q]
  <2>1. q # n.from /\ map[q] = stores[q]  BY <1>7, <1>11
  <2>2. selected = q /\ detail = [obj |-> map[q], of |-> q]  BY <1>11, <2>1 DEF ViewInv, DetailInv
  <2> QED  BY <1>1, <1>5, <2>1, <2>2 DEF Closes
<1>12. CASE n.to = None
  <2>1. navs' = {} /\ detail' = NoView /\ selected' = None /\ opening' = opening  BY <1>3, <1>12
  <2>2. OpensInv'  BY <1>3, <1>4, <1>10, <2>1 DEF ViewInv, OpensInv
  <2>3. NavInv'  BY <2>1 DEF NavInv
  <2>4. PageTypes'
    <3>1. navs' \in SUBSET NavSet /\ detail' \in ViewSet  BY <2>1 DEF ViewSet
    <3>2. titleTyped' \in 0..MaxEdits /\ selected' \in Recipes \cup {None}
      BY <1>4, <2>1, RecipeViewAssumption
    <3> QED  BY <1>4, <3>1, <3>2 DEF ViewInv, PageTypes
  <2>5. DetailInv'  BY <1>3, <1>4, <1>5, <1>11, <1>12, <2>1 DEF DetailInv, NoView
  <2> QED  BY <1>9, <2>2, <2>3, <2>4, <2>5 DEF ViewInv
<1>13. CASE n.to # None
  <2>1. PICK m : m = [step |-> "open", from |-> None, to |-> n.to, obj |-> map[n.to], wait |-> FALSE]
    OBVIOUS
  <2>2. /\ navs' = {m} /\ opening' = OpenBegin(opening, map, {n.to}) /\ UNCHANGED detail
        /\ m.step = "open" /\ m.to = n.to /\ m.obj = map[n.to] /\ n.to \in Recipes
    BY <1>3, <1>5, <1>13, <2>1 DEF Nav
  <2>3. m \in NavSet  BY <1>6, <1>7, <2>1, <2>2 DEF NavSet
  <2>4. NavInv' /\ navs' \in SUBSET NavSet /\ ~Settled'
    BY <1>3, <1>4, <1>13, <2>2, <2>3, OneNav
  <2>5. OpensInv'
    <3>1. map \in [Recipes -> Nat]  BY <1>6, <1>7
    <3> QED  BY <1>3, <1>4, <1>10, <2>2, <3>1, OpensBegin DEF ViewInv
  <2>6. PageTypes'  BY <1>3, <1>4, <1>5, <2>2, <2>4 DEF ViewInv, PageTypes
  <2>7. DetailInv'  BY <1>3, <1>4, <1>11, <2>2, <2>4 DEF DetailInv
  <2> QED  BY <1>9, <2>4, <2>5, <2>6, <2>7 DEF ViewInv
<1> QED  BY <1>12, <1>13

LEMMA OpenedKeeps ==
  ASSUME ViewInv, NEW n \in navs, Opened(n) PROVE ViewInv'
<1>1. PICK r \in Recipes : r = n.to
  BY DEF Opened, ViewInv, PageTypes, NavInv, NavSet
<1>2. /\ n.step = "open" /\ n.obj = stores[r] /\ stores[r] # 0 /\ selected = r /\ navs = {n} /\ titleTyped = 0
  BY <1>1 DEF Opened, ViewInv, NavInv
<1>3. PICK o : o = stores[r]  OBVIOUS
<1>4. PICK d : d = heap[o].doc  OBVIOUS
<1>5. /\ o \in DOMAIN heap /\ heap[o] \in StoreSet /\ heap[o].of = r /\ heap \in Seq(StoreSet)
      /\ d \in Documents /\ Own(r, d) /\ mine[r] \subseteq d.text
  BY <1>2, <1>3, <1>4, StoreInMap DEF ViewInv, HeapInv, StoreSet
<1>6. PICK seed : seed = (d.title = NoTitle /\ catalog[r] # NoTitle)  OBVIOUS
<1>7. PICK cat : cat = IF ~seed /\ d.title # NoTitle THEN Mirrored(catalog, r, d.title) ELSE catalog
  OBVIOUS
<1>8. PICK now : now = IF seed THEN catalog[r] ELSE d.title  OBVIOUS
<1>9. /\ navs' = {} /\ subscribed' = subscribed \cup {r}
      /\ sent' = IF r \in subscribed THEN sent ELSE [sent EXCEPT ![r] = Blank]
      /\ heap' = [(IF seed THEN Changed(heap, o, [d EXCEPT !.title = now]) ELSE heap) EXCEPT ![o].shown = TRUE]
      /\ catalog' = cat /\ synced' = now
      /\ opening' = OpenBegin(opening, stores, {q \in Recipes : cat[q] # NoTitle})
      /\ detail' = [obj |-> o, of |-> r] /\ titleTyped' = 0
      /\ UNCHANGED <<idb, stores, srv, selected, mine, edits>>
  BY <1>1, <1>2, <1>3, <1>4, <1>6, <1>7, <1>8 DEF Opened, Flushed
<1>10. /\ now \in Titles /\ now.of \in {None, r}
       /\ cat \in [Recipes -> Titles] /\ \A q \in Recipes : cat[q].of \in {None, q}
       /\ cat[r] \in {NoTitle, now}
  <2>1. catalog \in [Recipes -> Titles] /\ \A q \in Recipes : catalog[q].of \in {None, q}
    BY DEF ViewInv, PageTypes
  <2>2. d.title \in Titles /\ d.title.of \in {None, r}  BY <1>5 DEF Documents, Own
  <2>3. CASE ~seed /\ d.title # NoTitle
    <3>1. cat = Mirrored(catalog, r, d.title)  BY <1>7, <2>3
    <3> QED  BY <1>8, <2>2, <2>3, <3>1, MirroredTitle DEF ViewInv
  <2>4. CASE seed \/ d.title = NoTitle
    <3>1. cat = catalog  BY <1>7, <2>4
    <3> QED  BY <1>6, <1>8, <2>1, <2>2, <2>4, <3>1
  <2> QED  BY <2>3, <2>4
<1>11. \E s \in StoreSet : /\ heap' = [heap EXCEPT ![o] = s] /\ s.of = r /\ s.shown
                           /\ s.doc.title = now /\ s.doc.text = d.text /\ Own(r, s.doc)
                           /\ s.queued \/ s.queued = heap[o].queued
  <2>1. CASE seed
    <3>1. PICK c : c = [d EXCEPT !.title = now]  OBVIOUS
    <3>2. c \in Documents /\ Own(r, c) /\ c.title = now /\ c.text = d.text
      BY <1>5, <1>10, <3>1, Retitled
    <3>3. PICK e \in StoreSet : /\ Changed(heap, o, c) = [heap EXCEPT ![o] = e]
                                /\ e.of = r /\ e.doc = c /\ e.queued
      BY <1>5, <3>2, ChangedStore DEF ViewInv
    <3>4. heap' = [[heap EXCEPT ![o] = e] EXCEPT ![o].shown = TRUE]  BY <1>9, <2>1, <3>1, <3>3
    <3>5. PICK s : s = [e EXCEPT !.shown = TRUE]  OBVIOUS
    <3>6. s \in StoreSet /\ s.of = r /\ s.doc = c /\ s.queued /\ s.shown  BY <3>3, <3>5 DEF StoreSet
    <3>7. heap' = [heap EXCEPT ![o] = s]  BY <1>5, <3>4, <3>5
    <3> QED  BY <3>2, <3>6, <3>7
  <2>2. CASE ~seed
    <3>1. PICK s : s = [heap[o] EXCEPT !.shown = TRUE]  OBVIOUS
    <3>2. s \in StoreSet /\ s.of = r /\ s.doc = d /\ s.queued = heap[o].queued /\ s.shown
      BY <1>4, <1>5, <3>1 DEF StoreSet
    <3>3. heap' = [heap EXCEPT ![o] = s]  BY <1>5, <1>9, <2>2, <3>1
    <3> QED  BY <1>5, <1>8, <2>2, <3>2, <3>3
  <2> QED  BY <2>1, <2>2
<1>12. PICK s \in StoreSet : /\ heap' = [heap EXCEPT ![o] = s] /\ s.of = r /\ s.shown
                             /\ s.doc.title = now /\ s.doc.text = d.text /\ Own(r, s.doc)
                             /\ s.queued \/ s.queued = heap[o].queued
  BY <1>11
<1>13. sent' \in [Recipes -> Documents]
  <2>1. sent \in [Recipes -> Documents]  BY DEF ViewInv, HeapInv
  <2> QED  BY <1>9, <2>1, BlankDoc
<1>14. /\ HeapInv' /\ heap'[o] = s /\ \A i \in DOMAIN heap : i # o => heap'[i] = heap[i]
  <2>1. /\ mine' \in [Recipes -> SUBSET (1..MaxEdits)] /\ mine'[r] \subseteq s.doc.text
        /\ mine'[r] = mine[r] /\ \A q \in Recipes \ {r} : mine'[q] = mine[q]
    BY <1>5, <1>9, <1>12 DEF ViewInv, HeapInv
  <2>2. s.queued \/ (mine'[r] = mine[r] /\ s.queued = heap[stores[r]].queued)  BY <1>3, <1>12, <2>1
  <2>3. HeapInv /\ heap' = [heap EXCEPT ![stores[r]] = s] /\ UNCHANGED <<stores, idb, srv>>
    BY <1>3, <1>9, <1>12 DEF ViewInv
  <2> QED  BY <1>2, <1>3, <1>12, <1>13, <2>1, <2>2, <2>3, HeapMoves
<1>15. OpensInv'
  <2>1. stores \in [Recipes -> Nat] /\ \A p \in opening : stores[p.of] = 0
    BY DEF ViewInv, HeapInv, OpensInv
  <2>2. PICK rs \in SUBSET Recipes : rs = {q \in Recipes : cat[q] # NoTitle}  OBVIOUS
  <2> QED  BY <1>9, <2>1, <2>2, OpensBegin DEF ViewInv
<1>16. NavInv'  BY <1>9 DEF NavInv
<1>17. PageTypes'
  <2>1. o \in Nat /\ detail' \in ViewSet  BY <1>5, <1>9 DEF ViewSet
  <2>2. navs' \in SUBSET NavSet /\ titleTyped' \in 0..MaxEdits /\ synced' \in Titles
    BY <1>9, <1>10, RecipeViewAssumption
  <2>3. subscribed' \in SUBSET Recipes  BY <1>9 DEF ViewInv, PageTypes
  <2> QED  BY <1>9, <1>10, <2>1, <2>2, <2>3 DEF ViewInv, PageTypes
<1>18. DetailInv'
  <2>1. ASSUME NEW q \in Recipes, stores[q] # 0, heap'[stores[q]].shown PROVE q = r
    <3>1. SUFFICES ASSUME q # r PROVE FALSE  OBVIOUS
    <3>2. stores[q] # o /\ stores[q] \in DOMAIN heap  BY <1>2, <1>3, <2>1, <3>1, StoreInMap DEF ViewInv
    <3>3. heap[stores[q]].shown  BY <1>14, <2>1, <3>2
    <3> QED  BY <1>2, <2>1, <3>1, <3>3 DEF ViewInv, DetailInv
  <2>2. detail'.of = r /\ detail'.obj = o /\ o # 0  BY <1>2, <1>3, <1>9
  <2>3. \A q \in Recipes : stores'[q] # 0 /\ heap'[stores'[q]].shown
            => selected' = q /\ detail' = [obj |-> stores'[q], of |-> q]
    BY <1>2, <1>3, <1>9, <2>1
  <2>4. /\ heap'[detail'.obj].shown /\ synced' = heap'[detail'.obj].doc.title
        /\ catalog'[detail'.of] \in {NoTitle, heap'[detail'.obj].doc.title}
    BY <1>9, <1>10, <1>12, <1>14, <2>2
  <2> QED  BY <1>2, <1>3, <1>9, <2>2, <2>3, <2>4 DEF DetailInv
<1> QED  BY <1>14, <1>15, <1>16, <1>17, <1>18 DEF ViewInv

(* The document of the store shown changes, while nobody navigates.        *)
LEMMA ShownMoves ==
  ASSUME DetailInv, Settled, Settled', detail # NoView, PageTypes,
         NEW r \in Recipes, r = detail.of, NEW s \in StoreSet, stores[r] \in DOMAIN heap,
         heap' = [heap EXCEPT ![stores[r]] = s], s.shown, UNCHANGED <<stores, selected, detail>>,
         \A i \in DOMAIN heap : i # stores[r] => heap'[i] = heap[i],
         heap'[stores[r]] = s,
         \A q \in Recipes : stores[q] # 0 => stores[q] \in DOMAIN heap,
         synced' = s.doc.title, catalog'[r] \in {NoTitle, s.doc.title}
  PROVE  DetailInv'
<1>1. ASSUME NEW q \in Recipes, stores[q] # 0, heap'[stores[q]].shown
      PROVE  selected = q /\ detail = [obj |-> stores[q], of |-> q]
  <2>1. heap[stores[r]].shown  BY DEF DetailInv
  <2>2. heap[stores[q]].shown  BY <1>1, <2>1
  <2> QED  BY <1>1, <2>2 DEF DetailInv
<1>2. detail.obj = stores[r] /\ detail.obj # 0 /\ selected = r  BY DEF DetailInv
<1> QED  BY <1>1, <1>2 DEF DetailInv

(* While nobody navigates and a recipe is shown, its store is in the map.  *)
LEMMA ShownStore ==
  ASSUME ViewInv, navs = {}, detail # NoView
  PROVE  \E r \in Recipes :
           /\ r = detail.of /\ r = selected /\ stores[r] # 0 /\ detail.obj = stores[r]
           /\ stores[r] \in DOMAIN heap /\ heap[stores[r]] \in StoreSet /\ heap[stores[r]].of = r
           /\ heap[stores[r]].doc \in Documents /\ Own(r, heap[stores[r]].doc)
           /\ mine[r] \subseteq heap[stores[r]].doc.text /\ heap[stores[r]].shown
           /\ synced = heap[stores[r]].doc.title /\ catalog[r] \in {NoTitle, heap[stores[r]].doc.title}
<1>1. Settled  BY DEF Settled
<1>2. PICK r \in Recipes : r = detail.of  BY DEF ViewInv, PageTypes, ViewSet
<1>3. /\ r = selected /\ detail.obj = stores[r] /\ stores[r] # 0 /\ heap[stores[r]].shown
      /\ synced = heap[stores[r]].doc.title /\ catalog[r] \in {NoTitle, heap[stores[r]].doc.title}
  BY <1>1, <1>2 DEF ViewInv, DetailInv
<1>4. stores[r] \in DOMAIN heap /\ heap[stores[r]] \in StoreSet  BY <1>3, StoreInMap DEF ViewInv
<1>5. heap[stores[r]].doc \in Documents  BY <1>4 DEF StoreSet
<1> QED  BY <1>2, <1>3, <1>4, <1>5 DEF ViewInv, HeapInv

LEMMA EditKeeps ==
  ASSUME ViewInv, Hasty = FALSE, Edit PROVE ViewInv'
<1>1. navs = {} /\ detail # NoView /\ edits < MaxEdits /\ edits' = edits + 1  BY DEF Edit
<1>2. PICK r \in Recipes :
           /\ r = detail.of /\ r = selected /\ stores[r] # 0 /\ detail.obj = stores[r]
           /\ stores[r] \in DOMAIN heap /\ heap[stores[r]] \in StoreSet /\ heap[stores[r]].of = r
           /\ heap[stores[r]].doc \in Documents /\ Own(r, heap[stores[r]].doc)
           /\ mine[r] \subseteq heap[stores[r]].doc.text /\ heap[stores[r]].shown
           /\ synced = heap[stores[r]].doc.title /\ catalog[r] \in {NoTitle, heap[stores[r]].doc.title}
  BY <1>1, ShownStore
<1>3. PICK o : o = stores[r]  OBVIOUS
<1>4. PICK d : d = [heap[o].doc EXCEPT !.text = @ \cup {edits'}]  OBVIOUS
<1>5. edits' \in 1..MaxEdits
  BY <1>1, RecipeViewAssumption DEF ViewInv, PageTypes
<1>6. /\ d \in Documents /\ Own(r, d) /\ d.title = heap[o].doc.title
      /\ d.text = heap[o].doc.text \cup {edits'}
  BY <1>2, <1>3, <1>4, <1>5 DEF Documents, Own
<1>7. PICK s \in StoreSet : /\ Changed(heap, o, d) = [heap EXCEPT ![o] = s]
                            /\ s.of = r /\ s.doc = d /\ s.queued /\ s.shown
  <2>1. heap[o].shown = TRUE  BY <1>2, <1>3 DEF StoreSet
  <2>2. PICK s \in StoreSet : /\ Changed(heap, o, d) = [heap EXCEPT ![o] = s]
                              /\ s.of = heap[o].of /\ s.doc = d /\ s.queued /\ s.shown = heap[o].shown
    <3>1. HeapInv /\ o \in DOMAIN heap /\ d \in Documents  BY <1>2, <1>3, <1>6 DEF ViewInv
    <3> QED  BY <3>1, ChangedStore
  <2>3. s.of = r /\ s.shown = TRUE  BY <1>2, <1>3, <2>1, <2>2
  <2> QED  BY <2>2, <2>3
<1>8. /\ heap' = [heap EXCEPT ![stores[r]] = s] /\ mine' = [mine EXCEPT ![r] = @ \cup {edits'}]
      /\ UNCHANGED <<idb, stores, opening, subscribed, sent, srv, selected, detail, titleTyped,
                     synced, navs, catalog>>
  BY <1>2, <1>3, <1>4, <1>7 DEF Edit
<1>9. mine \in [Recipes -> SUBSET (1..MaxEdits)]  BY DEF ViewInv, HeapInv
<1>10. /\ mine' \in [Recipes -> SUBSET (1..MaxEdits)] /\ mine'[r] = mine[r] \cup {edits'}
       /\ \A q \in Recipes \ {r} : mine'[q] = mine[q]
  BY <1>5, <1>8, <1>9
<1>11. HeapInv' /\ heap'[stores[r]] = s /\ \A i \in DOMAIN heap : i # stores[r] => heap'[i] = heap[i]
  <2>1. mine'[r] \subseteq s.doc.text  BY <1>2, <1>3, <1>6, <1>7, <1>10
  <2>2. sent' \in [Recipes -> Documents]  BY <1>8 DEF ViewInv, HeapInv
  <2> QED  BY <1>2, <1>6, <1>7, <1>8, <1>10, <2>1, <2>2, HeapMoves DEF ViewInv
<1>12. OpensInv'  BY <1>8, OpensStay DEF ViewInv
<1>13. PageTypes'
  <2>1. edits' \in 0..MaxEdits  BY <1>5
  <2> QED  BY <1>8, <2>1 DEF ViewInv, PageTypes
<1>14. NavInv'  BY <1>1, <1>8 DEF NavInv
<1>15. DetailInv'
  <2>1. Settled /\ Settled'  BY <1>1, <1>8 DEF Settled
  <2>2. \A q \in Recipes : stores[q] # 0 => stores[q] \in DOMAIN heap  BY DEF ViewInv, HeapInv
  <2>3. synced' = s.doc.title /\ catalog'[r] \in {NoTitle, s.doc.title}
    BY <1>2, <1>3, <1>6, <1>7, <1>8
  <2> QED  BY <1>1, <1>2, <1>7, <1>8, <1>11, <2>1, <2>2, <2>3, ShownMoves DEF ViewInv
<1> QED  BY <1>11, <1>12, <1>13, <1>14, <1>15 DEF ViewInv

LEMMA TypeTitleKeeps ==
  ASSUME ViewInv, Hasty = FALSE, TypeTitle PROVE ViewInv'
<1>1. /\ navs = {} /\ edits < MaxEdits /\ edits' = edits + 1 /\ titleTyped' = edits'
      /\ UNCHANGED <<idb, heap, stores, opening, subscribed, sent, srv, selected, detail, synced,
                     navs, catalog, mine>>
  BY DEF TypeTitle
<1>2. PageTypes'
  <2>1. edits' \in 0..MaxEdits /\ titleTyped' \in 0..MaxEdits
    BY <1>1, RecipeViewAssumption DEF ViewInv, PageTypes
  <2> QED  BY <1>1, <2>1 DEF ViewInv, PageTypes
<1>3. HeapInv'  BY <1>1, HeapStays DEF ViewInv, HeapInv
<1>4. OpensInv'  BY <1>1, OpensStay DEF ViewInv
<1>5. NavInv'  BY <1>1 DEF NavInv
<1>6. DetailInv'  BY <1>1, DetailStays DEF ViewInv, Settled
<1> QED  BY <1>2, <1>3, <1>4, <1>5, <1>6 DEF ViewInv

LEMMA FlushMetaKeeps ==
  ASSUME ViewInv, FlushMeta PROVE ViewInv'
<1>1. titleTyped # 0 /\ navs = {} /\ detail # NoView  BY DEF FlushMeta, ViewInv, NavInv
<1>2. PICK r \in Recipes :
           /\ r = detail.of /\ r = selected /\ stores[r] # 0 /\ detail.obj = stores[r]
           /\ stores[r] \in DOMAIN heap /\ heap[stores[r]] \in StoreSet /\ heap[stores[r]].of = r
           /\ heap[stores[r]].doc \in Documents /\ Own(r, heap[stores[r]].doc)
           /\ mine[r] \subseteq heap[stores[r]].doc.text /\ heap[stores[r]].shown
           /\ synced = heap[stores[r]].doc.title /\ catalog[r] \in {NoTitle, heap[stores[r]].doc.title}
  BY <1>1, ShownStore
<1>3. PICK o : o = stores[r]  OBVIOUS
<1>4. PICK t : t = [of |-> r, n |-> titleTyped]  OBVIOUS
<1>5. t \in Titles /\ t.of = r  BY <1>4 DEF Titles, ViewInv, PageTypes
<1>6. PICK d : d = [heap[o].doc EXCEPT !.title = t]  OBVIOUS
<1>7. d \in Documents /\ Own(r, d) /\ d.title = t /\ d.text = heap[o].doc.text
  BY <1>2, <1>3, <1>5, <1>6, Retitled
<1>8. PICK s \in StoreSet : /\ Changed(heap, o, d) = [heap EXCEPT ![o] = s]
                            /\ s.of = r /\ s.doc = d /\ s.queued /\ s.shown
  <2>1. heap[o].shown = TRUE  BY <1>2, <1>3 DEF StoreSet
  <2>2. PICK s \in StoreSet : /\ Changed(heap, o, d) = [heap EXCEPT ![o] = s]
                              /\ s.of = heap[o].of /\ s.doc = d /\ s.queued /\ s.shown = heap[o].shown
    <3>1. HeapInv /\ o \in DOMAIN heap /\ d \in Documents  BY <1>2, <1>3, <1>7 DEF ViewInv
    <3> QED  BY <3>1, ChangedStore
  <2>3. s.of = r /\ s.shown = TRUE  BY <1>2, <1>3, <2>1, <2>2
  <2> QED  BY <2>2, <2>3
<1>9. Flushed(selected) = <<[heap EXCEPT ![stores[r]] = s], Mirrored(catalog, r, t)>>
  BY <1>1, <1>2, <1>3, <1>4, <1>6, <1>8 DEF Flushed
<1>10. /\ heap' = [heap EXCEPT ![stores[r]] = s] /\ catalog' = Mirrored(catalog, r, t)
       /\ synced' = heap'[stores[r]].doc.title /\ titleTyped' = 0
       /\ UNCHANGED <<idb, stores, opening, subscribed, sent, srv, selected, detail, navs, mine, edits>>
  BY <1>2, <1>9 DEF FlushMeta
<1>11. HeapInv' /\ heap'[stores[r]] = s /\ \A i \in DOMAIN heap : i # stores[r] => heap'[i] = heap[i]
  <2>1. /\ mine' \in [Recipes -> SUBSET (1..MaxEdits)] /\ sent' \in [Recipes -> Documents]
        /\ mine'[r] \subseteq s.doc.text /\ \A q \in Recipes \ {r} : mine'[q] = mine[q]
    BY <1>2, <1>3, <1>7, <1>8, <1>10 DEF ViewInv, HeapInv
  <2> QED  BY <1>2, <1>7, <1>8, <1>10, <2>1, HeapMoves DEF ViewInv
<1>12. /\ catalog' \in [Recipes -> Titles] /\ \A q \in Recipes : catalog'[q].of \in {None, q}
       /\ catalog'[r] \in {NoTitle, t}
  BY <1>5, <1>10, MirroredTitle DEF ViewInv
<1>13. OpensInv'  BY <1>10, OpensStay DEF ViewInv
<1>14. PageTypes'
  <2>1. titleTyped' \in 0..MaxEdits /\ synced' \in Titles
    BY <1>5, <1>7, <1>8, <1>10, <1>11, RecipeViewAssumption
  <2> QED  BY <1>10, <1>12, <2>1 DEF ViewInv, PageTypes
<1>15. NavInv'  BY <1>1, <1>10 DEF NavInv
<1>16. DetailInv'
  <2>1. Settled /\ Settled'  BY <1>1, <1>10 DEF Settled
  <2>2. \A q \in Recipes : stores[q] # 0 => stores[q] \in DOMAIN heap  BY DEF ViewInv, HeapInv
  <2>3. synced' = s.doc.title /\ catalog'[r] \in {NoTitle, s.doc.title}
    BY <1>7, <1>8, <1>10, <1>11, <1>12
  <2> QED  BY <1>1, <1>2, <1>8, <1>10, <1>11, <2>1, <2>2, <2>3, ShownMoves DEF ViewInv
<1> QED  BY <1>11, <1>13, <1>14, <1>15, <1>16 DEF ViewInv

LEMMA RemoteEditKeeps ==
  ASSUME ViewInv, NEW r \in Recipes, RemoteEdit(r) PROVE ViewInv'
<1>1. /\ edits < MaxEdits /\ edits' = edits + 1
      /\ UNCHANGED <<idb, heap, stores, opening, subscribed, sent, selected, detail, titleTyped,
                     synced, navs, catalog, mine>>
  BY DEF RemoteEdit
<1>2. edits' \in 1..MaxEdits  BY <1>1, RecipeViewAssumption DEF ViewInv, PageTypes
<1>3. srv \in [Recipes -> Documents] /\ \A q \in Recipes : Own(q, srv[q])  BY DEF ViewInv, HeapInv
<1>4. \E d \in Documents : srv' = [srv EXCEPT ![r] = d] /\ Own(r, d)
  <2>1. CASE srv' = [srv EXCEPT ![r].text = @ \cup {edits'}]
    <3>1. PICK d : d = [srv[r] EXCEPT !.text = @ \cup {edits'}]  OBVIOUS
    <3>2. d \in Documents /\ Own(r, d)  BY <1>2, <1>3, <3>1 DEF Documents, Own
    <3> QED  BY <1>3, <2>1, <3>1, <3>2
  <2>2. CASE srv' = [srv EXCEPT ![r].title = [of |-> r, n |-> edits']]
    <3>1. PICK t : t = [of |-> r, n |-> edits']  OBVIOUS
    <3>2. t \in Titles /\ t.of = r  BY <1>2, <3>1 DEF Titles
    <3>3. PICK d : d = [srv[r] EXCEPT !.title = t]  OBVIOUS
    <3>4. d \in Documents /\ Own(r, d)  BY <1>3, <3>2, <3>3, Retitled
    <3> QED  BY <1>3, <2>2, <3>1, <3>3, <3>4
  <2> QED  BY <2>1, <2>2 DEF RemoteEdit
<1>5. srv' \in [Recipes -> Documents] /\ \A q \in Recipes : Own(q, srv'[q])  BY <1>3, <1>4
<1>6. HeapInv'  BY <1>1, <1>5 DEF ViewInv, HeapInv
<1>7. OpensInv'  BY <1>1, OpensStay DEF ViewInv
<1>8. PageTypes'
  <2>1. edits' \in 0..MaxEdits  BY <1>2
  <2> QED  BY <1>1, <2>1 DEF ViewInv, PageTypes
<1>9. NavInv'  BY <1>1, NavsStay DEF ViewInv
<1>10. DetailInv'  BY <1>1, DetailStays DEF ViewInv, Settled
<1> QED  BY <1>6, <1>7, <1>8, <1>9, <1>10 DEF ViewInv

LEMMA ReceiveKeeps ==
  ASSUME ViewInv, NEW r \in Recipes, Receive(r) PROVE ViewInv'
<1>1. /\ r \in subscribed /\ sent' = [sent EXCEPT ![r] = srv[r]]
      /\ UNCHANGED <<idb, stores, opening, subscribed, srv, selected, detail, titleTyped, navs, mine, edits>>
  BY DEF Receive
<1>2. sent' \in [Recipes -> Documents]  BY <1>1 DEF ViewInv, HeapInv
<1>3. OpensInv'  BY <1>1, OpensStay DEF ViewInv
<1>4. CASE stores[r] = 0
  <2>1. UNCHANGED <<heap, synced, catalog>>  BY <1>4 DEF Receive
  <2>2. HeapInv'  BY <1>1, <1>2, <2>1, HeapStays DEF ViewInv
  <2>3. PageTypes'  BY <1>1, <2>1 DEF ViewInv, PageTypes
  <2>4. NavInv'  BY <1>1, <2>1, NavsStay DEF ViewInv
  <2>5. DetailInv'  BY <1>1, <2>1, DetailStays DEF ViewInv, Settled
  <2> QED  BY <1>3, <2>2, <2>3, <2>4, <2>5 DEF ViewInv
<1>5. CASE stores[r] # 0
  <2>1. PICK o : o = stores[r]  OBVIOUS
  <2>2. PICK d : d = Merge(heap[o].doc, srv[r])  OBVIOUS
  <2>3. /\ o \in DOMAIN heap /\ heap[o] \in StoreSet /\ heap[o].of = r
        /\ heap[o].doc \in Documents /\ Own(r, heap[o].doc) /\ mine[r] \subseteq heap[o].doc.text
        /\ srv[r] \in Documents /\ Own(r, srv[r])
    BY <1>5, <2>1, StoreInMap DEF ViewInv, HeapInv, StoreSet
  <2>4. d \in Documents /\ Own(r, d) /\ heap[o].doc.text \subseteq d.text
    BY <2>2, <2>3, MergeDocs
  <2>5. PICK s \in StoreSet : /\ Changed(heap, o, d) = [heap EXCEPT ![o] = s]
                              /\ s.of = r /\ s.doc = d /\ s.queued /\ s.shown = heap[o].shown
    BY <2>3, <2>4, ChangedStore DEF ViewInv
  <2>6. heap' = [heap EXCEPT ![stores[r]] = s] /\ Notice(o, d.title)
    BY <1>5, <2>1, <2>2, <2>5 DEF Receive
  <2>7. /\ HeapInv' /\ heap'[o] = s
        /\ \A i \in DOMAIN heap : i # o => heap'[i] = heap[i]
    <3>1. /\ mine' \in [Recipes -> SUBSET (1..MaxEdits)] /\ mine'[r] \subseteq s.doc.text
          /\ \A q \in Recipes \ {r} : mine'[q] = mine[q]
      BY <1>1, <2>3, <2>4, <2>5 DEF ViewInv, HeapInv
    <3>2. HeapInv /\ s.of = r /\ Own(r, s.doc) /\ s.queued /\ UNCHANGED <<stores, idb, srv>>
      BY <1>1, <2>4, <2>5 DEF ViewInv
    <3>3. /\ HeapInv' /\ Len(heap') = Len(heap) /\ heap'[stores[r]] = s
          /\ \A i \in DOMAIN heap : i # stores[r] => heap'[i] = heap[i]
      BY <1>2, <1>5, <2>6, <3>1, <3>2, HeapMoves
    <3> QED  BY <2>1, <3>3
  <2>8. d.title \in Titles /\ d.title.of \in {None, r}  BY <2>4 DEF Documents, Own
  <2>9. heap[o].shown => selected = r /\ detail = [obj |-> o, of |-> r]
    BY <1>5, <2>1 DEF ViewInv, DetailInv
  <2>10. /\ synced' \in Titles /\ catalog' \in [Recipes -> Titles]
         /\ \A q \in Recipes : catalog'[q].of \in {None, q}
         /\ heap[o].shown => synced' = d.title
         /\ heap[o].shown /\ d.title # synced => catalog'[r] \in {NoTitle, d.title}
         /\ ~heap[o].shown \/ d.title = synced => UNCHANGED <<synced, catalog>>
    <3>1. CASE heap[o].shown /\ d.title # synced
      <4>1. synced' = d.title /\ catalog' = Mirrored(catalog, r, d.title)  BY <2>6, <2>9, <3>1 DEF Notice
      <4> QED  BY <2>8, <3>1, <4>1, MirroredTitle DEF ViewInv
    <3>2. CASE ~(heap[o].shown /\ d.title # synced)
      <4>1. UNCHANGED <<synced, catalog>>  BY <2>6, <3>2 DEF Notice
      <4> QED  BY <3>2, <4>1 DEF ViewInv, PageTypes
    <3> QED  BY <3>1, <3>2
  <2>11. PageTypes'  BY <1>1, <2>10 DEF ViewInv, PageTypes
  <2>12. NavInv'
    <3>1. ASSUME NEW n \in navs, n.step = "close", n.from # None
          PROVE  heap'[n.obj] = heap[n.obj]
      <4>1. n.from \in Recipes /\ n.from # r /\ n.obj = stores[n.from] /\ n.obj # 0
        BY <1>1, <3>1 DEF ViewInv, PageTypes, NavSet, NavInv, Closes
      <4>2. n.obj \in DOMAIN heap /\ n.obj # o
        BY <1>5, <2>1, <4>1, StoreInMap DEF ViewInv
      <4> QED  BY <2>7, <4>2
    <3> QED  BY <1>1, <3>1, NavsStay DEF ViewInv
  <2>13. DetailInv'
    <3>1. ASSUME NEW q \in Recipes, stores[q] # 0, heap'[stores[q]].shown
          PROVE  selected = q /\ detail = [obj |-> stores[q], of |-> q]
      <4>1. heap[stores[q]].shown
        <5>1. CASE stores[q] = o  BY <2>5, <2>7, <3>1, <5>1
        <5>2. CASE stores[q] # o  BY <2>7, <3>1, <5>2, StoreInMap DEF ViewInv
        <5> QED  BY <5>1, <5>2
      <4> QED  BY <3>1, <4>1 DEF ViewInv, DetailInv
    <3>2. ASSUME Settled, detail # NoView
          PROVE  /\ detail.obj = stores[detail.of] /\ detail.obj # 0
                 /\ heap'[detail.obj].shown /\ synced' = heap'[detail.obj].doc.title
                 /\ catalog'[detail.of] \in {NoTitle, heap'[detail.obj].doc.title}
      <4>1. /\ detail.of \in Recipes /\ detail.obj = stores[detail.of] /\ detail.obj # 0
            /\ heap[detail.obj].shown /\ synced = heap[detail.obj].doc.title
            /\ catalog[detail.of] \in {NoTitle, heap[detail.obj].doc.title}
        BY <3>2 DEF ViewInv, DetailInv, PageTypes, ViewSet
      <4>2. CASE detail.of = r
        <5>1. detail.obj = o /\ heap[o].shown /\ s.shown  BY <2>1, <2>5, <4>1, <4>2
        <5>2. synced' = s.doc.title /\ s.doc.title = d.title  BY <2>5, <2>10, <5>1
        <5>3. catalog'[r] \in {NoTitle, d.title}
          <6>1. CASE d.title # synced  BY <2>10, <5>1, <6>1
          <6>2. CASE d.title = synced  BY <2>1, <2>10, <4>1, <4>2, <5>1, <6>2
          <6> QED  BY <6>1, <6>2
        <5> QED  BY <2>7, <4>1, <4>2, <5>1, <5>2, <5>3
      <4>3. CASE detail.of # r
        <5>1. detail.obj # o /\ detail.obj \in DOMAIN heap
          BY <1>5, <2>1, <4>1, <4>3, StoreInMap DEF ViewInv
        <5>2. heap'[detail.obj] = heap[detail.obj]  BY <2>7, <5>1
        <5>3. UNCHANGED <<synced, catalog>>
          <6>1. ~heap[o].shown  BY <2>9, <4>3
          <6> QED  BY <2>10, <6>1
        <5> QED  BY <4>1, <5>2, <5>3
      <4> QED  BY <4>2, <4>3
    <3>3. (Settled' => Settled) /\ UNCHANGED <<stores, selected, detail>>  BY <1>1 DEF Settled
    <3> QED  BY <3>1, <3>2, <3>3 DEF ViewInv, DetailInv
  <2> QED  BY <1>3, <2>7, <2>11, <2>12, <2>13 DEF ViewInv
<1> QED  BY <1>4, <1>5

LEMMA ViewStart == RecipeViewInit => ViewInv
<1> SUFFICES ASSUME RecipeViewInit PROVE ViewInv  OBVIOUS
<1>1. /\ srv = [r \in Recipes |-> IF r \in Listed THEN [text |-> {}, title |-> [of |-> r, n |-> 0]] ELSE Blank]
      /\ idb = [r \in Recipes |-> Blank] /\ sent = idb
      /\ heap = <<>> /\ stores = [r \in Recipes |-> 0] /\ opening = {}
      /\ subscribed = {} /\ selected = None /\ detail = NoView /\ titleTyped = 0 /\ synced = NoTitle
      /\ navs = {} /\ mine = [r \in Recipes |-> {}] /\ edits = 0
      /\ catalog = [r \in Recipes |-> srv[r].title]
  BY DEF RecipeViewInit
<1>2. ASSUME NEW r \in Recipes PROVE srv[r] \in Documents /\ Own(r, srv[r])
  <2>1. PICK t : t = [of |-> r, n |-> 0]  OBVIOUS
  <2>2. t \in Titles /\ t.of = r  BY <2>1, RecipeViewAssumption DEF Titles
  <2>3. [text |-> {}, title |-> t] \in Documents /\ Own(r, [text |-> {}, title |-> t])
    BY <2>2 DEF Documents, Own
  <2>4. srv[r] = [text |-> {}, title |-> t] \/ srv[r] = Blank  BY <1>1, <2>1
  <2> QED  BY <2>3, <2>4, BlankDoc
<1>3. srv \in [Recipes -> Documents] /\ idb \in [Recipes -> Documents] /\ sent \in [Recipes -> Documents]
  BY <1>1, <1>2, BlankDoc
<1>4. heap \in Seq(StoreSet) /\ Len(heap) = 0 /\ DOMAIN heap = {}  BY <1>1
<1>5. stores \in [Recipes -> 0..Len(heap)] /\ Len(heap) <= MaxStores
  BY <1>1, <1>4, RecipeViewAssumption
<1>6. HeapInv  BY <1>1, <1>2, <1>3, <1>4, <1>5, BlankDoc DEF HeapInv
<1>7. OpensInv  BY <1>1 DEF OpensInv
<1>8. PageTypes
  <2>1. \A r \in Recipes : catalog[r] = srv[r].title /\ catalog[r] \in Titles /\ catalog[r].of \in {None, r}
    BY <1>1, <1>2 DEF Documents, Own
  <2>2. catalog \in [Recipes -> Titles]  BY <1>1, <2>1
  <2>3. edits \in 0..MaxEdits /\ titleTyped \in 0..MaxEdits /\ detail \in ViewSet /\ navs \in SUBSET NavSet
    BY <1>1, RecipeViewAssumption DEF ViewSet
  <2> QED  BY <1>1, <2>1, <2>2, <2>3, BlankDoc DEF PageTypes
<1>9. NavInv  BY <1>1 DEF NavInv
<1>10. DetailInv  BY <1>1 DEF DetailInv, NoView
<1> QED  BY <1>6, <1>7, <1>8, <1>9, <1>10 DEF ViewInv

LEMMA ViewStep ==
  ASSUME ViewInv, Hasty = FALSE, [RecipeViewNext]_viewVars PROVE ViewInv'
<1>1. CASE UNCHANGED viewVars
  <2>1. /\ UNCHANGED <<idb, heap, stores, opening, subscribed, sent, srv, selected, detail>>
        /\ UNCHANGED <<titleTyped, synced, navs, catalog, mine, edits>>
    BY <1>1 DEF viewVars
  <2>2. HeapInv'  BY <2>1, HeapStays DEF ViewInv, HeapInv
  <2>3. OpensInv'  BY <2>1, OpensStay DEF ViewInv
  <2>4. PageTypes'  BY <2>1 DEF ViewInv, PageTypes
  <2>5. NavInv'  BY <2>1, NavsStay DEF ViewInv
  <2>6. DetailInv'  BY <2>1, DetailStays DEF ViewInv, Settled
  <2> QED  BY <2>2, <2>3, <2>4, <2>5, <2>6 DEF ViewInv
<1>2. CASE Run
  <2>1. ASSUME NEW p \in opening, OpenRead(p) PROVE ViewInv'  BY <2>1, OpenReadKeeps
  <2>2. ASSUME NEW p \in opening, OpenDone(p) PROVE ViewInv'  BY <2>2, OpenDoneKeeps
  <2>3. ASSUME NEW o \in DOMAIN heap, Persist(o) PROVE ViewInv'  BY <2>3, PersistKeeps
  <2>4. ASSUME NEW n \in navs, Added(n) PROVE ViewInv'  BY <2>4, AddedKeeps
  <2>5. ASSUME NEW n \in navs, LeftPrevious(n) PROVE ViewInv'  BY <2>5, LeftPreviousKeeps
  <2>6. ASSUME NEW n \in navs, Opened(n) PROVE ViewInv'  BY <2>6, OpenedKeeps
  <2>7. CASE FlushMeta  BY <2>7, FlushMetaKeeps
  <2>8. ASSUME NEW r \in Recipes, Receive(r) PROVE ViewInv'  BY <2>8, ReceiveKeeps
  <2> QED  BY <1>2, <2>1, <2>2, <2>3, <2>4, <2>5, <2>6, <2>7, <2>8 DEF Run
<1>3. ASSUME NEW r \in Recipes, Select(r) PROVE ViewInv'  BY <1>3, SelectKeeps
<1>4. ASSUME NEW r \in Recipes, AddRecipe(r) PROVE ViewInv'  BY <1>4, AddRecipeKeeps
<1>5. ASSUME NEW r \in Recipes, RemoteEdit(r) PROVE ViewInv'  BY <1>5, RemoteEditKeeps
<1>6. ASSUME NEW delete \in BOOLEAN, Deselect(delete) PROVE ViewInv'  BY <1>6, DeselectKeeps
<1>7. CASE Edit  BY <1>7, EditKeeps
<1>8. CASE TypeTitle  BY <1>8, TypeTitleKeeps
<1> QED  BY <1>1, <1>2, <1>3, <1>4, <1>5, <1>6, <1>7, <1>8 DEF RecipeViewNext

THEOREM ViewSafe == ASSUME Hasty = FALSE PROVE RecipeViewSpec => []ViewInv
<1>1. ViewInv /\ [RecipeViewNext]_viewVars => ViewInv'  BY ViewStep
<1> QED  BY <1>1, ViewStart, PTL DEF RecipeViewSpec

(* automerge-store.ts, document-manager.ts: an edit made here is in        *)
(* IndexedDB or waits, in the store the manager knows, to be written.      *)
THEOREM EditsNotLost == ASSUME Hasty = FALSE PROVE RecipeViewSpec => []LocalEditsKept
<1>1. ViewInv => LocalEditsKept
  <2> SUFFICES ASSUME ViewInv, NEW r \in Recipes, NEW e \in mine[r]
               PROVE  \/ e \in idb[r].text
                      \/ stores[r] # 0 /\ heap[stores[r]].queued /\ e \in heap[stores[r]].doc.text
    BY DEF LocalEditsKept
  <2> QED  BY DEF ViewInv, HeapInv
<1> QED  BY <1>1, ViewSafe, PTL

(* ui/recipes.ts: the entry of the recipe shown has its document's title.  *)
THEOREM EntryHasTheTitle == ASSUME Hasty = FALSE PROVE RecipeViewSpec => []CatalogFollows
<1>1. ViewInv => CatalogFollows
  <2> SUFFICES ASSUME ViewInv, navs = {}, detail # NoView, catalog[detail.of] # NoTitle
               PROVE  catalog[detail.of] = heap[detail.obj].doc.title
    BY DEF CatalogFollows
  <2>1. Settled  BY DEF Settled
  <2> QED  BY <2>1 DEF ViewInv, DetailInv
<1> QED  BY <1>1, ViewSafe, PTL

LEMMA ViewTyped == ViewInv => RecipeViewTypeOK
<1> SUFFICES ASSUME ViewInv PROVE RecipeViewTypeOK  OBVIOUS
<1>1. \A o \in DOMAIN heap : heap[o] \in StoreSet  BY DEF ViewInv, HeapInv
<1>2. \A r \in Recipes : idb[r].title.of \in {None, r}  BY DEF ViewInv, HeapInv, Own
<1> QED  BY <1>1, <1>2 DEF ViewInv, HeapInv, PageTypes, RecipeViewTypeOK, StoreSet

(* The types of the page, and that the map knows a document by its name.   *)
THEOREM RecipeViewTyped == ASSUME Hasty = FALSE PROVE RecipeViewSpec => []RecipeViewTypeOK
<1> QED  BY ViewTyped, ViewSafe, PTL

-----------------------------------------------------------------------------
(* TextBridge.                                                             *)

RangeSet == [from : Nat, to : Nat, ins : Seq(Chars)]
ChangeSets == [from : Nat, to : Nat, ins : Seq(Chars), len : Nat]
BridgeSet == [note : Seq(Chars), view : Seq(Chars), cursor : Nat, change : ChangeSets]

(* What holds at first and is kept by every step holds after all of them.  *)
LEMMA Reaches ==
  ASSUME NEW n \in Nat, NEW S, NEW f, f[0] \in S, \A i \in 1..n : f[i - 1] \in S => f[i] \in S
  PROVE  \A i \in 0..n : f[i] \in S
<1> DEFINE T == {i \in 0..n : f[i] \notin S}
<1> SUFFICES ASSUME T # {} PROVE FALSE  OBVIOUS
<1>1. T \in SUBSET Nat  OBVIOUS
<1>2. PICK m \in T : \A k \in T : m <= k  BY <1>1, HasMin
<1>3. m \in 0..n /\ f[m] \notin S /\ m # 0  OBVIOUS
<1>4. m - 1 \in 0..n /\ m \in 1..n /\ ~(m <= m - 1)  BY <1>3
<1>5. m - 1 \notin T  BY <1>2, <1>4
<1>6. f[m - 1] \in S  BY <1>4, <1>5
<1> QED  BY <1>3, <1>4, <1>6

(* Steps can be taken one after the other: a recursive definition over     *)
(* them is one.                                                            *)
StepsOn(n, S) == [1..n -> [S -> S]]
RunOf(f, n, S, s, F) == f \in [0..n -> S] /\ f[0] = s /\ \A i \in 1..n : f[i] = F[i][f[i - 1]]

LEMMA Runs ==
  ASSUME NEW n \in Nat, NEW S, NEW s \in S, NEW F \in StepsOn(n, S)
  PROVE  \E f : RunOf(f, n, S, s, F)
<1>0. F \in [1..n -> [S -> S]]  BY DEF StepsOn
<1> DEFINE Upto(k, f) == f \in [0..k -> S] /\ f[0] = s /\ \A i \in 1..k : f[i] = F[i][f[i - 1]]
           T == {k \in 0..n : ~\E f : Upto(k, f)}
<1> SUFFICES ASSUME T # {} PROVE FALSE
  <2>1. n \in 0..n  OBVIOUS
  <2> QED  BY <2>1 DEF RunOf
<1>1. T \in SUBSET Nat  OBVIOUS
<1>2. PICK m \in T : \A k \in T : m <= k  BY <1>1, HasMin
<1>3. m # 0
  <2>1. PICK f : f = [i \in 0..0 |-> s]  OBVIOUS
  <2>2. f \in [0..0 -> S] /\ f[0] = s  BY <2>1
  <2>3. Upto(0, f)  BY <2>2
  <2> QED  BY <2>3
<1>4. m \in 1..n /\ m - 1 \in 0..n /\ ~(m <= m - 1)  BY <1>3
<1>5. PICK f : Upto(m - 1, f)  BY <1>2, <1>4
<1>6. f[m - 1] \in S /\ F[m][f[m - 1]] \in S
  <2>1. m - 1 \in 0..(m - 1)  BY <1>4
  <2>2. f[m - 1] \in S  BY <1>5, <2>1
  <2>3. F[m] \in [S -> S]  BY <1>0, <1>4
  <2> QED  BY <2>2, <2>3
<1>7. PICK g : g = [i \in 0..m |-> IF i < m THEN f[i] ELSE F[m][f[m - 1]]]  OBVIOUS
<1>8. g[0] = s /\ g[m] = F[m][f[m - 1]] /\ \A i \in 0..(m - 1) : g[i] = f[i]  BY <1>4, <1>5, <1>7
<1>9. g \in [0..m -> S]
  <2>1. \A i \in 0..m : i < m => i \in 0..(m - 1)  BY <1>4
  <2>2. \A i \in 0..m : i < m => f[i] \in S  BY <1>5, <2>1
  <2> QED  BY <1>6, <1>7, <2>2
<1>10. ASSUME NEW i \in 1..m PROVE g[i] = F[i][g[i - 1]]
  <2>1. i - 1 \in 0..(m - 1)  BY <1>4
  <2>2. CASE i = m  BY <1>8, <2>1, <2>2
  <2>3. CASE i # m
    <3>1. i \in 1..(m - 1) /\ i \in 0..(m - 1)  BY <1>4, <2>3
    <3> QED  BY <1>5, <1>8, <2>1, <3>1
  <2> QED  BY <2>2, <2>3
<1>11. Upto(m, g)  BY <1>8, <1>9, <1>10
<1> QED  BY <1>11

LEMMA SpliceType ==
  \A t \in Seq(Chars) : \A c :
    c.from \in Nat /\ c.to \in Nat /\ c.ins \in Seq(Chars) => Splice(t, c) \in Seq(Chars)
<1> TAKE t \in Seq(Chars)
<1> TAKE c
<1> HAVE c.from \in Nat /\ c.to \in Nat /\ c.ins \in Seq(Chars)
<1>1. Len(t) \in Nat /\ \A i \in 1..Len(t) : t[i] \in Chars  OBVIOUS
<1>2. AtMost(c.from, Len(t)) \in 0..Len(t)  BY <1>1 DEF AtMost
<1>3. PICK a \in 0..Len(t) : a = AtMost(c.from, Len(t))  BY <1>2
<1>4. PICK b \in Nat : b = c.to  OBVIOUS
<1>5. SubSeq(t, 1, a) \in Seq(Chars)  BY <1>1
<1>6. SubSeq(t, b + 1, Len(t)) \in Seq(Chars)  BY <1>1
<1>7. (SubSeq(t, 1, a) \o c.ins) \o SubSeq(t, b + 1, Len(t)) \in Seq(Chars)  BY <1>5, <1>6
<1> QED  BY <1>3, <1>4, <1>7 DEF Splice

(* The text after the ranges of an edit is a text.                         *)
LEMMA EditedType == \A t \in Seq(Chars), e \in Seq(RangeSet) : Edited(t, e) \in Seq(Chars)
<1> TAKE t \in Seq(Chars), e \in Seq(RangeSet)
<1> PICK n \in Nat : n = Len(e)  OBVIOUS
<1> PICK S : S = Seq(Chars)  OBVIOUS
<1> DEFINE F == [i \in 1..n |-> [u \in S |-> Splice(u, e[n + 1 - i])]]
           Is(f) == f = [i \in 0..n |-> IF i = 0 THEN t ELSE Splice(f[i - 1], e[n + 1 - i])]
<1>1. \A i \in 1..n, u \in S : Splice(u, e[n + 1 - i]) \in S
  <2> SUFFICES ASSUME NEW i \in 1..n, NEW u \in S PROVE Splice(u, e[n + 1 - i]) \in S  OBVIOUS
  <2>1. n + 1 - i \in 1..n  OBVIOUS
  <2>2. PICK c \in RangeSet : c = e[n + 1 - i]  BY <2>1
  <2>3. c.from \in Nat /\ c.to \in Nat /\ c.ins \in Seq(Chars)  BY DEF RangeSet
  <2> QED  BY <2>2, <2>3, SpliceType
<1>2. PICK G : G = F  OBVIOUS
<1>3. PICK f : RunOf(f, n, S, t, G)
  <2>1. G \in StepsOn(n, S)  BY <1>1, <1>2 DEF StepsOn
  <2>2. t \in S /\ n \in Nat  OBVIOUS
  <2> HIDE DEF F, Is
  <2> QED  BY <2>1, <2>2, Runs
<1>4. Is(f)
  <2>1. \A i \in 1..n : f[i] = Splice(f[i - 1], e[n + 1 - i])
    <3> SUFFICES ASSUME NEW i \in 1..n PROVE f[i] = Splice(f[i - 1], e[n + 1 - i])  OBVIOUS
    <3>1. i - 1 \in 0..n  OBVIOUS
    <3>2. f \in [0..n -> S] /\ f[i] = G[i][f[i - 1]]  BY <1>3 DEF RunOf
    <3>3. f[i - 1] \in S  BY <3>1, <3>2
    <3> QED  BY <1>2, <3>2, <3>3
  <2> QED  BY <1>3, <2>1 DEF RunOf
<1>5. PICK g : g = CHOOSE h : Is(h)  OBVIOUS
<1>6. Is(g)  BY <1>4, <1>5
<1>7. \A i \in 0..n : g[i] \in S
  <2>1. g[0] \in S  BY <1>6
  <2>2. \A i \in 1..n : g[i - 1] \in S => g[i] \in S
    <3> SUFFICES ASSUME NEW i \in 1..n, g[i - 1] \in S PROVE g[i] \in S  OBVIOUS
    <3>1. i \in 0..n /\ i # 0  OBVIOUS
    <3>2. g[i] = Splice(g[i - 1], e[n + 1 - i])  BY <1>6, <3>1
    <3> QED  BY <1>1, <3>2
  <2> HIDE DEF Is
  <2> QED  BY <2>1, <2>2, Reaches
<1>8. Edited(t, e) = g[n]  BY <1>5 DEF Edited
<1> QED  BY <1>7, <1>8

(* The longest common prefix is a common prefix.                           *)
LEMMA CommonPrefix ==
  ASSUME NEW a \in Seq(Chars), NEW b \in Seq(Chars)
  PROVE  LET p == Len(LongestCommonPrefix({a, b}))
         IN  p \in Nat /\ p <= Len(a) /\ p <= Len(b) /\ \A i \in 1..p : a[i] = b[i]
<1> DEFINE C == CommonPrefixes({a, b})
           T == {Len(a) - Len(q) : q \in C}
<1>1. Len(a) \in Nat /\ Len(b) \in Nat  OBVIOUS
<1>2. \A q \in C : /\ Len(q) \in Nat /\ Len(q) <= Len(a) /\ Len(q) <= Len(b)
                   /\ SubSeq(q, 1, Len(q)) = SubSeq(a, 1, Len(q))
                   /\ SubSeq(q, 1, Len(q)) = SubSeq(b, 1, Len(q))
  <2> SUFFICES ASSUME NEW q \in C
               PROVE  /\ Len(q) \in Nat /\ Len(q) <= Len(a) /\ Len(q) <= Len(b)
                      /\ SubSeq(q, 1, Len(q)) = SubSeq(a, 1, Len(q))
                      /\ SubSeq(q, 1, Len(q)) = SubSeq(b, 1, Len(q))
    OBVIOUS
  <2>1. IsPrefix(q, a) /\ IsPrefix(q, b)  BY DEF CommonPrefixes
  <2>2. q \in Prefixes(a) \/ q \in Prefixes(b)  BY DEF CommonPrefixes
  <2>3. q \in Seq(Chars)
    <3>1. CASE q \in Prefixes(a)
      <4>1. PICK k \in 0..Len(a) : q = SubSeq(a, 1, k)  BY <3>1 DEF Prefixes
      <4> QED  BY <1>1, <4>1
    <3>2. CASE q \in Prefixes(b)
      <4>1. PICK k \in 0..Len(b) : q = SubSeq(b, 1, k)  BY <3>2 DEF Prefixes
      <4> QED  BY <1>1, <4>1
    <3> QED  BY <2>2, <3>1, <3>2
  <2>4. Len(q) \in Nat  BY <2>3
  <2> QED  BY <2>1, <2>4 DEF IsPrefix
<1>3. C # {}
  <2>1. PICK e : e = SubSeq(a, 1, 0)  OBVIOUS
  <2>2. e \in Prefixes(a)
    <3>1. 0 \in 0..Len(a)  BY <1>1
    <3> QED  BY <2>1, <3>1 DEF Prefixes
  <2>3. e = <<>> /\ Len(e) = 0 /\ SubSeq(e, 1, 0) = <<>> /\ SubSeq(a, 1, 0) = <<>> /\ SubSeq(b, 1, 0) = <<>>
    BY <2>1
  <2>4. IsPrefix(e, a) /\ IsPrefix(e, b)  BY <1>1, <2>3 DEF IsPrefix
  <2> QED  BY <2>2, <2>4 DEF CommonPrefixes
<1>4. T \in SUBSET Nat /\ T # {}
  <2>1. \A q \in C : Len(a) - Len(q) \in Nat  BY <1>1, <1>2
  <2> HIDE DEF C
  <2> QED  BY <1>3, <2>1
<1>5. PICK d \in T : \A k \in T : d <= k  BY <1>4, HasMin
<1>6. PICK longest \in C : d = Len(a) - Len(longest)  OBVIOUS
<1>7. \A q \in C : Len(q) <= Len(longest)
  <2> SUFFICES ASSUME NEW q \in C PROVE Len(q) <= Len(longest)  OBVIOUS
  <2>1. Len(a) - Len(longest) <= Len(a) - Len(q)  BY <1>5, <1>6
  <2>2. Len(q) \in Nat /\ Len(longest) \in Nat  BY <1>2
  <2> QED  BY <1>1, <2>1, <2>2
<1>8. PICK l : l = LongestCommonPrefix({a, b})  OBVIOUS
<1>9. l \in C  BY <1>7, <1>8 DEF LongestCommonPrefix
<1>10. PICK p \in Nat : p = Len(l) /\ p <= Len(a) /\ p <= Len(b) /\ SubSeq(a, 1, p) = SubSeq(b, 1, p)
  BY <1>2, <1>9
<1>11. \A i \in 1..p : a[i] = b[i]
  <2>1. \A i \in 1..p : SubSeq(a, 1, p)[i] = a[i]  BY <1>1, <1>10
  <2>2. \A i \in 1..p : SubSeq(b, 1, p)[i] = b[i]  BY <1>1, <1>10
  <2> QED  BY <1>10, <2>1, <2>2
<1> QED  BY <1>8, <1>10, <1>11

(* What is left out of a common prefix and a common suffix that do not     *)
(* overlap, put between them, makes the new text.                          *)
LEMMA DiffRebuilds ==
  \A old, new \in Seq(Chars) :
    LET c == Diff(old, new)
    IN  c \in ChangeSets /\ c.from + Len(c.ins) <= Len(new) /\ Splice(old, c) = new
<1> SUFFICES ASSUME NEW old \in Seq(Chars), NEW new \in Seq(Chars)
             PROVE  LET c == Diff(old, new)
                    IN  c \in ChangeSets /\ c.from + Len(c.ins) <= Len(new) /\ Splice(old, c) = new
  OBVIOUS
<1>1. PICK m \in Nat, n \in Nat : m = Len(old) /\ n = Len(new)  OBVIOUS
<1>2. PICK p \in Nat : /\ p = Len(LongestCommonPrefix({old, new})) /\ p <= m /\ p <= n
                       /\ \A i \in 1..p : old[i] = new[i]
  BY <1>1, CommonPrefix
<1>3. PICK s \in Nat : /\ s = Len(LongestCommonPrefix({Reverse(old), Reverse(new)})) /\ s <= m /\ s <= n
                       /\ \A i \in 1..s : old[m + 1 - i] = new[n + 1 - i]
  <2>1. PICK a, b : a = Reverse(old) /\ b = Reverse(new)  OBVIOUS
  <2>2. a \in Seq(Chars) /\ Len(a) = m /\ \A i \in 1..m : a[i] = old[m + 1 - i]
    BY <1>1, <2>1 DEF Reverse
  <2>3. b \in Seq(Chars) /\ Len(b) = n /\ \A i \in 1..n : b[i] = new[n + 1 - i]
    BY <1>1, <2>1 DEF Reverse
  <2>4. PICK s \in Nat : /\ s = Len(LongestCommonPrefix({a, b})) /\ s <= m /\ s <= n
                         /\ \A i \in 1..s : a[i] = b[i]
    BY <2>2, <2>3, CommonPrefix
  <2>5. \A i \in 1..s : old[m + 1 - i] = new[n + 1 - i]
    <3> SUFFICES ASSUME NEW i \in 1..s PROVE old[m + 1 - i] = new[n + 1 - i]  OBVIOUS
    <3>1. i \in 1..m /\ i \in 1..n  BY <2>4
    <3> QED  BY <2>2, <2>3, <2>4, <3>1
  <2> QED  BY <2>1, <2>4, <2>5
<1>4. PICK k : k = AtMost(s, AtMost(m, n) - p)  OBVIOUS
<1>5. k \in Nat /\ k <= s /\ p + k <= m /\ p + k <= n  BY <1>2, <1>3, <1>4 DEF AtMost
<1>6. PICK ins : ins = SubSeq(new, p + 1, n - k)  OBVIOUS
<1>7. ins \in Seq(Chars) /\ Len(ins) = n - k - p /\ \A i \in 1..(n - k - p) : ins[i] = new[p + i]
  <2>1. PICK u \in Nat : u = n - k  BY <1>5
  <2>2. u <= n /\ p <= u /\ Len(new) = n /\ ins = SubSeq(new, p + 1, u)  BY <1>1, <1>5, <1>6, <2>1
  <2>3. \A i \in (p + 1)..u : new[i] \in Chars
    <3> SUFFICES ASSUME NEW i \in (p + 1)..u PROVE new[i] \in Chars  OBVIOUS
    <3>1. i \in 1..Len(new)  BY <2>2
    <3> QED  BY <3>1
  <2>4. /\ ins \in Seq(Chars) /\ Len(ins) = (IF p + 1 <= u THEN u - (p + 1) + 1 ELSE 0)
        /\ \A i \in 1..(u - (p + 1) + 1) : ins[i] = new[(p + 1) + i - 1]
    BY <2>2, <2>3, SubSeqProperties
  <2>5. Len(ins) = u - p  BY <2>2, <2>4
  <2>6. \A i \in 1..(u - p) : ins[i] = new[p + i]
    <3> SUFFICES ASSUME NEW i \in 1..(u - p) PROVE ins[i] = new[p + i]  OBVIOUS
    <3>1. i \in 1..(u - (p + 1) + 1) /\ (p + 1) + i - 1 = p + i  OBVIOUS
    <3> QED  BY <2>4, <3>1
  <2>7. u - p = n - k - p  BY <2>1
  <2> QED  BY <2>4, <2>5, <2>6, <2>7
<1>8. PICK c : c = [from |-> p, to |-> m - k, ins |-> ins, len |-> m]  OBVIOUS
<1>9. Diff(old, new) = c  BY <1>1, <1>2, <1>3, <1>4, <1>6, <1>8 DEF Diff
<1>10. c \in ChangeSets /\ c.from + Len(c.ins) <= n  BY <1>5, <1>7, <1>8 DEF ChangeSets
<1>11. PICK head, tail : head = SubSeq(old, 1, p) /\ tail = SubSeq(old, m - k + 1, m)  OBVIOUS
<1>12. head \in Seq(Chars) /\ Len(head) = p /\ \A i \in 1..p : head[i] = old[i]
  BY <1>1, <1>2, <1>11
<1>13. tail \in Seq(Chars) /\ Len(tail) = k /\ \A i \in 1..k : tail[i] = old[m - k + i]
  BY <1>1, <1>5, <1>11
<1>14. Splice(old, c) = head \o ins \o tail
  <2>1. AtMost(p, m) = p  BY <1>2 DEF AtMost
  <2> QED  BY <1>1, <1>8, <1>11, <2>1 DEF Splice
<1>15. PICK front : front = head \o ins  OBVIOUS
<1>16. /\ front \in Seq(Chars) /\ Len(front) = n - k
       /\ \A i \in 1..(n - k) : front[i] = new[i]
  <2>1. PICK u \in Nat : u = n - k - p  BY <1>5
  <2>2. Len(ins) = u /\ p + u = n - k  BY <1>5, <1>7, <2>1
  <2>3. /\ front \in Seq(Chars) /\ Len(front) = Len(head) + Len(ins)
        /\ \A i \in 1..(Len(head) + Len(ins)) :
             front[i] = IF i <= Len(head) THEN head[i] ELSE ins[i - Len(head)]
    BY <1>7, <1>12, <1>15, ConcatProperties
  <2>4. Len(front) = n - k  BY <1>12, <2>2, <2>3
  <2>5. ASSUME NEW i \in 1..(n - k) PROVE front[i] = new[i]
    <3>1. i \in 1..(Len(head) + Len(ins))  BY <1>12, <2>2
    <3>2. CASE i <= p
      <4>1. front[i] = head[i] /\ i \in 1..p  BY <1>12, <2>3, <3>1, <3>2
      <4> QED  BY <1>2, <1>12, <4>1
    <3>3. CASE p < i
      <4>1. front[i] = ins[i - p]  BY <1>12, <2>3, <3>1, <3>3
      <4>2. i - p \in 1..(n - k - p) /\ p + (i - p) = i  BY <1>5, <3>3
      <4> QED  BY <1>7, <4>1, <4>2
    <3> QED  BY <3>2, <3>3
  <2> QED  BY <2>3, <2>4, <2>5
<1>17. PICK r : r = front \o tail  OBVIOUS
<1>18. r \in Seq(Chars) /\ Len(r) = n /\ \A i \in 1..n : r[i] = new[i]
  <2>1. PICK u \in Nat : u = n - k /\ Len(front) = u /\ u + k = n  BY <1>5, <1>16
  <2>2. /\ r \in Seq(Chars) /\ Len(r) = Len(front) + Len(tail)
        /\ \A i \in 1..(Len(front) + Len(tail)) :
             r[i] = IF i <= Len(front) THEN front[i] ELSE tail[i - Len(front)]
    BY <1>13, <1>16, <1>17, ConcatProperties
  <2>3. Len(r) = n  BY <1>13, <2>1, <2>2
  <2>4. ASSUME NEW i \in 1..n PROVE r[i] = new[i]
    <3>1. i \in 1..(Len(front) + Len(tail))  BY <1>13, <2>1
    <3>2. CASE i <= u
      <4>1. r[i] = front[i] /\ i \in 1..(n - k)  BY <2>1, <2>2, <3>1, <3>2
      <4> QED  BY <1>16, <4>1
    <3>3. CASE u < i
      <4>1. r[i] = tail[i - u]  BY <2>1, <2>2, <3>1, <3>3
      <4>2. i - u \in 1..k /\ m - k + (i - u) = m + 1 - (n + 1 - i)  BY <1>5, <2>1, <3>3
      <4>3. n + 1 - i \in 1..s /\ n + 1 - (n + 1 - i) = i  BY <1>5, <2>1, <3>3
      <4>4. tail[i - u] = old[m + 1 - (n + 1 - i)]  BY <1>13, <4>2
      <4>5. old[m + 1 - (n + 1 - i)] = new[n + 1 - (n + 1 - i)]  BY <1>3, <4>3
      <4> QED  BY <4>1, <4>3, <4>4, <4>5
    <3> QED  BY <2>1, <3>2, <3>3
  <2> QED  BY <2>2, <2>3, <2>4
<1>19. r = new  BY <1>1, <1>18, SeqEqual
<1> QED  BY <1>1, <1>9, <1>10, <1>14, <1>15, <1>17, <1>19

LEMMA NoChangeSet == NoChange \in ChangeSets /\ NoChange.from + Len(NoChange.ins) = 0
<1>1. PICK e : e = <<>>  OBVIOUS
<1>2. e \in Seq(Chars) /\ Len(e) = 0  BY <1>1
<1> QED  BY <1>1, <1>2 DEF NoChange, ChangeSets

(* Where a position goes: not beyond the texts.                            *)
LEMMA MapBounds ==
  \A c \in ChangeSets, pos, len \in Nat :
    /\ MapPosition(c, pos, len) \in Nat
    /\ MapPosition(c, pos, len) <= pos + c.from + Len(c.ins)
<1> TAKE c \in ChangeSets, pos, len \in Nat
<1>1. c.from \in Nat /\ c.to \in Nat /\ c.len \in Nat /\ Len(c.ins) \in Nat  BY DEF ChangeSets
<1>2. CASE c = NoChange  BY <1>1, <1>2 DEF MapPosition
<1>3. CASE c # NoChange /\ pos > c.len
  <2>1. MapPosition(c, pos, len) = AtMost(pos, len)  BY <1>1, <1>3 DEF MapPosition
  <2> QED  BY <1>1, <2>1 DEF AtMost
<1>4. CASE c # NoChange /\ pos <= c.len
  <2>1. \/ pos >= c.to /\ MapPosition(c, pos, len) = (pos - c.to) + c.from + Len(c.ins)
        \/ MapPosition(c, pos, len) = pos
        \/ MapPosition(c, pos, len) = c.from + Len(c.ins)
    BY <1>1, <1>4 DEF MapPosition
  <2>2. PICK n \in Nat : n = Len(c.ins)  BY <1>1
  <2>3. PICK f \in Nat : f = c.from  BY <1>1
  <2>4. pos \in Nat /\ pos <= pos + f + n /\ f + n \in Nat /\ f + n <= pos + f + n  OBVIOUS
  <2>5. CASE pos >= c.to /\ MapPosition(c, pos, len) = (pos - c.to) + c.from + Len(c.ins)
    <3>1. PICK t \in Nat : t = c.to  BY <1>1
    <3>2. pos >= t  BY <2>5, <3>1
    <3>3. (pos - t) + f + n \in Nat /\ (pos - t) + f + n <= pos + f + n  BY <3>2
    <3>4. MapPosition(c, pos, len) = (pos - t) + f + n  BY <2>2, <2>3, <2>5, <3>1
    <3> QED  BY <2>2, <2>3, <3>3, <3>4
  <2> QED  BY <2>1, <2>2, <2>3, <2>4, <2>5
<1> QED  BY <1>1, <1>2, <1>3, <1>4

(* The page has been told of the text: it shows it.                        *)
LEMMA NotifiedShows ==
  \A s \in BridgeSet :
    LET r == Notified(s)
    IN  /\ r \in BridgeSet /\ r.note = s.note /\ r.view = s.note
        /\ r.change.from + Len(r.change.ins) <= Len(s.note)
        /\ r.cursor <= Len(s.note) + Len(s.note)
<1> SUFFICES ASSUME NEW s \in BridgeSet
             PROVE  LET r == Notified(s)
                    IN  /\ r \in BridgeSet /\ r.note = s.note /\ r.view = s.note
                        /\ r.change.from + Len(r.change.ins) <= Len(s.note)
                        /\ r.cursor <= Len(s.note) + Len(s.note)
  OBVIOUS
<1>1. s.note \in Seq(Chars) /\ s.view \in Seq(Chars) /\ s.cursor \in Nat  BY DEF BridgeSet
<1>2. PICK old \in Seq(Chars), new \in Seq(Chars) : old = s.view /\ new = s.note  BY <1>1
<1>3. PICK c : c = IF old = new THEN NoChange ELSE Diff(old, new)  OBVIOUS
<1>4. PICK v : v = IF c = NoChange THEN old ELSE Splice(old, c)  OBVIOUS
<1>5. Len(new) \in Nat  OBVIOUS
<1>6. c \in ChangeSets /\ c.from + Len(c.ins) <= Len(new) /\ v = new
  <2>1. CASE old = new  BY <1>3, <1>4, <1>5, <2>1, NoChangeSet
  <2>2. CASE old # new
    <3>1. c = Diff(old, new)  BY <1>3, <2>2
    <3>2. c \in ChangeSets /\ c.from + Len(c.ins) <= Len(new) /\ Splice(old, c) = new
      BY <3>1, DiffRebuilds
    <3>3. ASSUME c = NoChange PROVE FALSE
      <4>1. Splice(old, NoChange) = old
        <5>1. PICK h, t : h = SubSeq(old, 1, 0) /\ t = SubSeq(old, 1, Len(old))  OBVIOUS
        <5>2. h = <<>> /\ t = old  BY <5>1
        <5>3. AtMost(0, Len(old)) = 0  BY DEF AtMost
        <5>4. Splice(old, NoChange) = h \o <<>> \o t  BY <5>1, <5>3 DEF Splice, NoChange
        <5> QED  BY <5>2, <5>4
      <4> QED  BY <2>2, <3>2, <3>3, <4>1
    <3> QED  BY <1>4, <3>2, <3>3
  <2> QED  BY <2>1, <2>2
<1>7. PICK pos : pos = AtMost(s.cursor, Len(v))  OBVIOUS
<1>8. pos \in Nat /\ pos <= Len(new)  BY <1>1, <1>5, <1>6, <1>7 DEF AtMost
<1>9. PICK k : k = MapPosition(c, pos, Len(v))  OBVIOUS
<1>10. k \in Nat /\ k <= pos + c.from + Len(c.ins)  BY <1>5, <1>6, <1>8, <1>9, MapBounds
<1>11. k <= Len(new) + Len(new)
  <2>1. c.from \in Nat /\ Len(c.ins) \in Nat  BY <1>6 DEF ChangeSets
  <2> QED  BY <1>5, <1>6, <1>8, <1>10, <2>1
<1>12. PICK r : r = [s EXCEPT !.view = v, !.change = c, !.cursor = k]  OBVIOUS
<1>13. r \in BridgeSet /\ r.note = new /\ r.view = new /\ r.change = c /\ r.cursor = k
  BY <1>2, <1>6, <1>10, <1>12 DEF BridgeSet
<1>14. Notified(s) = r  BY <1>2, <1>3, <1>4, <1>7, <1>9, <1>12, Zenon DEF Notified
<1> QED  BY <1>2, <1>6, <1>11, <1>13, <1>14

(* What the handler leaves after its last range.                           *)
LEMMA HandledShows ==
  \A s \in BridgeSet, e \in Seq(RangeSet) :
    e # <<>> =>
      LET r == Handled(s, e)
      IN  /\ r \in BridgeSet /\ r.view = r.note
          /\ r.change.from + Len(r.change.ins) <= Len(r.note)
          /\ r.cursor <= Len(r.note) + Len(r.note)
<1> SUFFICES ASSUME NEW s \in BridgeSet, NEW e \in Seq(RangeSet), e # <<>>
             PROVE  LET r == Handled(s, e)
                    IN  /\ r \in BridgeSet /\ r.view = r.note
                        /\ r.change.from + Len(r.change.ins) <= Len(r.note)
                        /\ r.cursor <= Len(r.note) + Len(r.note)
  OBVIOUS
<1> PICK n \in Nat : n = Len(e)  OBVIOUS
<1> PICK S : S = BridgeSet  OBVIOUS
<1> DEFINE F == [i \in 1..n |-> [u \in S |-> Notified([u EXCEPT !.note = Splice(@, e[i])])]]
           Is(f) == f = [i \in 0..n |-> IF i = 0 THEN s
                                        ELSE Notified([f[i - 1] EXCEPT !.note = Splice(@, e[i])])]
           Good(r) == /\ r \in BridgeSet /\ r.view = r.note
                      /\ r.change.from + Len(r.change.ins) <= Len(r.note)
                      /\ r.cursor <= Len(r.note) + Len(r.note)
<1>1. \A i \in 1..n, u \in S : Good(Notified([u EXCEPT !.note = Splice(@, e[i])]))
  <2> SUFFICES ASSUME NEW i \in 1..n, NEW u \in S
               PROVE  Good(Notified([u EXCEPT !.note = Splice(@, e[i])]))
    OBVIOUS
  <2>1. PICK c \in RangeSet : c = e[i]  OBVIOUS
  <2>2. c.from \in Nat /\ c.to \in Nat /\ c.ins \in Seq(Chars)  BY DEF RangeSet
  <2>3. PICK t : t = Splice(u.note, c)  OBVIOUS
  <2>4. t \in Seq(Chars)
    <3>1. u.note \in Seq(Chars)  BY DEF BridgeSet
    <3> QED  BY <2>2, <2>3, <3>1, SpliceType
  <2>5. PICK w : w = [u EXCEPT !.note = t]  OBVIOUS
  <2>6. w \in BridgeSet  BY <2>4, <2>5 DEF BridgeSet
  <2>7. w = [u EXCEPT !.note = Splice(@, e[i])]  BY <2>1, <2>3, <2>5
  <2>8. PICK r : r = Notified(w)  OBVIOUS
  <2>9. /\ r \in BridgeSet /\ r.note = w.note /\ r.view = w.note
        /\ r.change.from + Len(r.change.ins) <= Len(w.note)
        /\ r.cursor <= Len(w.note) + Len(w.note)
    BY <2>6, <2>8, NotifiedShows
  <2>10. Good(r)  BY <2>9
  <2> HIDE DEF Good
  <2> QED  BY <2>7, <2>8, <2>10, Zenon
<1>2. \A i \in 1..n, u \in S : Notified([u EXCEPT !.note = Splice(@, e[i])]) \in S  BY <1>1
<1> HIDE DEF Good
<1>3. PICK G : G = F  OBVIOUS
<1>4. PICK f : RunOf(f, n, S, s, G)
  <2>1. G \in StepsOn(n, S)  BY <1>2, <1>3 DEF StepsOn
  <2>2. s \in S /\ n \in Nat  OBVIOUS
  <2> HIDE DEF F, Is
  <2> QED  BY <2>1, <2>2, Runs
<1>5. Is(f)
  <2>1. \A i \in 1..n : f[i] = Notified([f[i - 1] EXCEPT !.note = Splice(@, e[i])])
    <3> SUFFICES ASSUME NEW i \in 1..n
                 PROVE  f[i] = Notified([f[i - 1] EXCEPT !.note = Splice(@, e[i])])
      OBVIOUS
    <3>1. i - 1 \in 0..n  OBVIOUS
    <3>2. f \in [0..n -> S] /\ f[i] = G[i][f[i - 1]]  BY <1>4 DEF RunOf
    <3>3. f[i - 1] \in S  BY <3>1, <3>2
    <3> QED  BY <1>3, <3>2, <3>3
  <2> QED  BY <1>4, <2>1 DEF RunOf
<1>6. PICK g : g = CHOOSE h : Is(h)  OBVIOUS
<1>7. Is(g)  BY <1>5, <1>6
<1>8. ASSUME NEW i \in 1..n PROVE g[i] = Notified([g[i - 1] EXCEPT !.note = Splice(@, e[i])])
  <2>1. i \in 0..n /\ i # 0  OBVIOUS
  <2> QED  BY <1>7, <2>1
<1>9. \A i \in 0..n : g[i] \in S
  <2>1. g[0] \in S  BY <1>7
  <2>2. \A i \in 1..n : g[i - 1] \in S => g[i] \in S  BY <1>2, <1>8
  <2> HIDE DEF Is
  <2> QED  BY <2>1, <2>2, Reaches
<1>10. n \in 1..n /\ n - 1 \in 0..n  OBVIOUS
<1>11. Good(g[n])  BY <1>1, <1>8, <1>9, <1>10, Zenon
<1>12. Handled(s, e) = g[n]  BY <1>6 DEF Handled
<1> QED  BY <1>11, <1>12 DEF Good

BridgeInv ==
  /\ note \in Contents /\ editor \in Contents /\ editorShown \in BOOLEAN
  /\ cursor \in 0..(2 * MaxLen)
  /\ change \in ChangeSets /\ change.from + Len(change.ins) <= MaxLen
  /\ ViewIsText

LEMMA ContentsAre ==
  \A t : t \in Contents <=> t \in Seq(Chars) /\ Len(t) <= MaxLen
<1> TAKE t
<1>1. MaxLen \in Nat  BY TextBridgeAssumption
<1>2. ASSUME t \in Contents PROVE t \in Seq(Chars) /\ Len(t) <= MaxLen
  <2>1. PICK m \in 0..MaxLen : t \in [1..m -> Chars]  BY <1>2 DEF Contents, BoundedSeq, SeqOf
  <2>2. m \in Nat  BY <1>1
  <2>3. t \in Seq(Chars) /\ Len(t) = m  BY <2>1, <2>2
  <2> QED  BY <1>1, <2>3
<1>3. ASSUME t \in Seq(Chars), Len(t) <= MaxLen PROVE t \in Contents
  <2>1. Len(t) \in 0..MaxLen  BY <1>1, <1>3
  <2>2. t \in [1..Len(t) -> Chars]  BY <1>3
  <2> QED  BY <2>1, <2>2 DEF Contents, BoundedSeq, SeqOf
<1> QED  BY <1>2, <1>3

LEMMA EditsAre ==
  ASSUME NEW t \in Seq(Chars), NEW e \in Edits(t) PROVE e \in Seq(RangeSet) /\ e # <<>>
<1> DEFINE ranges == {[from |-> a, to |-> b, ins |-> i] : a \in 0..Len(t), b \in 0..Len(t),
                                                          i \in BoundedSeq(Chars, 1)}
           proper == {r \in ranges : r.from <= r.to /\ (r.from = r.to => r.ins # <<>>)}
<1>1. e \in BoundedSeq(proper, MaxRanges) /\ e # <<>>  BY DEF Edits
<1>2. \A i \in BoundedSeq(Chars, 1) : i \in Seq(Chars)
  <2> SUFFICES ASSUME NEW i \in BoundedSeq(Chars, 1) PROVE i \in Seq(Chars)  OBVIOUS
  <2>1. PICK m \in 0..1 : i \in [1..m -> Chars]  BY DEF BoundedSeq, SeqOf
  <2> QED  BY <2>1
<1>3. ranges \subseteq RangeSet  BY <1>2 DEF RangeSet
<1>4. proper \subseteq RangeSet  BY <1>3
<1> HIDE DEF proper
<1>5. PICK m \in 0..MaxRanges : e \in [1..m -> proper]  BY <1>1 DEF BoundedSeq, SeqOf
<1>6. m \in Nat  BY TextBridgeAssumption
<1>7. e \in Seq(RangeSet)  BY <1>4, <1>5, <1>6
<1> QED  BY <1>1, <1>7

(* After the page has been told of a text that is no longer than it may be.*)
LEMMA BecomesKeeps ==
  ASSUME NEW s, Becomes(s), s \in BridgeSet, s.view = s.note, Len(s.note) <= MaxLen,
         s.change.from + Len(s.change.ins) <= Len(s.note),
         s.cursor <= Len(s.note) + Len(s.note), editorShown' \in BOOLEAN
  PROVE  BridgeInv'
<1>1. s.note \in Seq(Chars) /\ s.cursor \in Nat /\ s.change \in ChangeSets  BY DEF BridgeSet
<1>2. note' = s.note /\ editor' = s.note /\ cursor' = s.cursor /\ change' = s.change  BY DEF Becomes
<1>3. s.change.from \in Nat /\ Len(s.change.ins) \in Nat /\ Len(s.note) \in Nat /\ MaxLen \in Nat
  BY <1>1, TextBridgeAssumption DEF ChangeSets
<1>4. s.note \in Contents  BY <1>1, ContentsAre
<1>5. s.cursor \in 0..(2 * MaxLen)
  <2>1. PICK k \in Nat, n \in Nat, m \in Nat : k = s.cursor /\ n = Len(s.note) /\ m = MaxLen
    BY <1>1, <1>3
  <2>2. k <= n + n /\ n <= m  BY <2>1
  <2>3. k <= 2 * m  BY <2>2
  <2> QED  BY <2>1, <2>3
<1>6. s.change.from + Len(s.change.ins) <= MaxLen  BY <1>3
<1> QED  BY <1>1, <1>2, <1>4, <1>5, <1>6 DEF BridgeInv, ViewIsText, Contents

LEMMA BridgeStart == BridgeInit => BridgeInv
<1> SUFFICES ASSUME BridgeInit PROVE BridgeInv  OBVIOUS
<1>1. PICK e : e = <<>>  OBVIOUS
<1>2. e \in Seq(Chars) /\ Len(e) = 0  BY <1>1
<1>3. MaxLen \in Nat  BY TextBridgeAssumption
<1>4. Len(e) <= MaxLen  BY <1>2, <1>3
<1>5. e \in Contents  BY <1>2, <1>4, ContentsAre, Zenon
<1>6. note = e /\ editor = e /\ editorShown = FALSE /\ cursor = 0 /\ change = NoChange
  BY <1>1 DEF BridgeInit
<1>7. change \in ChangeSets /\ change.from + Len(change.ins) <= MaxLen  BY <1>3, <1>6, NoChangeSet
<1>8. cursor \in 0..(2 * MaxLen)  BY <1>3, <1>6
<1>9. note \in Contents /\ editor \in Contents /\ editorShown \in BOOLEAN  BY <1>5, <1>6, Zenon
<1> QED  BY <1>6, <1>7, <1>8, <1>9, Zenon DEF BridgeInv, ViewIsText

LEMMA BridgeStep == ASSUME BridgeInv, [BridgeNext]_bridgeVars PROVE BridgeInv'
<1>1. /\ note \in Contents /\ editor \in Contents /\ editorShown \in BOOLEAN
      /\ cursor \in 0..(2 * MaxLen) /\ change \in ChangeSets /\ MaxLen \in Nat
      /\ change.from + Len(change.ins) <= MaxLen /\ (editorShown => editor = note)
  BY TextBridgeAssumption DEF BridgeInv, ViewIsText
<1>2. /\ note \in Seq(Chars) /\ Len(note) <= MaxLen /\ Len(note) \in Nat
      /\ editor \in Seq(Chars) /\ Len(editor) <= MaxLen /\ Len(editor) \in Nat
  BY <1>1, ContentsAre
<1>3. Bridge \in BridgeSet  BY <1>1, <1>2 DEF Bridge, BridgeSet
<1>4. CASE UNCHANGED bridgeVars  BY <1>4 DEF bridgeVars, BridgeInv, ViewIsText, Contents
<1>5. CASE SetEditorEditing
  <2>1. editorShown' = ~editorShown /\ note' = note /\ cursor' = cursor  BY <1>5 DEF SetEditorEditing
  <2>2. CASE editorShown \/ editor = note
    <3>1. editor' = editor /\ change' \in {change, NoChange} /\ (~editorShown => editor = note)
      BY <1>5, <2>2 DEF SetEditorEditing
    <3>2. change' \in ChangeSets /\ change'.from + Len(change'.ins) <= MaxLen
      BY <1>1, <3>1, NoChangeSet
    <3>3. editorShown' \in BOOLEAN /\ (editorShown' => editor' = note')  BY <1>1, <2>1, <3>1
    <3> QED  BY <1>1, <2>1, <3>1, <3>2, <3>3 DEF BridgeInv, ViewIsText, Contents
  <2>3. CASE ~(editorShown \/ editor = note)
    <3>1. PICK c : c = Diff(editor, note)  OBVIOUS
    <3>2. change' = c /\ editor' = Splice(editor, c)  BY <1>5, <2>3, <3>1 DEF SetEditorEditing
    <3>3. c \in ChangeSets /\ c.from + Len(c.ins) <= Len(note) /\ Splice(editor, c) = note
      BY <1>2, <3>1, DiffRebuilds
    <3>4. c.from \in Nat /\ Len(c.ins) \in Nat  BY <3>3 DEF ChangeSets
    <3>5. change' \in ChangeSets /\ change'.from + Len(change'.ins) <= MaxLen
      BY <1>1, <1>2, <3>2, <3>3, <3>4
    <3> QED  BY <1>1, <2>1, <3>2, <3>3, <3>5 DEF BridgeInv, ViewIsText, Contents
  <2> QED  BY <2>2, <2>3
<1>6. ASSUME NEW e \in Edits(editor), TypeInEditor(e) PROVE BridgeInv'
  <2>1. e \in Seq(RangeSet) /\ e # <<>>  BY <1>2, <1>6, EditsAre
  <2>2. PICK v : v = Edited(editor, e)  OBVIOUS
  <2>3. v \in Seq(Chars)  BY <1>2, <2>1, <2>2, EditedType
  <2>4. PICK s : s = [Bridge EXCEPT !.view = v]  OBVIOUS
  <2>5. s \in BridgeSet  BY <1>3, <2>3, <2>4 DEF BridgeSet
  <2>6. PICK r : r = Handled(s, e)  OBVIOUS
  <2>7. /\ r \in BridgeSet /\ r.view = r.note
        /\ r.change.from + Len(r.change.ins) <= Len(r.note)
        /\ r.cursor <= Len(r.note) + Len(r.note)
    BY <2>1, <2>5, <2>6, HandledShows
  <2>8. Becomes(r) /\ Len(note') <= MaxLen /\ editorShown' = editorShown
    BY <1>6, <2>2, <2>4, <2>6, Zenon DEF TypeInEditor
  <2>9. Len(r.note) <= MaxLen /\ editorShown' \in BOOLEAN  BY <1>1, <2>8 DEF Becomes
  <2> QED  BY <2>7, <2>8, <2>9, BecomesKeeps
<1>7. ASSUME NEW t \in Contents, Merged(t) PROVE BridgeInv'
  <2>1. t \in Seq(Chars) /\ Len(t) <= MaxLen /\ editorShown' = editorShown
    BY <1>7, ContentsAre DEF Merged
  <2>2. CASE editorShown
    <3>1. PICK s : s = [Bridge EXCEPT !.note = t]  OBVIOUS
    <3>2. s \in BridgeSet /\ s.note = t  BY <1>3, <2>1, <3>1 DEF BridgeSet
    <3>3. PICK r : r = Notified(s)  OBVIOUS
    <3>4. /\ r \in BridgeSet /\ r.note = t /\ r.view = t
          /\ r.change.from + Len(r.change.ins) <= Len(t)
          /\ r.cursor <= Len(t) + Len(t)
      BY <3>2, <3>3, NotifiedShows
    <3>5. Becomes(r)  BY <1>7, <2>2, <3>1, <3>3, Zenon DEF Merged
    <3> QED  BY <1>1, <2>1, <3>4, <3>5, BecomesKeeps
  <2>3. CASE ~editorShown
    <3>1. note' = t /\ UNCHANGED <<editor, cursor, change>>  BY <1>7, <2>3 DEF Merged
    <3> QED  BY <1>1, <1>7, <2>1, <2>3, <3>1 DEF BridgeInv, ViewIsText, Contents
  <2> QED  BY <1>1, <2>2, <2>3
<1>8. ASSUME NEW pos \in 0..MaxLen, Presence(pos) PROVE BridgeInv'
  <2>1. PICK k : k = AtMost(pos, Len(editor))  OBVIOUS
  <2>2. k \in Nat /\ k <= MaxLen  BY <1>1, <1>2, <2>1 DEF AtMost
  <2>3. cursor' = MapPosition(change, k, Len(editor)) /\ UNCHANGED <<note, editor, editorShown, change>>
    BY <1>8, <2>1 DEF Presence
  <2>4. cursor' \in Nat /\ cursor' <= k + change.from + Len(change.ins)
    BY <1>1, <1>2, <2>2, <2>3, MapBounds
  <2>5. cursor' \in 0..(2 * MaxLen)
    <3>1. change.from \in Nat /\ Len(change.ins) \in Nat  BY <1>1 DEF ChangeSets
    <3> QED  BY <1>1, <2>2, <2>4, <3>1
  <2> QED  BY <1>1, <2>3, <2>5 DEF BridgeInv, ViewIsText, Contents
<1> QED  BY <1>4, <1>5, <1>6, <1>7, <1>8 DEF BridgeNext

LEMMA BridgeKeeps == BridgeSpec => []BridgeInv
<1>1. BridgeInv /\ [BridgeNext]_bridgeVars => BridgeInv'  BY BridgeStep
<1> QED  BY BridgeStart, <1>1, PTL DEF BridgeSpec

(* codemirror-automerge.ts: what diffToChanges finds between two texts of  *)
(* any length turns the editor's into the document's, after every range of *)
(* every edit and every merge.                                             *)
THEOREM ViewIsTextAlways == BridgeSpec => []ViewIsText
<1>1. BridgeInv => ViewIsText  BY DEF BridgeInv
<1> QED  BY BridgeKeeps, <1>1, PTL

(* The editor and its cursor stay within the bounds of the text, whatever   *)
(* codemirror-automerge.ts dispatches.                                     *)
THEOREM BridgeTypeCorrect == BridgeSpec => []BridgeTypeOK
<1>1. BridgeInv => BridgeTypeOK  BY DEF BridgeInv, BridgeTypeOK
<1> QED  BY BridgeKeeps, <1>1, PTL

-----------------------------------------------------------------------------
(* All of them, side by side.                                              *)

PageInv == ViewInv /\ BridgeInv /\ IngredientsInv /\ LinkedInv /\ SearchInv /\ ShelfInv

LEMMA PageStep == ASSUME Hasty = FALSE, PageInv, [PageNext]_pageVars PROVE PageInv'
<1>1. ViewInv /\ BridgeInv /\ IngredientsInv /\ LinkedInv /\ SearchInv /\ ShelfInv  BY DEF PageInv
<1>2. [RecipeViewNext]_viewVars  BY DEF PageNext, pageVars
<1>3. [BridgeNext]_bridgeVars  BY DEF PageNext, pageVars
<1>4. [IngredientsNext]_ingredientVars  BY DEF PageNext, pageVars
<1>5. [LinkedNext]_linkedVars  BY DEF PageNext, pageVars
<1>6. [SearchNext]_searchVars  BY DEF PageNext, pageVars
<1>7. [ShelfNext]_shelfVars  BY DEF PageNext, pageVars
<1>8. ViewInv'  BY <1>1, <1>2, ViewStep
<1>9. BridgeInv'  BY <1>1, <1>3, BridgeStep
<1>10. IngredientsInv'  BY <1>1, <1>4, IngredientsStep
<1>11. LinkedInv'  BY <1>1, <1>5, LinkedStep
<1>12. SearchInv'  BY <1>1, <1>6, SearchInvStep
<1>13. ShelfInv'  BY <1>1, <1>7, ShelfStep
<1> QED  BY <1>8, <1>9, <1>10, <1>11, <1>12, <1>13 DEF PageInv

LEMMA IngredientsTyped == IngredientsInv => IngredientsTypeOK
<1> SUFFICES ASSUME IngredientsInv PROVE IngredientsTypeOK  OBVIOUS
<1>1. rows \in Seq(IngredientRow)  BY DEF IngredientsInv, RowsAreTyped
<1>2. \A i \in DOMAIN rows : rows[i] \in IngredientRow  BY <1>1
<1>3. \A i \in DOMAIN rows : rows[i].id \in Ids /\ rows[i].name \in Names \cup {""}
  BY <1>2 DEF IngredientRow
<1> QED
  BY <1>3 DEF IngredientsInv, RowsAreTyped, DragIsSound, Oddities, IngredientsTypeOK

LEMMA ShelfTyped == ShelfInv => ShelfTypeOK
BY DEF ShelfInv, ShelfTypes, Book, ShelfTypeOK

(* The invariant the run of the page checks: every part keeps its types,   *)
(* whatever it does and for every value of its constants.                  *)
THEOREM PageTypeCorrect == ASSUME Hasty = FALSE PROVE PageSpec => []PageTypeOK
<1>1. PageInit => PageInv
  BY ViewStart, BridgeStart, IngredientsStart, LinkedStart, SearchStart, ShelfStart
  DEF PageInit, PageInv
<1>2. PageInv /\ [PageNext]_pageVars => PageInv'  BY PageStep
<1>3. PageInv => PageTypeOK
  <2>1. BridgeInv => BridgeTypeOK  BY DEF BridgeInv, BridgeTypeOK
  <2>2. SearchInv => SearchTypeOK  BY DEF SearchInv
  <2> QED  BY <2>1, <2>2, ViewTyped, IngredientsTyped, LinkedTyped, ShelfTyped DEF PageInv, PageTypeOK
<1> QED  BY <1>1, <1>2, <1>3, PTL DEF PageSpec
=============================================================================
