----------------------------- MODULE LinkedRecipes -----------------------------
(***************************************************************************)
(* A recipe page whose text links to another recipe                        *)
(* (views/detail/recipe-links.ts, renderPreviews of recipe-detail.ts) and  *)
(* the preview of the linked recipe below it                               *)
(* (components/recipe-preview.ts).                                         *)
(*                                                                         *)
(* The text holds one link `#[name](id)` and the edits typed into it.  A   *)
(* rewritten field is a new text object of the document: the newest object *)
(* is the field, and what other devices typed into an older one stays in   *)
(* it.  A title is a number that grows with each rename.  "here" is this   *)
(* page, "there" another device with the same recipe.                      *)
(***************************************************************************)
EXTENDS Naturals, FiniteSets

CONSTANTS
  MaxTitles,   \* bound: titles of the linked recipe
  MaxTyped,    \* bound: edits typed into the text
  MaxScale,    \* bound: scale factors
  MaxRenders   \* bound: loads of a preview still under way for an old section

ASSUME LinkedAssumption ==
  MaxTitles \in Nat \ {0} /\ MaxTyped \in Nat /\ MaxScale \in Nat \ {0} /\ MaxRenders \in Nat

Sides == {"here", "there"}
Original == "original"
UnitSystems == <<Original, "metric", "imperial">>

VARIABLES
  docs,        \* per side: the text objects of the recipe
  titles,      \* per side: the linked recipe's title, and whether it is deleted
  lines,       \* edits typed so far
  mode,        \* "closed", "viewing" or "editing"
  label,       \* what the last render put in place of the link
  amounts,     \* the page's scale and unit system
  card,        \* the card of the linked recipe: "none", "folded", "opening", "failed", "live"
  stale,       \* documents being opened for a card of an earlier generation
  previews,    \* activeLinkedPreviews
  listeners,   \* onChange subscriptions, TRUE for those of the current generation
  picker       \* the unit picker of the preview is open

linkedVars == <<docs, titles, lines, mode, label, amounts, card, stale, previews, listeners, picker>>
uiVars == <<mode, label, amounts, card, stale, previews, listeners, picker>>

Newest(objects) ==
  CHOOSE o \in objects : \A p \in objects :
    p.at < o.at \/ (p.at = o.at /\ (p.by = o.by \/ o.by = "there"))

(* Automerge.merge: the objects of both, each with the edits of both.      *)
MergeTexts(S, T) ==
  {[o EXCEPT !.edits = UNION {p.edits : p \in {q \in S \cup T : q.at = o.at /\ q.by = o.by}}]
     : o \in S \cup T}

(* getCatalogRecipes: the title, or 0 when the catalog lacks the recipe.   *)
Title(s) == IF titles[s].gone THEN 0 ELSE titles[s].title

(* reconcileRecipeLinkNames: an outdated name rewrites the whole field.    *)
Reconciled(s, title) ==
  LET text == Newest(docs[s])
  IN  IF title \in {0, text.name} THEN docs[s]
      ELSE docs[s] \cup {[text EXCEPT !.at = @ + 1, !.by = s, !.name = title]}

LinkedInit ==
  /\ docs = [s \in Sides |-> {[at |-> 0, by |-> "there", name |-> 1, edits |-> {}]}]
  /\ titles = [s \in Sides |-> [title |-> 1, gone |-> FALSE]]
  /\ lines = 0 /\ mode = "closed" /\ label = 0
  /\ amounts = [scale |-> 1, units |-> Original]
  /\ card = "none" /\ stale = 0 /\ previews = {} /\ listeners = {} /\ picker = FALSE

-----------------------------------------------------------------------------
(* The generation of the section.                                          *)

(* bumpLinkedRecipesGeneration and cleanupLinkedRecipes: what is under way *)
(* belongs to an earlier generation; the elements leave the page.          *)
Bumped(newCard) ==
  /\ stale' = stale + (IF card = "opening" THEN 1 ELSE 0)
  /\ stale' <= MaxRenders
  /\ card' = newCard /\ previews' = {} /\ listeners' = {} /\ picker' = FALSE

(* A card for the linked recipe t, unless the catalog lacks it.            *)
RenderLinkedRecipes(t) == Bumped(IF t = 0 THEN "none" ELSE "folded")

(* renderPreviews: the link becomes the title t, or is shown as broken.    *)
Render(t) == label' = t /\ RenderLinkedRecipes(t)

(* onCatalogChanged, when the catalog of the page names the recipe t.      *)
OnCatalogChanged(t) ==
  /\ docs' = IF mode = "closed" THEN docs ELSE [docs EXCEPT !["here"] = Reconciled("here", t)]
  /\ IF mode = "viewing" THEN Render(t) ELSE UNCHANGED <<label, card, stale, previews, listeners, picker>>
  /\ UNCHANGED <<mode, amounts>>

-----------------------------------------------------------------------------
(* The recipe and its catalog.                                             *)

OpenRecipe ==
  /\ mode' = "viewing" /\ docs' = [docs EXCEPT !["here"] = Reconciled("here", Title("here"))]
  /\ amounts' = [amounts EXCEPT !.scale = 1]
  /\ Render(Title("here"))
  /\ UNCHANGED <<titles, lines>>

CloseRecipe ==
  /\ mode # "closed" /\ mode' = "closed" /\ label' = 0
  /\ amounts' = [amounts EXCEPT !.scale = 1]
  /\ Bumped("none")
  /\ UNCHANGED <<docs, titles, lines>>

(* setPageEditing(true) leaves the section alone; "Done" renders it anew.  *)
SetPageEditing ==
  /\ \/ mode = "viewing" /\ mode' = "editing" /\ amounts' = [amounts EXCEPT !.scale = 1]
        /\ UNCHANGED <<label, card, stale, previews, listeners, picker>>
     \/ mode = "editing" /\ mode' = "viewing" /\ Render(Title("here")) /\ UNCHANGED amounts
  /\ UNCHANGED <<docs, titles, lines>>

(* A change reaches the linked recipe's entry in the catalog of this page. *)
CatalogChange(entry) ==
  /\ titles' = [titles EXCEPT !["here"] = entry]
  /\ OnCatalogChanged(IF entry.gone THEN 0 ELSE entry.title)
  /\ UNCHANGED lines

RenameLinked(s) ==
  LET entry == [titles[s] EXCEPT !.title = @ + 1]
  IN  /\ titles[s].title < MaxTitles /\ ~titles[s].gone
      /\ \/ s = "here" /\ CatalogChange(entry)
         \/ s = "there" /\ titles' = [titles EXCEPT ![s] = entry]
            /\ docs' = [docs EXCEPT ![s] = Reconciled(s, entry.title)]
            /\ UNCHANGED <<lines, uiVars>>

DeleteLinked ==
  /\ ~titles["here"].gone
  /\ CatalogChange([titles["here"] EXCEPT !.gone = TRUE])

TypeLine(s) ==
  LET text == Newest(docs[s])
  IN  /\ lines < MaxTyped /\ lines' = lines + 1
      /\ s = "here" => mode = "editing"
      /\ docs' = [docs EXCEPT ![s] = (@ \ {text}) \cup {[text EXCEPT !.edits = @ \cup {lines'}]}]
      /\ UNCHANGED <<titles, uiVars>>

SyncCatalog(s) ==
  LET theirs == titles[IF s = "here" THEN "there" ELSE "here"]
      merged == [title |-> IF theirs.title > titles[s].title THEN theirs.title ELSE titles[s].title,
                 gone |-> theirs.gone \/ titles[s].gone]
  IN  /\ merged # titles[s]
      /\ \/ s = "here" /\ CatalogChange(merged)
         \/ s = "there" /\ titles' = [titles EXCEPT ![s] = merged]
            /\ docs' = [docs EXCEPT ![s] = Reconciled(s, IF merged.gone THEN 0 ELSE merged.title)]
            /\ UNCHANGED <<lines, uiVars>>

(* A snapshot of the recipe is merged; store.onChange of the open page     *)
(* renders the previews unless the text is being edited.                   *)
SyncRecipe(s) ==
  LET merged == MergeTexts(docs["here"], docs["there"])
  IN  /\ merged # docs[s] /\ docs' = [docs EXCEPT ![s] = merged]
      /\ IF s = "here" /\ mode = "viewing"
         THEN Render(Title("here")) ELSE UNCHANGED <<label, card, stale, previews, listeners, picker>>
      /\ s = "here" => mode # "closed"
      /\ UNCHANGED <<titles, lines, mode, amounts>>

-----------------------------------------------------------------------------
(* The preview: its scale, unit system and chosen unit, and the state in   *)
(* which its head, its list and its text were last rendered.               *)

Settings(p) == [scale |-> p.scale, units |-> p.units, over |-> p.over]
PreviewRendered(p) == [p EXCEPT !.meta = p.scale, !.list = Settings(p), !.text = Settings(p)]
Amounts(p) == [p EXCEPT !.list = Settings(p), !.text = Settings(p)]

(* new RecipePreview, set to the page's scale and units, then setRecipe.   *)
NewPreview(a) ==
  LET p == [scale |-> a.scale, units |-> a.units, over |-> Original]
  IN  [scale |-> a.scale, units |-> a.units, over |-> Original, meta |-> a.scale, list |-> p, text |-> p]

SetScale(p, n) == IF p.scale = n THEN p ELSE PreviewRendered([p EXCEPT !.scale = n])
SetUnits(p, u) == IF p.units = u THEN p ELSE Amounts([p EXCEPT !.units = u, !.over = Original])
ResetState(p) == Amounts([p EXCEPT !.over = Original, !.scale = 1, !.units = Original])
ChooseUnit(p, u) == Amounts([p EXCEPT !.over = u])

(* The card is unfolded: its document is opened.                           *)
Toggle ==
  /\ card = "folded" /\ card' = "opening"
  /\ UNCHANGED <<docs, titles, lines, mode, label, amounts, stale, previews, listeners, picker>>

(* Variant: the generation is not compared again after the document is     *)
(* open.                                                                   *)
LinkedOpened_AnyGeneration ==
  /\ \/ card = "opening" /\ card' = "live" /\ listeners' = listeners \cup {TRUE} /\ stale' = stale
     \/ stale > 0 /\ stale' = stale - 1 /\ listeners' = listeners \cup {FALSE} /\ card' = card
  /\ previews' = previews \cup {NewPreview(amounts)}
  /\ UNCHANGED <<docs, titles, lines, mode, label, amounts, picker>>

(* docMgr.open answers: the preview of the current generation appears, an  *)
(* older one is forgotten.                                                 *)
LinkedOpened ==
  /\ \/ /\ card = "opening" /\ card' = "live" /\ stale' = stale
        /\ listeners' = listeners \cup {TRUE} /\ previews' = previews \cup {NewPreview(amounts)}
     \/ stale > 0 /\ stale' = stale - 1 /\ UNCHANGED <<card, listeners, previews>>
  /\ UNCHANGED <<docs, titles, lines, mode, label, amounts, picker>>

OpenFails ==
  /\ card = "opening" /\ card' = "failed"
  /\ UNCHANGED <<docs, titles, lines, mode, label, amounts, stale, previews, listeners, picker>>

UpdateLinkedPreviewState(a) == {SetUnits(SetScale(p, a.scale), a.units) : p \in previews}

(* The scale bar and the unit button of the page.                          *)
ScalePage(n) ==
  /\ mode = "viewing" /\ n # amounts.scale
  /\ amounts' = [amounts EXCEPT !.scale = n] /\ previews' = UpdateLinkedPreviewState(amounts')
  /\ UNCHANGED <<docs, titles, lines, mode, label, card, stale, listeners, picker>>

ResetPageScale ==
  /\ mode = "viewing"
  /\ amounts' = [scale |-> 1, units |-> Original]
  /\ previews' = {ResetState(p) : p \in UpdateLinkedPreviewState(amounts')}
  /\ UNCHANGED <<docs, titles, lines, mode, label, card, stale, listeners, picker>>

CyclePageUnits ==
  /\ mode = "viewing"
  /\ \E i \in 1..3 : amounts.units = UnitSystems[i]
                     /\ amounts' = [amounts EXCEPT !.units = UnitSystems[(i % 3) + 1]]
  /\ previews' = UpdateLinkedPreviewState(amounts')
  /\ UNCHANGED <<docs, titles, lines, mode, label, card, stale, listeners, picker>>

(* The preview's own unit picker.                                          *)
ShowUnitPicker ==
  /\ previews # {} /\ picker' = TRUE
  /\ UNCHANGED <<docs, titles, lines, mode, label, amounts, card, stale, previews, listeners>>

PickUnitOfPreview(u) ==
  /\ picker /\ picker' = FALSE
  /\ previews' = {ChooseUnit(p, u) : p \in previews}
  /\ UNCHANGED <<docs, titles, lines, mode, label, amounts, card, stale, listeners>>

ClosePicker ==
  /\ picker /\ picker' = FALSE
  /\ UNCHANGED <<docs, titles, lines, mode, label, amounts, card, stale, previews, listeners>>

LinkedNext ==
  \/ OpenRecipe \/ CloseRecipe \/ SetPageEditing \/ DeleteLinked
  \/ \E s \in Sides : RenameLinked(s) \/ TypeLine(s) \/ SyncCatalog(s) \/ SyncRecipe(s)
  \/ Toggle \/ LinkedOpened \/ OpenFails \/ ResetPageScale \/ CyclePageUnits \/ ShowUnitPicker \/ ClosePicker
  \/ \E n \in 1..MaxScale : ScalePage(n)
  \/ \E u \in {Original, "unit", "density"} : PickUnitOfPreview(u)

LinkedSpec == LinkedInit /\ [][LinkedNext]_linkedVars

-----------------------------------------------------------------------------
LinkedTypeOK ==
  /\ \A s \in Sides : \A o \in docs[s] : o.by \in Sides /\ o.name \in 1..MaxTitles /\ o.edits \subseteq 1..lines
  /\ mode \in {"closed", "viewing", "editing"}
  /\ card \in {"none", "folded", "opening", "failed", "live"}
  /\ Cardinality(previews) <= 1 /\ listeners \subseteq BOOLEAN /\ stale \in 0..MaxRenders

(* The preview below the page belongs to the page's latest render, has its *)
(* scale and units while the page is viewed, and its head, list and text   *)
(* show the same amounts; none is left listening after the page has moved  *)
(* on, however loads, renders and settings interleave.                     *)
PreviewFollowsPage ==
  /\ previews # {} <=> card = "live"
  /\ listeners = IF card = "live" THEN {TRUE} ELSE {}
  /\ picker => card = "live"
  /\ \A p \in previews :
       /\ p.list = Settings(p) /\ p.text = Settings(p) /\ p.meta = p.scale
       /\ mode = "viewing" => p.scale = amounts.scale /\ p.units = amounts.units

(* README.md: "Multiple people can edit the same recipe simultaneously     *)
(* with no conflicts": what a device has received of the text is in the    *)
(* text it shows.                                                          *)
EditsKept == \A s \in Sides : \A o \in docs[s] : o.edits \subseteq Newest(docs[s]).edits
=============================================================================
