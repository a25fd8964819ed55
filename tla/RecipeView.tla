------------------------------ MODULE RecipeView ------------------------------
(***************************************************************************)
(* The recipe page of the browser: the stores the DocumentManager keeps    *)
(* open (lib/document-manager.ts, lib/automerge-store.ts), the recipe      *)
(* selected and shown (ui/recipes.ts, views/recipe-detail.ts), and the     *)
(* catalog, which repeats each recipe's title.                             *)
(*                                                                         *)
(* A store is an object: two of them may hold the same document.  A        *)
(* document is a set of edits and a title; the edits are numbered, and of  *)
(* two titles the later wins.  What a function does between two awaits is  *)
(* one action; a navigation is a call of selectRecipe or deselectRecipe    *)
(* in progress.                                                            *)
(***************************************************************************)
EXTENDS Naturals, Sequences, FiniteSets

CONSTANTS
  Recipes,
  Listed,      \* recipes in the catalog to begin with
  None,        \* no recipe
  Hasty,       \* whether the user acts while a navigation or a debounce is under way
  MaxStores,   \* bound: stores ever opened
  MaxEdits     \* bound: edits and titles, here and elsewhere

ASSUME RecipeViewAssumption ==
  /\ Listed \subseteq Recipes /\ None \notin Recipes
  /\ Hasty \in BOOLEAN /\ MaxStores \in Nat \ {0} /\ MaxEdits \in Nat

NoTitle == [of |-> None, n |-> 0]
Titles == {NoTitle} \cup [of : Recipes, n : 0..MaxEdits]
Documents == [text : SUBSET (1..MaxEdits), title : Titles]
Blank == [text |-> {}, title |-> NoTitle]
NoView == [obj |-> 0, of |-> None]

VARIABLES
  idb,                     \* the documents in IndexedDB
  heap,                    \* the AutomergeStore objects, with a write still queued or not
  stores,                  \* DocumentManager.stores: 0, or the object
  opening,                 \* DocumentManager.opening: opens in progress
  subscribed, sent, srv,   \* subscriptions; what the server has sent and has stored
  selected,                \* selectedRecipeId
  detail,                  \* the store and the recipe of the detail view
  titleTyped,              \* the title in the input while the debounce runs, or 0
  synced,                  \* lastSyncedTitle
  navs,                    \* navigations in progress
  catalog,                 \* titles in the catalog
  mine,                    \* history: the edits made here
  edits

viewVars == <<idb, heap, stores, opening, subscribed, sent, srv, selected, detail,
              titleTyped, synced, navs, catalog, mine, edits>>

RecipeViewInit ==
  /\ srv = [r \in Recipes |-> IF r \in Listed THEN [text |-> {}, title |-> [of |-> r, n |-> 0]] ELSE Blank]
  /\ idb = [r \in Recipes |-> Blank] /\ sent = idb
  /\ heap = <<>> /\ stores = [r \in Recipes |-> 0] /\ opening = {}
  /\ subscribed = {} /\ selected = None /\ detail = NoView /\ titleTyped = 0 /\ synced = NoTitle
  /\ navs = {} /\ mine = [r \in Recipes |-> {}] /\ edits = 0
  /\ catalog = [r \in Recipes |-> srv[r].title]

-----------------------------------------------------------------------------
(* Automerge.merge; a title by number.                                     *)
Merge(d, e) == [text |-> d.text \cup e.text, title |-> IF e.title.n > d.title.n \/ d.title = NoTitle
                                                         THEN e.title ELSE d.title]

(* AutomergeStore.change and merge: a write is queued, the listeners run.  *)
Changed(h, o, d) == [h EXCEPT ![o].doc = d, ![o].queued = TRUE]

(* Variant: the entry is looked up by nothing.                             *)
Mirrored_Any(cat, sel, t) == [r \in Recipes |-> IF cat[r] = NoTitle THEN NoTitle ELSE t]

(* onSyncCatalogMeta and onMetaChanged: the entry of the recipe selected   *)
(* now takes the title.                                                    *)
Mirrored(cat, sel, t) ==
  IF sel # None /\ cat[sel] # NoTitle THEN [cat EXCEPT ![sel] = t] ELSE cat

(* Variant: the detail view listens to remote changes only for show.       *)
Notice_Never(o, t) == UNCHANGED <<synced, catalog>>

(* The listener openRecipe has put on a store: a new title is mirrored.    *)
Notice(o, t) ==
  IF heap[o].shown /\ t # synced
    THEN synced' = t /\ catalog' = Mirrored(catalog, selected, t)
    ELSE UNCHANGED <<synced, catalog>>

(* DocumentManager.open of the recipes rs, up to the first await.          *)
OpenBegin(ops, map, rs) ==
  ops \cup {[of |-> r, read |-> FALSE, doc |-> Blank] :
              r \in {q \in rs : map[q] = 0 /\ \A o \in ops : o.of # q}}

(* AutomergeStore.open reads the document ...                              *)
OpenRead(o) ==
  /\ o \in opening /\ ~o.read
  /\ opening' = (opening \ {o}) \cup {[o EXCEPT !.read = TRUE, !.doc = idb[o.of]]}
  /\ UNCHANGED <<idb, heap, stores, subscribed, sent, srv, selected, detail, titleTyped, synced,
                 navs, catalog, mine, edits>>

(* ... and writes it again; then the store is in the map.                  *)
OpenDone(o) ==
  /\ o \in opening /\ o.read /\ Len(heap) < MaxStores
  /\ opening' = opening \ {o}
  /\ idb' = [idb EXCEPT ![o.of] = o.doc]
  /\ heap' = Append(heap, [of |-> o.of, doc |-> o.doc, queued |-> FALSE, shown |-> FALSE])
  /\ stores' = [stores EXCEPT ![o.of] = Len(heap) + 1]
  /\ navs' = {IF n.step \in {"add", "open"} /\ n.to = o.of /\ n.obj = 0
                THEN [n EXCEPT !.obj = Len(heap) + 1] ELSE n : n \in navs}
  /\ UNCHANGED <<subscribed, sent, srv, selected, detail, titleTyped, synced, catalog, mine, edits>>

(* persistAndMarkDirty; close() waits for the writes queued when it was    *)
(* called.                                                                 *)
Persist(o) ==
  /\ heap[o].queued
  /\ heap' = [heap EXCEPT ![o].queued = FALSE]
  /\ idb' = [idb EXCEPT ![heap[o].of] = heap[o].doc]
  /\ navs' = {IF n.step = "close" /\ n.obj = o THEN [n EXCEPT !.wait = FALSE] ELSE n : n \in navs}
  /\ UNCHANGED <<stores, opening, subscribed, sent, srv, selected, detail, titleTyped, synced,
                 catalog, mine, edits>>

-----------------------------------------------------------------------------
(* Navigation.                                                             *)

Calm == Hasty \/ (navs = {} /\ titleTyped = 0)
Nav(step, from, to, obj, wait) ==
  [step |-> step, from |-> from, to |-> to, obj |-> obj, wait |-> wait]

(* Variant: the store is dropped without waiting for its writes.           *)
Leave_NoWait(r) == Nav("close", r, None, IF r = None THEN 0 ELSE stores[r], FALSE)

(* DocumentManager.close(r) up to its await.                               *)
Leave(r) ==
  LET o == IF r = None THEN 0 ELSE stores[r]
  IN  Nav("close", r, None, o, o # 0 /\ heap[o].queued)

(* selectRecipe unsubscribes from and closes the recipe before ...         *)
Begin(to) ==
  LET from == IF selected = to THEN None ELSE selected
  IN  /\ subscribed' = subscribed \ {from}
      /\ navs' = navs \cup {[Leave(from) EXCEPT !.to = to]}

Select(r) ==
  /\ Calm /\ catalog[r] # NoTitle /\ Cardinality(navs) < 2
  /\ Begin(r)
  /\ UNCHANGED <<idb, heap, stores, opening, sent, srv, selected, detail, titleTyped,
                 synced, catalog, mine, edits>>

(* deselectRecipe; onDeleteRecipe also takes the entry out of the catalog. *)
Deselect(delete) ==
  /\ Calm /\ selected # None /\ Cardinality(navs) < 2
  /\ Begin(None)
  /\ catalog' = IF delete THEN [catalog EXCEPT ![selected] = NoTitle] ELSE catalog
  /\ UNCHANGED <<idb, heap, stores, opening, sent, srv, selected, detail, titleTyped,
                 synced, mine, edits>>

(* The form: an entry in the catalog and a document ...                    *)
AddRecipe(r) ==
  /\ Calm /\ catalog[r] = NoTitle /\ edits < MaxEdits /\ Cardinality(navs) < 2
  /\ idb[r] = Blank /\ srv[r] = Blank /\ stores[r] = 0
  /\ edits' = edits + 1
  /\ catalog' = [catalog EXCEPT ![r] = [of |-> r, n |-> edits']]
  /\ opening' = OpenBegin(opening, stores, {r})
  /\ navs' = navs \cup {Nav("add", None, r, 0, FALSE)}
  /\ UNCHANGED <<idb, heap, stores, subscribed, sent, srv, selected, detail, titleTyped, synced, mine>>

(* ... which is initialized and selected.                                  *)
Added(n) ==
  /\ n \in navs /\ n.step = "add" /\ n.obj # 0
  /\ heap' = Changed(heap, n.obj, [heap[n.obj].doc EXCEPT !.title = catalog[n.to]])
  /\ LET from == IF selected = n.to THEN None ELSE selected
     IN  /\ subscribed' = subscribed \ {from}
         /\ navs' = (navs \ {n}) \cup {[Leave(from) EXCEPT !.to = n.to]}
  /\ UNCHANGED <<idb, stores, opening, sent, srv, selected, detail, titleTyped, synced,
                 catalog, mine, edits>>

(* closeRecipe: a title still in the debounce goes to the store shown, and *)
(* by onMetaChanged to the entry of the recipe selected by now.            *)
Flushed(sel) ==
  IF titleTyped = 0 \/ detail = NoView THEN <<heap, catalog>>
  ELSE LET t == [of |-> detail.of, n |-> titleTyped]
       IN  <<Changed(heap, detail.obj, [heap[detail.obj].doc EXCEPT !.title = t]),
             Mirrored(catalog, sel, t)>>

(* The recipe before is closed: deselectRecipe closes the view,            *)
(* selectRecipe sets the selection and opens the document.                 *)
LeftPrevious(n) ==
  /\ n \in navs /\ n.step = "close" /\ ~n.wait
  /\ LET map == IF n.obj = 0 THEN stores ELSE [stores EXCEPT ![n.from] = 0]
     IN  /\ stores' = map
         /\ selected' = n.to
         /\ IF n.to = None
              THEN /\ navs' = navs \ {n} /\ detail' = NoView /\ titleTyped' = 0
                   /\ heap' = Flushed(None)[1] /\ catalog' = Flushed(None)[2]
                   /\ UNCHANGED opening
              ELSE /\ navs' = (navs \ {n}) \cup {Nav("open", None, n.to, map[n.to], FALSE)}
                   /\ opening' = OpenBegin(opening, map, {n.to})
                   /\ UNCHANGED <<detail, titleTyped, heap, catalog>>
  /\ UNCHANGED <<idb, subscribed, sent, srv, synced, mine, edits>>

(* selectRecipe goes on with the store: it subscribes, gives an empty      *)
(* document the catalog's title or the catalog the document's, shows it,   *)
(* and opens every recipe of the book for its ingredients.                 *)
Opened(n) ==
  /\ n \in navs /\ n.step = "open" /\ n.obj # 0
  /\ navs' = navs \ {n}
  /\ subscribed' = subscribed \cup {n.to}
  /\ sent' = IF n.to \in subscribed THEN sent ELSE [sent EXCEPT ![n.to] = Blank]
  /\ LET d == heap[n.obj].doc
         seed == d.title = NoTitle /\ catalog[n.to] # NoTitle
         fixed == IF ~seed /\ d.title # NoTitle THEN Mirrored(catalog, n.to, d.title) ELSE catalog
         old == Flushed(selected)
         cat == IF old[2] = catalog THEN fixed
                ELSE [fixed EXCEPT ![selected] = old[2][selected]]
         now == IF seed THEN catalog[n.to] ELSE old[1][n.obj].doc.title
     IN  /\ heap' = [(IF seed THEN Changed(old[1], n.obj, [d EXCEPT !.title = now]) ELSE old[1])
                       EXCEPT ![n.obj].shown = TRUE]
         /\ catalog' = cat
         /\ synced' = now
         /\ opening' = OpenBegin(opening, stores, {r \in Recipes : cat[r] # NoTitle})
  /\ detail' = [obj |-> n.obj, of |-> n.to] /\ titleTyped' = 0
  /\ UNCHANGED <<idb, stores, srv, selected, mine, edits>>

-----------------------------------------------------------------------------
(* Edits.                                                                  *)

(* A keystroke in the editor.                                              *)
Edit ==
  /\ (Hasty \/ navs = {}) /\ detail # NoView /\ edits < MaxEdits
  /\ edits' = edits + 1
  /\ heap' = Changed(heap, detail.obj, [heap[detail.obj].doc EXCEPT !.text = @ \cup {edits'}])
  /\ mine' = [mine EXCEPT ![detail.of] = @ \cup {edits'}]
  /\ UNCHANGED <<idb, stores, opening, subscribed, sent, srv, selected, detail, titleTyped,
                 synced, navs, catalog>>

(* A keystroke in the title: the debounce begins ...                       *)
TypeTitle ==
  /\ (Hasty \/ navs = {}) /\ detail # NoView /\ edits < MaxEdits
  /\ edits' = edits + 1 /\ titleTyped' = edits'
  /\ UNCHANGED <<idb, heap, stores, opening, subscribed, sent, srv, selected, detail, synced,
                 navs, catalog, mine>>

(* ... and ends (flushMeta).                                               *)
FlushMeta ==
  /\ titleTyped # 0 /\ detail # NoView
  /\ heap' = Flushed(selected)[1] /\ catalog' = Flushed(selected)[2]
  /\ synced' = heap'[detail.obj].doc.title
  /\ titleTyped' = 0
  /\ UNCHANGED <<idb, stores, opening, subscribed, sent, srv, selected, detail, navs, mine, edits>>

(* Someone else edits a recipe, or renames it.                             *)
RemoteEdit(r) ==
  /\ edits < MaxEdits /\ edits' = edits + 1 /\ srv[r] # Blank
  /\ \/ srv' = [srv EXCEPT ![r].text = @ \cup {edits'}]
     \/ srv' = [srv EXCEPT ![r].title = [of |-> r, n |-> edits']]
  /\ UNCHANGED <<idb, heap, stores, opening, subscribed, sent, selected, detail, titleTyped,
                 synced, navs, catalog, mine>>

(* onRemoteChange: merged into the store in the map, if there is one.      *)
Receive(r) ==
  /\ r \in subscribed /\ sent[r] # srv[r]
  /\ sent' = [sent EXCEPT ![r] = srv[r]]
  /\ IF stores[r] = 0 THEN UNCHANGED <<heap, synced, catalog>>
     ELSE LET o == stores[r]
              d == Merge(heap[o].doc, srv[r])
          IN  heap' = Changed(heap, o, d) /\ Notice(o, d.title)
  /\ UNCHANGED <<idb, stores, opening, subscribed, srv, selected, detail, titleTyped, navs, mine, edits>>

Run ==
  \/ \E o \in opening : OpenRead(o) \/ OpenDone(o)
  \/ \E o \in DOMAIN heap : Persist(o)
  \/ \E n \in navs : Added(n) \/ LeftPrevious(n) \/ Opened(n)
  \/ FlushMeta
  \/ \E r \in Recipes : Receive(r)

RecipeViewNext ==
  \/ Run
  \/ \E r \in Recipes : Select(r) \/ AddRecipe(r) \/ RemoteEdit(r)
  \/ \E delete \in BOOLEAN : Deselect(delete)
  \/ Edit \/ TypeTitle

RecipeViewSpec == RecipeViewInit /\ [][RecipeViewNext]_viewVars

-----------------------------------------------------------------------------
(* Properties.                                                             *)

(* Types: a title, in a document or in the catalog, is its recipe's own,   *)
(* and the map knows a document under its own name.                        *)
RecipeViewTypeOK ==
  /\ idb \in [Recipes -> Documents] /\ srv \in [Recipes -> Documents] /\ sent \in [Recipes -> Documents]
  /\ \A o \in DOMAIN heap : heap[o] \in [of : Recipes, doc : Documents, queued : BOOLEAN, shown : BOOLEAN]
  /\ stores \in [Recipes -> 0..Len(heap)] /\ Len(heap) <= MaxStores
  /\ subscribed \subseteq Recipes /\ selected \in Recipes \cup {None}
  /\ titleTyped \in 0..MaxEdits /\ synced \in Titles /\ catalog \in [Recipes -> Titles]
  /\ \A r \in Recipes :
       /\ catalog[r].of \in {None, r} /\ idb[r].title.of \in {None, r}
       /\ stores[r] # 0 => heap[stores[r]].of = r

(* An edit made here is in IndexedDB, or waits to be written from the      *)
(* store the manager knows.                                                *)
LocalEditsKept ==
  \A r \in Recipes : \A e \in mine[r] :
    \/ e \in idb[r].text
    \/ stores[r] # 0 /\ heap[stores[r]].queued /\ e \in heap[stores[r]].doc.text

(* The entry of the recipe shown has the title of its document.            *)
CatalogFollows ==
  navs = {} /\ titleTyped = 0 /\ detail # NoView /\ catalog[detail.of] # NoTitle
    => catalog[detail.of] = heap[detail.obj].doc.title

(* ui/recipes.ts: "Recipe doc is source of truth; catalog is a derived     *)
(* cache": an entry never has another recipe's title.                      *)
CatalogIsDerived == \A r \in Recipes : catalog[r].of \in {None, r}
=============================================================================
