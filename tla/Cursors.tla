------------------------------- MODULE Cursors --------------------------------
(***************************************************************************)
(* Whose cursor is shown where: a user moves through their recipes, and    *)
(* another one watches (views/detail/presence.ts, lib/sync-client.ts,      *)
(* ui/recipes.ts, connect.ts).  Positions are TextBridge's.                *)
(***************************************************************************)
EXTENDS Naturals, Sequences

CONSTANTS
  Pages,      \* recipes
  MaxMoves,   \* bound: what the user does
  MaxMail     \* bound: messages on their way

ASSUME CursorsAssumption == MaxMoves \in Nat /\ MaxMail \in Nat \ {0}

VARIABLES
  at,         \* the user: the selected recipe and the recipe of the page, or "none"
  focus,      \* the field that has the focus
  staged,     \* docPresence: the field that rides with the next push of a recipe
  fallback,   \* presenceFallbackTimer: the field it will send
  mail,       \* presence on its way to the other user
  watcher,    \* the other user: selected recipe, recipe of the page
  shown,      \* instrCursors, notesCursors: the fields where the cursor is
  fading,     \* cursorFadeTimer
  moves

cursorVars == <<at, focus, staged, fallback, mail, watcher, shown, fading, moves>>

Fields == {"instructions", "notes"}

CursorsInit ==
  /\ at = [sel |-> "none", page |-> "none"] /\ watcher = at
  /\ focus = "none" /\ staged = [r \in Pages |-> "none"] /\ fallback = "none"
  /\ mail = <<>> /\ shown = {} /\ fading = FALSE /\ moves = 0

Move == moves < MaxMoves /\ moves' = moves + 1

(* onSendPresence goes by the selected recipe; sendPresence, to the server *)
(* and on to the others that have the recipe (handlePresence).             *)
Announced(sel, says) ==
  IF sel = "none" THEN mail ELSE mail \o [i \in DOMAIN says |-> [says[i] EXCEPT !.of = sel]]

Says(field, active) == <<[of |-> "none", field |-> field, active |-> active]>>

(* focus and blur: sendPresenceNow                                         *)
Focus(f) ==
  /\ at.page # "none" /\ at.sel = at.page /\ focus # f /\ Move /\ Len(mail) + 2 <= MaxMail
  /\ mail' = Announced(at.sel, (IF focus = "none" THEN <<>> ELSE Says(focus, FALSE))
                          \o (IF f = "none" THEN <<>> ELSE Says(f, TRUE)))
  /\ focus' = f /\ fallback' = "none"
  /\ UNCHANGED <<at, staged, watcher, shown, fading>>

(* The cursor moves, or text is typed, whose push takes it along           *)
(* (queuePresence, and the timer's being cleared for a change of text).    *)
MoveCursor(typing) ==
  /\ focus # "none" /\ Move
  /\ staged' = IF at.sel = "none" THEN staged ELSE [staged EXCEPT ![at.sel] = focus]
  /\ fallback' = IF typing THEN "none" ELSE focus
  /\ UNCHANGED <<at, focus, mail, watcher, shown, fading>>

FallbackFires ==
  /\ fallback # "none" /\ fallback' = "none" /\ Len(mail) < MaxMail
  /\ mail' = Announced(at.sel, Says(fallback, TRUE))
  /\ UNCHANGED <<at, focus, staged, watcher, shown, fading, moves>>

(* A push of any recipe, open or not, takes along what is staged for it.   *)
Push(r) ==
  /\ staged[r] # "none" /\ Len(mail) < MaxMail
  /\ mail' = Announced(r, Says(staged[r], TRUE)) /\ staged' = [staged EXCEPT ![r] = "none"]
  /\ UNCHANGED <<at, focus, fallback, watcher, shown, fading, moves>>

(* selectRecipe and deselectRecipe: the selection changes first.           *)
SelectPage(r) ==
  /\ at.sel # r /\ Move
  /\ at' = [at EXCEPT !.sel = r]
  /\ UNCHANGED <<focus, staged, fallback, mail, watcher, shown, fading>>

(* closeRecipe of the old page: its blurs go by the new selection.         *)
OpenPage ==
  /\ at.page # at.sel /\ Len(mail) + 2 <= MaxMail
  /\ at' = [at EXCEPT !.page = at.sel]
  /\ mail' = Announced(at.sel, Says("instructions", FALSE) \o Says("notes", FALSE))
  /\ focus' = "none" /\ fallback' = "none"
  /\ UNCHANGED <<staged, watcher, shown, fading, moves>>

-----------------------------------------------------------------------------
(* The other user.                                                         *)

(* Variant: notes do not start the timer.                                  *)
HandlePresence_NoTimer(m) ==
  IF ~m.active THEN shown' = shown \ {m.field} /\ UNCHANGED fading
  ELSE shown' = {m.field} /\ fading' = (fading \/ m.field = "instructions")

HandlePresence(m) ==
  IF ~m.active THEN shown' = shown \ {m.field} /\ UNCHANGED fading
  ELSE shown' = {m.field} /\ fading' = TRUE

(* onPresence: only what is about the selected recipe, in whatever page    *)
(* there is editors of.                                                    *)
Deliver ==
  /\ mail # <<>> /\ mail' = Tail(mail)
  /\ IF Head(mail).of = watcher.sel /\ watcher.page # "none" THEN HandlePresence(Head(mail))
     ELSE UNCHANGED <<shown, fading>>
  /\ UNCHANGED <<at, focus, staged, fallback, watcher, moves>>

(* The interval, 10 s after the cursor was last heard of: the timer stops  *)
(* when no cursor is left.                                                 *)
Fade ==
  /\ fading
  /\ \E left \in SUBSET shown : (left # shown \/ shown = {}) /\ shown' = left /\ fading' = (left # {})
  /\ UNCHANGED <<at, focus, staged, fallback, mail, watcher, moves>>

WatcherSelects(r) ==
  /\ watcher.sel # r /\ watcher' = [watcher EXCEPT !.sel = r]
  /\ UNCHANGED <<at, focus, staged, fallback, mail, shown, fading, moves>>

(* openRecipe and closeRecipe: clearCursorState                            *)
WatcherOpens ==
  /\ watcher.page # watcher.sel /\ watcher' = [watcher EXCEPT !.page = watcher.sel]
  /\ shown' = {} /\ fading' = FALSE
  /\ UNCHANGED <<at, focus, staged, fallback, mail, moves>>

CursorsNext ==
  \/ \E f \in Fields \cup {"none"} : Focus(f)
  \/ \E typing \in BOOLEAN : MoveCursor(typing)
  \/ FallbackFires \/ OpenPage \/ Deliver \/ Fade \/ WatcherOpens
  \/ \E r \in Pages : Push(r)
  \/ \E r \in Pages \cup {"none"} : SelectPage(r) \/ WatcherSelects(r)

CursorsSpec ==
  /\ CursorsInit /\ [][CursorsNext]_cursorVars
  /\ WF_cursorVars(Fade) /\ WF_cursorVars(Deliver)

-----------------------------------------------------------------------------
CursorsTypeOK ==
  /\ at \in [sel : Pages \cup {"none"}, page : Pages \cup {"none"}]
  /\ watcher \in [sel : Pages \cup {"none"}, page : Pages \cup {"none"}]
  /\ focus \in Fields \cup {"none"} /\ fallback \in Fields \cup {"none"}
  /\ staged \in [Pages -> Fields \cup {"none"}]
  /\ shown \subseteq Fields /\ fading \in BOOLEAN /\ Len(mail) <= MaxMail

(* The cursor of a user who has gone disappears, though no blur reaches    *)
(* those who look at the recipe they left (ui/recipes.ts:115-116).         *)
GhostsFade == (shown # {} /\ at.sel # watcher.sel) ~> (shown = {} \/ at.sel = watcher.sel)
=============================================================================
