------------------------------ MODULE TextBridge ------------------------------
(***************************************************************************)
(* The editor of a recipe's text: the bridge between the editor's view and *)
(* the document (lib/codemirror-automerge.ts, views/recipe-detail.ts), and *)
(* the cursor of another user in it (lib/remote-cursors.ts).               *)
(*                                                                         *)
(* Positions are offsets, 0 before the first character.  The text is one   *)
(* value of the document: a merge leaves one of the texts, never a mixture.*)
(***************************************************************************)
EXTENDS Naturals, Sequences, SequencesExt

CONSTANTS
  Chars,
  MaxLen,     \* bound: the length of a text
  MaxRanges   \* ranges one edit of the user changes: 1, or more for "indent" and "move line"

ASSUME TextBridgeAssumption == MaxLen \in Nat /\ MaxRanges \in Nat \ {0}

VARIABLES
  note,          \* the text in the document
  editor,        \* the text in the editor
  editorShown,   \* the page shows the editor
  cursor,        \* where the other user is
  change         \* lastRemoteChangeSet

bridgeVars == <<note, editor, editorShown, cursor, change>>

Contents == BoundedSeq(Chars, MaxLen)

NoChange == [from |-> 0, to |-> 0, ins |-> <<>>, len |-> 0]

BridgeInit ==
  /\ note = <<>> /\ editor = <<>> /\ editorShown = FALSE
  /\ cursor = 0 /\ change = NoChange

AtMost(a, b) == IF a <= b THEN a ELSE b

(* spliceText                                                              *)
Splice(t, c) ==
  SubSeq(t, 1, AtMost(c.from, Len(t))) \o c.ins \o SubSeq(t, c.to + 1, Len(t))

(* Variant: the suffixes may overlap the prefix of the new text.           *)
Diff_Overlap(old, new) ==
  LET p == Len(LongestCommonPrefix({old, new}))
      s == Len(LongestCommonPrefix({Reverse(old), Reverse(new)}))
      common == AtMost(s, Len(old) - p)
  IN  [from |-> p, to |-> Len(old) - common, ins |-> SubSeq(new, p + 1, Len(new) - common), len |-> Len(old)]

(* diffToChanges: what is left between the common prefix and suffix.       *)
Diff(old, new) ==
  LET p == Len(LongestCommonPrefix({old, new}))
      s == Len(LongestCommonPrefix({Reverse(old), Reverse(new)}))
      common == AtMost(s, AtMost(Len(old), Len(new)) - p)
  IN  [from |-> p, to |-> Len(old) - common, ins |-> SubSeq(new, p + 1, Len(new) - common), len |-> Len(old)]

(* mapPosition, with the bias forward of the editor's mapPos.              *)
MapPosition(c, pos, len) ==
  IF c = NoChange THEN pos
  ELSE IF pos > c.len THEN AtMost(pos, len)
  ELSE IF pos >= c.to THEN (pos - c.to) + c.from + Len(c.ins)
  ELSE IF pos <= c.from THEN pos
  ELSE c.from + Len(c.ins)

(* onChange of the store: applyRemoteText, then the cursors, which are cut *)
(* to the new length before they are mapped.                               *)
Notified(s) ==
  LET c == IF s.view = s.note THEN NoChange ELSE Diff(s.view, s.note)
      v == IF c = NoChange THEN s.view ELSE Splice(s.view, c)
  IN  [s EXCEPT !.view = v, !.change = c, !.cursor = MapPosition(c, AtMost(@, Len(v)), Len(v))]

Bridge == [note |-> note, view |-> editor, cursor |-> cursor, change |-> change]

Becomes(s) ==
  note' = s.note /\ editor' = s.view /\ cursor' = s.cursor /\ change' = s.change

(* The ranges of one edit, in order, at positions of the text before it.   *)
Edits(t) ==
  LET ranges == {[from |-> a, to |-> b, ins |-> i] : a \in 0..Len(t), b \in 0..Len(t), i \in BoundedSeq(Chars, 1)}
      proper == {r \in ranges : r.from <= r.to /\ (r.from = r.to => r.ins # <<>>)}
  IN  {e \in BoundedSeq(proper, MaxRanges) :
         e # <<>> /\ \A i \in 1..(Len(e) - 1) : e[i].to < e[i + 1].from}

(* The text with all of its ranges changed.                                *)
Edited(t, edit) ==
  LET n == Len(edit)
      text[i \in 0..n] == IF i = 0 THEN t ELSE Splice(text[i - 1], edit[n + 1 - i])
  IN  text[n]

(* The listener splices range after range, and the store tells the page of *)
(* each before the next.                                                   *)
Handled(s, edit) ==
  LET told[i \in 0..Len(edit)] ==
        IF i = 0 THEN s ELSE Notified([told[i - 1] EXCEPT !.note = Splice(@, edit[i])])
  IN  told[Len(edit)]

(* An edit of the user.                                                    *)
TypeInEditor(edit) ==
  /\ editorShown /\ Len(Edited(editor, edit)) <= MaxLen
  /\ Becomes(Handled([Bridge EXCEPT !.view = Edited(editor, edit)], edit))
  /\ Len(note') <= MaxLen
  /\ UNCHANGED editorShown

(* A merge has changed the text.                                           *)
Merged(t) ==
  /\ t # note
  /\ IF editorShown THEN Becomes(Notified([Bridge EXCEPT !.note = t]))
     ELSE note' = t /\ UNCHANGED <<editor, cursor, change>>
  /\ UNCHANGED editorShown

(* Where the other user says they are, by their own text (handlePresence). *)
Presence(pos) ==
  /\ cursor' = MapPosition(change, AtMost(pos, Len(editor)), Len(editor))
  /\ UNCHANGED <<note, editor, editorShown, change>>

(* setPageEditing                                                          *)
SetEditorEditing ==
  /\ editorShown' = ~editorShown
  /\ IF editorShown \/ editor = note
       THEN UNCHANGED editor /\ change' = (IF editorShown THEN change ELSE NoChange)
       ELSE change' = Diff(editor, note) /\ editor' = Splice(editor, change')
  /\ UNCHANGED <<note, cursor>>

BridgeNext ==
  \/ SetEditorEditing
  \/ \E e \in Edits(editor) : TypeInEditor(e)
  \/ \E t \in Contents : Merged(t)
  \/ \E pos \in 0..MaxLen : Presence(pos)

BridgeSpec == BridgeInit /\ [][BridgeNext]_bridgeVars

-----------------------------------------------------------------------------
BridgeTypeOK ==
  /\ note \in Contents /\ editor \in Contents /\ editorShown \in BOOLEAN
  /\ cursor \in 0..(2 * MaxLen)

(* The editor shows the document's text: codemirror-automerge.ts rebuilds  *)
(* it from a prefix, a suffix and what is between.                         *)
ViewIsText == editorShown => editor = note
=============================================================================
