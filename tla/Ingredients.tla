----------------------------- MODULE Ingredients ------------------------------
(***************************************************************************)
(* The ingredient list of an open recipe (views/recipe-detail.ts,          *)
(* views/detail/ingredients.ts): rows known by their position, ticks,      *)
(* units chosen for a row, dragging, renaming, the row to add, servings.   *)
(*                                                                         *)
(* A row is the identity of its ingredient, which the code does not have,  *)
(* and its name.  The text's references name ingredients.                  *)
(***************************************************************************)
EXTENDS Naturals, Sequences, SequencesExt

CONSTANTS
  Ids,          \* ingredients there will be
  Names,        \* what they may be called
  MaxActs,      \* bound: changes of the list, here or elsewhere
  MaxServings   \* bound: servings a page is scaled to

ASSUME IngredientsAssumption == Ids \subseteq Nat /\ MaxActs \in Nat /\ MaxServings \in Nat \ {0}

VARIABLES
  rows,       \* the list: [id, name]; name "" is a name cleared
  refs,       \* @[name] in the text; of is what it meant when written
  editing,    \* isPageEditing
  checked,    \* checkedIngredients: positions
  units,      \* unitOverrides: positions
  system,     \* unitSystem is not "original"
  drag,       \* dragIdx and dropIdx, or NoDrag
  ghost,      \* a name is typed in the row to add
  servings,   \* of the document; base and current of the page
  strange,    \* history: "remote" changes of the order, "mixed" or "cleared" names
  acts

ingredientVars ==
  <<rows, refs, editing, checked, units, system, drag, ghost, servings, strange, acts>>

NoDrag == [from |-> 0, to |-> 0]

IngredientsInit ==
  /\ rows = <<>> /\ refs = {} /\ editing = TRUE /\ checked = {} /\ units = {} /\ system = FALSE
  /\ drag = NoDrag /\ ghost = FALSE
  /\ servings = [doc |-> 2, base |-> 2, current |-> 2]
  /\ strange = {} /\ acts = 0

Act == acts < MaxActs /\ acts' = acts + 1

Unused == Ids \ ({rows[i].id : i \in DOMAIN rows} \cup {r.of : r \in refs})

(* Every change has the list rendered again, with an empty row to add.     *)
Rendered(s) ==
  /\ rows' = s /\ ghost' = FALSE
  /\ strange' = strange \cup (IF \E i, j \in DOMAIN s : i # j /\ s[i].name = s[j].name THEN {"mixed"} ELSE {})
                \cup (IF \E i \in DOMAIN s : s[i].name = "" THEN {"cleared"} ELSE {})

page == <<editing, checked, units, system, servings>>

-----------------------------------------------------------------------------
(* Editing.                                                                *)

Delete(i) ==
  /\ editing /\ i \in DOMAIN rows /\ Act
  /\ Rendered(RemoveAt(rows, i))
  /\ UNCHANGED <<refs, drag, page>>

(* Variant: only the row is renamed.                                       *)
Rename_RowOnly(i, name) ==
  /\ editing /\ i \in DOMAIN rows /\ rows[i].name # name /\ Act
  /\ Rendered([rows EXCEPT ![i].name = name])
  /\ UNCHANGED <<refs, drag, page>>

(* Each keystroke in a name renames the references to the name before, of  *)
(* whatever ingredient, unless either is empty.                            *)
Rename(i, name) ==
  /\ editing /\ i \in DOMAIN rows /\ rows[i].name # name /\ Act
  /\ Rendered([rows EXCEPT ![i].name = name])
  /\ refs' = IF "" \in {name, rows[i].name} THEN refs
             ELSE {IF r.name = rows[i].name THEN [r EXCEPT !.name = name] ELSE r : r \in refs}
  /\ UNCHANGED <<drag, page>>

(* The amount, the unit (abbreviated on blur) or "optional" of a row.      *)
EditOther ==
  /\ editing /\ rows # <<>> /\ Rendered(rows)
  /\ UNCHANGED <<refs, drag, acts, page>>

(* A reference is written into the text.                                   *)
Refer(i) ==
  /\ editing /\ i \in DOMAIN rows /\ rows[i].name # "" /\ Act
  /\ refs' = refs \cup {[of |-> rows[i].id, name |-> rows[i].name]}
  /\ UNCHANGED <<rows, drag, ghost, strange, page>>

TypeGhost ==
  /\ editing /\ ~ghost /\ ghost' = TRUE
  /\ UNCHANGED <<rows, refs, drag, strange, acts, page>>

(* commitGhostRow: on Enter, and 50 ms after the row has lost the focus.   *)
CommitGhost(id, name) ==
  /\ editing /\ ghost /\ id \in Unused /\ Act
  /\ rows' = Append(rows, [id |-> id, name |-> name]) /\ ghost' = FALSE
  /\ strange' = IF \E i \in DOMAIN rows : rows[i].name = name THEN strange \cup {"mixed"} ELSE strange
  /\ UNCHANGED <<refs, drag, page>>

(* pointerdown and pointermove: the positions the drag starts and ends at. *)
Drag(from, to) ==
  /\ editing /\ drag = NoDrag /\ from \in DOMAIN rows /\ to \in 1..(Len(rows) + 1) \ {from}
  /\ drag' = [from |-> from, to |-> to]
  /\ UNCHANGED <<rows, refs, ghost, strange, acts, page>>

(* pointerup: taking the row out moves the place it goes to.  The copy has *)
(* no "optional".                                                          *)
Drop ==
  /\ drag # NoDrag /\ drag' = NoDrag
  /\ LET to == IF drag.to > drag.from THEN drag.to - 1 ELSE drag.to
     IN  IF to = drag.from \/ drag.from > Len(rows) THEN UNCHANGED <<rows, ghost>>
         ELSE LET rest == RemoveAt(rows, drag.from)
                  at == IF to <= Len(rest) THEN to ELSE Len(rest) + 1
              IN  rows' = InsertAt(rest, at, rows[drag.from]) /\ ghost' = FALSE
  /\ UNCHANGED <<refs, strange, acts, page>>

(* pointercancel                                                           *)
Cancel ==
  /\ drag # NoDrag /\ drag' = NoDrag
  /\ UNCHANGED <<rows, refs, ghost, strange, acts, page>>

-----------------------------------------------------------------------------
(* Viewing.                                                                *)

Toggled(set, i) == IF i \in set THEN set \ {i} ELSE set \cup {i}

Check(i) ==
  /\ ~editing /\ i \in DOMAIN rows
  /\ checked' = Toggled(checked, i)
  /\ UNCHANGED <<rows, refs, editing, units, system, drag, ghost, servings, strange, acts>>

(* showUnitPicker                                                          *)
PickUnit(i) ==
  /\ ~editing /\ i \in DOMAIN rows
  /\ units' = Toggled(units, i)
  /\ UNCHANGED <<rows, refs, editing, checked, system, drag, ghost, servings, strange, acts>>

(* cycleUnitSystem; "metric" and "imperial" are one here.                  *)
CycleUnits ==
  /\ ~editing /\ system' \in BOOLEAN /\ units' = {}
  /\ UNCHANGED <<rows, refs, editing, checked, drag, ghost, servings, strange, acts>>

Scales(cs) ==
  {cs + 1, cs * 2, cs * 3, cs * 4} \cup (IF cs > 1 THEN {cs - 1, (cs + 1) \div 2} ELSE {})

Scale(cs) ==
  /\ ~editing /\ cs \in Scales(servings.current) /\ cs <= MaxServings
  /\ servings' = [servings EXCEPT !.current = cs]
  /\ UNCHANGED <<rows, refs, editing, checked, units, system, drag, ghost, strange, acts>>

Reset ==
  /\ ~editing
  /\ servings' = [servings EXCEPT !.current = servings.base]
  /\ checked' = {} /\ units' = {} /\ system' = FALSE
  /\ UNCHANGED <<rows, refs, editing, drag, ghost, strange, acts>>

(* setPageEditing: ticks go when editing starts; the units chosen for a    *)
(* row do not.                                                             *)
SetEditing ==
  /\ drag = NoDrag /\ editing' = ~editing
  /\ IF editing THEN UNCHANGED <<servings, checked>>
     ELSE /\ servings' = [servings EXCEPT !.current = servings.base]
          /\ checked' = {}
  /\ ghost' = FALSE
  /\ UNCHANGED <<rows, refs, units, system, drag, strange, acts>>

-----------------------------------------------------------------------------
(* The document changes elsewhere.                                         *)

(* onChange: the scale is kept, but for rounding and at least one serving. *)
Based(s, n) ==
  LET scaled == (2 * n * s.current + s.base) \div (2 * s.base)
  IN  [doc |-> n, base |-> n,
       current |-> IF s.current = s.base THEN n ELSE IF scaled = 0 THEN 1 ELSE scaled]

ServingsChange(n) ==
  /\ n # servings.doc /\ Act
  /\ servings' = Based(servings, n)
  /\ Rendered(rows)
  /\ UNCHANGED <<refs, editing, checked, units, system, drag>>

(* Rows come and go elsewhere: positions held here mean other rows.        *)
RemoteRows(s) ==
  /\ s # rows /\ Act
  /\ rows' = s /\ ghost' = FALSE
  /\ strange' = strange \cup {"remote"}
                \cup (IF \E i, j \in DOMAIN s : i # j /\ s[i].name = s[j].name THEN {"mixed"} ELSE {})
  /\ UNCHANGED <<refs, drag, page>>

Elsewhere ==
  {RemoveAt(rows, i) : i \in DOMAIN rows}
    \cup {<<r>> \o rows : r \in [id : Unused, name : Names]}

IngredientsNext ==
  \/ \E i \in DOMAIN rows : Delete(i) \/ Refer(i) \/ Check(i) \/ PickUnit(i)
                            \/ \E n \in Names \cup {""} : Rename(i, n)
                            \/ \E to \in 1..(Len(rows) + 1) : Drag(i, to)
  \/ EditOther \/ TypeGhost \/ Drop \/ Cancel \/ CycleUnits \/ Reset \/ SetEditing
  \/ \E id \in Ids, n \in Names : CommitGhost(id, n)
  \/ \E cs \in 1..MaxServings : Scale(cs)
  \/ \E n \in {2, 3} : ServingsChange(n)
  \/ \E s \in Elsewhere : RemoteRows(s)

IngredientsSpec == IngredientsInit /\ [][IngredientsNext]_ingredientVars

-----------------------------------------------------------------------------
IngredientsTypeOK ==
  /\ \A i \in DOMAIN rows : rows[i].id \in Ids /\ rows[i].name \in Names \cup {""}
  /\ \A i, j \in DOMAIN rows : rows[i].id = rows[j].id => i = j
  /\ drag = NoDrag \/ editing
  /\ strange \subseteq {"remote", "mixed", "cleared"}

(* A reference follows the name of its ingredient, as long as none is      *)
(* cleared before it is typed anew and no two have had the same.           *)
RefsFollow ==
  {"remote", "mixed", "cleared"} \cap strange = {} =>
    \A r \in refs, i \in DOMAIN rows : rows[i].id = r.of /\ rows[i].name # "" => r.name = rows[i].name
=============================================================================
