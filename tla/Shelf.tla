--------------------------------- MODULE Shelf ---------------------------------
(***************************************************************************)
(* The books of the browser: the list of books and the active one          *)
(* (ui/books.ts), the search index over their recipes (lib/search.ts), and *)
(* the messages that change them (connect.ts).                             *)
(*                                                                         *)
(* Each vault holds one recipe, so the index is a set of vaults and a      *)
(* recipe is named by its vault; scoring and ranking are left out.  A book *)
(* is an object: obj tells two objects of one vault apart.  An action is   *)
(* the code between two awaits.                                            *)
(***************************************************************************)
EXTENDS Naturals, FiniteSets

CONSTANTS
  Vaults, Created,   \* Created: vaults this user may create
  MaxLists           \* bound: vault lists received

ASSUME ShelfAssumption == Created \subseteq Vaults /\ MaxLists \in Nat

VARIABLES
  index,            \* vaults whose recipe is indexed
  books, active,    \* the list of books, the active one
  filled,           \* vaults whose catalog has had a recipe
  fresh,            \* vault ids not used yet
  server, pending,  \* vaults of this user on the server; pending vaults in IndexedDB
  lists,            \* onVaultList calls under way
  creating,         \* createBook calls under way
  removals,         \* onVaultRemoved calls under way
  down,             \* vaults whose removal the server has told and the page not yet read
  listed            \* vault lists received

shelfVars == <<index, books, active, server, pending, lists, creating, removals, down, listed, filled, fresh>>

NoBook == [vault |-> "none", obj |-> 0]
BookOf(v, B) == CHOOSE b \in B : b.vault = v
Has(v, B) == \E b \in B : b.vault = v

ShelfInit ==
  /\ server = Vaults \ Created
  /\ books = {[vault |-> v, obj |-> 0] : v \in server}
  /\ index = server /\ active = NoBook /\ filled = server /\ fresh = Created
  /\ pending = {} /\ lists = {} /\ creating = {} /\ removals = {} /\ down = {} /\ listed = 0

-----------------------------------------------------------------------------
(* Books.                                                                  *)

(* switchBook: the active book afterwards; unchanged when v is not listed. *)
Switched(v, B) == IF Has(v, B) THEN BookOf(v, B) ELSE active

SwitchBook(v) ==
  /\ Has(v, books) /\ active' = Switched(v, books)
  /\ UNCHANGED <<index, books, server, pending, lists, creating, removals, down, listed, filled, fresh>>

(* A recipe found by a search, of whatever book it was indexed for: its    *)
(* book is switched to first, when it is listed.                           *)
PickFound(v) ==
  /\ v \in index /\ v # active.vault /\ active' = Switched(v, books)
  /\ UNCHANGED <<index, books, server, pending, lists, creating, removals, down, listed, filled, fresh>>

(* After a book is gone: the active one if it remains, else one of the     *)
(* others is switched to, or the book list is shown.                       *)
Without(v, wasActive) ==
  LET rest == {b \in books : b.vault # v}
  IN  /\ books' = rest
      /\ IF wasActive
         THEN \/ rest = {} /\ active' = NoBook
              \/ \E b \in rest : active' = b
         ELSE UNCHANGED active

(* Delete, of one book or of several: nothing waits for the server.        *)
DeleteBook(v) ==
  /\ Has(v, books) /\ server' = server \ {v} /\ index' = index \ {v}
  /\ Without(v, active.vault = v)
  /\ UNCHANGED <<pending, lists, creating, removals, down, listed, filled, fresh>>

(* createBook up to the list of books, which is pushed to in place.        *)
CreateBook(v) ==
  /\ v \in fresh /\ fresh' = fresh \ {v}
  /\ pending' = pending \cup {v} /\ creating' = creating \cup {v}
  /\ books' = books \cup {[vault |-> v, obj |-> 0]}
  /\ UNCHANGED <<index, active, server, lists, removals, down, listed, filled>>

(* Its catalog is open: the change listener, and the switch to the book.   *)
BookCreated(v) ==
  /\ v \in creating /\ creating' = creating \ {v}
  /\ active' = Switched(v, books)
  /\ UNCHANGED <<index, books, server, pending, lists, removals, down, listed, filled, fresh>>

(* rebuildBookIndex, when a recipe is added to a catalog.                  *)
RebuildBookIndex(v) ==
  /\ Has(v, books) /\ index' = index \cup {v} /\ filled' = filled \cup {v}
  /\ UNCHANGED <<books, active, server, pending, lists, creating, removals, down, listed, fresh>>

-----------------------------------------------------------------------------
(* Messages of the server.                                                 *)

VaultCreated(v) ==
  /\ v \in pending /\ server' = server \cup {v} /\ pending' = pending \ {v}
  /\ UNCHANGED <<index, books, active, lists, creating, removals, down, listed, filled, fresh>>

(* Another device or member removes this user, or deletes the vault.       *)
RemoveVault(v) ==
  /\ v \in server /\ server' = server \ {v} /\ down' = down \cup {v}
  /\ UNCHANGED <<index, books, active, pending, lists, creating, removals, listed, filled, fresh>>

OnVaultDeleted(v) ==
  /\ v \in down /\ down' = down \ {v} /\ index' = index \ {v}
  /\ Without(v, active.vault = v)
  /\ UNCHANGED <<server, pending, lists, creating, removals, listed, filled, fresh>>

(* onVaultRemoved up to the closing of its documents ...                   *)
OnVaultRemoved(v) ==
  /\ v \in down /\ down' = down \ {v} /\ index' = index \ {v}
  /\ removals' = removals \cup {[vault |-> v, wasActive |-> active.vault = v]}
  /\ UNCHANGED <<books, active, server, pending, lists, creating, listed, filled, fresh>>

(* Variant: an active book that is not listed any more stays.              *)
BooksChange_KeepActive(B, old) == IF old = NoBook \/ ~Has(old.vault, B) THEN old ELSE BookOf(old.vault, B)

(* The books-change event: the active book is looked up again.             *)
BooksChange(B, old) == IF old # NoBook /\ Has(old.vault, B) THEN BookOf(old.vault, B) ELSE NoBook

(* ... and from there to the event, which looks at the active book again.  *)
RemovedDone(r) ==
  LET rest == {b \in books : b.vault # r.vault}
  IN  /\ r \in removals /\ removals' = removals \ {r}
      /\ books' = rest
      /\ IF r.wasActive
         THEN \/ rest = {} /\ active' = NoBook
              \/ \E b \in rest : active' = b
         ELSE active' = BooksChange(rest, active)
      /\ UNCHANGED <<index, server, pending, lists, creating, down, listed, filled, fresh>>

(* onVaultList clears the index and decrypts the keys ...                  *)
OnVaultList ==
  /\ listed < MaxLists /\ listed' = listed + 1
  /\ index' = {}
  /\ lists' = lists \cup {[no |-> listed', vaults |-> server, stage |-> "keys", left |-> {}]}
  /\ UNCHANGED <<books, active, server, pending, creating, removals, down, filled, fresh>>

Advance(l, stage, left) == lists' = (lists \ {l}) \cup {[l EXCEPT !.stage = stage, !.left = left]}

(* ... reads the pending vaults ...                                        *)
ListPending(l) ==
  /\ l \in lists /\ l.stage = "keys" /\ Advance(l, "pending", pending)
  /\ UNCHANGED <<index, books, active, server, pending, creating, removals, down, listed, filled, fresh>>

(* ... replaces the books, keeping those that are pending ...              *)
ListApply(l) ==
  /\ l \in lists /\ l.stage = "pending"
  /\ books' = {[vault |-> v, obj |-> l.no] : v \in l.vaults}
              \cup {b \in books : b.vault \in l.left \ l.vaults}
  /\ index' = index \ {b.vault : b \in {c \in books : ~Has(c.vault, books')}}
  /\ Advance(l, "catalogs", {b.vault : b \in books'})
  /\ UNCHANGED <<active, server, pending, creating, removals, down, listed, filled, fresh>>

(* ... opens and indexes the catalogs one by one ...                       *)
ListCatalog(l, v) ==
  /\ l \in lists /\ l.stage = "catalogs" /\ v \in l.left
  /\ index' = index \cup (filled \cap {v}) /\ Advance(l, "catalogs", l.left \ {v})
  /\ UNCHANGED <<books, active, server, pending, creating, removals, down, listed, filled, fresh>>

(* ... and tells that the books have changed.  The event carries the books *)
(* of this list, but its handler reads the current ones.                   *)
ListDone(l) ==
  /\ l \in lists /\ l.stage = "catalogs" /\ l.left = {} /\ lists' = lists \ {l}
  /\ active' = BooksChange(books, active)
  /\ UNCHANGED <<index, books, server, pending, creating, removals, down, listed, filled, fresh>>

ShelfNext ==
  \/ OnVaultList
  \/ \E v \in Vaults : \/ SwitchBook(v) \/ PickFound(v) \/ DeleteBook(v) \/ CreateBook(v) \/ BookCreated(v)
                       \/ RebuildBookIndex(v) \/ VaultCreated(v) \/ RemoveVault(v)
                       \/ OnVaultDeleted(v) \/ OnVaultRemoved(v)
  \/ \E r \in removals : RemovedDone(r)
  \/ \E l \in lists : ListPending(l) \/ ListApply(l) \/ ListDone(l) \/ \E v \in Vaults : ListCatalog(l, v)

ShelfSpec == ShelfInit /\ [][ShelfNext]_shelfVars

-----------------------------------------------------------------------------
ShelfTypeOK ==
  /\ index \subseteq Vaults /\ \A b, c \in books : b.vault = c.vault => b = c
  /\ active = NoBook \/ active.vault \in Vaults

(* Once every message has been worked off, the active book is one of the   *)
(* list, the very object that the list holds (with its key, name and       *)
(* role), not one that a later list has replaced or a removal has dropped; *)
(* and every recipe of a listed book can be found, although each vault     *)
(* list empties the index first and fills it again across awaits.          *)
BooksSettle ==
  lists = {} /\ removals = {} =>
    /\ active = NoBook \/ active \in books
    /\ {b.vault : b \in books} \cap filled \subseteq index
=============================================================================
