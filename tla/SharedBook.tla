------------------------------ MODULE SharedBook ------------------------------
(***************************************************************************)
(* A shared book: its members and their vault keys on the server           *)
(* (client.go), the book and the key in each member's browser (connect.ts, *)
(* ui/share.ts, sync/vault-helpers.ts), and the book's catalog, encrypted  *)
(* under the key its writer has (lib/sync-client.ts).                      *)
(*                                                                         *)
(* Every user has one browser, always connected.  A request is handled     *)
(* when it is sent; what the server sends waits in order.  A key is its    *)
(* number, a document the set of its edits.  Only the newest snapshot is   *)
(* kept, the compaction of handlePush.  What the push queue does to send   *)
(* an edit is in PushQueue, what the membership handlers do concurrently   *)
(* in VaultMembership.                                                     *)
(***************************************************************************)
EXTENDS Integers, Sequences

CONSTANTS
  Users, Owner, Editor,
  NoRole,
  MaxBookKeys,   \* bound: keys the book ever has, the first included
  MaxEdits,      \* bound
  MaxMail,       \* bound: messages waiting before a user acts again
  MaxLists       \* bound: vault lists asked for other reasons than this book's keys

ASSUME SharedBookAssumption ==
  /\ Owner \in Users /\ Editor \in Users /\ Owner # Editor
  /\ NoRole \notin {"owner", "editor", "viewer"}
  /\ MaxBookKeys \in Nat \ {0} /\ {MaxEdits, MaxMail, MaxLists} \subseteq Nat

VARIABLES
  role, vkey,   \* vault_members: role and the key encrypted for the member
  newest,       \* the snapshot kept
  mail,         \* messages on their way to each browser, in order
  book,         \* Book.encKey in the browser's list of books; 0: no such book
  dialog,       \* the Book object the share dialog holds: none, live, or an old one's key
  listing,      \* onVaultList past its first await: the key it has decrypted
  rotating,     \* rotateVaultKey waiting for the members: the new key, or 0
  doc, lastSeq, dirty,
  keys, edits, lists,
  had,          \* history: the keys each user ever had
  removedAt,    \* history: the keys made before the user was removed, or 0
  missed,       \* history: the snapshots a browser could not decrypt
  refused       \* history: whose rotation was refused

bookVars == <<role, vkey, newest, mail, book, dialog, listing, rotating, doc,
              lastSeq, dirty, keys, edits, lists, had, removedAt, missed, refused>>

None == -1
Live == 0
CanWrite(u) == role[u] \in {"owner", "editor"}
Members == {u \in Users : role[u] # NoRole}

SharedBookInit ==
  /\ role = [u \in Users |-> CASE u = Owner -> "owner" [] u = Editor -> "editor"
                               [] OTHER -> NoRole]
  /\ vkey = [u \in Users |-> IF role[u] = NoRole THEN 0 ELSE 1]
  /\ book = vkey /\ newest = [seq |-> 0, key |-> 1, text |-> {}]
  /\ mail = [u \in Users |-> <<>>] /\ dialog = [u \in Users |-> None]
  /\ listing = [u \in Users |-> None] /\ rotating = [u \in Users |-> 0]
  /\ doc = [u \in Users |-> {}] /\ lastSeq = [u \in Users |-> 0] /\ dirty = {}
  /\ keys = 1 /\ edits = 0 /\ lists = 0
  /\ had = [u \in Users |-> {vkey[u]}] /\ removedAt = [u \in Users |-> 0]
  /\ missed = [u \in Users |-> {}] /\ refused = {}

-----------------------------------------------------------------------------
(* The server.                                                             *)

Msg(type, key, seq, text) == [type |-> type, key |-> key, seq |-> seq, text |-> text]
Note(type) == Msg(type, 0, 0, {})
Snapshot(s) == Msg("sync", s.key, s.seq, s.text)

Sent(m, to, msg) == [u \in Users |-> IF u \in to THEN Append(m[u], msg) ELSE m[u]]

(* Variant: the key is read from the book, not from the user's row.        *)
VaultList_OfBook(m, u) == Sent(m, {u}, Msg("vault_list", vkey[Owner], 0, {}))

(* handleListVaults: the key of the user's row.                            *)
VaultList(m, u) == Sent(m, {u}, Msg("vault_list", vkey[u], 0, {}))

(* handleListVaultMembers; the list matters here only to who may rotate.   *)
MemberList(m, u) ==
  IF role[u] = "owner" THEN Sent(m, {u}, Msg("vault_members", 0, 0, Members)) ELSE m

(* Variant: the latest number alone decides what the client is told.       *)
Replay_CaughtUpOnly(m, u) == Sent(m, {u}, Msg("caught_up", 0, newest.seq, {}))

(* handleSubscribe: the snapshot, if it is newer, and then caught_up.      *)
Replay(m, u) ==
  Sent(IF newest.seq > lastSeq[u] THEN Sent(m, {u}, Snapshot(newest)) ELSE m,
       {u}, Msg("caught_up", 0, newest.seq, {}))

(* handleRotateVaultKey: refused unless every member is among those        *)
(* listed; the rows of the members change, and all of them are told.       *)
HandleRotate(u, key, listed) ==
  IF role[u] = "owner" /\ Members \subseteq listed
    THEN /\ vkey' = [v \in Users |-> IF v \in Members THEN key ELSE vkey[v]]
         /\ mail' = Sent([mail EXCEPT ![u] = Tail(@)], Members, Note("vault_key_rotated"))
         /\ UNCHANGED refused
    ELSE /\ refused' = refused \cup {u}
         /\ mail' = [mail EXCEPT ![u] = Tail(@)]
         /\ UNCHANGED vkey

-----------------------------------------------------------------------------
(* What users do.                                                          *)

Free(u) == Len(mail[u]) < MaxMail

(* openShareDialog: it holds the Book object of now.                       *)
OpenDialog(u) ==
  /\ book[u] # 0 /\ CanWrite(u) /\ dialog[u] = None /\ Free(u)
  /\ dialog' = [dialog EXCEPT ![u] = Live]
  /\ mail' = MemberList(mail, u)
  /\ UNCHANGED <<role, vkey, newest, book, listing, rotating, doc, lastSeq, dirty,
                 keys, edits, lists, had, removedAt, missed, refused>>

(* The invite form: the key of the dialog's Book; handleInviteToVault.     *)
Invite(u, v) ==
  LET key == IF dialog[u] = Live THEN book[u] ELSE dialog[u]
  IN  /\ dialog[u] # None /\ key # 0 /\ Free(u) /\ CanWrite(u)
      /\ role[v] = NoRole /\ removedAt[v] = 0
      /\ role' = [role EXCEPT ![v] = "viewer"] /\ vkey' = [vkey EXCEPT ![v] = key]
      /\ mail' = Sent(mail, {v}, Note("vault_invited"))
      /\ UNCHANGED <<newest, book, dialog, listing, rotating, doc, lastSeq, dirty,
                     keys, edits, lists, had, removedAt, missed, refused>>

(* Variant: the member's key is left in the table.                         *)
Remove_RoleOnly(u, v) ==
  /\ dialog[u] # None /\ role[u] = "owner" /\ u # v /\ role[v] # NoRole /\ keys < MaxBookKeys
  /\ role' = [role EXCEPT ![v] = NoRole]
  /\ UNCHANGED <<vkey, newest, mail, book, dialog, listing, rotating, doc, lastSeq, dirty,
                 keys, edits, lists, had, removedAt, missed, refused>>

(* "Remove" and its confirmation; handleRemoveFromVault.                   *)
Remove(u, v) ==
  /\ dialog[u] # None /\ role[u] = "owner" /\ u # v /\ role[v] # NoRole
  /\ Free(u) /\ keys < MaxBookKeys /\ rotating[u] = 0
  /\ \A i \in DOMAIN mail[u] : mail[u][i].type # "vault_member_removed"
  /\ role' = [role EXCEPT ![v] = NoRole] /\ vkey' = [vkey EXCEPT ![v] = 0]
  /\ removedAt' = [removedAt EXCEPT ![v] = keys]
  /\ mail' = Sent(Sent(mail, {u}, Note("vault_member_removed")), {v}, Note("vault_removed"))
  /\ UNCHANGED <<newest, book, dialog, listing, rotating, doc, lastSeq, dirty,
                 keys, edits, lists, had, missed, refused>>

(* An edit of the catalog by someone the page lets edit.                   *)
Edit(u) ==
  /\ book[u] # 0 /\ u \in {Owner, Editor} /\ edits < MaxEdits /\ Free(u)
  /\ edits' = edits + 1
  /\ doc' = [doc EXCEPT ![u] = @ \cup {edits'}] /\ dirty' = dirty \cup {u}
  /\ UNCHANGED <<role, vkey, newest, mail, book, dialog, listing, rotating, lastSeq,
                 keys, lists, had, removedAt, missed, refused>>

(* The push: encrypted under the browser's key, stored, compacted and      *)
(* relayed by handlePush, or refused.                                      *)
Push(u) ==
  /\ u \in dirty /\ book[u] # 0
  /\ dirty' = dirty \ {u}
  /\ IF CanWrite(u)
       THEN /\ newest' = [seq |-> newest.seq + 1, key |-> book[u], text |-> doc[u]]
            /\ mail' = Sent(mail, {v \in Members \ {u} : book[v] # 0}, Snapshot(newest'))
       ELSE UNCHANGED <<newest, mail>>
  /\ UNCHANGED <<role, vkey, book, dialog, listing, rotating, doc, lastSeq,
                 keys, edits, lists, had, removedAt, missed, refused>>

(* A list asked for another reason: a reconnect, another book's event.     *)
AskList(u) ==
  /\ lists < MaxLists /\ Free(u) /\ lists' = lists + 1
  /\ mail' = VaultList(mail, u)
  /\ UNCHANGED <<role, vkey, newest, book, dialog, listing, rotating, doc, lastSeq,
                 dirty, keys, edits, had, removedAt, missed, refused>>

-----------------------------------------------------------------------------
(* What the browser does with a message; the next waits while onVaultList  *)
(* is at work.                                                             *)

Ready(u) == mail[u] # <<>> /\ listing[u] = None
Got(u, type) == Ready(u) /\ Head(mail[u]).type = type
Taken(u) == [mail EXCEPT ![u] = Tail(@)]

(* "sync": merged if the browser's key opens it, and otherwise skipped.    *)
OnSync(u) ==
  LET m == Head(mail[u])
  IN  /\ Got(u, "sync")
      /\ mail' = Taken(u)
      /\ IF book[u] = m.key
           THEN /\ doc' = [doc EXCEPT ![u] = @ \cup m.text]
                /\ lastSeq' = [lastSeq EXCEPT ![u] = m.seq]
                /\ UNCHANGED missed
           ELSE /\ missed' = [missed EXCEPT ![u] = @ \cup {m.seq}]
                /\ UNCHANGED <<doc, lastSeq>>
      /\ UNCHANGED <<role, vkey, newest, book, dialog, listing, rotating, dirty,
                     keys, edits, lists, had, removedAt, refused>>

(* onCaughtUp: the number is taken, whatever was skipped before.           *)
OnCaughtUp(u) ==
  /\ Got(u, "caught_up") /\ mail' = Taken(u)
  /\ lastSeq' = IF book[u] = 0 THEN lastSeq ELSE [lastSeq EXCEPT ![u] = Head(mail[u]).seq]
  /\ UNCHANGED <<role, vkey, newest, book, dialog, listing, rotating, doc, dirty,
                 keys, edits, lists, had, removedAt, missed, refused>>

(* Variant: the page is told and the list is not asked for again.          *)
OnNotice_Quiet(u) ==
  /\ Got(u, "vault_invited") \/ Got(u, "vault_key_rotated")
  /\ mail' = Taken(u)
  /\ UNCHANGED <<role, vkey, newest, book, dialog, listing, rotating, doc, lastSeq,
                 dirty, keys, edits, lists, had, removedAt, missed, refused>>

(* onVaultInvited, onVaultKeyRotated: the list is asked for again.         *)
OnNotice(u) ==
  /\ Got(u, "vault_invited") \/ Got(u, "vault_key_rotated")
  /\ mail' = VaultList(Taken(u), u)
  /\ UNCHANGED <<role, vkey, newest, book, dialog, listing, rotating, doc, lastSeq,
                 dirty, keys, edits, lists, had, removedAt, missed, refused>>

(* onVaultList: the keys are decrypted ...                                 *)
OnBookList(u) ==
  /\ Got(u, "vault_list") /\ mail' = Taken(u)
  /\ listing' = [listing EXCEPT ![u] = Head(mail[u]).key]
  /\ had' = [had EXCEPT ![u] = @ \cup {Head(mail[u]).key}]
  /\ UNCHANGED <<role, vkey, newest, book, dialog, rotating, doc, lastSeq, dirty,
                 keys, edits, lists, removedAt, missed, refused>>

(* ... and new Book objects replace the old, the catalog is subscribed to, *)
(* and the members are asked for; a book no longer listed is dropped.      *)
ListDone(u) ==
  /\ listing[u] # None
  /\ book' = [book EXCEPT ![u] = listing[u]]
  /\ dialog' = IF dialog[u] = Live THEN [dialog EXCEPT ![u] = book[u]] ELSE dialog
  /\ listing' = [listing EXCEPT ![u] = None]
  /\ mail' = IF listing[u] = 0 \/ role[u] = NoRole THEN mail
             ELSE MemberList(Replay(mail, u), u)
  /\ UNCHANGED <<role, vkey, newest, rotating, doc, lastSeq, dirty, keys, edits,
                 lists, had, removedAt, missed, refused>>

(* onVaultRemoved.                                                         *)
OnRemoved(u) ==
  /\ Got(u, "vault_removed") /\ mail' = Taken(u)
  /\ book' = [book EXCEPT ![u] = 0] /\ dialog' = [dialog EXCEPT ![u] = None]
  /\ UNCHANGED <<role, vkey, newest, listing, rotating, doc, lastSeq, dirty, keys,
                 edits, lists, had, removedAt, missed, refused>>

(* The removal is confirmed: rotateVaultKey makes a key and asks for the   *)
(* members.                                                                *)
BeginRotation(u) ==
  /\ Got(u, "vault_member_removed")
  /\ keys' = keys + 1 /\ rotating' = [rotating EXCEPT ![u] = keys']
  /\ mail' = MemberList(Taken(u), u)
  /\ UNCHANGED <<role, vkey, newest, book, dialog, listing, doc, lastSeq, dirty,
                 edits, lists, had, removedAt, missed, refused>>

(* The first list of members to arrive is taken for the answer: the key is *)
(* sent for each of them, and is the book's from now on.                   *)
OnMembers(u) ==
  /\ Got(u, "vault_members")
  /\ IF rotating[u] = 0
       THEN mail' = Taken(u) /\ UNCHANGED <<vkey, book, rotating, had, refused>>
       ELSE /\ HandleRotate(u, rotating[u], Head(mail[u]).text)
            /\ book' = IF book[u] = 0 THEN book ELSE [book EXCEPT ![u] = rotating[u]]
            /\ had' = [had EXCEPT ![u] = @ \cup {rotating[u]}]
            /\ rotating' = [rotating EXCEPT ![u] = 0]
  /\ UNCHANGED <<role, newest, dialog, listing, doc, lastSeq, dirty, keys, edits,
                 lists, removedAt, missed>>

(* No list within five seconds: the rotation is given up.                  *)
RotationTimeout(u) ==
  /\ rotating[u] # 0
  /\ rotating' = [rotating EXCEPT ![u] = 0]
  /\ UNCHANGED <<role, vkey, newest, mail, book, dialog, listing, doc, lastSeq,
                 dirty, keys, edits, lists, had, removedAt, missed, refused>>

Browser(u) ==
  \/ OnSync(u) \/ OnCaughtUp(u) \/ OnNotice(u) \/ OnBookList(u) \/ ListDone(u)
  \/ OnRemoved(u) \/ BeginRotation(u) \/ OnMembers(u) \/ Push(u)

SharedBookNext ==
  \E u \in Users :
    \/ Browser(u)
    \/ OpenDialog(u) \/ Edit(u) \/ AskList(u) \/ RotationTimeout(u)
    \/ \E v \in Users : Invite(u, v) \/ Remove(u, v)

SharedBookSpec ==
  SharedBookInit /\ [][SharedBookNext]_bookVars /\ \A u \in Users : WF_bookVars(Browser(u))

-----------------------------------------------------------------------------
(* Properties.                                                             *)

(* Types.  A browser has only keys that were made, who has a role has a    *)
(* key, and at most the owner is rotating.                                 *)
SharedBookTypeOK ==
  /\ role \in [Users -> {"owner", "editor", "viewer", NoRole}]
  /\ vkey \in [Users -> 0..keys] /\ book \in [Users -> 0..keys] /\ keys \in 1..MaxBookKeys
  /\ \A u \in Users : role[u] = NoRole <=> vkey[u] = 0
  /\ dialog \in [Users -> -1..keys] /\ listing \in [Users -> -1..keys]
  /\ newest.key \in 1..keys /\ newest.text \subseteq 1..edits
  /\ \A u \in Users : /\ had[u] \subseteq 0..keys /\ missed[u] \subseteq 1..newest.seq
                      /\ lastSeq[u] \in 0..newest.seq /\ doc[u] \subseteq 1..edits
                      /\ rotating[u] # 0 => rotating[u] = keys /\ u = Owner

(* README: "Vault keys rotated on member removal": the key made after a    *)
(* removal never reaches the one removed, whatever lists are under way.    *)
RemovedAreLockedOut == \A u \in Users : removedAt[u] # 0 => had[u] \subseteq 0..removedAt[u]

(* Every member's browser comes to have the key the server has for it,     *)
(* unless its own rotation was refused.                                    *)
KeysSettle ==
  \A u \in Users : (role[u] # NoRole) ~> (role[u] = NoRole \/ book[u] = vkey[u] \/ u \in refused)

Quiet == \A u \in Users : mail[u] = <<>> /\ listing[u] = None

(* When nothing is under way a browser lacks the newest snapshot only if   *)
(* it has no key for it or was given it while it had another key.          *)
NewestIsRead ==
  Quiet => \A u \in Members :
    newest.text \subseteq doc[u] \/ book[u] # newest.key \/ newest.seq \in missed[u]
=============================================================================
