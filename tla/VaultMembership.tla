--------------------------- MODULE VaultMembership ---------------------------
(***************************************************************************)
(* The members of ONE vault: the rows of vault_members and vaults, and the *)
(* handlers of backend/internal/sync/client.go that change them: invite,   *)
(* remove, change role, transfer ownership, rotate the vault key, delete   *)
(* the vault, purge the account.  A handler checks the requester's role in *)
(* one SQL statement and writes in a later one, so the handlers of two     *)
(* connections interleave between check and write.                         *)
(*                                                                         *)
(* The requests are those of the share dialog (frontend/src/ui/share.ts):  *)
(* invitations are for viewers, a role is changed between editor and       *)
(* viewer, a confirmed removal is followed by a rotation of the vault key  *)
(* for the members listed then.  A vault key is its generation, 1 for the  *)
(* first.                                                                  *)
(***************************************************************************)
EXTENDS Naturals, FiniteSets

CONSTANTS
  Users,
  Clients,       \* connections
  UserOf,        \* [Clients -> Users]
  Founder,       \* the user who created the vault
  FirstRole,     \* [Users -> Roles]: the members to begin with
  Purgers,       \* users who may delete their account
  None,          \* no user
  MaxKeys,       \* bound: generations of the vault key
  MaxRequests    \* bound: requests the server takes

ASSUME MembershipAssumption ==
  /\ UserOf \in [Clients -> Users] /\ Founder \in Users
  /\ FirstRole \in [Users -> {"owner", "editor", "viewer", "none"}]
  /\ \A u \in Users : FirstRole[u] = "owner" <=> u = Founder
  /\ Purgers \subseteq Users /\ None \notin Users
  /\ MaxKeys \in Nat \ {0} /\ MaxRequests \in Nat

Roles == {"owner", "editor", "viewer", "none"}
Ops == {"invite", "remove", "editor", "viewer", "transfer", "rotate", "delete"}
Request == [op : Ops, on : Users \cup {None}, key : 0..MaxKeys, cover : SUBSET Users]
NoRequest == [op |-> "delete", on |-> None, key |-> 0, cover |-> {}]
Pcs == {"idle", "add", "target", "count", "write", "from", "to",
        "swap", "cover", "rekey", "drop"}

VARIABLES
  creator,   \* vaults.created_by, None when the vault is gone
  member,    \* vault_members.role, "none" without a row
  key,       \* the generation wrapped in encrypted_vault_key, 0 without a row
  inviter,   \* vault_members.invited_by, None without a row
  account,   \* users with a row in users
  pc,        \* where a connection's handler is
  h,         \* its request: what, on whom, the generation it carries, and the
             \* users named in its vault_key_updates
  page,      \* the rotation flow of its browser: "idle", "removed", "listed"
  list,      \* the member list the flow has received
  bookKey,   \* the generation its browser holds for the book, 0 for none
  lastKey,   \* generations made so far
  current,   \* ghost: the generation of the last rotation committed
  late,      \* ghost, per connection: users invited since its check of the members
  stale,     \* ghost: members invited with another generation than current,
             \* or between the check and the commit of its rotation
  refused,   \* ghost: users whose purge the database has refused
  careful,   \* ghost: no user has made two requests at a time, nobody but the
             \* owner has invited, nor he himself, and no one has left
  requests   \* requests taken

rows == <<creator, member, key, inviter, account>>
browser == <<page, list, bookKey, lastKey>>
keys == <<current, late, stale>>
count == <<careful, requests>>
vars == <<rows, pc, h, browser, keys, refused, count>>

Members == {u \in Users : member[u] # "none"}
Owners == {u \in Users : member[u] = "owner"}
Goto(c, l) ==
  /\ pc' = [pc EXCEPT ![c] = l]
  /\ h' = IF l = "idle" THEN [h EXCEPT ![c] = NoRequest] ELSE h
Done(c) == Goto(c, "idle")

(* The vault as its founder has shared it, its members all loaded.         *)
Init ==
  /\ creator = Founder /\ account = Users /\ member = FirstRole
  /\ key = [u \in Users |-> IF FirstRole[u] = "none" THEN 0 ELSE 1]
  /\ inviter = [u \in Users |-> IF FirstRole[u] = "none" THEN None ELSE Founder]
  /\ pc = [c \in Clients |-> "idle"] /\ h = [c \in Clients |-> NoRequest]
  /\ page = [c \in Clients |-> "idle"] /\ list = [c \in Clients |-> {}]
  /\ bookKey = [c \in Clients |-> key[UserOf[c]]]
  /\ lastKey = 1 /\ current = 1
  /\ late = [c \in Clients |-> {}] /\ stale = {} /\ refused = {}
  /\ careful = TRUE /\ requests = 0

-----------------------------------------------------------------------------
(* The browser.                                                            *)

(* Variant: any member may do anything.                                    *)
Allowed_AnyMember(u, o) == member[u] # "none"

(* IsVaultMember for the requester.                                        *)
Allowed(u, o) == member[u] = "owner" \/ (o = "invite" /\ member[u] = "editor")

FirstStep(o) ==
  CASE o = "invite" -> "add" [] o = "transfer" -> "from" [] o = "rotate" -> "cover"
    [] o = "delete" -> "drop" [] OTHER -> "target"

(* The server takes the next request of a connection and checks the role.  *)
(* The dialog offers removal, roles and ownership for other users only.    *)
Ask(c, o, t, k, us) ==
  LET u == UserOf[c]
      alone == \A a \in Clients : UserOf[a] = u => pc[a] = "idle"
  IN  /\ pc[c] = "idle" /\ u \in account
      /\ requests < MaxRequests /\ requests' = requests + 1
      /\ careful' = (careful /\ alone /\ (o = "invite" => member[u] = "owner" /\ t # u))
      /\ IF Allowed(u, o)
           THEN /\ pc' = [pc EXCEPT ![c] = FirstStep(o)]
                /\ h' = [h EXCEPT ![c] = [op |-> o, on |-> t, key |-> k, cover |-> us]]
           ELSE UNCHANGED <<pc, h>>
      /\ UNCHANGED <<rows, keys, refused>>

Manage(c, t) ==
  /\ t # UserOf[c]
  /\ \E o \in {"remove", "editor", "viewer", "transfer"} : Ask(c, o, t, 0, {})
  /\ UNCHANGED browser

Delete(c) == Ask(c, "delete", UserOf[c], 0, {}) /\ UNCHANGED browser

(* The invitation carries the book's key as this browser holds it.         *)
Invite(c, t) ==
  /\ bookKey[c] # 0
  /\ Ask(c, "invite", t, bookKey[c], {})
  /\ UNCHANGED browser

(* rotateVaultKey: the list of members arrives ...                         *)
Listed(c) ==
  /\ page[c] = "removed" /\ pc[c] = "idle"
  /\ page' = [page EXCEPT ![c] = "listed"]
  /\ list' = [list EXCEPT ![c] = IF UserOf[c] \in Members THEN Members ELSE {}]
  /\ UNCHANGED <<rows, pc, h, bookKey, lastKey, keys, refused, count>>

(* ... or does not within 5 s, or is empty ...                             *)
NotListed(c) ==
  /\ page[c] = "removed" \/ (page[c] = "listed" /\ list[c] = {})
  /\ page' = [page EXCEPT ![c] = "idle"] /\ list' = [list EXCEPT ![c] = {}]
  /\ UNCHANGED <<rows, pc, h, bookKey, lastKey, keys, refused, count>>

(* ... and the new key, used here from now on, is wrapped for the list.    *)
Rotate(c) ==
  /\ page[c] = "listed" /\ list[c] # {} /\ lastKey < MaxKeys
  /\ Ask(c, "rotate", UserOf[c], lastKey + 1, list[c])
  /\ lastKey' = lastKey + 1
  /\ bookKey' = [bookKey EXCEPT ![c] = lastKey + 1]
  /\ page' = [page EXCEPT ![c] = "idle"] /\ list' = [list EXCEPT ![c] = {}]

(* list_vaults: the key the server holds for this user.                    *)
Refresh(c) ==
  /\ pc[c] = "idle" /\ bookKey[c] # key[UserOf[c]]
  /\ bookKey' = [bookKey EXCEPT ![c] = key[UserOf[c]]]
  /\ UNCHANGED <<rows, pc, h, page, list, lastKey, keys, refused, count>>

-----------------------------------------------------------------------------
(* The handlers, one SQL statement at a time.                              *)

(* AddVaultMember: an upsert that overwrites the role and the key, not     *)
(* invited_by.  The foreign keys want the vault and both accounts.         *)
Add(c) ==
  LET t == h[c].on
  IN  /\ pc[c] = "add" /\ creator # None /\ {t, UserOf[c]} \subseteq account
      /\ member' = [member EXCEPT ![t] = "viewer"]
      /\ key' = [key EXCEPT ![t] = h[c].key]
      /\ inviter' = [inviter EXCEPT ![t] = IF member[t] = "none" THEN UserOf[c] ELSE @]
      /\ late' = [o \in Clients |-> IF pc[o] = "rekey" THEN late[o] \cup {t} ELSE {}]
      /\ stale' = IF h[c].key = current THEN stale \ {t} ELSE stale \cup {t}
      /\ Done(c)
      /\ UNCHANGED <<creator, account, browser, current, refused, count>>

(* IsVaultMember for the target; an owner's row asks for a count.          *)
Target(c) ==
  /\ pc[c] = "target"
  /\ Goto(c, IF member[h[c].on] = "owner" THEN "count" ELSE "write")
  /\ UNCHANGED <<rows, browser, keys, refused, count>>

(* CountVaultOwners                                                        *)
Count(c) ==
  /\ pc[c] = "count"
  /\ Goto(c, IF Cardinality(Owners) <= 1 THEN "idle" ELSE "write")
  /\ UNCHANGED <<rows, browser, keys, refused, count>>

(* Variant: a removal is written as a role.                                *)
Write_AsRole(c) ==
  /\ pc[c] = "write"
  /\ member' = [member EXCEPT ![h[c].on] = IF @ = "none" THEN "none" ELSE h[c].op]
  /\ Done(c)
  /\ UNCHANGED <<creator, key, inviter, account, browser, keys, refused, count>>

(* RemoveVaultMember or ChangeRole, without effect when there is no row.   *)
(* The rotation starts when the browser gets the confirmation in time.     *)
Write(c) ==
  LET t == h[c].on
      removal == h[c].op = "remove"
  IN  /\ pc[c] = "write"
      /\ member' = [member EXCEPT ![t] = IF removal \/ @ = "none" THEN "none" ELSE h[c].op]
      /\ key' = [key EXCEPT ![t] = IF removal THEN 0 ELSE @]
      /\ inviter' = [inviter EXCEPT ![t] = IF removal THEN None ELSE @]
      /\ \E confirmed \in {removal, FALSE} :
           page' = [page EXCEPT ![c] = IF confirmed THEN "removed" ELSE @]
      /\ stale' = IF removal THEN stale \ {t} ELSE stale
      /\ late' = [o \in Clients |-> IF removal THEN late[o] \ {t} ELSE late[o]]
      /\ Done(c)
      /\ UNCHANGED <<creator, account, list, bookKey, lastKey, current, refused, count>>

(* TransferOwnership: two reads, then both updates and created_by, all in  *)
(* one READ COMMITTED transaction; the reads lock nothing.                 *)
From(c) ==
  /\ pc[c] = "from"
  /\ Goto(c, IF member[UserOf[c]] = "owner" THEN "to" ELSE "idle")
  /\ UNCHANGED <<rows, browser, keys, refused, count>>

To(c) ==
  /\ pc[c] = "to"
  /\ Goto(c, IF h[c].on \in Members THEN "swap" ELSE "idle")
  /\ UNCHANGED <<rows, browser, keys, refused, count>>

(* Variant: the old owner is not demoted.                                  *)
Swap_KeepOwner(c) ==
  /\ pc[c] = "swap"
  /\ member' = [u \in Users |-> IF u = h[c].on /\ u \in Members THEN "owner" ELSE member[u]]
  /\ creator' = IF creator = None THEN None ELSE h[c].on
  /\ Done(c)
  /\ UNCHANGED <<key, inviter, account, browser, keys, refused, count>>

(* An update of a row that is gone changes nothing; created_by must name   *)
(* an account.                                                             *)
Swap(c) ==
  /\ pc[c] = "swap" /\ (creator # None => h[c].on \in account)
  /\ member' = [u \in Users |->
                  IF u \notin Members THEN "none"
                  ELSE IF u = h[c].on THEN "owner"
                  ELSE IF u = UserOf[c] THEN "editor" ELSE member[u]]
  /\ creator' = IF creator = None THEN None ELSE h[c].on
  /\ Done(c)
  /\ UNCHANGED <<key, inviter, account, browser, keys, refused, count>>

(* Variant: the members are not compared with the updates.                 *)
Cover_Unchecked(c) ==
  /\ pc[c] = "cover"
  /\ Goto(c, "rekey")
  /\ late' = [late EXCEPT ![c] = {}]
  /\ UNCHANGED <<rows, browser, current, stale, refused, count>>

(* "Validate that all current members are included in the update"          *)
Cover(c) ==
  /\ pc[c] = "cover"
  /\ Goto(c, IF Members \subseteq h[c].cover THEN "rekey" ELSE "idle")
  /\ late' = [late EXCEPT ![c] = {}]
  /\ UNCHANGED <<rows, browser, current, stale, refused, count>>

(* RotateVaultKeys, one transaction.                                       *)
Rekey(c) ==
  /\ pc[c] = "rekey"
  /\ key' = [u \in Users |-> IF u \in h[c].cover \cap Members THEN h[c].key ELSE key[u]]
  /\ current' = h[c].key /\ stale' = late[c]
  /\ late' = [late EXCEPT ![c] = {}]
  /\ Done(c)
  /\ UNCHANGED <<creator, member, inviter, account, browser, refused, count>>

(* DeleteVault, one transaction; the members' rows go with the vault.      *)
DropVault(c) ==
  /\ pc[c] = "drop"
  /\ creator' = None
  /\ member' = [u \in Users |-> "none"] /\ key' = [u \in Users |-> 0]
  /\ inviter' = [u \in Users |-> None]
  /\ Done(c)
  /\ UNCHANGED <<account, browser, keys, refused, count>>

(* Any statement may fail or time out; the handler reports the error.      *)
Abort(c) ==
  /\ pc[c] # "idle"
  /\ Done(c)
  /\ late' = [late EXCEPT ![c] = {}]
  /\ UNCHANGED <<rows, browser, current, stale, refused, count>>

(* PurgeUser, one transaction.  invited_by has no ON DELETE, so the row of *)
(* another member this user invited refuses the deletion of the account.   *)
Purge(c) ==
  LET u == UserOf[c]
      others == Members \ {u}
  IN  /\ pc[c] = "idle" /\ u \in Purgers \cap account
      /\ IF \E w \in others : inviter[w] = u
           THEN refused' = refused \cup {u} /\ UNCHANGED <<rows, browser>>
           ELSE /\ account' = account \ {u}
                /\ member' = [member EXCEPT ![u] = "none"]
                /\ key' = [key EXCEPT ![u] = 0]
                /\ inviter' = [inviter EXCEPT ![u] = None]
                /\ creator' \in IF creator # u THEN {creator}
                                ELSE IF others = {} THEN {None} ELSE others
                /\ bookKey' = [o \in Clients |-> IF UserOf[o] = u THEN 0 ELSE bookKey[o]]
                /\ page' = [o \in Clients |-> IF UserOf[o] = u THEN "idle" ELSE page[o]]
                /\ UNCHANGED <<list, lastKey, refused>>
      /\ careful' = FALSE
      /\ UNCHANGED <<pc, h, keys, requests>>

Browser(c) ==
  \/ Delete(c) \/ Listed(c) \/ NotListed(c) \/ Rotate(c) \/ Refresh(c)
  \/ \E t \in Users : Manage(c, t) \/ Invite(c, t)

Handler(c) ==
  \/ Add(c) \/ Target(c) \/ Count(c) \/ Write(c)
  \/ From(c) \/ To(c) \/ Swap(c) \/ Cover(c) \/ Rekey(c) \/ DropVault(c)
  \/ Abort(c)

Next == \E c \in Clients : Browser(c) \/ Handler(c) \/ Purge(c)

Spec == Init /\ [][Next]_vars
-----------------------------------------------------------------------------
(* Properties.                                                             *)

(* Type invariant.                                                         *)
TypeOK ==
  /\ creator \in Users \cup {None} /\ member \in [Users -> Roles]
  /\ key \in [Users -> 0..MaxKeys] /\ inviter \in [Users -> Users \cup {None}]
  /\ account \subseteq Users
  /\ pc \in [Clients -> Pcs] /\ h \in [Clients -> Request]
  /\ page \in [Clients -> {"idle", "removed", "listed"}]
  /\ list \in [Clients -> SUBSET Users]
  /\ bookKey \in [Clients -> 0..MaxKeys] /\ lastKey \in 1..MaxKeys
  /\ current \in 0..MaxKeys /\ late \in [Clients -> SUBSET Users]
  /\ stale \subseteq Users /\ refused \subseteq Users
  /\ careful \in BOOLEAN /\ requests \in 0..MaxRequests

(* The checks keep exactly one owner, the one vaults names, as long as no  *)
(* user makes two requests at a time, nobody but the owner invites, nor he *)
(* himself, and no one deletes his account.                                *)
OneOwner == careful /\ creator # None => Owners = {creator}

(* "Validate that all current members are included in the update"          *)
(* (client.go): every member holds the key of the last rotation, but for   *)
(* those invited with an older one since its members were read.            *)
KeysCovered == \A u \in Members \ stale : key[u] = current

(* As long as that is so, a row changes by the decision of somebody who is *)
(* an owner when it does, although the handler checked some steps earlier. *)
OwnerDecides ==
  [][\A t \in Users : careful /\ careful' /\ member'[t] # member[t] =>
       \E c \in Clients : /\ pc[c] # "idle" /\ pc'[c] = "idle"
                          /\ member[UserOf[c]] = "owner"]_vars
=============================================================================
