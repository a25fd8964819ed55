------------------------------ MODULE SecretsProofs ------------------------------
(***************************************************************************)
(* Proofs about the two key hierarchies: first the key of a shared book    *)
(* and its rotations (SharedBook), then the master key of an account       *)
(* (Accounts), and last the two together.                                  *)
(***************************************************************************)
EXTENDS MCSecrets, TLAPS

-----------------------------------------------------------------------------
(* SharedBook: what is under way to a browser.                             *)

Roles == {"owner", "editor", "viewer", NoRole}
MailTypes == {"sync", "caught_up", "vault_list", "vault_members", "vault_invited",
              "vault_key_rotated", "vault_removed", "vault_member_removed"}
AnyMail == [type : MailTypes, key : Nat, seq : Nat, text : SUBSET (Nat \cup Users)]
Mails(s) == {s[i] : i \in DOMAIN s}

LEMMA SentMails ==
  ASSUME NEW box \in [Users -> Seq(AnyMail)], NEW to, NEW msg \in AnyMail
  PROVE  /\ Sent(box, to, msg) \in [Users -> Seq(AnyMail)]
         /\ \A u \in Users : \A m \in Mails(Sent(box, to, msg)[u]) :
              m \in Mails(box[u]) \/ (u \in to /\ m = msg)
<1> DEFINE sent == Sent(box, to, msg)
<1>1. ASSUME NEW u \in Users
      PROVE  /\ sent[u] \in Seq(AnyMail)
             /\ \A m \in Mails(sent[u]) : m \in Mails(box[u]) \/ (u \in to /\ m = msg)
  <2>1. box[u] \in Seq(AnyMail)  OBVIOUS
  <2>2. sent[u] = IF u \in to THEN Append(box[u], msg) ELSE box[u]  BY DEF Sent
  <2>3. CASE u \notin to  BY <2>1, <2>2, <2>3
  <2>4. CASE u \in to
    <3>1. sent[u] = Append(box[u], msg)  BY <2>2, <2>4
    <3>2. /\ Append(box[u], msg) \in Seq(AnyMail)
          /\ DOMAIN Append(box[u], msg) = 1..(Len(box[u]) + 1)
          /\ \A i \in 1..(Len(box[u]) + 1) :
               \/ Append(box[u], msg)[i] = msg
               \/ i \in DOMAIN box[u] /\ Append(box[u], msg)[i] = box[u][i]
      BY <2>1
    <3> HIDE DEF sent
    <3> QED  BY <2>4, <3>1, <3>2 DEF Mails
  <2> QED  BY <2>3, <2>4
<1>2. sent = [u \in Users |-> sent[u]]  BY DEF Sent
<1> HIDE DEF sent
<1>3. sent \in [Users -> Seq(AnyMail)]  BY <1>1, <1>2
<1> QED  BY <1>1, <1>3 DEF sent

LEMMA TakenMails ==
  ASSUME mail \in [Users -> Seq(AnyMail)], NEW u \in Users, mail[u] # <<>>
  PROVE  /\ Taken(u) \in [Users -> Seq(AnyMail)]
         /\ \A v \in Users : Mails(Taken(u)[v]) \subseteq Mails(mail[v])
         /\ Head(mail[u]) \in Mails(mail[u]) /\ Head(mail[u]) \in AnyMail
<1>1. mail[u] \in Seq(AnyMail)  OBVIOUS
<1>2. /\ Tail(mail[u]) \in Seq(AnyMail) /\ Head(mail[u]) = mail[u][1]
      /\ 1 \in DOMAIN mail[u] /\ Head(mail[u]) \in AnyMail
      /\ \A i \in DOMAIN Tail(mail[u]) :
           i + 1 \in DOMAIN mail[u] /\ Tail(mail[u])[i] = mail[u][i + 1]
  BY <1>1
<1>3. Mails(Tail(mail[u])) \subseteq Mails(mail[u]) /\ Head(mail[u]) \in Mails(mail[u])
  BY <1>2 DEF Mails
<1>4. Taken(u) = [mail EXCEPT ![u] = Tail(@)]  BY DEF Taken
<1>5. Taken(u) \in [Users -> Seq(AnyMail)]  BY <1>2, <1>4
<1>6. \A v \in Users : Taken(u)[v] = IF v = u THEN Tail(mail[u]) ELSE mail[v]  BY <1>4
<1> QED  BY <1>2, <1>3, <1>5, <1>6

-----------------------------------------------------------------------------
(* SharedBook: who has which key.                                          *)

BookTypes ==
  /\ role \in [Users -> Roles] /\ keys \in Nat \ {0} /\ edits \in Nat
  /\ vkey \in [Users -> 0..keys] /\ book \in [Users -> 0..keys] /\ rotating \in [Users -> 0..keys]
  /\ dialog \in [Users -> -1..keys] /\ listing \in [Users -> -1..keys]
  /\ newest \in [seq : Nat, key : 1..keys, text : SUBSET (1..edits)]
  /\ had \in [Users -> SUBSET (0..keys)] /\ removedAt \in [Users -> 0..keys]
  /\ missed \in [Users -> SUBSET (1..newest.seq)] /\ lastSeq \in [Users -> 0..newest.seq]
  /\ doc \in [Users -> SUBSET (1..edits)]

(* Nothing under way names a key that was not made, brings a key to who    *)
(* was never a member or a newer one than his removal to who was removed,  *)
(* or is a snapshot numbered as the newest that is another.                *)
Good(u, m) ==
  /\ m.key \in 0..keys /\ m.seq \in 0..newest.seq
  /\ m.type = "sync" => /\ m.seq # 0 /\ m.text \subseteq 1..edits
                        /\ m.seq = newest.seq => m.text = newest.text
  /\ m.type = "vault_member_removed" => u = Owner
  /\ m.type = "vault_list" /\ removedAt[u] # 0 => m.key <= removedAt[u]
  /\ m.type = "vault_list" /\ removedAt[u] = 0 /\ role[u] = NoRole => m.key = 0

BookLocks ==
  \A u \in Users : /\ role[u] = "owner" <=> u = Owner
                   /\ role[u] = NoRole <=> vkey[u] = 0
                   /\ rotating[u] # 0 => u = Owner
                   /\ removedAt[u] # 0 => role[u] = NoRole /\ had[u] \subseteq 0..removedAt[u]
                   /\ role[u] = NoRole /\ removedAt[u] = 0 => book[u] = 0 /\ listing[u] <= 0

GoodMail ==
  /\ mail \in [Users -> Seq(AnyMail)]
  /\ \A u \in Users : \A m \in Mails(mail[u]) : Good(u, m)

BookInv == BookTypes /\ BookLocks /\ GoodMail

(* What only grows.                                                        *)
Grows ==
  /\ keys' \in Nat /\ keys' >= keys /\ newest'.seq \in Nat
  /\ newest' = newest \/ newest'.seq > newest.seq
  /\ edits' \in Nat /\ edits' >= edits
  /\ \A u \in Users :
       /\ removedAt'[u] \in {removedAt[u], keys}
       /\ role'[u] = NoRole /\ removedAt'[u] = 0 => role[u] = NoRole /\ removedAt[u] = 0

(* Boxes a step may leave: what was not there before is good after it.     *)
Fine(box) ==
  /\ box \in [Users -> Seq(AnyMail)]
  /\ \A u \in Users : \A m \in Mails(box[u]) : m \in Mails(mail[u]) \/ Good(u, m)'

LEMMA FineStays ==
  ASSUME BookInv, Grows, NEW box, Fine(box), mail' = box
  PROVE  GoodMail'
<1>1. mail' \in [Users -> Seq(AnyMail)]  BY DEF Fine
<1> SUFFICES ASSUME NEW u \in Users, NEW m \in Mails(mail[u]) PROVE Good(u, m)'
  BY <1>1 DEF Fine, GoodMail
<1>2. Good(u, m) /\ keys \in Nat /\ newest.seq \in Nat /\ edits \in Nat
  BY DEF BookInv, BookTypes, GoodMail
<1>3. m.key \in 0..keys' /\ m.seq \in 0..newest'.seq /\ newest'.seq \in Nat  BY <1>2 DEF Good, Grows
<1>4. 1..edits \subseteq 1..edits'  BY <1>2 DEF Grows
<1>7. m.type = "sync" /\ m.seq = newest'.seq => m.text = newest'.text
  BY <1>2 DEF Good, Grows
<1>8. m.type = "vault_list" /\ removedAt'[u] = 0 /\ role'[u] = NoRole => m.key = 0
  BY <1>2 DEF Good, Grows
<1>5. removedAt'[u] = removedAt[u] \/ removedAt'[u] = keys  BY DEF Grows
<1>6. m.type = "vault_list" /\ removedAt'[u] # 0 => m.key <= removedAt'[u]
  BY <1>2, <1>5 DEF Good
<1> QED  BY <1>2, <1>3, <1>4, <1>6, <1>7, <1>8 DEF Good

LEMMA OldIsFine ==
  ASSUME BookInv
  PROVE  /\ Fine(mail)
         /\ \A u \in Users : mail[u] # <<>> =>
              /\ Fine(Taken(u)) /\ Head(mail[u]) \in AnyMail /\ Good(u, Head(mail[u]))
<1>1. mail \in [Users -> Seq(AnyMail)]  BY DEF BookInv, GoodMail
<1>2. Fine(mail)  BY <1>1 DEF Fine
<1>3. ASSUME NEW u \in Users, mail[u] # <<>>
      PROVE  Fine(Taken(u)) /\ Head(mail[u]) \in AnyMail /\ Good(u, Head(mail[u]))
  <2>1. /\ Taken(u) \in [Users -> Seq(AnyMail)]
        /\ \A v \in Users : Mails(Taken(u)[v]) \subseteq Mails(mail[v])
        /\ Head(mail[u]) \in Mails(mail[u]) /\ Head(mail[u]) \in AnyMail
    BY <1>1, <1>3, TakenMails
  <2>2. Fine(Taken(u))  BY <2>1 DEF Fine
  <2> QED  BY <2>1, <2>2 DEF BookInv, GoodMail
<1> QED  BY <1>2, <1>3

LEMMA SentIsFine ==
  ASSUME NEW box, Fine(box), NEW to, NEW msg \in AnyMail,
         \A u \in Users : u \in to => Good(u, msg)'
  PROVE  Fine(Sent(box, to, msg))
<1>1. box \in [Users -> Seq(AnyMail)]  BY DEF Fine
<1>2. /\ Sent(box, to, msg) \in [Users -> Seq(AnyMail)]
      /\ \A u \in Users : \A m \in Mails(Sent(box, to, msg)[u]) :
           m \in Mails(box[u]) \/ (u \in to /\ m = msg)
  BY <1>1, SentMails
<1> QED  BY <1>2 DEF Fine

LEMMA MsgType ==
  ASSUME NEW t \in MailTypes, NEW k \in Nat, NEW q \in Nat, NEW x \in SUBSET (Nat \cup Users)
  PROVE  /\ Msg(t, k, q, x) \in AnyMail
         /\ Msg(t, k, q, x).type = t /\ Msg(t, k, q, x).key = k
         /\ Msg(t, k, q, x).seq = q /\ Msg(t, k, q, x).text = x
BY DEF Msg, AnyMail

LEMMA NotesAreFine ==
  ASSUME NEW box, Fine(box), Grows, NEW t \in MailTypes \ {"sync", "vault_list"}, NEW to,
         newest.seq \in Nat, keys \in Nat, t = "vault_member_removed" => to \subseteq {Owner}
  PROVE  Fine(Sent(box, to, Note(t)))
<1>1. PICK msg \in AnyMail : /\ msg = Note(t) /\ msg.type = t /\ msg.key = 0
                             /\ msg.seq = 0 /\ msg.text = {}
  BY MsgType DEF Note
<1>2. \A u \in Users : u \in to => Good(u, msg)'  BY <1>1 DEF Good, Grows
<1> QED  BY <1>1, <1>2, SentIsFine

LEMMA VaultListIsFine ==
  ASSUME BookInv, Grows, NEW box, Fine(box), NEW u \in Users
  PROVE  Fine(VaultList(box, u))
<1>1. /\ vkey[u] \in 0..keys /\ keys \in Nat /\ newest.seq \in Nat /\ removedAt[u] \in Nat
      /\ vkey[u] \in Nat
  BY DEF BookInv, BookTypes
<1>2. PICK msg \in AnyMail : /\ msg = Msg("vault_list", vkey[u], 0, {}) /\ msg.type = "vault_list"
                             /\ msg.key = vkey[u] /\ msg.seq = 0
  BY <1>1, MsgType DEF MailTypes
<1>3. role[u] = NoRole => vkey[u] = 0  BY DEF BookInv, BookLocks
<1>4. removedAt'[u] = removedAt[u] \/ removedAt'[u] = keys  BY DEF Grows
<1>7. removedAt[u] # 0 => role[u] = NoRole  BY DEF BookInv, BookLocks
<1>5. Good(u, msg)'  BY <1>1, <1>2, <1>3, <1>4, <1>7 DEF Good, Grows
<1>6. Fine(Sent(box, {u}, msg))  BY <1>5, SentIsFine
<1> QED  BY <1>2, <1>6 DEF VaultList

LEMMA MemberListIsFine ==
  ASSUME BookInv, Grows, NEW box, Fine(box), NEW u \in Users
  PROVE  Fine(MemberList(box, u))
<1>1. keys \in Nat /\ newest.seq \in Nat  BY DEF BookInv, BookTypes
<1>2. Members \in SUBSET (Nat \cup Users)  BY DEF Members
<1>3. PICK listed : listed = Members  OBVIOUS
<1>4. /\ Msg("vault_members", 0, 0, listed) \in AnyMail
      /\ Msg("vault_members", 0, 0, listed).type = "vault_members"
      /\ Msg("vault_members", 0, 0, listed).key = 0 /\ Msg("vault_members", 0, 0, listed).seq = 0
  BY <1>2, <1>3, MsgType DEF MailTypes
<1>5. Good(u, Msg("vault_members", 0, 0, listed))'  BY <1>1, <1>4 DEF Good, Grows
<1>6. Fine(Sent(box, {u}, Msg("vault_members", 0, 0, listed)))  BY <1>4, <1>5, SentIsFine
<1> QED  BY <1>3, <1>6 DEF MemberList

LEMMA SnapshotsAreFine ==
  ASSUME BookInv, Grows, NEW box, Fine(box), NEW to, NEW s,
         s = newest', newest'.key \in 0..keys, newest'.text \subseteq 1..edits',
         s.seq # 0
  PROVE  Fine(Sent(box, to, Snapshot(s)))
<1>1. keys \in Nat /\ newest.seq \in Nat /\ edits \in Nat /\ newest.key \in 1..keys
      /\ newest.text \subseteq 1..edits
  BY DEF BookInv, BookTypes
<1>2. /\ s.key \in 0..keys /\ s.key \in 0..keys' /\ s.seq \in 0..newest'.seq
      /\ s.text \subseteq 1..edits'
  BY <1>1 DEF Grows
<1>3. s.key \in Nat /\ s.seq \in Nat /\ s.text \in SUBSET (Nat \cup Users)
  BY <1>1, <1>2 DEF Grows
<1>4. PICK msg \in AnyMail : /\ msg = Snapshot(s) /\ msg.type = "sync" /\ msg.key = s.key
                             /\ msg.seq = s.seq /\ msg.text = s.text
  BY <1>3, MsgType DEF MailTypes, Snapshot
<1>5. \A u \in Users : u \in to => Good(u, msg)'  BY <1>2, <1>4 DEF Good
<1> QED  BY <1>4, <1>5, SentIsFine

LEMMA ReplayIsFine ==
  ASSUME BookInv, Grows, NEW box, Fine(box), NEW u \in Users, newest' = newest
  PROVE  Fine(Replay(box, u))
<1>1. keys \in Nat /\ newest.seq \in Nat /\ edits \in Nat /\ newest.key \in 1..keys
      /\ newest.text \subseteq 1..edits /\ lastSeq[u] \in Nat
  BY DEF BookInv, BookTypes
<1> DEFINE told == IF newest.seq > lastSeq[u] THEN Sent(box, {u}, Snapshot(newest)) ELSE box
<1>2. newest'.text \subseteq 1..edits' /\ newest'.key \in 0..keys  BY <1>1 DEF Grows
<1>3. newest.seq > lastSeq[u] => Fine(Sent(box, {u}, Snapshot(newest)))
  BY <1>1, <1>2, SnapshotsAreFine
<1>4. Fine(told)  BY <1>3
<1>5. PICK msg \in AnyMail : /\ msg = Msg("caught_up", 0, newest.seq, {})
                             /\ msg.type = "caught_up" /\ msg.key = 0 /\ msg.seq = newest.seq
  BY <1>1, MsgType DEF MailTypes
<1>6. Good(u, msg)'  BY <1>1, <1>5 DEF Good, Grows
<1>7. Replay(box, u) = Sent(told, {u}, msg)  BY <1>5 DEF Replay
<1> HIDE DEF told
<1>8. Fine(Sent(told, {u}, msg))  BY <1>4, <1>6, SentIsFine
<1> QED  BY <1>7, <1>8

(* The steps that change none of these are the simple ones.                *)
LEMMA BookInits == ASSUME SharedBookInit PROVE BookInv
<1>1. Owner \in Users /\ Editor \in Users /\ NoRole \notin {"owner", "editor", "viewer"} /\ Owner # Editor
  BY SharedBookAssumption
<1>2. role \in [Users -> Roles] /\ \A u \in Users : role[u] = "owner" <=> u = Owner
  BY <1>1 DEF SharedBookInit, Roles
<1>3. /\ vkey = [u \in Users |-> IF role[u] = NoRole THEN 0 ELSE 1] /\ book = vkey
      /\ newest = [seq |-> 0, key |-> 1, text |-> {}] /\ mail = [u \in Users |-> <<>>]
      /\ dialog = [u \in Users |-> -1] /\ listing = [u \in Users |-> -1]
      /\ rotating = [u \in Users |-> 0] /\ doc = [u \in Users |-> {}]
      /\ lastSeq = [u \in Users |-> 0] /\ keys = 1 /\ edits = 0
      /\ had = [u \in Users |-> {vkey[u]}] /\ removedAt = [u \in Users |-> 0]
      /\ missed = [u \in Users |-> {}]
  BY DEF SharedBookInit, None
<1>4. vkey \in [Users -> 0..keys] /\ book \in [Users -> 0..keys] /\ keys \in Nat \ {0} /\ edits \in Nat
  BY <1>3
<1>5. \A u \in Users : {vkey[u]} \in SUBSET (0..keys)  BY <1>4
<1>6. had \in [Users -> SUBSET (0..keys)]  BY <1>3, <1>5
<1>7. newest \in [seq : Nat, key : 1..keys, text : SUBSET (1..edits)]  BY <1>3
<1>8. BookTypes  BY <1>2, <1>3, <1>4, <1>6, <1>7 DEF BookTypes
<1>9. BookLocks  BY <1>2, <1>3 DEF BookLocks
<1>10. \A u \in Users : mail[u] = <<>>  BY <1>3
<1>11. \A u \in Users : Mails(mail[u]) = {}  BY <1>10 DEF Mails
<1>12. mail \in [Users -> Seq(AnyMail)]  BY <1>3
<1> QED  BY <1>8, <1>9, <1>11, <1>12 DEF BookInv, GoodMail

LEMMA BookStutters == ASSUME BookInv, UNCHANGED bookVars PROVE BookInv'
BY DEF BookInv, BookTypes, BookLocks, GoodMail, Good, bookVars

LEMMA EditStep == ASSUME BookInv, NEW u \in Users, Edit(u) PROVE BookInv'
<1>1. /\ edits' = edits + 1 /\ doc' = [doc EXCEPT ![u] = @ \cup {edits'}]
      /\ UNCHANGED <<role, vkey, newest, mail, book, dialog, listing, rotating, lastSeq,
                     keys, had, removedAt, missed>>
  BY DEF Edit
<1>2. edits \in Nat /\ doc \in [Users -> SUBSET (1..edits)] /\ keys \in Nat
      /\ newest \in [seq : Nat, key : 1..keys, text : SUBSET (1..edits)]
  BY DEF BookInv, BookTypes
<1>3. 1..edits \subseteq 1..edits' /\ edits' \in Nat /\ edits' \in 1..edits'  BY <1>1, <1>2
<1>4. doc' \in [Users -> SUBSET (1..edits')]  BY <1>1, <1>2, <1>3
<1>5. newest' \in [seq : Nat, key : 1..keys, text : SUBSET (1..edits')]  BY <1>1, <1>2, <1>3
<1>6. BookTypes'  BY <1>1, <1>3, <1>4, <1>5 DEF BookInv, BookTypes
<1>7. BookLocks'  BY <1>1 DEF BookInv, BookLocks
<1>8. Grows  BY <1>1, <1>2, <1>3 DEF Grows
<1>9. GoodMail'  BY <1>1, <1>8, OldIsFine, FineStays
<1> QED  BY <1>6, <1>7, <1>9 DEF BookInv

(* Steps that make no key, edit, snapshot or removal.                      *)
LEMMA KeepsGrow ==
  ASSUME BookInv, UNCHANGED <<keys, edits, newest, removedAt>>,
         \A u \in Users : role'[u] = NoRole => role[u] = NoRole
  PROVE  Grows
BY DEF BookInv, BookTypes, Grows

LEMMA OpenDialogStep == ASSUME BookInv, NEW u \in Users, OpenDialog(u) PROVE BookInv'
<1>1. /\ dialog' = [dialog EXCEPT ![u] = 0] /\ mail' = MemberList(mail, u)
      /\ UNCHANGED <<role, vkey, newest, book, listing, rotating, doc, lastSeq,
                     keys, edits, had, removedAt, missed>>
  BY DEF OpenDialog, Live
<1>2. Grows  BY <1>1, KeepsGrow
<1>3. Fine(MemberList(mail, u))  BY <1>2, OldIsFine, MemberListIsFine
<1>4. GoodMail'  BY <1>1, <1>2, <1>3, FineStays
<1>5. BookTypes'  BY <1>1 DEF BookInv, BookTypes
<1>6. BookLocks'  BY <1>1 DEF BookInv, BookLocks
<1> QED  BY <1>4, <1>5, <1>6 DEF BookInv

LEMMA AskListStep == ASSUME BookInv, NEW u \in Users, AskList(u) PROVE BookInv'
<1>1. /\ mail' = VaultList(mail, u)
      /\ UNCHANGED <<role, vkey, newest, book, dialog, listing, rotating, doc, lastSeq,
                     keys, edits, had, removedAt, missed>>
  BY DEF AskList
<1>2. Grows  BY <1>1, KeepsGrow
<1>3. Fine(VaultList(mail, u))  BY <1>2, OldIsFine, VaultListIsFine
<1>4. GoodMail'  BY <1>1, <1>2, <1>3, FineStays
<1>5. BookTypes'  BY <1>1 DEF BookInv, BookTypes
<1>6. BookLocks'  BY <1>1 DEF BookInv, BookLocks
<1> QED  BY <1>4, <1>5, <1>6 DEF BookInv

LEMMA InviteStep == ASSUME BookInv, NEW u \in Users, NEW v \in Users, Invite(u, v) PROVE BookInv'
<1> DEFINE key == IF dialog[u] = 0 THEN book[u] ELSE dialog[u]
<1>1. /\ dialog[u] # -1 /\ key # 0 /\ role[v] = NoRole /\ removedAt[v] = 0
      /\ role' = [role EXCEPT ![v] = "viewer"] /\ vkey' = [vkey EXCEPT ![v] = key]
      /\ mail' = Sent(mail, {v}, Note("vault_invited"))
      /\ UNCHANGED <<newest, book, dialog, listing, rotating, doc, lastSeq,
                     keys, edits, had, removedAt, missed>>
  BY DEF Invite, None, Live
<1>2. dialog[u] \in -1..keys /\ book[u] \in 0..keys /\ keys \in Nat /\ newest.seq \in Nat
  BY DEF BookInv, BookTypes
<1>3. key \in 1..keys  BY <1>1, <1>2
<1> HIDE DEF key
<1>4. Grows
  <2>1. \A w \in Users : role'[w] = NoRole => role[w] = NoRole  BY <1>1
  <2> QED  BY <1>1, <2>1, KeepsGrow
<1>5. Fine(Sent(mail, {v}, Note("vault_invited")))
  BY <1>2, <1>4, OldIsFine, NotesAreFine DEF MailTypes
<1>6. GoodMail'  BY <1>1, <1>4, <1>5, FineStays
<1>7. role' \in [Users -> Roles] /\ vkey' \in [Users -> 0..keys]
  BY <1>1, <1>2, <1>3 DEF BookInv, BookTypes, Roles
<1>8. BookTypes'  BY <1>1, <1>7 DEF BookInv, BookTypes
<1>9. v # Owner  BY <1>1, SharedBookAssumption DEF BookInv, BookLocks
<1>10. /\ role \in [Users -> Roles] /\ vkey \in [Users -> 0..keys]
  BY DEF BookInv, BookTypes
<1>11. BookLocks'
  BY <1>1, <1>2, <1>3, <1>9, <1>10, SharedBookAssumption DEF BookInv, BookLocks
<1> QED  BY <1>6, <1>8, <1>11 DEF BookInv

LEMMA RemoveStep == ASSUME BookInv, NEW u \in Users, NEW v \in Users, Remove(u, v) PROVE BookInv'
<1>1. /\ role[u] = "owner" /\ u # v
      /\ role' = [role EXCEPT ![v] = NoRole] /\ vkey' = [vkey EXCEPT ![v] = 0]
      /\ removedAt' = [removedAt EXCEPT ![v] = keys]
      /\ mail' = Sent(Sent(mail, {u}, Note("vault_member_removed")), {v}, Note("vault_removed"))
      /\ UNCHANGED <<newest, book, dialog, listing, rotating, doc, lastSeq,
                     keys, edits, had, missed>>
  BY DEF Remove
<1>2. keys \in Nat \ {0} /\ newest.seq \in Nat /\ u = Owner /\ v # Owner /\ edits \in Nat
  BY <1>1 DEF BookInv, BookTypes, BookLocks
<1>3. /\ role \in [Users -> Roles] /\ vkey \in [Users -> 0..keys] /\ removedAt \in [Users -> 0..keys]
      /\ had \in [Users -> SUBSET (0..keys)]
  BY DEF BookInv, BookTypes
<1>4. Grows  BY <1>1, <1>2, <1>3 DEF Grows
<1>5. Fine(Sent(mail, {u}, Note("vault_member_removed")))
  BY <1>2, <1>4, OldIsFine, NotesAreFine DEF MailTypes
<1>6. Fine(Sent(Sent(mail, {u}, Note("vault_member_removed")), {v}, Note("vault_removed")))
  BY <1>2, <1>4, <1>5, NotesAreFine DEF MailTypes
<1>7. GoodMail'  BY <1>1, <1>4, <1>6, FineStays
<1>8. /\ role' \in [Users -> Roles] /\ vkey' \in [Users -> 0..keys]
      /\ removedAt' \in [Users -> 0..keys]
  BY <1>1, <1>2, <1>3 DEF Roles
<1>9. BookTypes'  BY <1>1, <1>8 DEF BookInv, BookTypes
<1>10. BookLocks'
  BY <1>1, <1>2, <1>3, SharedBookAssumption DEF BookInv, BookLocks
<1> QED  BY <1>7, <1>9, <1>10 DEF BookInv

LEMMA TimeoutStep == ASSUME BookInv, NEW u \in Users, RotationTimeout(u) PROVE BookInv'
<1>1. /\ rotating' = [rotating EXCEPT ![u] = 0]
      /\ UNCHANGED <<role, vkey, newest, mail, book, dialog, listing, doc, lastSeq,
                     keys, edits, had, removedAt, missed>>
  BY DEF RotationTimeout
<1>2. Grows  BY <1>1, KeepsGrow
<1>3. GoodMail'  BY <1>1, <1>2, OldIsFine, FineStays
<1>4. keys \in Nat /\ rotating \in [Users -> 0..keys]  BY DEF BookInv, BookTypes
<1>5. rotating' \in [Users -> 0..keys] /\ \A w \in Users : rotating'[w] # 0 => rotating[w] # 0
  BY <1>1, <1>4
<1>6. BookTypes'  BY <1>1, <1>5 DEF BookInv, BookTypes
<1>7. BookLocks'  BY <1>1, <1>5 DEF BookInv, BookLocks
<1> QED  BY <1>3, <1>6, <1>7 DEF BookInv

LEMMA PushStep == ASSUME BookInv, NEW u \in Users, Push(u) PROVE BookInv'
<1> DEFINE next == [seq |-> newest.seq + 1, key |-> book[u], text |-> doc[u]]
<1>1. /\ book[u] # 0
      /\ UNCHANGED <<role, vkey, book, dialog, listing, rotating, doc, lastSeq,
                     keys, edits, had, removedAt, missed>>
      /\ \/ /\ newest' = next
            /\ mail' = Sent(mail, {v \in Members \ {u} : book[v] # 0}, Snapshot(newest'))
         \/ UNCHANGED <<newest, mail>>
  BY DEF Push
<1>2. /\ keys \in Nat /\ newest.seq \in Nat /\ edits \in Nat /\ book[u] \in 0..keys
      /\ doc[u] \in SUBSET (1..edits) /\ newest.key \in 1..keys /\ newest.text \subseteq 1..edits
      /\ newest \in [seq : Nat, key : 1..keys, text : SUBSET (1..edits)]
  BY DEF BookInv, BookTypes
<1>3. /\ next.seq = newest.seq + 1 /\ next.key = book[u] /\ next.text = doc[u]
      /\ next \in [seq : Nat, key : 1..keys, text : SUBSET (1..edits)]
  BY <1>1, <1>2
<1> HIDE DEF next
<1>4. /\ newest' \in [seq : Nat, key : 1..keys, text : SUBSET (1..edits)]
      /\ newest'.seq \in Nat /\ (newest' = newest \/ newest'.seq > newest.seq)
      /\ newest'.seq >= newest.seq /\ newest'.key \in 0..keys /\ newest'.text \subseteq 1..edits
  BY <1>1, <1>2, <1>3
<1>5. Grows  BY <1>1, <1>2, <1>4 DEF Grows
<1>6. ASSUME newest' = next,
             mail' = Sent(mail, {v \in Members \ {u} : book[v] # 0}, Snapshot(newest'))
      PROVE  GoodMail'
  <2>1. PICK to : to = {v \in Members \ {u} : book[v] # 0}  OBVIOUS
  <2>2. newest'.seq # 0  BY <1>2, <1>3, <1>6
  <2>3. Fine(mail)  BY OldIsFine
  <2>4. newest'.text \subseteq 1..edits'  BY <1>1, <1>4
  <2>5. Fine(Sent(mail, to, Snapshot(newest')))
    BY <1>4, <1>5, <2>2, <2>3, <2>4, SnapshotsAreFine
  <2>6. mail' = Sent(mail, to, Snapshot(newest'))  BY <1>6, <2>1
  <2> QED  BY <1>5, <2>5, <2>6, FineStays
<1>7. ASSUME UNCHANGED <<newest, mail>> PROVE GoodMail'
  <2>1. Fine(mail) /\ mail' = mail  BY <1>7, OldIsFine
  <2> QED  BY <1>5, <2>1, FineStays
<1>8. GoodMail'  BY <1>1, <1>6, <1>7
<1>9. 1..newest.seq \subseteq 1..newest'.seq /\ 0..newest.seq \subseteq 0..newest'.seq
  BY <1>2, <1>4
<1>10. missed' \in [Users -> SUBSET (1..newest'.seq)] /\ lastSeq' \in [Users -> 0..newest'.seq]
  BY <1>1, <1>9 DEF BookInv, BookTypes
<1>11. BookTypes'  BY <1>1, <1>4, <1>10 DEF BookInv, BookTypes
<1>12. BookLocks'  BY <1>1 DEF BookInv, BookLocks
<1> QED  BY <1>8, <1>11, <1>12 DEF BookInv

LEMMA OnSyncStep == ASSUME BookInv, NEW u \in Users, OnSync(u) PROVE BookInv'
<1>1. /\ mail[u] # <<>> /\ Head(mail[u]).type = "sync" /\ mail' = Taken(u)
      /\ UNCHANGED <<role, vkey, newest, book, dialog, listing, rotating,
                     keys, edits, had, removedAt>>
      /\ \/ /\ doc' = [doc EXCEPT ![u] = @ \cup Head(mail[u]).text]
            /\ lastSeq' = [lastSeq EXCEPT ![u] = Head(mail[u]).seq] /\ UNCHANGED missed
         \/ /\ missed' = [missed EXCEPT ![u] = @ \cup {Head(mail[u]).seq}]
            /\ UNCHANGED <<doc, lastSeq>>
  BY DEF OnSync, Got, Ready
<1>2. Grows  BY <1>1, KeepsGrow
<1>3. Fine(Taken(u)) /\ Good(u, Head(mail[u]))  BY <1>1, OldIsFine
<1>4. GoodMail'  BY <1>1, <1>2, <1>3, FineStays
<1>5. PICK m : m = Head(mail[u])  OBVIOUS
<1>11. newest.seq \in Nat  BY DEF BookInv, BookTypes
<1>6. newest.seq \in Nat /\ m.seq \in 1..newest.seq /\ m.seq \in 0..newest.seq /\ m.text \subseteq 1..edits
  BY <1>1, <1>3, <1>5, <1>11 DEF Good
<1>7. /\ doc \in [Users -> SUBSET (1..edits)] /\ lastSeq \in [Users -> 0..newest.seq]
      /\ missed \in [Users -> SUBSET (1..newest.seq)]
  BY DEF BookInv, BookTypes
<1>8. /\ doc' \in [Users -> SUBSET (1..edits)] /\ lastSeq' \in [Users -> 0..newest.seq]
      /\ missed' \in [Users -> SUBSET (1..newest.seq)]
  BY <1>1, <1>5, <1>6, <1>7
<1>9. BookTypes'  BY <1>1, <1>8 DEF BookInv, BookTypes
<1>10. BookLocks'  BY <1>1 DEF BookInv, BookLocks
<1> QED  BY <1>4, <1>9, <1>10 DEF BookInv

LEMMA OnCaughtUpStep == ASSUME BookInv, NEW u \in Users, OnCaughtUp(u) PROVE BookInv'
<1>1. /\ mail[u] # <<>> /\ mail' = Taken(u)
      /\ UNCHANGED <<role, vkey, newest, book, dialog, listing, rotating, doc,
                     keys, edits, had, removedAt, missed>>
      /\ lastSeq' = lastSeq \/ lastSeq' = [lastSeq EXCEPT ![u] = Head(mail[u]).seq]
  BY DEF OnCaughtUp, Got, Ready
<1>2. Grows  BY <1>1, KeepsGrow
<1>3. Fine(Taken(u)) /\ Good(u, Head(mail[u]))  BY <1>1, OldIsFine
<1>4. GoodMail'  BY <1>1, <1>2, <1>3, FineStays
<1>5. Head(mail[u]).seq \in 0..newest.seq  BY <1>3 DEF Good
<1>6. lastSeq' \in [Users -> 0..newest.seq]  BY <1>1, <1>5 DEF BookInv, BookTypes
<1>7. BookTypes'  BY <1>1, <1>6 DEF BookInv, BookTypes
<1>8. BookLocks'  BY <1>1 DEF BookInv, BookLocks
<1> QED  BY <1>4, <1>7, <1>8 DEF BookInv

LEMMA OnNoticeStep == ASSUME BookInv, NEW u \in Users, OnNotice(u) PROVE BookInv'
<1>1. /\ mail[u] # <<>> /\ mail' = VaultList(Taken(u), u)
      /\ UNCHANGED <<role, vkey, newest, book, dialog, listing, rotating, doc, lastSeq,
                     keys, edits, had, removedAt, missed>>
  BY DEF OnNotice, Got, Ready
<1>2. Grows  BY <1>1, KeepsGrow
<1>3. Fine(VaultList(Taken(u), u))  BY <1>1, <1>2, OldIsFine, VaultListIsFine
<1>4. GoodMail'  BY <1>1, <1>2, <1>3, FineStays
<1>5. BookTypes'  BY <1>1 DEF BookInv, BookTypes
<1>6. BookLocks'  BY <1>1 DEF BookInv, BookLocks
<1> QED  BY <1>4, <1>5, <1>6 DEF BookInv

LEMMA OnBookListStep == ASSUME BookInv, NEW u \in Users, OnBookList(u) PROVE BookInv'
<1>1. /\ mail[u] # <<>> /\ Head(mail[u]).type = "vault_list" /\ mail' = Taken(u)
      /\ listing' = [listing EXCEPT ![u] = Head(mail[u]).key]
      /\ had' = [had EXCEPT ![u] = @ \cup {Head(mail[u]).key}]
      /\ UNCHANGED <<role, vkey, newest, book, dialog, rotating, doc, lastSeq,
                     keys, edits, removedAt, missed>>
  BY DEF OnBookList, Got, Ready
<1>2. Grows  BY <1>1, KeepsGrow
<1>3. Fine(Taken(u)) /\ Good(u, Head(mail[u]))  BY <1>1, OldIsFine
<1>4. GoodMail'  BY <1>1, <1>2, <1>3, FineStays
<1>5. PICK k : k = Head(mail[u]).key  OBVIOUS
<1>6. /\ k \in 0..keys /\ k \in -1..keys /\ keys \in Nat
      /\ removedAt[u] # 0 => k \in 0..removedAt[u]
      /\ role[u] = NoRole /\ removedAt[u] = 0 => k = 0
  BY <1>1, <1>3, <1>5 DEF Good, BookInv, BookTypes
<1>7. /\ listing \in [Users -> -1..keys] /\ had \in [Users -> SUBSET (0..keys)]
  BY DEF BookInv, BookTypes
<1>8. listing' \in [Users -> -1..keys] /\ had' \in [Users -> SUBSET (0..keys)]
  BY <1>1, <1>5, <1>6, <1>7
<1>9. BookTypes'  BY <1>1, <1>8 DEF BookInv, BookTypes
<1>10. BookLocks'  BY <1>1, <1>5, <1>6, <1>7 DEF BookInv, BookLocks
<1> QED  BY <1>4, <1>9, <1>10 DEF BookInv

LEMMA ListDoneStep == ASSUME BookInv, NEW u \in Users, ListDone(u) PROVE BookInv'
<1>1. /\ listing[u] # -1 /\ book' = [book EXCEPT ![u] = listing[u]]
      /\ dialog' = [dialog EXCEPT ![u] = book[u]] \/ dialog' = dialog
      /\ listing' = [listing EXCEPT ![u] = -1]
      /\ mail' = mail \/ mail' = MemberList(Replay(mail, u), u)
      /\ UNCHANGED <<role, vkey, newest, rotating, doc, lastSeq, keys, edits,
                     had, removedAt, missed>>
  BY DEF ListDone, None
<1>2. Grows  BY <1>1, KeepsGrow
<1>3. Fine(Replay(mail, u))  BY <1>1, <1>2, OldIsFine, ReplayIsFine
<1>4. Fine(MemberList(Replay(mail, u), u))  BY <1>2, <1>3, MemberListIsFine
<1>5. GoodMail'  BY <1>1, <1>2, <1>4, OldIsFine, FineStays
<1>6. /\ listing \in [Users -> -1..keys] /\ book \in [Users -> 0..keys] /\ keys \in Nat
      /\ dialog \in [Users -> -1..keys]
  BY DEF BookInv, BookTypes
<1>7. listing[u] \in 0..keys /\ book[u] \in -1..keys /\ -1 \in -1..keys  BY <1>1, <1>6
<1>8. listing' \in [Users -> -1..keys] /\ book' \in [Users -> 0..keys] /\ dialog' \in [Users -> -1..keys]
  BY <1>1, <1>6, <1>7
<1>9. BookTypes'  BY <1>1, <1>8 DEF BookInv, BookTypes
<1>10. \A w \in Users : role[w] = NoRole /\ removedAt[w] = 0 => book'[w] = 0 /\ listing'[w] <= 0
  BY <1>1, <1>6, <1>7 DEF BookInv, BookLocks
<1>11. BookLocks'  BY <1>1, <1>10 DEF BookInv, BookLocks
<1> QED  BY <1>5, <1>9, <1>11 DEF BookInv

LEMMA OnRemovedStep == ASSUME BookInv, NEW u \in Users, OnRemoved(u) PROVE BookInv'
<1>1. /\ mail[u] # <<>> /\ mail' = Taken(u)
      /\ book' = [book EXCEPT ![u] = 0] /\ dialog' = [dialog EXCEPT ![u] = -1]
      /\ UNCHANGED <<role, vkey, newest, listing, rotating, doc, lastSeq, keys,
                     edits, had, removedAt, missed>>
  BY DEF OnRemoved, Got, Ready, None
<1>2. Grows  BY <1>1, KeepsGrow
<1>3. Fine(Taken(u))  BY <1>1, OldIsFine
<1>4. GoodMail'  BY <1>1, <1>2, <1>3, FineStays
<1>5. book' \in [Users -> 0..keys] /\ dialog' \in [Users -> -1..keys]
  BY <1>1 DEF BookInv, BookTypes
<1>6. BookTypes'  BY <1>1, <1>5 DEF BookInv, BookTypes
<1>7. \A w \in Users : book'[w] = book[w] \/ book'[w] = 0  BY <1>1 DEF BookInv, BookTypes
<1>8. BookLocks'  BY <1>1, <1>7 DEF BookInv, BookLocks
<1> QED  BY <1>4, <1>6, <1>8 DEF BookInv

LEMMA BeginRotationStep == ASSUME BookInv, NEW u \in Users, BeginRotation(u) PROVE BookInv'
<1>1. /\ mail[u] # <<>> /\ Head(mail[u]).type = "vault_member_removed"
      /\ keys' = keys + 1 /\ rotating' = [rotating EXCEPT ![u] = keys']
      /\ mail' = MemberList(Taken(u), u)
      /\ UNCHANGED <<role, vkey, newest, book, dialog, listing, doc, lastSeq,
                     edits, had, removedAt, missed>>
  BY DEF BeginRotation, Got, Ready
<1>2. keys \in Nat \ {0} /\ newest.seq \in Nat /\ edits \in Nat  BY DEF BookInv, BookTypes
<1>3. Grows  BY <1>1, <1>2 DEF Grows
<1>4. Fine(Taken(u)) /\ Good(u, Head(mail[u]))  BY <1>1, OldIsFine
<1>5. Fine(MemberList(Taken(u), u))  BY <1>3, <1>4, MemberListIsFine
<1>6. GoodMail'  BY <1>1, <1>3, <1>5, FineStays
<1>7. u = Owner  BY <1>1, <1>4 DEF Good
<1>8. /\ 0..keys \subseteq 0..keys' /\ -1..keys \subseteq -1..keys' /\ 1..keys \subseteq 1..keys'
      /\ keys' \in 0..keys' /\ keys' \in Nat \ {0}
  BY <1>1, <1>2
<1>9. /\ vkey \in [Users -> 0..keys] /\ book \in [Users -> 0..keys] /\ rotating \in [Users -> 0..keys]
      /\ dialog \in [Users -> -1..keys] /\ listing \in [Users -> -1..keys]
      /\ newest \in [seq : Nat, key : 1..keys, text : SUBSET (1..edits)]
      /\ had \in [Users -> SUBSET (0..keys)] /\ removedAt \in [Users -> 0..keys]
  BY DEF BookInv, BookTypes
<1>10. /\ vkey' \in [Users -> 0..keys'] /\ book' \in [Users -> 0..keys']
       /\ rotating' \in [Users -> 0..keys'] /\ removedAt' \in [Users -> 0..keys']
       /\ dialog' \in [Users -> -1..keys'] /\ listing' \in [Users -> -1..keys']
  BY <1>1, <1>8, <1>9
<1>11. had' \in [Users -> SUBSET (0..keys')]  BY <1>1, <1>8, <1>9
<1>12. newest' \in [seq : Nat, key : 1..keys', text : SUBSET (1..edits')]  BY <1>1, <1>8, <1>9
<1>13. BookTypes'  BY <1>1, <1>8, <1>10, <1>11, <1>12 DEF BookInv, BookTypes
<1>14. BookLocks'  BY <1>1, <1>7, <1>9 DEF BookInv, BookLocks
<1> QED  BY <1>6, <1>13, <1>14 DEF BookInv

LEMMA OnMembersStep == ASSUME BookInv, NEW u \in Users, OnMembers(u) PROVE BookInv'
<1>1. /\ mail[u] # <<>>
      /\ UNCHANGED <<role, newest, dialog, listing, doc, lastSeq, keys, edits, removedAt, missed>>
  BY DEF OnMembers, Got, Ready
<1>2. Grows  BY <1>1, KeepsGrow
<1>3. Fine(Taken(u))  BY <1>1, OldIsFine
<1>4. keys \in Nat /\ newest.seq \in Nat /\ rotating[u] \in 0..keys
  BY DEF BookInv, BookTypes
<1>5. CASE rotating[u] = 0
  <2>1. mail' = Taken(u) /\ UNCHANGED <<vkey, book, rotating, had>>
    BY <1>5 DEF OnMembers
  <2>2. GoodMail'  BY <1>2, <1>3, <2>1, FineStays
  <2>3. BookTypes'  BY <1>1, <2>1 DEF BookInv, BookTypes
  <2>4. BookLocks'  BY <1>1, <2>1 DEF BookInv, BookLocks
  <2> QED  BY <2>2, <2>3, <2>4 DEF BookInv
<1>6. CASE rotating[u] # 0
  <2>1. PICK k, listed : k = rotating[u] /\ listed = Head(mail[u]).text  OBVIOUS
  <2>2. /\ HandleRotate(u, k, listed)
        /\ book' = IF book[u] = 0 THEN book ELSE [book EXCEPT ![u] = k]
        /\ had' = [had EXCEPT ![u] = @ \cup {k}]
        /\ rotating' = [rotating EXCEPT ![u] = 0]
    BY <1>6, <2>1 DEF OnMembers
  <2>3. k \in 1..keys /\ k \in 0..keys /\ u = Owner /\ role[Owner] # NoRole /\ removedAt[u] = 0
    BY <1>4, <1>6, <2>1, SharedBookAssumption DEF BookInv, BookLocks
  <2>4. \/ /\ vkey' = [v \in Users |-> IF v \in Members THEN k ELSE vkey[v]]
           /\ mail' = Sent(Taken(u), Members, Note("vault_key_rotated"))
        \/ vkey' = vkey /\ mail' = Taken(u)
    BY <2>2 DEF HandleRotate, Taken
  <2>5. PICK to : to = Members  OBVIOUS
  <2>6. Fine(Sent(Taken(u), to, Note("vault_key_rotated")))
    BY <1>2, <1>3, <1>4, NotesAreFine DEF MailTypes
  <2>7. GoodMail'  BY <1>2, <1>3, <2>4, <2>5, <2>6, FineStays
  <2>8. /\ book \in [Users -> 0..keys] /\ had \in [Users -> SUBSET (0..keys)]
        /\ rotating \in [Users -> 0..keys] /\ vkey \in [Users -> 0..keys]
    BY DEF BookInv, BookTypes
  <2>9. book' = book \/ book' = [book EXCEPT ![u] = k]  BY <2>2
  <2>10. /\ book' \in [Users -> 0..keys] /\ had' \in [Users -> SUBSET (0..keys)]
         /\ rotating' \in [Users -> 0..keys]
    BY <1>4, <2>2, <2>3, <2>8, <2>9
  <2>11. vkey' \in [Users -> 0..keys]  BY <2>3, <2>4, <2>8
  <2>12. \A v \in Users : vkey'[v] = vkey[v] \/ (vkey'[v] = k /\ role[v] # NoRole)
    BY <2>4 DEF Members
  <2>13. BookTypes'  BY <1>1, <2>10, <2>11 DEF BookInv, BookTypes
  <2>14. \A v \in Users : role[v] = NoRole <=> vkey'[v] = 0
    BY <2>3, <2>12 DEF BookInv, BookLocks
  <2>15. \A v \in Users : rotating'[v] # 0 => rotating[v] # 0  BY <2>2, <2>8
  <2>16. \A v \in Users : v # u => had'[v] = had[v]  BY <2>2, <2>8
  <2>18. \A v \in Users : v # u => book'[v] = book[v]  BY <2>8, <2>9
  <2>17. BookLocks'  BY <1>1, <2>3, <2>14, <2>15, <2>16, <2>18 DEF BookInv, BookLocks
  <2> QED  BY <2>7, <2>13, <2>17 DEF BookInv
<1> QED  BY <1>5, <1>6

LEMMA BookInvStep == BookInv /\ [SharedBookNext]_bookVars => BookInv'
<1> SUFFICES ASSUME BookInv, [SharedBookNext]_bookVars PROVE BookInv'
  OBVIOUS
<1>1. CASE UNCHANGED bookVars  BY <1>1, BookStutters
<1>2. ASSUME NEW u \in Users, Browser(u) PROVE BookInv'
  BY <1>2, OnSyncStep, OnCaughtUpStep, OnNoticeStep, OnBookListStep, ListDoneStep,
     OnRemovedStep, BeginRotationStep, OnMembersStep, PushStep DEF Browser
<1>3. ASSUME NEW u \in Users, OpenDialog(u) \/ Edit(u) \/ AskList(u) \/ RotationTimeout(u)
      PROVE  BookInv'
  BY <1>3, OpenDialogStep, EditStep, AskListStep, TimeoutStep
<1>4. ASSUME NEW u \in Users, NEW v \in Users, Invite(u, v) \/ Remove(u, v) PROVE BookInv'
  BY <1>4, InviteStep, RemoveStep
<1> QED  BY <1>1, <1>2, <1>3, <1>4 DEF SharedBookNext

(* Whoever has been removed never has a key that was made after that: no   *)
(* list or notice on its way, and no rotation, brings it to his browser.   *)
THEOREM RemovedAreLockedOutAlways == SharedBookSpec => []RemovedAreLockedOut
<1>1. SharedBookInit => BookInv  BY BookInits
<1>2. BookInv => RemovedAreLockedOut  BY DEF BookInv, BookLocks, RemovedAreLockedOut
<1> QED  BY <1>1, <1>2, BookInvStep, PTL DEF SharedBookSpec
-----------------------------------------------------------------------------
(* SharedBook: at most one removal waits to be confirmed, and while it     *)
(* does nothing is rotating and a key may still be made; and what a        *)
(* browser does not have of the newest snapshot it was given or is on its  *)
(* way, before the number that would hide it.                              *)

IsNotice(m) == m.type = "vault_member_removed"
Noticed(s) == \E i \in DOMAIN s : IsNotice(s[i])
Single(s) == \A i, j \in DOMAIN s : IsNotice(s[i]) /\ IsNotice(s[j]) => i = j

NoticeInv ==
  /\ keys <= MaxBookKeys
  /\ \A u \in Users : rotating[u] # 0 => rotating[u] = keys
  /\ Single(mail[Owner])
  /\ Noticed(mail[Owner]) => keys < MaxBookKeys /\ rotating[Owner] = 0

Brings(m) == m.type = "sync" /\ m.seq = newest.seq
Hides(m) == m.type = "caught_up" /\ m.seq = newest.seq
Carried(s) == \E i \in DOMAIN s : Brings(s[i])
Ordered(s) == \A i \in DOMAIN s : Hides(s[i]) => \E j \in DOMAIN s : j < i /\ Brings(s[j])
Read(u) == newest.text \subseteq doc[u] \/ newest.seq \in missed[u]

ReadInv ==
  \A u \in Users :
    /\ Read(u) \/ Ordered(mail[u])
    /\ lastSeq[u] = newest.seq => Read(u) \/ Carried(mail[u])
    /\ role[u] # NoRole /\ book[u] # 0 => Read(u) \/ Carried(mail[u])

(* Boxes with no further notice, and those that also carry what the others *)
(* did and hide no more.                                                   *)
Calm(from, box) ==
  \A w \in Users : /\ box[w] \in Seq(AnyMail)
                   /\ Single(from[w]) => Single(box[w])
                   /\ Noticed(box[w]) => Noticed(from[w])
Tidy(from, box) ==
  /\ Calm(from, box)
  /\ \A w \in Users : /\ Carried(from[w]) => Carried(box[w])
                      /\ Ordered(from[w]) => Ordered(box[w])

LEMMA Appended ==
  ASSUME NEW s \in Seq(AnyMail), NEW m \in AnyMail
  PROVE  /\ Append(s, m) \in Seq(AnyMail)
         /\ Carried(s) \/ Brings(m) => Carried(Append(s, m))
         /\ Ordered(s) /\ (Hides(m) => Carried(s)) => Ordered(Append(s, m))
         /\ Single(s) /\ ~(Noticed(s) /\ IsNotice(m)) => Single(Append(s, m))
         /\ Noticed(Append(s, m)) => Noticed(s) \/ IsNotice(m)
<1>1. PICK t : t = Append(s, m)  OBVIOUS
<1>2. PICK last : last = Len(s) + 1  OBVIOUS
<1>3. /\ t \in Seq(AnyMail) /\ last \in DOMAIN t /\ t[last] = m
      /\ DOMAIN s \subseteq Nat /\ last \in Nat
      /\ \A i \in DOMAIN t : i = last \/ i \in DOMAIN s
      /\ \A i \in DOMAIN s : i \in DOMAIN t /\ t[i] = s[i] /\ i < last
  BY <1>1, <1>2
<1>4. Carried(s) \/ Brings(m) => Carried(t)  BY <1>3 DEF Carried
<1>5. Ordered(s) /\ (Hides(m) => Carried(s)) => Ordered(t)  BY <1>3 DEF Ordered, Carried
<1>6. Single(s) /\ ~(Noticed(s) /\ IsNotice(m)) => Single(t)  BY <1>3 DEF Single, Noticed
<1>7. Noticed(t) => Noticed(s) \/ IsNotice(m)  BY <1>3 DEF Noticed
<1> QED  BY <1>1, <1>3, <1>4, <1>5, <1>6, <1>7

LEMMA Shortened ==
  ASSUME NEW s \in Seq(AnyMail), s # <<>>
  PROVE  /\ Tail(s) \in Seq(AnyMail)
         /\ ~Brings(Head(s)) /\ Carried(s) => Carried(Tail(s))
         /\ ~Brings(Head(s)) /\ Ordered(s) => Ordered(Tail(s))
         /\ Single(s) => Single(Tail(s))
         /\ Noticed(Tail(s)) => Noticed(s)
         /\ Single(s) /\ IsNotice(Head(s)) => ~Noticed(Tail(s))
         /\ Ordered(s) => ~Hides(Head(s))
         /\ IsNotice(Head(s)) => Noticed(s)
<1>1. PICK t : t = Tail(s)  OBVIOUS
<1>2. /\ t \in Seq(AnyMail) /\ 1 \in DOMAIN s /\ s[1] = Head(s) /\ DOMAIN s \subseteq Nat \ {0}
      /\ DOMAIN t \subseteq Nat \ {0}
      /\ \A i \in DOMAIN t : i + 1 \in DOMAIN s /\ t[i] = s[i + 1]
      /\ \A i \in DOMAIN s : i = 1 \/ (i - 1 \in DOMAIN t /\ t[i - 1] = s[i])
  BY <1>1
<1>3. ~Brings(Head(s)) /\ Carried(s) => Carried(t)
  <2> SUFFICES ASSUME ~Brings(Head(s)), NEW i \in DOMAIN s, Brings(s[i]) PROVE Carried(t)
    BY DEF Carried
  <2>1. i - 1 \in DOMAIN t /\ t[i - 1] = s[i]  BY <1>2
  <2> QED  BY <2>1 DEF Carried
<1>4. ~Brings(Head(s)) /\ Ordered(s) => Ordered(t)
  <2> SUFFICES ASSUME ~Brings(Head(s)), Ordered(s), NEW i \in DOMAIN t, Hides(t[i])
               PROVE  \E j \in DOMAIN t : j < i /\ Brings(t[j])
    BY DEF Ordered
  <2>1. i + 1 \in DOMAIN s /\ Hides(s[i + 1])  BY <1>2
  <2>2. PICK j \in DOMAIN s : j < i + 1 /\ Brings(s[j])  BY <2>1 DEF Ordered
  <2>3. j - 1 \in DOMAIN t /\ Brings(t[j - 1])  BY <1>2, <2>2
  <2>4. j - 1 < i  BY <1>2, <2>2
  <2> QED  BY <2>3, <2>4
<1>5. Single(s) => Single(t)  BY <1>2 DEF Single
<1>6. Noticed(t) => Noticed(s)  BY <1>2 DEF Noticed
<1>7. Single(s) /\ IsNotice(Head(s)) => ~Noticed(t)
  <2> SUFFICES ASSUME Single(s), IsNotice(Head(s)), NEW i \in DOMAIN t, IsNotice(t[i]) PROVE FALSE
    BY DEF Noticed
  <2>1. i + 1 \in DOMAIN s /\ IsNotice(s[i + 1]) /\ i + 1 # 1  BY <1>2
  <2> QED  BY <1>2, <2>1 DEF Single
<1>8. Ordered(s) => ~Hides(Head(s))  BY <1>2 DEF Ordered
<1>9. IsNotice(Head(s)) => Noticed(s)  BY <1>2 DEF Noticed
<1> QED  BY <1>1, <1>2, <1>3, <1>4, <1>5, <1>6, <1>7, <1>8, <1>9

LEMMA MailIsTidy == ASSUME GoodMail PROVE Tidy(mail, mail)
BY DEF GoodMail, Tidy, Calm

LEMMA TakenIsTidy ==
  ASSUME GoodMail, NEW u \in Users, mail[u] # <<>>
  PROVE  /\ Calm(mail, Taken(u))
         /\ Head(mail[u]).type # "sync" => Tidy(mail, Taken(u))
<1>1. mail \in [Users -> Seq(AnyMail)]  BY DEF GoodMail
<1>2. \A w \in Users : Taken(u)[w] = IF w = u THEN Tail(mail[u]) ELSE mail[w]  BY <1>1 DEF Taken
<1>3. mail[u] \in Seq(AnyMail)  BY <1>1
<1>4. /\ Tail(mail[u]) \in Seq(AnyMail)
      /\ ~Brings(Head(mail[u])) /\ Carried(mail[u]) => Carried(Tail(mail[u]))
      /\ ~Brings(Head(mail[u])) /\ Ordered(mail[u]) => Ordered(Tail(mail[u]))
      /\ Single(mail[u]) => Single(Tail(mail[u]))
      /\ Noticed(Tail(mail[u])) => Noticed(mail[u])
  BY <1>3, Shortened
<1>5. Calm(mail, Taken(u))  BY <1>1, <1>2, <1>4 DEF Calm
<1>6. ASSUME Head(mail[u]).type # "sync" PROVE Tidy(mail, Taken(u))
  <2>1. ~Brings(Head(mail[u]))  BY <1>6 DEF Brings
  <2> QED  BY <1>2, <1>4, <1>5, <2>1 DEF Tidy
<1> QED  BY <1>5, <1>6

LEMMA SentIsTidy ==
  ASSUME NEW from, NEW box, NEW to, NEW msg \in AnyMail, msg.type # "vault_member_removed"
  PROVE  /\ Calm(from, box) => Calm(from, Sent(box, to, msg))
         /\ Tidy(from, box) /\ msg.type # "caught_up" => Tidy(from, Sent(box, to, msg))
<1>1. PICK sent : sent = Sent(box, to, msg)  OBVIOUS
<1>2. \A w \in Users : sent[w] = IF w \in to THEN Append(box[w], msg) ELSE box[w]
  BY <1>1 DEF Sent
<1>3. ~IsNotice(msg)  BY DEF IsNotice
<1>4. ASSUME NEW w \in Users, box[w] \in Seq(AnyMail)
      PROVE  /\ sent[w] \in Seq(AnyMail)
             /\ Single(box[w]) => Single(sent[w])
             /\ Noticed(sent[w]) => Noticed(box[w])
             /\ Carried(box[w]) => Carried(sent[w])
             /\ msg.type # "caught_up" /\ Ordered(box[w]) => Ordered(sent[w])
  <2>1. msg.type # "caught_up" => ~Hides(msg)  BY DEF Hides
  <2> QED  BY <1>2, <1>3, <1>4, <2>1, Appended
<1>5. Calm(from, box) => Calm(from, sent)  BY <1>4 DEF Calm
<1>6. Tidy(from, box) /\ msg.type # "caught_up" => Tidy(from, sent)
  BY <1>4, <1>5 DEF Tidy, Calm
<1> QED  BY <1>1, <1>5, <1>6

LEMMA VaultListIsTidy ==
  ASSUME BookInv, NEW box, Tidy(mail, box), NEW u \in Users
  PROVE  Tidy(mail, VaultList(box, u))
<1>1. vkey[u] \in Nat  BY DEF BookInv, BookTypes
<1>2. PICK msg \in AnyMail : msg = Msg("vault_list", vkey[u], 0, {}) /\ msg.type = "vault_list"
  BY <1>1, MsgType DEF MailTypes
<1>3. Tidy(mail, Sent(box, {u}, msg))  BY <1>2, SentIsTidy
<1> QED  BY <1>2, <1>3 DEF VaultList

LEMMA MemberListIsTidy ==
  ASSUME NEW from, NEW box, NEW u \in Users
  PROVE  /\ Tidy(from, box) => Tidy(from, MemberList(box, u))
         /\ Calm(from, box) => Calm(from, MemberList(box, u))
<1>1. PICK listed : listed = Members  OBVIOUS
<1>2. listed \in SUBSET (Nat \cup Users)  BY <1>1 DEF Members
<1>3. PICK msg \in AnyMail : msg = Msg("vault_members", 0, 0, listed) /\ msg.type = "vault_members"
  BY <1>2, MsgType DEF MailTypes
<1>4. /\ Tidy(from, box) => Tidy(from, Sent(box, {u}, msg))
      /\ Calm(from, box) => Calm(from, Sent(box, {u}, msg))
  BY <1>3, SentIsTidy
<1> QED  BY <1>1, <1>3, <1>4 DEF MemberList

LEMMA NotesAreTidy ==
  ASSUME NEW box, Tidy(mail, box), NEW t \in MailTypes \ {"caught_up", "vault_member_removed"}, NEW to
  PROVE  Tidy(mail, Sent(box, to, Note(t)))
<1>1. PICK msg \in AnyMail : msg = Note(t) /\ msg.type = t  BY MsgType DEF Note
<1>2. Tidy(mail, Sent(box, to, msg))  BY <1>1, SentIsTidy
<1> QED  BY <1>1, <1>2

(* What a replay leaves its user: the newest snapshot, or he had it.       *)
LEMMA ReplayBrings ==
  ASSUME BookInv, ReadInv, NEW u \in Users
  PROVE  /\ Calm(mail, Replay(mail, u))
         /\ \A w \in Users : w # u => Replay(mail, u)[w] = mail[w]
         /\ Read(u) \/ (Carried(Replay(mail, u)[u]) /\ Ordered(Replay(mail, u)[u]))
<1>1. mail \in [Users -> Seq(AnyMail)] /\ mail[u] \in Seq(AnyMail)  BY DEF BookInv, GoodMail
<1>2. /\ keys \in Nat /\ newest.seq \in Nat /\ edits \in Nat /\ newest.key \in 1..keys
      /\ newest.text \subseteq 1..edits /\ lastSeq[u] \in 0..newest.seq
  BY DEF BookInv, BookTypes
<1>3. PICK s \in AnyMail : s = Snapshot(newest) /\ s.type = "sync" /\ s.seq = newest.seq
  <2>1. newest.key \in Nat /\ newest.text \in SUBSET (Nat \cup Users)  BY <1>2
  <2> QED  BY <1>2, <2>1, MsgType DEF MailTypes, Snapshot
<1>4. PICK msg \in AnyMail : msg = Msg("caught_up", 0, newest.seq, {}) /\ msg.type = "caught_up"
  BY <1>2, MsgType DEF MailTypes
<1>5. PICK told : told = IF newest.seq > lastSeq[u] THEN Sent(mail, {u}, s) ELSE mail  OBVIOUS
<1>6. Replay(mail, u) = Sent(told, {u}, msg)  BY <1>3, <1>4, <1>5 DEF Replay
<1>7. Calm(mail, mail)  BY MailIsTidy DEF BookInv, Tidy
<1>8. Calm(mail, Sent(mail, {u}, s))  BY <1>3, <1>7, SentIsTidy
<1>9. Calm(mail, told)  BY <1>5, <1>7, <1>8
<1>10. Calm(mail, Sent(told, {u}, msg))  BY <1>4, <1>9, SentIsTidy
<1>11. /\ Sent(told, {u}, msg)[u] = Append(told[u], msg)
       /\ \A w \in Users : w # u => Sent(told, {u}, msg)[w] = told[w]
  BY DEF Sent
<1>12. \A w \in Users : w # u => told[w] = mail[w]  BY <1>5 DEF Sent
<1>13. told[u] \in Seq(AnyMail)  BY <1>9 DEF Calm
<1>14. Read(u) \/ (Carried(told[u]) /\ Ordered(told[u]))
  <2>1. CASE newest.seq > lastSeq[u]
    <3>1. told[u] = Append(mail[u], s)  BY <1>5, <2>1 DEF Sent
    <3>2. Brings(s) /\ ~Hides(s)  BY <1>3 DEF Brings, Hides
    <3>3. Carried(told[u]) /\ (Ordered(mail[u]) => Ordered(told[u]))
      BY <1>1, <3>1, <3>2, Appended
    <3> QED  BY <3>3 DEF ReadInv
  <2>2. CASE ~(newest.seq > lastSeq[u])
    <3>1. told = mail /\ lastSeq[u] = newest.seq  BY <1>2, <1>5, <2>2
    <3> QED  BY <3>1 DEF ReadInv
  <2> QED  BY <2>1, <2>2
<1>15. Carried(told[u]) /\ Ordered(told[u]) =>
         Carried(Append(told[u], msg)) /\ Ordered(Append(told[u], msg))
  BY <1>13, Appended
<1> QED  BY <1>6, <1>10, <1>11, <1>12, <1>14, <1>15

(* Steps that make no key and no removal leave the notices as they were.   *)
LEMMA NoticeStays ==
  ASSUME NoticeInv, NEW box, Calm(mail, box), mail' = box, keys' = keys,
         \A w \in Users : rotating'[w] = rotating[w] \/ rotating'[w] = 0
  PROVE  NoticeInv'
<1>1. Owner \in Users  BY SharedBookAssumption
<1>2. Single(mail[Owner]) => Single(mail'[Owner])  BY <1>1 DEF Calm
<1>3. Noticed(mail'[Owner]) => Noticed(mail[Owner])  BY <1>1 DEF Calm
<1>4. Single(mail'[Owner]) <=> Single(mail[Owner])'  BY DEF Single, IsNotice
<1>5. Noticed(mail'[Owner]) <=> Noticed(mail[Owner])'  BY DEF Noticed, IsNotice
<1>6. Noticed(mail[Owner])' => keys' < MaxBookKeys /\ rotating'[Owner] = 0
  BY <1>1, <1>3, <1>5 DEF NoticeInv
<1>7. \A w \in Users : rotating'[w] # 0 => rotating'[w] = keys'  BY DEF NoticeInv
<1>8. Single(mail[Owner])'  BY <1>2, <1>4 DEF NoticeInv
<1>9. keys' <= MaxBookKeys  BY DEF NoticeInv
<1> QED  BY <1>6, <1>7, <1>8, <1>9 DEF NoticeInv

(* Steps that read and store nothing leave what is to be read as it was.   *)
LEMMA ReadStays ==
  ASSUME ReadInv, NEW box, Tidy(mail, box), mail' = box,
         UNCHANGED <<newest, doc, lastSeq, missed>>,
         \A w \in Users : role'[w] # NoRole /\ book'[w] # 0 => role[w] # NoRole /\ book[w] # 0
  PROVE  ReadInv'
<1> SUFFICES ASSUME NEW w \in Users
             PROVE  /\ Read(w)' \/ Ordered(mail[w])'
                    /\ lastSeq'[w] = newest'.seq => Read(w)' \/ Carried(mail[w])'
                    /\ role'[w] # NoRole /\ book'[w] # 0 => Read(w)' \/ Carried(mail[w])'
  BY DEF ReadInv
<1>1. Read(w)' <=> Read(w)  BY DEF Read
<1>2. Ordered(mail[w])' <=> Ordered(mail'[w])  BY DEF Ordered, Hides, Brings
<1>3. Carried(mail[w])' <=> Carried(mail'[w])  BY DEF Carried, Brings
<1>4. /\ Ordered(mail[w]) => Ordered(mail'[w])
      /\ Carried(mail[w]) => Carried(mail'[w])
  BY DEF Tidy
<1> QED  BY <1>1, <1>2, <1>3, <1>4 DEF ReadInv

(* The steps that are ordinary in both respects.                           *)
LEMMA OrdinaryStep ==
  ASSUME BookInv, NoticeInv, ReadInv, NEW u \in Users, NEW v \in Users,
         \/ OpenDialog(u) \/ AskList(u) \/ OnNotice(u) \/ OnBookList(u) \/ OnRemoved(u)
         \/ RotationTimeout(u) \/ OnMembers(u) \/ Invite(u, v)
  PROVE  NoticeInv' /\ ReadInv'
<1>0. GoodMail /\ Tidy(mail, mail)  BY MailIsTidy DEF BookInv
<1>1. ASSUME NEW box, Tidy(mail, box), mail' = box, UNCHANGED <<newest, doc, lastSeq, missed, keys>>,
             \A w \in Users : rotating'[w] = rotating[w] \/ rotating'[w] = 0,
             \A w \in Users : role'[w] # NoRole /\ book'[w] # 0 => role[w] # NoRole /\ book[w] # 0
      PROVE  NoticeInv' /\ ReadInv'
  <2>1. NoticeInv'  BY <1>1, NoticeStays DEF Tidy
  <2>2. ReadInv'  BY <1>1, ReadStays
  <2> QED  BY <2>1, <2>2
<1>2. CASE OpenDialog(u)
  <2>1. Tidy(mail, MemberList(mail, u))  BY <1>0, MemberListIsTidy
  <2> QED  BY <1>1, <1>2, <2>1 DEF OpenDialog
<1>3. CASE AskList(u)
  <2>1. Tidy(mail, VaultList(mail, u))  BY <1>0, VaultListIsTidy
  <2> QED  BY <1>1, <1>3, <2>1 DEF AskList
<1>4. CASE OnNotice(u)
  <2>1. /\ mail[u] # <<>> /\ Head(mail[u]).type # "sync" /\ mail' = VaultList(Taken(u), u)
        /\ UNCHANGED <<newest, doc, lastSeq, missed, keys, rotating, role, book>>
    BY <1>4 DEF OnNotice, Got, Ready
  <2>2. Tidy(mail, Taken(u))  BY <1>0, <2>1, TakenIsTidy
  <2>3. Tidy(mail, VaultList(Taken(u), u))  BY <2>2, VaultListIsTidy
  <2> QED  BY <1>1, <2>1, <2>3
<1>5. CASE OnBookList(u)
  <2>1. /\ mail[u] # <<>> /\ Head(mail[u]).type # "sync" /\ mail' = Taken(u)
        /\ UNCHANGED <<newest, doc, lastSeq, missed, keys, rotating, role, book>>
    BY <1>5 DEF OnBookList, Got, Ready
  <2>2. Tidy(mail, Taken(u))  BY <1>0, <2>1, TakenIsTidy
  <2> QED  BY <1>1, <2>1, <2>2
<1>6. CASE OnRemoved(u)
  <2>1. /\ mail[u] # <<>> /\ Head(mail[u]).type # "sync" /\ mail' = Taken(u)
        /\ book' = [book EXCEPT ![u] = 0]
        /\ UNCHANGED <<newest, doc, lastSeq, missed, keys, rotating, role>>
    BY <1>6 DEF OnRemoved, Got, Ready
  <2>2. Tidy(mail, Taken(u))  BY <1>0, <2>1, TakenIsTidy
  <2>3. \A w \in Users : book'[w] # 0 => book[w] # 0  BY <2>1 DEF BookInv, BookTypes
  <2> QED  BY <1>1, <2>1, <2>2, <2>3
<1>7. CASE RotationTimeout(u)
  <2>1. \A w \in Users : rotating'[w] = rotating[w] \/ rotating'[w] = 0
    BY <1>7 DEF RotationTimeout, BookInv, BookTypes
  <2> QED  BY <1>0, <1>1, <1>7, <2>1 DEF RotationTimeout
<1>8. CASE OnMembers(u)
  <2>1. /\ mail[u] # <<>> /\ Head(mail[u]).type # "sync"
        /\ UNCHANGED <<newest, doc, lastSeq, missed, keys, role>>
    BY <1>8 DEF OnMembers, Got, Ready
  <2>2. Tidy(mail, Taken(u))  BY <1>0, <2>1, TakenIsTidy
  <2>3. Tidy(mail, Sent(Taken(u), Members, Note("vault_key_rotated")))
    BY <2>2, NotesAreTidy DEF MailTypes
  <2>4. mail' = Taken(u) \/ mail' = Sent(Taken(u), Members, Note("vault_key_rotated"))
    BY <1>8 DEF OnMembers, HandleRotate, Taken
  <2>5. Tidy(mail, mail')  BY <2>2, <2>3, <2>4
  <2>6. rotating' = rotating \/ rotating' = [rotating EXCEPT ![u] = 0]  BY <1>8 DEF OnMembers
  <2>7. \A w \in Users : rotating'[w] = rotating[w] \/ rotating'[w] = 0
    BY <2>6 DEF BookInv, BookTypes
  <2>8. book' = book \/ (book[u] # 0 /\ book' = [book EXCEPT ![u] = rotating[u]])
    BY <1>8 DEF OnMembers
  <2>9. \A w \in Users : book'[w] # 0 => book[w] # 0  BY <2>8 DEF BookInv, BookTypes
  <2>10. PICK box : box = mail'  OBVIOUS
  <2> QED  BY <1>1, <2>1, <2>5, <2>7, <2>9, <2>10
<1>9. CASE Invite(u, v)
  <2>1. /\ role[v] = NoRole /\ removedAt[v] = 0 /\ role' = [role EXCEPT ![v] = "viewer"]
        /\ mail' = Sent(mail, {v}, Note("vault_invited"))
        /\ UNCHANGED <<newest, doc, lastSeq, missed, keys, rotating, book>>
    BY <1>9 DEF Invite
  <2>2. Tidy(mail, Sent(mail, {v}, Note("vault_invited")))
    BY <1>0, NotesAreTidy DEF MailTypes
  <2>3. book[v] = 0  BY <2>1 DEF BookInv, BookLocks
  <2>4. \A w \in Users : w # v => role'[w] = role[w]  BY <2>1 DEF BookInv, BookTypes
  <2> QED  BY <1>1, <2>1, <2>2, <2>3, <2>4
<1> QED  BY <1>2, <1>3, <1>4, <1>5, <1>6, <1>7, <1>8, <1>9

LEMMA RemoveKeeps ==
  ASSUME BookInv, NoticeInv, ReadInv, NEW u \in Users, NEW v \in Users, Remove(u, v)
  PROVE  NoticeInv' /\ ReadInv'
<1>1. /\ role[u] = "owner" /\ u # v /\ keys < MaxBookKeys /\ rotating[u] = 0
      /\ ~Noticed(mail[u])
      /\ role' = [role EXCEPT ![v] = NoRole]
      /\ mail' = Sent(Sent(mail, {u}, Note("vault_member_removed")), {v}, Note("vault_removed"))
      /\ UNCHANGED <<newest, doc, lastSeq, missed, keys, rotating, book>>
  BY DEF Remove, Noticed, IsNotice
<1>2. u = Owner  BY <1>1 DEF BookInv, BookLocks
<1>3. PICK a \in AnyMail, b \in AnyMail :
        /\ a = Note("vault_member_removed") /\ a.type = "vault_member_removed"
        /\ b = Note("vault_removed") /\ b.type = "vault_removed"
  BY MsgType DEF MailTypes, Note
<1>4. mail \in [Users -> Seq(AnyMail)]  BY DEF BookInv, GoodMail
<1>5. \A w \in Users : mail'[w] = IF w = u THEN Append(mail[u], a)
                                  ELSE IF w = v THEN Append(mail[v], b) ELSE mail[w]
  BY <1>1, <1>3 DEF Sent
<1>6. ~Hides(a) /\ ~Hides(b) /\ IsNotice(a) /\ ~IsNotice(b)  BY <1>3 DEF Hides, IsNotice
<1>7. Single(mail[Owner])'
  <2>1. Single(Append(mail[u], a))  BY <1>1, <1>2, <1>4, Appended DEF NoticeInv
  <2>2. Single(mail'[u])  BY <1>5, <2>1
  <2> QED  BY <1>2, <2>2 DEF Single, IsNotice
<1>8. NoticeInv'
  <2>1. keys' < MaxBookKeys /\ rotating'[Owner] = 0 /\ keys' <= MaxBookKeys
    BY <1>1, <1>2 DEF NoticeInv
  <2>2. \A w \in Users : rotating'[w] # 0 => rotating'[w] = keys'  BY <1>1 DEF NoticeInv
  <2> QED  BY <1>7, <2>1, <2>2 DEF NoticeInv
<1>9. ReadInv'
  <2> SUFFICES ASSUME NEW w \in Users
               PROVE  /\ Read(w)' \/ Ordered(mail[w])'
                      /\ lastSeq'[w] = newest'.seq => Read(w)' \/ Carried(mail[w])'
                      /\ role'[w] # NoRole /\ book'[w] # 0 => Read(w)' \/ Carried(mail[w])'
    BY DEF ReadInv
  <2>1. Read(w)' <=> Read(w)  BY <1>1 DEF Read
  <2>2. Ordered(mail[w])' <=> Ordered(mail'[w])  BY <1>1 DEF Ordered, Hides, Brings
  <2>3. Carried(mail[w])' <=> Carried(mail'[w])  BY <1>1 DEF Carried, Brings
  <2>4. mail[w] \in Seq(AnyMail)  BY <1>4
  <2>5. /\ Ordered(mail[w]) => Ordered(mail'[w])
        /\ Carried(mail[w]) => Carried(mail'[w])
    BY <1>5, <1>6, <2>4, Appended
  <2>6. role'[w] # NoRole => role[w] # NoRole  BY <1>1 DEF BookInv, BookTypes
  <2> QED  BY <1>1, <2>1, <2>2, <2>3, <2>5, <2>6 DEF ReadInv
<1> QED  BY <1>8, <1>9

LEMMA EditKeeps ==
  ASSUME BookInv, NoticeInv, ReadInv, NEW u \in Users, Edit(u)
  PROVE  NoticeInv' /\ ReadInv'
<1>1. /\ doc' = [doc EXCEPT ![u] = @ \cup {edits'}]
      /\ UNCHANGED <<role, newest, mail, book, rotating, lastSeq, keys, missed>>
  BY DEF Edit
<1>2. NoticeInv'  BY <1>1 DEF NoticeInv, Single, Noticed, IsNotice
<1>3. \A w \in Users : doc[w] \subseteq doc'[w]  BY <1>1 DEF BookInv, BookTypes
<1>4. \A w \in Users : Read(w) => Read(w)'  BY <1>1, <1>3 DEF Read
<1>5. \A w \in Users : (Ordered(mail[w])' <=> Ordered(mail[w])) /\ (Carried(mail[w])' <=> Carried(mail[w]))
  BY <1>1 DEF Ordered, Carried, Hides, Brings
<1>6. ReadInv'  BY <1>1, <1>4, <1>5 DEF ReadInv
<1> QED  BY <1>2, <1>6

LEMMA BeginRotationKeeps ==
  ASSUME BookInv, NoticeInv, ReadInv, NEW u \in Users, BeginRotation(u)
  PROVE  NoticeInv' /\ ReadInv'
<1>1. /\ mail[u] # <<>> /\ IsNotice(Head(mail[u])) /\ Head(mail[u]).type # "sync"
      /\ keys' = keys + 1 /\ rotating' = [rotating EXCEPT ![u] = keys']
      /\ mail' = MemberList(Taken(u), u)
      /\ UNCHANGED <<role, newest, book, doc, lastSeq, missed>>
  BY DEF BeginRotation, Got, Ready, IsNotice
<1>2. GoodMail /\ mail \in [Users -> Seq(AnyMail)] /\ Good(u, Head(mail[u]))
  BY <1>1, OldIsFine DEF BookInv, GoodMail
<1>3. u = Owner  BY <1>1, <1>2 DEF Good, IsNotice
<1>4. Tidy(mail, Taken(u))  BY <1>1, <1>2, TakenIsTidy
<1>5. Tidy(mail, MemberList(Taken(u), u))  BY <1>4, MemberListIsTidy
<1>6. ReadInv'  BY <1>1, <1>5, ReadStays
<1>7. /\ Tail(mail[u]) \in Seq(AnyMail) /\ ~Noticed(Tail(mail[u])) /\ Noticed(mail[u])
  BY <1>1, <1>2, <1>3, Shortened DEF NoticeInv
<1>8. \A w \in Users : Taken(u)[w] = IF w = u THEN Tail(mail[u]) ELSE mail[w]
  BY <1>2 DEF Taken
<1>9. Calm(Taken(u), Taken(u))  BY <1>2, <1>7, <1>8 DEF Calm
<1>10. Calm(Taken(u), MemberList(Taken(u), u))  BY <1>9, MemberListIsTidy
<1>11. ~Noticed(mail'[u]) /\ Single(mail'[u])
  <2>1. ~Noticed(mail'[u])  BY <1>1, <1>7, <1>8, <1>10 DEF Calm
  <2> QED  BY <2>1 DEF Noticed, Single
<1>12. ~Noticed(mail[Owner])' /\ Single(mail[Owner])'
  BY <1>3, <1>11 DEF Noticed, Single, IsNotice
<1>13. keys \in Nat /\ rotating \in [Users -> 0..keys]  BY DEF BookInv, BookTypes
<1>14. keys < MaxBookKeys  BY <1>3, <1>7 DEF NoticeInv
<1>15. keys' <= MaxBookKeys  BY <1>1, <1>13, <1>14, SharedBookAssumption
<1>16. \A w \in Users : rotating'[w] # 0 => rotating'[w] = keys'
  BY <1>1, <1>3, <1>13 DEF BookInv, BookLocks
<1>17. NoticeInv'  BY <1>12, <1>15, <1>16 DEF NoticeInv
<1> QED  BY <1>6, <1>17

LEMMA ListDoneKeeps ==
  ASSUME BookInv, NoticeInv, ReadInv, NEW u \in Users, ListDone(u)
  PROVE  NoticeInv' /\ ReadInv'
<1>1. /\ book' = [book EXCEPT ![u] = listing[u]]
      /\ mail' = IF listing[u] = 0 \/ role[u] = NoRole THEN mail
                 ELSE MemberList(Replay(mail, u), u)
      /\ UNCHANGED <<role, newest, rotating, doc, lastSeq, missed, keys>>
  BY DEF ListDone
<1>2. \A w \in Users : w # u => book'[w] = book[w]  BY <1>1 DEF BookInv, BookTypes
<1>3. book'[u] = listing[u]  BY <1>1 DEF BookInv, BookTypes
<1>4. Tidy(mail, mail)  BY MailIsTidy DEF BookInv
<1>5. CASE listing[u] = 0 \/ role[u] = NoRole
  <2>1. mail' = mail  BY <1>1, <1>5
  <2>2. \A w \in Users : role'[w] # NoRole /\ book'[w] # 0 => role[w] # NoRole /\ book[w] # 0
    BY <1>1, <1>2, <1>3, <1>5
  <2>3. ReadInv'  BY <1>1, <1>4, <2>1, <2>2, ReadStays
  <2>4. NoticeInv'  BY <1>1, <1>4, <2>1, NoticeStays DEF Tidy
  <2> QED  BY <2>3, <2>4
<1>6. CASE ~(listing[u] = 0 \/ role[u] = NoRole)
  <2>1. PICK box : box = Replay(mail, u)  OBVIOUS
  <2>2. /\ Calm(mail, box) /\ \A w \in Users : w # u => box[w] = mail[w]
        /\ Read(u) \/ (Carried(box[u]) /\ Ordered(box[u]))
    BY <2>1, ReplayBrings
  <2>3. mail' = MemberList(box, u)  BY <1>1, <1>6, <2>1
  <2>4. Calm(mail, MemberList(box, u))  BY <2>2, MemberListIsTidy
  <2>5. NoticeInv'  BY <1>1, <2>3, <2>4, NoticeStays
  <2>6. Tidy(box, box)  BY <2>2 DEF Tidy, Calm
  <2>7. Tidy(box, mail')  BY <2>3, <2>6, MemberListIsTidy
  <2>8. ReadInv'
    <3> SUFFICES ASSUME NEW w \in Users
                 PROVE  /\ Read(w)' \/ Ordered(mail[w])'
                        /\ lastSeq'[w] = newest'.seq => Read(w)' \/ Carried(mail[w])'
                        /\ role'[w] # NoRole /\ book'[w] # 0 => Read(w)' \/ Carried(mail[w])'
      BY DEF ReadInv
    <3>1. Read(w)' <=> Read(w)  BY <1>1 DEF Read
    <3>2. Ordered(mail[w])' <=> Ordered(mail'[w])  BY <1>1 DEF Ordered, Hides, Brings
    <3>3. Carried(mail[w])' <=> Carried(mail'[w])  BY <1>1 DEF Carried, Brings
    <3>4. /\ Ordered(box[w]) => Ordered(mail'[w])
          /\ Carried(box[w]) => Carried(mail'[w])
      BY <2>7 DEF Tidy
    <3>5. CASE w = u  BY <2>2, <3>1, <3>2, <3>3, <3>4, <3>5
    <3>6. CASE w # u
      <4>1. box[w] = mail[w] /\ book'[w] = book[w]  BY <1>2, <2>2, <3>6
      <4> QED  BY <1>1, <3>1, <3>2, <3>3, <3>4, <4>1 DEF ReadInv
    <3> QED  BY <3>5, <3>6
  <2> QED  BY <2>5, <2>8
<1> QED  BY <1>5, <1>6

LEMMA OnCaughtUpKeeps ==
  ASSUME BookInv, NoticeInv, ReadInv, NEW u \in Users, OnCaughtUp(u)
  PROVE  NoticeInv' /\ ReadInv'
<1>1. /\ mail[u] # <<>> /\ Head(mail[u]).type = "caught_up" /\ mail' = Taken(u)
      /\ lastSeq' = lastSeq \/ lastSeq' = [lastSeq EXCEPT ![u] = Head(mail[u]).seq]
      /\ UNCHANGED <<role, newest, book, rotating, doc, missed, keys>>
  BY DEF OnCaughtUp, Got, Ready
<1>2. GoodMail /\ mail[u] \in Seq(AnyMail)  BY DEF BookInv, GoodMail
<1>3. Tidy(mail, Taken(u))  BY <1>1, <1>2, TakenIsTidy
<1>4. NoticeInv'  BY <1>1, <1>3, NoticeStays DEF Tidy
<1>5. ReadInv'
  <2> SUFFICES ASSUME NEW w \in Users
               PROVE  /\ Read(w)' \/ Ordered(mail[w])'
                      /\ lastSeq'[w] = newest'.seq => Read(w)' \/ Carried(mail[w])'
                      /\ role'[w] # NoRole /\ book'[w] # 0 => Read(w)' \/ Carried(mail[w])'
    BY DEF ReadInv
  <2>1. Read(w)' <=> Read(w)  BY <1>1 DEF Read
  <2>2. Ordered(mail[w])' <=> Ordered(mail'[w])  BY <1>1 DEF Ordered, Hides, Brings
  <2>3. Carried(mail[w])' <=> Carried(mail'[w])  BY <1>1 DEF Carried, Brings
  <2>4. /\ Ordered(mail[w]) => Ordered(mail'[w])
        /\ Carried(mail[w]) => Carried(mail'[w])
    BY <1>1, <1>3 DEF Tidy
  <2>5. lastSeq'[w] = lastSeq[w] \/ (w = u /\ lastSeq'[w] = Head(mail[u]).seq)
    BY <1>1 DEF BookInv, BookTypes
  <2>6. w = u /\ Head(mail[u]).seq = newest.seq => Read(u)
    BY <1>1, <1>2, Shortened DEF ReadInv, Hides
  <2>7. lastSeq'[w] = newest'.seq => Read(w)' \/ Carried(mail[w])'
    BY <1>1, <2>1, <2>3, <2>4, <2>5, <2>6 DEF ReadInv
  <2> QED  BY <1>1, <2>1, <2>2, <2>3, <2>4, <2>7 DEF ReadInv
<1> QED  BY <1>4, <1>5

LEMMA OnSyncKeeps ==
  ASSUME BookInv, NoticeInv, ReadInv, NEW u \in Users, OnSync(u)
  PROVE  NoticeInv' /\ ReadInv'
<1>1. PICK m : m = Head(mail[u])  OBVIOUS
<1>2. /\ mail[u] # <<>> /\ m.type = "sync" /\ mail' = Taken(u)
      /\ UNCHANGED <<role, newest, book, rotating, keys>>
      /\ \/ /\ doc' = [doc EXCEPT ![u] = @ \cup m.text]
            /\ lastSeq' = [lastSeq EXCEPT ![u] = m.seq] /\ UNCHANGED missed
         \/ /\ missed' = [missed EXCEPT ![u] = @ \cup {m.seq}]
            /\ UNCHANGED <<doc, lastSeq>>
  BY <1>1 DEF OnSync, Got, Ready
<1>3. GoodMail /\ mail[u] \in Seq(AnyMail) /\ Good(u, m) /\ mail \in [Users -> Seq(AnyMail)]
  BY <1>1, <1>2, OldIsFine DEF BookInv, GoodMail
<1>4. Calm(mail, Taken(u))  BY <1>2, <1>3, TakenIsTidy
<1>5. NoticeInv'  BY <1>2, <1>4, NoticeStays
<1>6. /\ doc \in [Users -> SUBSET (1..edits)] /\ lastSeq \in [Users -> 0..newest.seq]
      /\ missed \in [Users -> SUBSET (1..newest.seq)]
  BY DEF BookInv, BookTypes
<1>7. \A w \in Users : doc[w] \subseteq doc'[w] /\ missed[w] \subseteq missed'[w]
  BY <1>2, <1>6
<1>8. \A w \in Users : Read(w) => Read(w)'  BY <1>2, <1>7 DEF Read
<1>9. Brings(m) => Read(u)'
  <2> SUFFICES ASSUME Brings(m) PROVE newest'.text \subseteq doc'[u] \/ newest'.seq \in missed'[u]
    BY DEF Read
  <2>1. m.seq = newest.seq /\ m.text = newest.text  BY <1>3 DEF Good, Brings
  <2>2. m.text \subseteq doc'[u] \/ m.seq \in missed'[u]  BY <1>2, <1>6
  <2> QED  BY <1>2, <2>1, <2>2
<1>10. \A w \in Users : mail'[w] = IF w = u THEN Tail(mail[u]) ELSE mail[w]
  BY <1>2, <1>3 DEF Taken
<1>11. \A w \in Users : lastSeq'[w] = lastSeq[w] \/ (w = u /\ lastSeq'[w] = m.seq)
  BY <1>2, <1>6
<1>12. ReadInv'
  <2> SUFFICES ASSUME NEW w \in Users
               PROVE  /\ Read(w)' \/ Ordered(mail[w])'
                      /\ lastSeq'[w] = newest'.seq => Read(w)' \/ Carried(mail[w])'
                      /\ role'[w] # NoRole /\ book'[w] # 0 => Read(w)' \/ Carried(mail[w])'
    BY DEF ReadInv
  <2>1. Ordered(mail[w])' <=> Ordered(mail'[w])  BY <1>2 DEF Ordered, Hides, Brings
  <2>2. Carried(mail[w])' <=> Carried(mail'[w])  BY <1>2 DEF Carried, Brings
  <2>3. CASE w # u
    <3>1. mail'[w] = mail[w] /\ lastSeq'[w] = lastSeq[w]  BY <1>10, <1>11, <2>3
    <3> QED  BY <1>2, <1>8, <2>1, <2>2, <3>1 DEF ReadInv
  <2>4. CASE w = u /\ Brings(m)  BY <1>9, <2>4
  <2>5. CASE w = u /\ ~Brings(m)
    <3>1. /\ Ordered(mail[u]) => Ordered(mail'[u])
          /\ Carried(mail[u]) => Carried(mail'[u])
      BY <1>1, <1>2, <1>3, <1>10, <2>5, Shortened
    <3>2. lastSeq'[u] = lastSeq[u] \/ lastSeq'[u] # newest'.seq
      BY <1>2, <1>11, <2>5 DEF Brings
    <3> QED  BY <1>2, <1>8, <2>1, <2>2, <2>5, <3>1, <3>2 DEF ReadInv
  <2> QED  BY <2>3, <2>4, <2>5
<1> QED  BY <1>5, <1>12

LEMMA PushKeeps ==
  ASSUME BookInv, NoticeInv, ReadInv, NEW u \in Users, Push(u)
  PROVE  NoticeInv' /\ ReadInv'
<1>1. /\ book[u] # 0 /\ UNCHANGED <<role, book, rotating, doc, lastSeq, keys, missed>>
  BY DEF Push
<1>2. Tidy(mail, mail)  BY MailIsTidy DEF BookInv
<1>3. CASE ~CanWrite(u)
  <2>1. UNCHANGED <<newest, mail>>  BY <1>3 DEF Push
  <2>2. NoticeInv'  BY <1>1, <1>2, <2>1, NoticeStays DEF Tidy
  <2>3. ReadInv'  BY <1>1, <1>2, <2>1, ReadStays
  <2> QED  BY <2>2, <2>3
<1>4. CASE CanWrite(u)
  <2>1. PICK to : to = {v \in Members \ {u} : book[v] # 0}  OBVIOUS
  <2>2. /\ newest' = [seq |-> newest.seq + 1, key |-> book[u], text |-> doc[u]]
        /\ mail' = Sent(mail, to, Snapshot(newest'))
    BY <1>4, <2>1 DEF Push
  <2>3. /\ newest.seq \in Nat /\ book[u] \in Nat /\ doc[u] \in SUBSET (Nat \cup Users)
        /\ lastSeq \in [Users -> 0..newest.seq] /\ edits \in Nat
    BY DEF BookInv, BookTypes
  <2>4. newest'.seq = newest.seq + 1 /\ newest'.key = book[u] /\ newest'.text = doc[u]
    BY <2>2
  <2>5. PICK s \in AnyMail : s = Snapshot(newest') /\ s.type = "sync" /\ s.seq = newest.seq + 1
    <3>1. Snapshot(newest') = Msg("sync", book[u], newest.seq + 1, doc[u])
      BY <2>4 DEF Snapshot
    <3>2. newest.seq + 1 \in Nat  BY <2>3
    <3> QED  BY <2>3, <3>1, <3>2, MsgType DEF MailTypes
  <2>6. mail' = Sent(mail, to, s)  BY <2>2, <2>5
  <2>7. Calm(mail, Sent(mail, to, s))  BY <1>2, <2>5, SentIsTidy DEF Tidy
  <2>8. NoticeInv'  BY <1>1, <2>6, <2>7, NoticeStays
  <2>9. \A w \in Users : mail'[w] = IF w \in to THEN Append(mail[w], s) ELSE mail[w]
    BY <2>6 DEF Sent
  <2>10. ASSUME NEW w \in Users, NEW i \in DOMAIN mail'[w], NEW m, m = mail'[w][i]
         PROVE  ~(m.type = "caught_up" /\ m.seq = newest'.seq)
    <3>1. mail[w] \in Seq(AnyMail)  BY DEF BookInv, GoodMail
    <3>2. m = s \/ (i \in DOMAIN mail[w] /\ m = mail[w][i])
      <4>1. CASE w \notin to  BY <2>9, <2>10, <4>1
      <4>2. CASE w \in to
        <5>1. mail'[w] = Append(mail[w], s)  BY <2>9, <4>2
        <5> QED  BY <2>10, <3>1, <5>1
      <4> QED  BY <4>1, <4>2
    <3>3. m = s \/ m.seq \in 0..newest.seq
      BY <3>2 DEF BookInv, GoodMail, Good, Mails
    <3> QED  BY <2>3, <2>4, <2>5, <3>3
  <2>11. ASSUME NEW w \in Users PROVE Ordered(mail[w])'
    BY <2>10 DEF Ordered, Hides
  <2>12. ASSUME NEW w \in Users, role[w] # NoRole, book[w] # 0, w # u PROVE Carried(mail[w])'
    <3>1. mail'[w] = Append(mail[w], s) /\ mail[w] \in Seq(AnyMail)
      BY <2>1, <2>9, <2>12 DEF Members, BookInv, GoodMail
    <3>2. Len(mail[w]) + 1 \in DOMAIN mail'[w] /\ mail'[w][Len(mail[w]) + 1] = s  BY <3>1
    <3>3. s.type = "sync" /\ s.seq = newest'.seq  BY <2>4, <2>5
    <3>4. PICK i : i = Len(mail[w]) + 1  OBVIOUS
    <3> QED  BY <3>2, <3>3, <3>4 DEF Carried, Brings
  <2>13. Read(u)'  BY <1>1, <2>4 DEF Read
  <2>14. \A w \in Users : lastSeq'[w] # newest'.seq  BY <1>1, <2>3, <2>4
  <2>15. ReadInv'  BY <1>1, <2>11, <2>12, <2>13, <2>14 DEF ReadInv
  <2> QED  BY <2>8, <2>15
<1> QED  BY <1>3, <1>4

WholeBookInv == BookInv /\ NoticeInv /\ ReadInv

LEMMA WholeBookInits == SharedBookInit => WholeBookInv
<1> SUFFICES ASSUME SharedBookInit PROVE WholeBookInv
  OBVIOUS
<1>1. BookInv  BY BookInits
<1>2. /\ keys = 1 /\ rotating = [u \in Users |-> 0] /\ mail = [u \in Users |-> <<>>]
      /\ newest = [seq |-> 0, key |-> 1, text |-> {}]
  BY DEF SharedBookInit
<1>3. mail[Owner] = <<>>  BY <1>2, SharedBookAssumption
<1>4. Single(mail[Owner]) /\ ~Noticed(mail[Owner])  BY <1>3 DEF Single, Noticed
<1>5. NoticeInv  BY <1>2, <1>4, SharedBookAssumption DEF NoticeInv
<1>6. newest.text = {}  BY <1>2
<1>7. \A u \in Users : Read(u)  BY <1>6 DEF Read
<1> QED  BY <1>1, <1>5, <1>7 DEF WholeBookInv, ReadInv

LEMMA WholeBookStep == WholeBookInv /\ [SharedBookNext]_bookVars => WholeBookInv'
<1> SUFFICES ASSUME WholeBookInv, [SharedBookNext]_bookVars PROVE WholeBookInv'
  OBVIOUS
<1>1. BookInv /\ NoticeInv /\ ReadInv  BY DEF WholeBookInv
<1>2. BookInv'  BY <1>1, BookInvStep
<1>3. ASSUME UNCHANGED bookVars PROVE NoticeInv' /\ ReadInv'
  <2>1. UNCHANGED <<keys, rotating, mail, newest, doc, lastSeq, missed, role, book>>
    BY <1>3 DEF bookVars
  <2>2. NoticeInv'  BY <1>1, <2>1 DEF NoticeInv, Single, Noticed, IsNotice
  <2>3. ReadInv'  BY <1>1, <2>1 DEF ReadInv, Read, Ordered, Carried, Hides, Brings
  <2> QED  BY <2>2, <2>3
<1>4. ASSUME NEW u \in Users, Browser(u) PROVE NoticeInv' /\ ReadInv'
  BY <1>1, <1>4, OnSyncKeeps, OnCaughtUpKeeps, ListDoneKeeps, BeginRotationKeeps,
     PushKeeps, OrdinaryStep DEF Browser
<1>5. ASSUME NEW u \in Users, OpenDialog(u) \/ Edit(u) \/ AskList(u) \/ RotationTimeout(u)
      PROVE  NoticeInv' /\ ReadInv'
  BY <1>1, <1>5, EditKeeps, OrdinaryStep
<1>6. ASSUME NEW u \in Users, NEW v \in Users, Invite(u, v) \/ Remove(u, v)
      PROVE  NoticeInv' /\ ReadInv'
  BY <1>1, <1>6, RemoveKeeps, OrdinaryStep
<1>7. NoticeInv' /\ ReadInv'  BY <1>3, <1>4, <1>5, <1>6 DEF SharedBookNext
<1> QED  BY <1>2, <1>7 DEF WholeBookInv

LEMMA BookIsTyped == ASSUME WholeBookInv PROVE SharedBookTypeOK
<1>1. BookTypes /\ BookLocks /\ NoticeInv  BY DEF WholeBookInv, BookInv
<1>2. keys \in 1..MaxBookKeys  BY <1>1, SharedBookAssumption DEF BookTypes, NoticeInv
<1> QED  BY <1>1, <1>2 DEF BookTypes, BookLocks, NoticeInv, SharedBookTypeOK, Roles

(* The types of the book, and who rotates: the bound on the keys is kept   *)
(* because at most one removal waits for its rotation.                     *)
THEOREM SharedBookTypes == SharedBookSpec => []SharedBookTypeOK
BY WholeBookInits, WholeBookStep, BookIsTyped, PTL DEF SharedBookSpec

(* With nothing under way a member's browser holds the newest catalog, has *)
(* another key, or was given it while it had another: a number is never    *)
(* taken over a snapshot that was not offered first.                       *)
THEOREM NewestIsReadAlways == SharedBookSpec => []NewestIsRead
<1>1. WholeBookInv => NewestIsRead
  <2> SUFFICES ASSUME WholeBookInv, Quiet, NEW u \in Members, book[u] = newest.key
               PROVE  newest.text \subseteq doc[u] \/ newest.seq \in missed[u]
    BY DEF NewestIsRead
  <2>1. u \in Users /\ role[u] # NoRole  BY DEF Members
  <2>2. book[u] # 0  BY DEF WholeBookInv, BookInv, BookTypes
  <2>3. ~Carried(mail[u])  BY <2>1 DEF Quiet, Carried
  <2> QED  BY <2>1, <2>2, <2>3 DEF WholeBookInv, ReadInv, Read
<1> QED  BY <1>1, WholeBookInits, WholeBookStep, PTL DEF SharedBookSpec
-----------------------------------------------------------------------------
(* Accounts: what is true of a device with page t, storage k, and messages *)
(* o to the server and i from it.                                          *)

Proper(w) == w # NoWrap => w.cred # NoCred /\ w.key # 0

(* A message, or a migration that waits, that changes the password.        *)
Changing(m) ==
  m.type = "change_password" /\ m.new # NoCred /\ m.wrap.cred = m.new /\ m.wrap.key # 0

(* What the server has told, or will tell, of the wrapped key: if there is *)
(* none this is the first device, the sign-up has not reached the server,  *)
(* and nothing else is on its way.                                         *)
Told(d, t, o, w) ==
  IF w = NoWrap
    THEN d = First /\ priv = NoPriv /\ auth = t.cred /\ wrapped = t.offer /\ o = <<>>
    ELSE Proper(w) /\ wrapped # NoWrap

Sendable(d, o, j) ==
  \/ /\ o[j].type = "set_key" /\ j = 1 /\ d = First /\ priv = NoPriv
     /\ o[j].wrap.cred = auth /\ o[j].wrap.cred # NoCred /\ o[j].wrap.key # 0
  \/ o[j].type = "set_identity" /\ (wrapped # NoWrap \/ o[1].type = "set_key")
  \/ o[j].type = "list_vaults"
  \/ Changing(o[j])

DeviceOK(d, t, k, o, i) ==
  /\ Proper(k.wrapped) /\ Proper(t.wrap) /\ Proper(t.offer) /\ t.closure = t.wrap.key
  /\ t.phase = "form" => t.conn \in {"none", "stopped"}
  /\ t.conn # "open" => i = <<>>
  /\ t.conn # "none" => t.cred # NoCred
  /\ t.migrate = Plain("none") \/ Changing(t.migrate)
  /\ IF t.rotation.step = "idle" THEN t.rotation.todo = {}
     ELSE t.rotation.new # NoCred /\ t.rotation.key # 0
  /\ t.conn = "checked" => Told(d, t, o, t.seen)
  /\ \A j \in DOMAIN i : IF i[j].type = "connected" THEN j = 1 /\ Told(d, t, o, i[j].wrap)
                         ELSE i[j].wrap = NoWrap
  /\ \A j \in DOMAIN o : Sendable(d, o, j)

(* Before the sign-up is complete nothing but the first device is in use,  *)
(* no password is changed, and its page has no key that is not stored.     *)
EarlyOK(d, t, k, o, i) ==
  /\ d # First => t = NewTab /\ k = BlankDisk /\ o = <<>>
  /\ t.rotation.step = "idle" /\ t.migrate = Plain("none")
  /\ \A j \in DOMAIN o : o[j].type # "change_password"
  /\ \A j \in DOMAIN i : i[j].type # "password_changed"
  /\ t.offer # NoWrap => t.offer.cred = t.cred
  /\ t.wrap # NoWrap => t.wrap.cred = t.cred
  /\ t.cred.kdf # "legacy" /\ k.wrapped.cred.kdf # "legacy"
  /\ k.wrapped = NoWrap => /\ k.docs = NoDocs /\ k.cache = NoCache /\ t.session = 0 /\ t.mgr = 0
                           /\ t.stores = NoDocs /\ t.offer = NoWrap /\ t.closure = 0
  /\ t.conn \in {"lost", "checked", "open"} /\ t.closure = 0 => k.wrapped = NoWrap

(* Every key about is the one master key.                                  *)
Agrees(M, t, k, o, i) ==
  /\ k.wrapped.key \in {0, M} /\ \A x \in Docs : k.docs[x] \in {0, M} /\ t.stores[x] \in {0, M}
  /\ k.cache = NoCache \/ k.cache = [outer |-> M, inner |-> M]
  /\ t.session \in {0, M} /\ t.mgr \in {0, M} /\ t.closure \in {0, M} /\ t.offer.key \in {0, M}
  /\ t.conn = "checked" => t.seen.key \in {0, M}
  /\ t.migrate.wrap.key \in {0, M} /\ t.rotation.step = "idle"
  /\ \A j \in DOMAIN i : i[j].wrap.key \in {0, M}
  /\ \A j \in DOMAIN o : o[j].wrap.key \in {0, M}

RowInv ==
  /\ DbMayFail = FALSE => PasswordUnwraps
  /\ auth = NoCred => wrapped = NoWrap
  /\ Proper(wrapped)
  /\ wrapped = NoWrap => priv = NoPriv

DevicesInv == \A d \in Devices : DeviceOK(d, tab[d], disk[d], out[d], in[d])

EarlyInv ==
  ~Complete => changes = 0 /\ \A d \in Devices : EarlyOK(d, tab[d], disk[d], out[d], in[d])

KeyInv ==
  changes = 0 => \E M \in Key \ {0} :
    wrapped.key \in {0, M} /\ \A d \in Devices : Agrees(M, tab[d], disk[d], out[d], in[d])

AccountInv == AccountTypeOK /\ RowInv /\ DevicesInv /\ EarlyInv /\ KeyInv

(* A step of one device that leaves the row alone.                         *)
LEMMA DeviceStep ==
  ASSUME AccountInv, NEW d \in Devices, NEW t \in Tab, NEW k \in Disk,
         NEW o \in Seq(Messages), NEW i \in Seq(Messages),
         tab' = [tab EXCEPT ![d] = t], disk' = [disk EXCEPT ![d] = k],
         out' = [out EXCEPT ![d] = o], in' = [in EXCEPT ![d] = i], UNCHANGED row,
         lastKey' \in Key, changes' \in 0..MaxChanges, breaks' \in 0..MaxBreaks,
         changes' = 0 => changes = 0,
         DeviceOK(d, t, k, o, i),
         ~Complete => changes' = 0 /\ EarlyOK(d, t, k, o, i),
         changes' = 0 => \E M \in Key \ {0} :
           /\ wrapped.key \in {0, M} /\ Agrees(M, t, k, o, i)
           /\ \A e \in Devices \ {d} : Agrees(M, tab[e], disk[e], out[e], in[e])
  PROVE  AccountInv'
<1>1. AccountTypeOK /\ RowInv /\ DevicesInv /\ EarlyInv  BY DEF AccountInv
<1>2. AccountTypeOK'  BY <1>1 DEF AccountTypeOK, row
<1>3. RowInv'  BY <1>1 DEF RowInv, PasswordUnwraps, row
<1>4. /\ tab'[d] = t /\ disk'[d] = k /\ out'[d] = o /\ in'[d] = i
      /\ \A e \in Devices \ {d} : /\ tab'[e] = tab[e] /\ disk'[e] = disk[e]
                                  /\ out'[e] = out[e] /\ in'[e] = in[e]
  BY <1>1 DEF AccountTypeOK
<1>5. /\ auth' = auth /\ wrapped' = wrapped /\ priv' = priv  BY DEF row
<1>6. Complete' <=> Complete  BY <1>5 DEF Complete
<1>7. DevicesInv'
  <2> SUFFICES ASSUME NEW e \in Devices PROVE DeviceOK(e, tab[e], disk[e], out[e], in[e])'
    BY DEF DevicesInv
  <2>1. CASE e = d  BY <1>4, <1>5, <2>1 DEF DeviceOK, Told, Sendable, Proper, Changing
  <2>2. CASE e # d
    <3>1. PICK x, y, p, q : x = tab[e] /\ y = disk[e] /\ p = out[e] /\ q = in[e]  OBVIOUS
    <3>2. DeviceOK(e, x, y, p, q)  BY <1>1, <3>1 DEF DevicesInv
    <3>3. \A w : Told(e, x, p, w) => Told(e, x, p, w)'  BY <1>5 DEF Told, Proper
    <3>4. \A j : Sendable(e, p, j) => Sendable(e, p, j)'  BY <1>5 DEF Sendable, Changing
    <3>5. DeviceOK(e, x, y, p, q)'  BY <3>2, <3>3, <3>4 DEF DeviceOK, Proper, Changing
    <3>6. tab'[e] = x /\ disk'[e] = y /\ out'[e] = p /\ in'[e] = q  BY <1>4, <2>2, <3>1
    <3> QED  BY <3>5, <3>6
  <2> QED  BY <2>1, <2>2
<1>8. EarlyInv'
  <2> SUFFICES ASSUME ~Complete, NEW e \in Devices
               PROVE  changes' = 0 /\ EarlyOK(e, tab[e], disk[e], out[e], in[e])'
    BY <1>6 DEF EarlyInv
  <2>1. CASE e = d  BY <1>4, <2>1 DEF EarlyOK
  <2>2. CASE e # d
    <3>1. EarlyOK(e, tab[e], disk[e], out[e], in[e])  BY <1>1 DEF EarlyInv
    <3> QED  BY <1>4, <2>2, <3>1 DEF EarlyOK
  <2> QED  BY <2>1, <2>2
<1>9. KeyInv'
  <2> SUFFICES ASSUME changes' = 0
               PROVE  \E M \in Key \ {0} :
                        /\ wrapped'.key \in {0, M}
                        /\ \A e \in Devices : Agrees(M, tab'[e], disk'[e], out'[e], in'[e])
    BY DEF KeyInv, Agrees
  <2>1. PICK M \in Key \ {0} :
          /\ wrapped.key \in {0, M} /\ Agrees(M, t, k, o, i)
          /\ \A e \in Devices \ {d} : Agrees(M, tab[e], disk[e], out[e], in[e])
    OBVIOUS
  <2>2. \A e \in Devices : Agrees(M, tab'[e], disk'[e], out'[e], in'[e])  BY <1>4, <2>1
  <2> QED  BY <1>5, <2>1, <2>2
<1> QED  BY <1>2, <1>3, <1>7, <1>8, <1>9 DEF AccountInv

(* The same with the keys that were there.                                 *)
LEMMA SameKeys ==
  ASSUME AccountInv, NEW d \in Devices, NEW t, NEW k, NEW o, NEW i, changes' = changes,
         \A M \in Key \ {0} : Agrees(M, tab[d], disk[d], out[d], in[d]) => Agrees(M, t, k, o, i)
  PROVE  changes' = 0 => \E M \in Key \ {0} :
           /\ wrapped.key \in {0, M} /\ Agrees(M, t, k, o, i)
           /\ \A e \in Devices \ {d} : Agrees(M, tab[e], disk[e], out[e], in[e])
BY DEF AccountInv, KeyInv

LEMMA DeviceFacts ==
  ASSUME AccountInv, NEW d \in Devices
  PROVE  /\ tab[d] \in Tab /\ disk[d] \in Disk /\ out[d] \in Seq(Messages) /\ in[d] \in Seq(Messages)
         /\ DeviceOK(d, tab[d], disk[d], out[d], in[d])
         /\ ~Complete => changes = 0 /\ EarlyOK(d, tab[d], disk[d], out[d], in[d])
         /\ lastKey \in Key /\ changes \in 0..MaxChanges /\ breaks \in 0..MaxBreaks
         /\ auth \in Creds /\ wrapped \in Wraps /\ priv \in PrivKeys
         /\ tab = [tab EXCEPT ![d] = tab[d]] /\ disk = [disk EXCEPT ![d] = disk[d]]
         /\ out = [out EXCEPT ![d] = out[d]] /\ in = [in EXCEPT ![d] = in[d]]
BY DEF AccountInv, AccountTypeOK, DevicesInv, EarlyInv

(* Blank pages, disks and messages.                                        *)
LEMMA Blanks ==
  /\ NoCred \in Creds /\ NoWrap \in Wraps /\ 0 \in Key /\ NoPriv \in PrivKeys
  /\ NoDocs \in [Docs -> Key] /\ NoRotation \in Rotation /\ BlankDisk \in Disk /\ NewTab \in Tab
  /\ NoWrap.cred = NoCred /\ NoWrap.key = 0 /\ NoCred.kdf = "none"
  /\ \A k \in Kinds : NoPriv[k] = 0
<1>1. NoCred \in Creds /\ NoWrap \in Wraps /\ NoWrap.cred = NoCred /\ NoWrap.key = 0 /\ NoCred.kdf = "none"
  BY DEF Creds, Wraps, NoWrap, Wrap, NoCred
<1>2. 0 \in Key  BY AccountsAssumption DEF Key
<1>3. NoPriv \in PrivKeys /\ NoDocs \in [Docs -> Key] /\ \A k \in Kinds : NoPriv[k] = 0
  BY <1>2 DEF NoPriv, PrivKeys, NoDocs
<1>4. NoRotation \in Rotation  BY <1>1, <1>2 DEF NoRotation, Rotation
<1>5. BlankDisk \in Disk  BY <1>1, <1>2, <1>3 DEF BlankDisk, Disk, NoCache
<1>6. Plain("none") \in Messages  BY <1>1, <1>3 DEF Plain, Messages
<1>7. NewTab \in Tab  BY <1>1, <1>2, <1>3, <1>4, <1>6 DEF NewTab, Tab
<1> QED  BY <1>1, <1>2, <1>3, <1>4, <1>5, <1>7

LEMMA Prefix ==
  ASSUME NEW d \in Devices, NEW o \in Seq(Messages), NEW n \in 0..Len(o),
         \A j \in DOMAIN o : Sendable(d, o, j)
  PROVE  LET p == SubSeq(o, 1, n)
         IN  /\ p \in Seq(Messages)
             /\ \A j \in DOMAIN p : j \in DOMAIN o /\ p[j] = o[j] /\ Sendable(d, p, j)
             /\ o = <<>> => p = <<>>
<1>1. PICK p : p = SubSeq(o, 1, n)  OBVIOUS
<1>2. /\ p \in Seq(Messages) /\ DOMAIN p = 1..n /\ \A j \in 1..n : p[j] = o[j]
      /\ DOMAIN o = 1..Len(o) /\ n \in Nat /\ Len(o) \in Nat
  BY <1>1
<1>3. o = <<>> => p = <<>>  BY <1>2
<1>4. ASSUME NEW j \in DOMAIN p PROVE j \in DOMAIN o /\ p[j] = o[j] /\ Sendable(d, p, j)
  <2>1. j \in DOMAIN o /\ p[j] = o[j] /\ p[1] = o[1]  BY <1>2
  <2> QED  BY <2>1 DEF Sendable
<1> QED  BY <1>1, <1>2, <1>3, <1>4

LEMMA EndStep ==
  ASSUME AccountInv, NEW d \in Devices, NEW t, NEW k, NEW n \in 0..Len(out[d]),
         t = NewTab \/ (t = [NewTab EXCEPT !.migrate = tab[d].migrate]),
         \/ k = disk[d] \/ k = BlankDisk \/ k = [disk[d] EXCEPT !.cache = NoCache],
         tab' = [tab EXCEPT ![d] = t], disk' = [disk EXCEPT ![d] = k], Break(d),
         out' = [out EXCEPT ![d] = SubSeq(out[d], 1, n)]
  PROVE  AccountInv'
<1>1. /\ tab[d] \in Tab /\ disk[d] \in Disk /\ out[d] \in Seq(Messages)
      /\ DeviceOK(d, tab[d], disk[d], out[d], in[d])
      /\ ~Complete => changes = 0 /\ EarlyOK(d, tab[d], disk[d], out[d], in[d])
      /\ breaks \in 0..MaxBreaks /\ changes \in 0..MaxChanges /\ lastKey \in Key
  BY DeviceFacts
<1>2. /\ breaks' = breaks + 1 /\ breaks < MaxBreaks /\ in' = [in EXCEPT ![d] = <<>>]
      /\ UNCHANGED <<row, lastKey, changes>>
  BY DEF Break
<1>3. breaks' \in 0..MaxBreaks  BY <1>1, <1>2, AccountsAssumption
<1>4. PICK o : o = SubSeq(out[d], 1, n)  OBVIOUS
<1>5. /\ o \in Seq(Messages) /\ (out[d] = <<>> => o = <<>>)
      /\ \A j \in DOMAIN o : j \in DOMAIN out[d] /\ o[j] = out[d][j] /\ Sendable(d, o, j)
  <2>1. PICK s \in Seq(Messages) : s = out[d]  BY <1>1
  <2>2. \A j \in DOMAIN s : Sendable(d, s, j)  BY <1>1, <2>1 DEF DeviceOK
  <2>3. n \in 0..Len(s) /\ o = SubSeq(s, 1, n)  BY <1>4, <2>1
  <2>4. /\ o \in Seq(Messages) /\ (s = <<>> => o = <<>>)
        /\ \A j \in DOMAIN o : j \in DOMAIN s /\ o[j] = s[j] /\ Sendable(d, o, j)
    BY <2>2, <2>3, Prefix
  <2> QED  BY <2>1, <2>4
<1>6. /\ t \in Tab /\ t.phase = "form" /\ t.session = 0 /\ t.mgr = 0 /\ t.stores = NoDocs
      /\ t.closure = 0 /\ t.wrap = NoWrap /\ t.cred = NoCred /\ t.offer = NoWrap
      /\ t.conn = "none" /\ t.rotation = NoRotation
      /\ t.migrate = Plain("none") \/ t.migrate = tab[d].migrate
      /\ tab[d].migrate = Plain("none") => t = NewTab
  <2>1. NewTab \in Tab /\ tab[d].migrate \in Messages  BY <1>1, Blanks DEF Tab
  <2>2. CASE t = NewTab  BY <2>1, <2>2 DEF NewTab
  <2>3. CASE t = [NewTab EXCEPT !.migrate = tab[d].migrate]
    <3>1. NewTab.migrate = Plain("none")  BY DEF NewTab
    <3>2. tab[d].migrate = Plain("none") => t = NewTab  BY <2>1, <2>3, <3>1 DEF NewTab
    <3> QED  BY <2>1, <2>3, <3>2 DEF NewTab, Tab
  <2> QED  BY <2>2, <2>3
<1>7. /\ k \in Disk /\ (k.wrapped = disk[d].wrapped \/ k.wrapped = NoWrap)
      /\ (k.docs = disk[d].docs \/ k.docs = NoDocs)
      /\ (k.cache = disk[d].cache \/ k.cache = NoCache)
      /\ disk[d] = BlankDisk => k = BlankDisk
      /\ k.wrapped = disk[d].wrapped \/ k = BlankDisk
  <2>1. CASE k = [disk[d] EXCEPT !.cache = NoCache]
    <3>1. NoCache \in [outer : Key, inner : Key]  BY Blanks DEF NoCache
    <3> QED  BY <1>1, <2>1, <3>1 DEF Disk, BlankDisk
  <2> QED  BY <1>1, <2>1, Blanks DEF BlankDisk
<1>8. BlankDisk.wrapped = NoWrap /\ BlankDisk.docs = NoDocs /\ BlankDisk.cache = NoCache
  BY DEF BlankDisk
<1>9. DeviceOK(d, t, k, o, <<>>)
  BY <1>1, <1>5, <1>6, <1>7, Blanks DEF DeviceOK, NoRotation, Proper
<1>10. ASSUME ~Complete PROVE EarlyOK(d, t, k, o, <<>>)
  BY <1>1, <1>5, <1>6, <1>7, <1>8, <1>10, Blanks DEF EarlyOK, NoRotation
<1>11. ASSUME NEW M \in Key \ {0}, Agrees(M, tab[d], disk[d], out[d], in[d])
       PROVE  Agrees(M, t, k, o, <<>>)
  <2>1. Plain("none").wrap.key = 0  BY Blanks DEF Plain
  <2>2. (\A x \in Docs : NoDocs[x] = 0) /\ NoRotation.step = "idle"
    BY DEF NoDocs, NoRotation
  <2>3. /\ disk[d].wrapped.key \in {0, M} /\ tab[d].migrate.wrap.key \in {0, M}
        /\ disk[d].cache = NoCache \/ disk[d].cache = [outer |-> M, inner |-> M]
        /\ \A x \in Docs : disk[d].docs[x] \in {0, M}
        /\ \A j \in DOMAIN out[d] : out[d][j].wrap.key \in {0, M}
    BY <1>11 DEF Agrees
  <2>4. k.wrapped.key \in {0, M} /\ t.migrate.wrap.key \in {0, M} /\ t.offer.key = 0
    BY <1>6, <1>7, <2>1, <2>3, Blanks
  <2>5. \A x \in Docs : k.docs[x] \in {0, M} /\ t.stores[x] = 0  BY <1>6, <1>7, <2>2, <2>3
  <2>6. \A j \in DOMAIN o : o[j].wrap.key \in {0, M}  BY <1>5, <2>3
  <2>7. k.cache = NoCache \/ k.cache = [outer |-> M, inner |-> M]  BY <1>7, <2>3
  <2> QED  BY <1>6, <2>2, <2>4, <2>5, <2>6, <2>7 DEF Agrees
<1>12. /\ <<>> \in Seq(Messages) /\ changes' = changes /\ changes' \in 0..MaxChanges
       /\ lastKey' \in Key /\ UNCHANGED row
  BY <1>1, <1>2
<1>13. changes' = 0 => \E M \in Key \ {0} :
         /\ wrapped.key \in {0, M} /\ Agrees(M, t, k, o, <<>>)
         /\ \A e \in Devices \ {d} : Agrees(M, tab[e], disk[e], out[e], in[e])
  BY <1>11, <1>12, SameKeys
<1> QED
  BY <1>1, <1>2, <1>3, <1>4, <1>5, <1>6, <1>7, <1>9, <1>10, <1>12, <1>13, DeviceStep

LEMMA EndSteps ==
  ASSUME AccountInv, NEW d \in Devices, CloseTab(d) \/ Logout(d) \/ PurgeLocal(d)
  PROVE  AccountInv'
<1>1. out[d] \in Seq(Messages) /\ disk = [disk EXCEPT ![d] = disk[d]] /\ out = [out EXCEPT ![d] = out[d]]
  BY DeviceFacts
<1>2. Len(out[d]) \in 0..Len(out[d]) /\ SubSeq(out[d], 1, Len(out[d])) = out[d]
  BY <1>1
<1>3. CASE CloseTab(d)
  <2>1. PICK n \in 0..Len(out[d]) : out' = [out EXCEPT ![d] = SubSeq(@, 1, n)]
    BY <1>3 DEF CloseTab, CutOff
  <2>2. tab' = [tab EXCEPT ![d] = NewTab] /\ disk' = [disk EXCEPT ![d] = disk[d]] /\ Break(d)
    BY <1>1, <1>3 DEF CloseTab
  <2> QED  BY <2>1, <2>2, EndStep
<1>4. CASE Logout(d)
  <2>1. /\ tab' = [tab EXCEPT ![d] = [NewTab EXCEPT !.migrate = tab[d].migrate]] /\ Break(d)
        /\ disk' = [disk EXCEPT ![d] = [disk[d] EXCEPT !.cache = NoCache]]
        /\ out' = [out EXCEPT ![d] = SubSeq(out[d], 1, Len(out[d]))]
    BY <1>1, <1>2, <1>4 DEF Logout
  <2> QED  BY <1>2, <2>1, EndStep
<1>5. CASE PurgeLocal(d)
  <2>1. PICK n \in 0..Len(out[d]) : out' = [out EXCEPT ![d] = SubSeq(@, 1, n)]
    BY <1>5 DEF PurgeLocal, CutOff
  <2>2. tab' = [tab EXCEPT ![d] = NewTab] /\ disk' = [disk EXCEPT ![d] = BlankDisk] /\ Break(d)
    BY <1>5 DEF PurgeLocal
  <2> QED  BY <2>1, <2>2, EndStep
<1> QED  BY <1>3, <1>4, <1>5

LEMMA LoseStep == ASSUME AccountInv, NEW d \in Devices, Lose(d) PROVE AccountInv'
<1>1. /\ tab[d] \in Tab /\ disk[d] \in Disk /\ out[d] \in Seq(Messages)
      /\ DeviceOK(d, tab[d], disk[d], out[d], in[d])
      /\ ~Complete => changes = 0 /\ EarlyOK(d, tab[d], disk[d], out[d], in[d])
      /\ breaks \in 0..MaxBreaks /\ changes \in 0..MaxChanges /\ lastKey \in Key
      /\ disk = [disk EXCEPT ![d] = disk[d]]
  BY DeviceFacts
<1>2. PICK t : t = [tab[d] EXCEPT !.conn = "lost"]  OBVIOUS
<1>3. /\ tab[d].conn \in {"checked", "open"} /\ tab' = [tab EXCEPT ![d] = t]
      /\ disk' = [disk EXCEPT ![d] = disk[d]] /\ breaks' = breaks + 1 /\ breaks < MaxBreaks
      /\ in' = [in EXCEPT ![d] = <<>>] /\ UNCHANGED <<row, lastKey, changes>>
  BY <1>1, <1>2 DEF Lose, Break
<1>4. PICK n \in 0..Len(out[d]) : out' = [out EXCEPT ![d] = SubSeq(@, 1, n)]
  BY DEF Lose, CutOff
<1>5. PICK s \in Seq(Messages), o \in Seq(Messages) : s = out[d] /\ o = SubSeq(s, 1, n)
  <2>1. SubSeq(out[d], 1, n) \in Seq(Messages)  BY <1>1
  <2> QED  BY <1>1, <2>1
<1>6. /\ o \in Seq(Messages) /\ (s = <<>> => o = <<>>)
      /\ \A j \in DOMAIN o : j \in DOMAIN s /\ o[j] = s[j] /\ Sendable(d, o, j)
  <2>1. \A j \in DOMAIN s : Sendable(d, s, j)  BY <1>1, <1>5 DEF DeviceOK
  <2>2. n \in 0..Len(s) /\ o = SubSeq(s, 1, n)  BY <1>4, <1>5
  <2> QED  BY <2>1, <2>2, Prefix
<1>7. breaks' \in 0..MaxBreaks  BY <1>1, <1>3, AccountsAssumption
<1>8. /\ t \in Tab /\ t.conn = "lost" /\ t.phase = tab[d].phase /\ t.session = tab[d].session
      /\ t.mgr = tab[d].mgr /\ t.stores = tab[d].stores /\ t.closure = tab[d].closure
      /\ t.wrap = tab[d].wrap /\ t.cred = tab[d].cred /\ t.offer = tab[d].offer
      /\ t.migrate = tab[d].migrate /\ t.rotation = tab[d].rotation
  BY <1>1, <1>2 DEF Tab
<1>9. DeviceOK(d, t, disk[d], o, <<>>)  BY <1>1, <1>3, <1>6, <1>8 DEF DeviceOK
<1>10. ASSUME ~Complete PROVE EarlyOK(d, t, disk[d], o, <<>>)
  <2>1. d = First  BY <1>1, <1>3, <1>10 DEF EarlyOK, NewTab
  <2> QED  BY <1>1, <1>3, <1>5, <1>6, <1>8, <1>10, <2>1 DEF EarlyOK
<1>11. ASSUME NEW M \in Key \ {0}, Agrees(M, tab[d], disk[d], out[d], in[d])
       PROVE  Agrees(M, t, disk[d], o, <<>>)
  BY <1>5, <1>6, <1>8, <1>11 DEF Agrees
<1>12. /\ <<>> \in Seq(Messages) /\ changes' = changes /\ changes' \in 0..MaxChanges
       /\ lastKey' \in Key /\ UNCHANGED row /\ out' = [out EXCEPT ![d] = o]
  BY <1>1, <1>3, <1>4, <1>5
<1>13. changes' = 0 => \E M \in Key \ {0} :
         /\ wrapped.key \in {0, M} /\ Agrees(M, t, disk[d], o, <<>>)
         /\ \A e \in Devices \ {d} : Agrees(M, tab[e], disk[e], out[e], in[e])
  BY <1>11, <1>12, SameKeys
<1>14. ~Complete => changes' = 0 /\ EarlyOK(d, t, disk[d], o, <<>>)  BY <1>1, <1>10, <1>12
<1>15. t \in Tab /\ disk[d] \in Disk /\ o \in Seq(Messages)  BY <1>1, <1>6, <1>8
<1> QED  BY <1>3, <1>7, <1>9, <1>12, <1>13, <1>14, <1>15, DeviceStep

LEMMA RegisterStep == ASSUME AccountInv, NEW d \in Devices, Register(d) PROVE AccountInv'
<1>1. /\ tab[d] \in Tab /\ disk[d] \in Disk /\ out[d] \in Seq(Messages)
      /\ DeviceOK(d, tab[d], disk[d], out[d], in[d])
      /\ ~Complete => changes = 0 /\ EarlyOK(d, tab[d], disk[d], out[d], in[d])
      /\ breaks \in 0..MaxBreaks /\ changes \in 0..MaxChanges /\ lastKey \in Key
      /\ disk = [disk EXCEPT ![d] = disk[d]] /\ out = [out EXCEPT ![d] = out[d]]
      /\ priv \in PrivKeys
  BY DeviceFacts
<1>2. PICK t : t = [tab[d] EXCEPT !.conn = "open"]  OBVIOUS
<1>3. PICK m : m = Connected(tab[d].seen, priv)  OBVIOUS
<1>4. /\ tab[d].conn = "checked" /\ tab' = [tab EXCEPT ![d] = t]
      /\ disk' = [disk EXCEPT ![d] = disk[d]] /\ out' = [out EXCEPT ![d] = out[d]]
      /\ in' = [in EXCEPT ![d] = <<m>>] /\ UNCHANGED <<row, lastKey, changes, breaks>>
  BY <1>1, <1>2, <1>3 DEF Register, counts
<1>5. m \in Messages /\ m.type = "connected" /\ m.wrap = tab[d].seen
  <2>1. tab[d].seen \in Wraps  BY <1>1 DEF Tab
  <2> QED  BY <1>1, <1>3, <2>1, Blanks DEF Connected, Plain, Messages
<1>6. <<m>> \in Seq(Messages) /\ DOMAIN <<m>> = {1} /\ <<m>>[1] = m  BY <1>5
<1>7. PICK i : i = <<m>>  OBVIOUS
<1>8. /\ t \in Tab /\ t.conn = "open" /\ t.phase = tab[d].phase /\ t.session = tab[d].session
      /\ t.mgr = tab[d].mgr /\ t.stores = tab[d].stores /\ t.closure = tab[d].closure
      /\ t.wrap = tab[d].wrap /\ t.cred = tab[d].cred /\ t.offer = tab[d].offer
      /\ t.migrate = tab[d].migrate /\ t.rotation = tab[d].rotation
  BY <1>1, <1>2 DEF Tab
<1>9. DeviceOK(d, t, disk[d], out[d], i)
  BY <1>1, <1>4, <1>5, <1>6, <1>7, <1>8 DEF DeviceOK, Told
<1>10. ASSUME ~Complete PROVE EarlyOK(d, t, disk[d], out[d], i)
  <2>1. d = First  BY <1>1, <1>4, <1>10 DEF EarlyOK, NewTab
  <2> QED  BY <1>1, <1>4, <1>5, <1>6, <1>7, <1>8, <1>10, <2>1 DEF EarlyOK
<1>11. ASSUME NEW M \in Key \ {0}, Agrees(M, tab[d], disk[d], out[d], in[d])
       PROVE  Agrees(M, t, disk[d], out[d], i)
  BY <1>4, <1>5, <1>6, <1>7, <1>8, <1>11 DEF Agrees
<1>12. changes' = 0 => \E M \in Key \ {0} :
         /\ wrapped.key \in {0, M} /\ Agrees(M, t, disk[d], out[d], i)
         /\ \A e \in Devices \ {d} : Agrees(M, tab[e], disk[e], out[e], in[e])
  BY <1>4, <1>11, SameKeys
<1>13. /\ i \in Seq(Messages) /\ changes' = changes /\ changes' \in 0..MaxChanges
       /\ lastKey' \in Key /\ breaks' \in 0..MaxBreaks /\ UNCHANGED row
       /\ in' = [in EXCEPT ![d] = i]
  BY <1>1, <1>4, <1>6, <1>7
<1> QED  BY <1>1, <1>4, <1>8, <1>9, <1>10, <1>12, <1>13, DeviceStep

(* Only what is stored, with keys that the page has, and how far a change  *)
(* of the password has come.                                               *)
LEMMA StoreStep ==
  ASSUME AccountInv, NEW d \in Devices, NEW k \in Disk, NEW r \in Rotation,
         k.wrapped = disk[d].wrapped, tab' = [tab EXCEPT ![d].rotation = r],
         disk' = [disk EXCEPT ![d] = k], UNCHANGED <<row, wire, breaks>>,
         lastKey' \in Key, changes' \in 0..MaxChanges, changes' = 0 => changes = 0,
         IF r.step = "idle" THEN r.todo = {} ELSE r.new # NoCred /\ r.key # 0,
         ~Complete => r.step = "idle" /\ changes' = 0,
         ~Complete /\ tab[d].stores = NoDocs => k = disk[d],
         d # First /\ ~Complete => r = tab[d].rotation,
         changes' = 0 => /\ r.step = "idle"
                         /\ \A x \in Docs : k.docs[x] \in {disk[d].docs[x], tab[d].stores[x]}
                         /\ k.cache = disk[d].cache
  PROVE  AccountInv'
<1>1. /\ tab[d] \in Tab /\ disk[d] \in Disk /\ out[d] \in Seq(Messages) /\ in[d] \in Seq(Messages)
      /\ DeviceOK(d, tab[d], disk[d], out[d], in[d])
      /\ ~Complete => changes = 0 /\ EarlyOK(d, tab[d], disk[d], out[d], in[d])
      /\ breaks \in 0..MaxBreaks /\ out = [out EXCEPT ![d] = out[d]] /\ in = [in EXCEPT ![d] = in[d]]
  BY DeviceFacts
<1>2. PICK t : t = [tab[d] EXCEPT !.rotation = r]  OBVIOUS
<1>3. /\ t \in Tab /\ t.conn = tab[d].conn /\ t.phase = tab[d].phase /\ t.session = tab[d].session
      /\ t.mgr = tab[d].mgr /\ t.stores = tab[d].stores /\ t.closure = tab[d].closure
      /\ t.wrap = tab[d].wrap /\ t.cred = tab[d].cred /\ t.offer = tab[d].offer
      /\ t.migrate = tab[d].migrate /\ t.rotation = r /\ t.seen = tab[d].seen
      /\ r = tab[d].rotation => t = tab[d]
  BY <1>1, <1>2 DEF Tab
<1>4. /\ tab' = [tab EXCEPT ![d] = t] /\ out' = [out EXCEPT ![d] = out[d]]
      /\ in' = [in EXCEPT ![d] = in[d]] /\ UNCHANGED row /\ breaks' \in 0..MaxBreaks
  BY <1>1, <1>2 DEF wire
<1>5. DeviceOK(d, t, k, out[d], in[d])
  BY <1>1, <1>3 DEF DeviceOK, Told
<1>6. ASSUME ~Complete PROVE EarlyOK(d, t, k, out[d], in[d])
  <2>1. d # First => t = NewTab /\ k = BlankDisk
    BY <1>1, <1>3, <1>6 DEF EarlyOK, NewTab
  <2>2. k.wrapped = NoWrap => k = disk[d]  BY <1>1, <1>6 DEF EarlyOK
  <2> QED  BY <1>1, <1>3, <1>6, <2>1, <2>2 DEF EarlyOK
<1>7. ASSUME changes' = 0, NEW M \in Key \ {0}, Agrees(M, tab[d], disk[d], out[d], in[d])
      PROVE  Agrees(M, t, k, out[d], in[d])
  BY <1>3, <1>7 DEF Agrees
<1>8. changes' = 0 => \E M \in Key \ {0} :
        /\ wrapped.key \in {0, M} /\ Agrees(M, t, k, out[d], in[d])
        /\ \A e \in Devices \ {d} : Agrees(M, tab[e], disk[e], out[e], in[e])
  BY <1>7 DEF AccountInv, KeyInv
<1> QED  BY <1>1, <1>3, <1>4, <1>5, <1>6, <1>8, DeviceStep

LEMMA NotChanging ==
  ASSUME AccountInv, NEW d \in Devices
  PROVE  /\ changes = 0 => tab[d].rotation.step = "idle"
         /\ ~Complete => tab[d].rotation.step = "idle" /\ changes = 0
         /\ tab[d].rotation.step # "idle" => changes # 0 /\ Complete
         /\ tab[d].rotation \in Rotation /\ disk[d] \in Disk /\ tab[d].session \in Key
         /\ tab[d].stores \in [Docs -> Key] /\ tab \in [Devices -> Tab] /\ disk \in [Devices -> Disk]
         /\ IF tab[d].rotation.step = "idle" THEN tab[d].rotation.todo = {}
            ELSE tab[d].rotation.new # NoCred /\ tab[d].rotation.key # 0
<1>1. /\ tab[d] \in Tab /\ disk[d] \in Disk /\ DeviceOK(d, tab[d], disk[d], out[d], in[d])
      /\ ~Complete => changes = 0 /\ EarlyOK(d, tab[d], disk[d], out[d], in[d])
  BY DeviceFacts
<1>2. changes = 0 => tab[d].rotation.step = "idle"  BY DEF AccountInv, KeyInv, Agrees
<1>3. ~Complete => tab[d].rotation.step = "idle" /\ changes = 0  BY <1>1 DEF EarlyOK
<1>4. /\ tab[d].rotation \in Rotation /\ tab[d].session \in Key /\ tab[d].stores \in [Docs -> Key]
  BY <1>1 DEF Tab
<1>5. tab \in [Devices -> Tab] /\ disk \in [Devices -> Disk]  BY DEF AccountInv, AccountTypeOK
<1>6. IF tab[d].rotation.step = "idle" THEN tab[d].rotation.todo = {}
      ELSE tab[d].rotation.new # NoCred /\ tab[d].rotation.key # 0
  BY <1>1 DEF DeviceOK
<1> QED  BY <1>1, <1>2, <1>3, <1>4, <1>5, <1>6

LEMMA PersistStep ==
  ASSUME AccountInv, NEW d \in Devices, NEW x \in Docs, Persist(d, x) PROVE AccountInv'
<1>1. PICK k : k = [disk[d] EXCEPT !.docs[x] = tab[d].stores[x]]  OBVIOUS
<1>2. PICK r : r = tab[d].rotation  OBVIOUS
<1>3. /\ r.step = "idle" \/ (changes # 0 /\ Complete)
      /\ changes = 0 => r.step = "idle"
      /\ ~Complete => r.step = "idle" /\ changes = 0
      /\ IF r.step = "idle" THEN r.todo = {} ELSE r.new # NoCred /\ r.key # 0
      /\ r \in Rotation /\ disk[d] \in Disk /\ tab[d].stores \in [Docs -> Key]
      /\ tab \in [Devices -> Tab] /\ disk \in [Devices -> Disk]
  BY <1>2, NotChanging
<1>4. /\ k \in Disk /\ k.wrapped = disk[d].wrapped /\ k.cache = disk[d].cache
      /\ \A y \in Docs : k.docs[y] \in {disk[d].docs[y], tab[d].stores[y]}
  BY <1>1, <1>3 DEF Disk
<1>5. tab[d].stores # NoDocs  BY DEF Persist, NoDocs
<1>6. /\ disk' = [disk EXCEPT ![d] = k] /\ tab' = tab
      /\ UNCHANGED <<row, wire, breaks, lastKey, changes>>
  BY <1>1, <1>3 DEF Persist, counts
<1>7. tab' = [tab EXCEPT ![d].rotation = r]  BY <1>2, <1>3, <1>6 DEF Tab
<1>8. lastKey' \in Key /\ changes' \in 0..MaxChanges  BY <1>6 DEF AccountInv, AccountTypeOK
<1> QED  BY <1>2, <1>3, <1>4, <1>5, <1>6, <1>7, <1>8, StoreStep

LEMMA ReEncryptStep ==
  ASSUME AccountInv, NEW d \in Devices, NEW x \in Docs, ReEncrypt(d, x) PROVE AccountInv'
<1>1. PICK r : r = tab[d].rotation  OBVIOUS
<1>2. /\ changes = 0 => r.step = "idle"
      /\ ~Complete => r.step = "idle"
      /\ IF r.step = "idle" THEN r.todo = {} ELSE r.new # NoCred /\ r.key # 0
      /\ r \in Rotation /\ disk[d] \in Disk /\ tab \in [Devices -> Tab] /\ disk \in [Devices -> Disk]
  BY <1>1, NotChanging
<1>3. /\ x \in r.todo /\ UNCHANGED <<row, wire, breaks, lastKey, changes>>
      /\ \/ /\ disk' = [disk EXCEPT ![d].docs[x] = r.key]
            /\ tab' = [tab EXCEPT ![d].rotation.todo = @ \ {x}]
         \/ tab' = [tab EXCEPT ![d].rotation = NoRotation] /\ UNCHANGED disk
  BY <1>1 DEF ReEncrypt, counts
<1>4. r.step # "idle" /\ changes # 0 /\ Complete  BY <1>2, <1>3
<1>5. lastKey' \in Key /\ changes' \in 0..MaxChanges /\ changes' # 0
  BY <1>3, <1>4 DEF AccountInv, AccountTypeOK
<1>6. CASE disk' = [disk EXCEPT ![d].docs[x] = r.key] /\ tab' = [tab EXCEPT ![d].rotation.todo = @ \ {x}]
  <2>1. PICK k : k = [disk[d] EXCEPT !.docs[x] = r.key]  OBVIOUS
  <2>2. PICK q : q = [r EXCEPT !.todo = @ \ {x}]  OBVIOUS
  <2>3. k \in Disk /\ k.wrapped = disk[d].wrapped  BY <1>2, <2>1 DEF Disk, Rotation
  <2>4. q \in Rotation /\ q.step = r.step /\ q.new = r.new /\ q.key = r.key
    BY <1>2, <2>2 DEF Rotation
  <2>5. disk' = [disk EXCEPT ![d] = k] /\ tab' = [tab EXCEPT ![d].rotation = q]
    BY <1>1, <1>2, <1>6, <2>1, <2>2
  <2> QED  BY <1>2, <1>3, <1>4, <1>5, <2>3, <2>4, <2>5, StoreStep
<1>7. CASE tab' = [tab EXCEPT ![d].rotation = NoRotation] /\ UNCHANGED disk
  <2>1. NoRotation \in Rotation /\ NoRotation.step = "idle" /\ NoRotation.todo = {}
    BY Blanks DEF NoRotation
  <2>2. disk' = [disk EXCEPT ![d] = disk[d]]  BY <1>2, <1>7
  <2> QED  BY <1>2, <1>3, <1>4, <1>5, <1>7, <2>1, <2>2, StoreStep
<1> QED  BY <1>3, <1>6, <1>7

LEMMA ReEncryptCacheStep ==
  ASSUME AccountInv, NEW d \in Devices, ReEncryptCache(d) PROVE AccountInv'
<1>1. PICK r : r = tab[d].rotation  OBVIOUS
<1>2. /\ changes = 0 => r.step = "idle"
      /\ ~Complete => r.step = "idle"
      /\ IF r.step = "idle" THEN r.todo = {} ELSE r.new # NoCred /\ r.key # 0
      /\ r \in Rotation /\ disk[d] \in Disk /\ tab \in [Devices -> Tab] /\ disk \in [Devices -> Disk]
  BY <1>1, NotChanging
<1>3. PICK q : q = [r EXCEPT !.step = "commit"]  OBVIOUS
<1>4. PICK c : c \in {disk[d].cache.outer, r.key} /\ disk' = [disk EXCEPT ![d].cache.outer = c]
  BY <1>1 DEF ReEncryptCache
<1>5. PICK k : k = [disk[d] EXCEPT !.cache.outer = c]  OBVIOUS
<1>6. /\ r.step = "docs" /\ tab' = [tab EXCEPT ![d].rotation = q]
      /\ disk' = [disk EXCEPT ![d] = k] /\ UNCHANGED <<row, wire, breaks, lastKey, changes>>
  BY <1>1, <1>2, <1>3, <1>4, <1>5 DEF ReEncryptCache, counts
<1>7. c \in Key  BY <1>2, <1>4 DEF Disk, Rotation
<1>8. k \in Disk /\ k.wrapped = disk[d].wrapped  BY <1>2, <1>5, <1>7 DEF Disk
<1>9. q \in Rotation /\ q.step = "commit" /\ q.new = r.new /\ q.key = r.key
  BY <1>2, <1>3 DEF Rotation
<1>10. lastKey' \in Key /\ changes' \in 0..MaxChanges /\ changes' # 0 /\ Complete
  BY <1>2, <1>6 DEF AccountInv, AccountTypeOK
<1> QED  BY <1>2, <1>6, <1>8, <1>9, <1>10, StoreStep

LEMMA DerivedType ==
  ASSUME NEW p \in Passwords
  PROVE  /\ Derived(p) \in Creds /\ Older(p) \in Creds /\ Derived(p) # NoCred /\ Older(p) # NoCred
         /\ Derived(p).kdf = "current" /\ Older(p).kdf = "legacy"
BY DEF Derived, Older, Creds, NoCred

LEMMA BeginChangeStep ==
  ASSUME AccountInv, NEW d \in Devices, NEW p \in Passwords, NEW q \in Passwords, BeginChange(d, p, q)
  PROVE  AccountInv'
<1>1. PICK todo : todo = {x \in Docs : disk[d].docs[x] # 0}  OBVIOUS
<1>2. PICK r : r = [step |-> "docs", todo |-> todo, old |-> Derived(p), new |-> Derived(q),
                    key |-> lastKey + 1]
  OBVIOUS
<1>3. /\ Complete /\ changes < MaxChanges /\ changes' = changes + 1
      /\ lastKey < MaxKeys /\ lastKey' = lastKey + 1
      /\ tab' = [tab EXCEPT ![d].rotation = r] /\ UNCHANGED <<row, disk, wire, breaks>>
  BY <1>1, <1>2 DEF BeginChange
<1>4. lastKey \in Nat /\ changes \in Nat /\ MaxKeys \in Nat /\ MaxChanges \in Nat
  BY AccountsAssumption DEF AccountInv, AccountTypeOK, Key
<1>5. /\ lastKey' \in Key /\ lastKey + 1 \in Key /\ lastKey + 1 # 0
      /\ changes' \in 0..MaxChanges /\ changes' # 0
  BY <1>3, <1>4 DEF Key
<1>6. todo \subseteq Docs  BY <1>1
<1>7. r \in Rotation /\ r.step = "docs" /\ r.new = Derived(q) /\ r.key = lastKey + 1
  BY <1>2, <1>5, <1>6, DerivedType DEF Rotation
<1>8. disk[d] \in Disk /\ disk' = [disk EXCEPT ![d] = disk[d]]  BY <1>3, NotChanging
<1>9. r.new # NoCred  BY <1>7, DerivedType
<1> QED  BY <1>3, <1>5, <1>7, <1>8, <1>9, StoreStep

(* A message more to the server: the change of a password, the wish for    *)
(* the vaults, private keys once there is a wrapped key, or that one.      *)
LEMMA SendMore ==
  ASSUME NEW d, NEW o \in Seq(Messages), \A j \in DOMAIN o : Sendable(d, o, j), NEW m \in Messages,
         \/ Changing(m) \/ m.type = "list_vaults"
         \/ m.type = "set_identity" /\ (wrapped # NoWrap \/ (o # <<>> /\ o[1].type = "set_key"))
         \/ /\ m.type = "set_key" /\ o = <<>> /\ d = First /\ priv = NoPriv
            /\ m.wrap.cred = auth /\ m.wrap.cred # NoCred /\ m.wrap.key # 0
  PROVE  /\ Append(o, m) \in Seq(Messages)
         /\ \A j \in DOMAIN Append(o, m) :
              /\ Sendable(d, Append(o, m), j)
              /\ Append(o, m)[j] = m \/ (j \in DOMAIN o /\ Append(o, m)[j] = o[j])
         /\ Append(o, m) # <<>>
         /\ o # <<>> => Append(o, m)[1] = o[1]
         /\ o = <<>> => Append(o, m)[1] = m
<1>1. PICK p : p = Append(o, m)  OBVIOUS
<1>2. /\ p \in Seq(Messages) /\ DOMAIN p = 1..(Len(o) + 1) /\ DOMAIN o = 1..Len(o) /\ Len(o) \in Nat
      /\ \A j \in 1..Len(o) : p[j] = o[j]
      /\ p[Len(o) + 1] = m /\ p # <<>>
  BY <1>1
<1>3. (o = <<>> <=> Len(o) = 0)  OBVIOUS
<1>4. (o # <<>> => p[1] = o[1]) /\ (o = <<>> => p[1] = m)  BY <1>2, <1>3
<1>5. ASSUME NEW j \in DOMAIN p
      PROVE  Sendable(d, p, j) /\ (p[j] = m \/ (j \in DOMAIN o /\ p[j] = o[j]))
  <2>1. CASE j \in DOMAIN o
    <3>1. p[j] = o[j] /\ p[1] = o[1] /\ Sendable(d, o, j)  BY <1>2, <2>1
    <3> QED  BY <2>1, <3>1 DEF Sendable
  <2>2. CASE j \notin DOMAIN o
    <3>1. j = Len(o) + 1 /\ p[j] = m  BY <1>2, <2>2
    <3>2. o = <<>> => j = 1  BY <1>3, <3>1
    <3> QED  BY <1>4, <3>1, <3>2 DEF Sendable, Changing
  <2> QED  BY <2>1, <2>2
<1> QED  BY <1>1, <1>2, <1>4, <1>5

LEMMA MessageTypes ==
  ASSUME NEW w \in Wraps, NEW key \in Key, NEW c \in Creds, NEW e \in Creds, NEW p \in PrivKeys
  PROVE  /\ \A t \in {"none", "list_vaults", "vault_list", "password_changed", "ok", "error"} :
              Plain(t) \in Messages /\ Plain(t).type = t /\ Plain(t).wrap = NoWrap
         /\ SetKey(w) \in Messages /\ SetKey(w).type = "set_key" /\ SetKey(w).wrap = w
         /\ \A k \in Kinds : /\ SetIdentity(k, key) \in Messages
                             /\ SetIdentity(k, key).type = "set_identity"
                             /\ SetIdentity(k, key).wrap = NoWrap
         /\ LET m == ChangePassword(c, e, w, p)
            IN  m \in Messages /\ m.type = "change_password" /\ m.new = e /\ m.wrap = w
<1>1. /\ NoWrap \in Wraps /\ NoCred \in Creds /\ NoPriv \in PrivKeys  BY Blanks
<1>2. \A t \in {"none", "list_vaults", "vault_list", "password_changed", "ok", "error"} :
        Plain(t) \in Messages /\ Plain(t).type = t /\ Plain(t).wrap = NoWrap
  BY <1>1 DEF Plain, Messages
<1>3. SetKey(w) \in Messages /\ SetKey(w).type = "set_key" /\ SetKey(w).wrap = w
  BY <1>1 DEF SetKey, Plain, Messages
<1>4. ASSUME NEW k \in Kinds
      PROVE  /\ SetIdentity(k, key) \in Messages /\ SetIdentity(k, key).type = "set_identity"
             /\ SetIdentity(k, key).wrap = NoWrap
  <2>1. [NoPriv EXCEPT ![k] = key] \in PrivKeys  BY <1>1 DEF PrivKeys
  <2> QED  BY <1>1, <2>1 DEF SetIdentity, Plain, Messages
<1>5. LET m == ChangePassword(c, e, w, p)
      IN  m \in Messages /\ m.type = "change_password" /\ m.new = e /\ m.wrap = w
  BY DEF ChangePassword, Messages
<1> QED  BY <1>2, <1>3, <1>4, <1>5

LEMMA WrapType ==
  ASSUME NEW c \in Creds, NEW key \in Key
  PROVE  /\ Wrap(c, key) \in Wraps /\ Wrap(c, key).cred = c /\ Wrap(c, key).key = key
         /\ c # NoCred => Wrap(c, key) # NoWrap
BY DEF Wrap, Wraps, NoWrap

LEMMA CommitStep == ASSUME AccountInv, NEW d \in Devices, CommitChange(d) PROVE AccountInv'
<1>1. /\ tab[d] \in Tab /\ disk[d] \in Disk /\ out[d] \in Seq(Messages) /\ in[d] \in Seq(Messages)
      /\ DeviceOK(d, tab[d], disk[d], out[d], in[d])
      /\ breaks \in 0..MaxBreaks /\ changes \in 0..MaxChanges /\ lastKey \in Key
      /\ out = [out EXCEPT ![d] = out[d]] /\ in = [in EXCEPT ![d] = in[d]]
  BY DeviceFacts
<1>2. PICK r : r = tab[d].rotation  OBVIOUS
<1>3. PICK w : w = Wrap(r.new, r.key)  OBVIOUS
<1>4. PICK t : t = [tab[d] EXCEPT !.session = r.key, !.mgr = r.key, !.rotation = NoRotation]
  OBVIOUS
<1>5. PICK k : k = [disk[d] EXCEPT !.wrapped = w]  OBVIOUS
<1>6. PICK m : m = ChangePassword(r.old, r.new, w, [x \in Kinds |-> r.key])  OBVIOUS
<1>7. PICK o : o = IF tab[d].conn # "open" THEN out[d] ELSE Append(out[d], m)  OBVIOUS
<1>8. /\ r.step = "commit" /\ tab' = [tab EXCEPT ![d] = t] /\ disk' = [disk EXCEPT ![d] = k]
      /\ out' = [out EXCEPT ![d] = o] /\ in' = [in EXCEPT ![d] = in[d]]
      /\ UNCHANGED <<row, lastKey, changes, breaks>>
  <2>1. /\ r.step = "commit" /\ UNCHANGED <<row, in, counts>>
        /\ tab' = [tab EXCEPT ![d].session = r.key, ![d].mgr = r.key, ![d].rotation = NoRotation]
        /\ disk' = [disk EXCEPT ![d].wrapped = w]
        /\ out' = IF tab[d].conn # "open" THEN out ELSE [out EXCEPT ![d] = Append(@, m)]
    BY <1>2, <1>3, <1>6 DEF CommitChange
  <2>2. out' = [out EXCEPT ![d] = o]  BY <1>1, <1>7, <2>1
  <2>3. tab \in [Devices -> Tab]  BY NotChanging
  <2>4. tab' = [tab EXCEPT ![d] = t]  BY <1>4, <2>1, <2>3
  <2>5. disk' = [disk EXCEPT ![d] = k]  BY <1>5, <2>1
  <2> QED  BY <1>1, <2>1, <2>2, <2>4, <2>5 DEF counts
<1>9. /\ r \in Rotation /\ r.new # NoCred /\ r.key # 0 /\ changes # 0 /\ Complete
  BY <1>2, <1>8, NotChanging
<1>10. r.new \in Creds /\ r.old \in Creds /\ r.key \in Key  BY <1>9 DEF Rotation
<1>11. w \in Wraps /\ w.cred = r.new /\ w.key = r.key  BY <1>3, <1>10, WrapType
<1>12. m \in Messages /\ Changing(m)
  <2>1. [x \in Kinds |-> r.key] \in PrivKeys  BY <1>10 DEF PrivKeys
  <2>2. m \in Messages /\ m.type = "change_password" /\ m.new = r.new /\ m.wrap = w
    BY <1>6, <1>10, <1>11, <2>1, MessageTypes
  <2> QED  BY <1>9, <1>11, <2>2 DEF Changing
<1>13. o \in Seq(Messages) /\ \A j \in DOMAIN o : Sendable(d, o, j)
  <2>1. PICK s \in Seq(Messages) : s = out[d]  BY <1>1
  <2>2. \A j \in DOMAIN s : Sendable(d, s, j)  BY <1>1, <2>1 DEF DeviceOK
  <2>3. Append(s, m) \in Seq(Messages) /\ \A j \in DOMAIN Append(s, m) : Sendable(d, Append(s, m), j)
    BY <1>12, <2>2, SendMore
  <2> QED  BY <1>7, <2>1, <2>2, <2>3
<1>14. /\ t \in Tab /\ t.conn = tab[d].conn /\ t.phase = tab[d].phase /\ t.closure = tab[d].closure
       /\ t.wrap = tab[d].wrap /\ t.cred = tab[d].cred /\ t.offer = tab[d].offer
       /\ t.migrate = tab[d].migrate /\ t.rotation = NoRotation /\ t.seen = tab[d].seen
  BY <1>1, <1>4, <1>10, Blanks DEF Tab
<1>15. k \in Disk /\ k.wrapped = w  BY <1>1, <1>5, <1>11 DEF Disk
<1>16. priv # NoPriv  BY <1>9, Blanks DEF Complete, Kinds
<1>17. NoRotation.step = "idle" /\ NoRotation.todo = {}  BY DEF NoRotation
<1>18. DeviceOK(d, t, k, o, in[d])
  BY <1>1, <1>9, <1>11, <1>13, <1>14, <1>15, <1>16, <1>17 DEF DeviceOK, Told, Proper
<1>19. /\ lastKey' \in Key /\ changes' \in 0..MaxChanges /\ breaks' \in 0..MaxBreaks
       /\ changes' # 0 /\ UNCHANGED row
  BY <1>1, <1>8, <1>9
<1> QED  BY <1>1, <1>8, <1>9, <1>13, <1>14, <1>15, <1>18, <1>19, DeviceStep

(* What a login with password p, the stored key w and the key wrap made of *)
(* it leaves on the page, t, and in the storage, k.                        *)
IsOlder(w, p) == w # NoWrap /\ w.cred = Older(p)
Boots(d, p, w, wrap, t) ==
  /\ t.conn = "lost" /\ t.closure = wrap.key /\ t.wrap = wrap
  /\ t.offer = wrap /\ t.cred \in Creds
  /\ t.cred = Derived(p) \/ (IsOlder(w, p) /\ t.cred = Older(p))
  /\ \/ t.migrate = tab[d].migrate
     \/ /\ IsOlder(w, p) /\ t.cred = Older(p)
        /\ t.migrate = ChangePassword(Older(p), Derived(p), wrap, NoPriv)
Stays(d, w, t) ==
  /\ w # NoWrap /\ t.phase = tab[d].phase /\ t.conn = tab[d].conn
  /\ t.closure = tab[d].closure /\ t.wrap = tab[d].wrap /\ t.offer = tab[d].offer
  /\ t.cred = tab[d].cred /\ t.migrate = tab[d].migrate
Keeps(d, w, wrap, t, k) ==
  /\ k.wrapped = w \/ k.wrapped = wrap
  /\ k.cache = disk[d].cache
  /\ \A x \in Docs : k.docs[x] \in {disk[d].docs[x], wrap.key}
  /\ \A x \in Docs : t.stores[x] \in {tab[d].stores[x], 0, wrap.key}
  /\ t.session \in {tab[d].session, wrap.key} /\ t.mgr \in {tab[d].mgr, wrap.key}
  /\ t.rotation = tab[d].rotation /\ t.seen = tab[d].seen
  /\ w = NoWrap => /\ k = disk[d] /\ t.session = tab[d].session /\ t.mgr = tab[d].mgr
                   /\ t.stores = tab[d].stores

LEMMA LoginEffect ==
  ASSUME AccountInv, NEW d \in Devices, NEW p \in Passwords,
         NEW w, NEW wrap \in Wraps, NEW t \in Tab, NEW k \in Disk,
         w = disk[d].wrapped, tab[d].phase = "form", d = First \/ Complete,
         wrap = IF w = NoWrap THEN NoWrap ELSE Wrap(Derived(p), w.key),
         Keeps(d, w, wrap, t, k), (Boots(d, p, w, wrap, t) /\ t.phase # "form") \/ Stays(d, w, t),
         tab' = [tab EXCEPT ![d] = t], disk' = [disk EXCEPT ![d] = k], UNCHANGED <<row, wire, counts>>
  PROVE  AccountInv'
<1>1. /\ tab[d] \in Tab /\ disk[d] \in Disk /\ out[d] \in Seq(Messages) /\ in[d] \in Seq(Messages)
      /\ DeviceOK(d, tab[d], disk[d], out[d], in[d])
      /\ ~Complete => changes = 0 /\ EarlyOK(d, tab[d], disk[d], out[d], in[d])
      /\ breaks \in 0..MaxBreaks /\ changes \in 0..MaxChanges /\ lastKey \in Key
      /\ out = [out EXCEPT ![d] = out[d]] /\ in = [in EXCEPT ![d] = in[d]]
  BY DeviceFacts
<1>2. in[d] = <<>> /\ tab[d].conn \in {"none", "stopped"}  BY <1>1 DEF DeviceOK
<1>3. Proper(w) /\ w \in Wraps  BY <1>1 DEF DeviceOK, Disk
<1>4. /\ wrap.key = w.key /\ Proper(wrap) /\ (wrap = NoWrap <=> w = NoWrap)
      /\ wrap # NoWrap => wrap.cred = Derived(p)
      /\ wrap.key = 0 <=> w = NoWrap
  <2>1. CASE w = NoWrap  BY <2>1, Blanks DEF Proper
  <2>2. CASE w # NoWrap
    <3>1. w.key # 0 /\ w.key \in Key  BY <1>3, <2>2, Blanks DEF Proper, Wraps
    <3>2. /\ wrap.cred = Derived(p) /\ wrap.key = w.key /\ wrap # NoWrap /\ Derived(p) # NoCred
      BY <2>2, <3>1, WrapType, DerivedType
    <3> QED  BY <2>2, <3>1, <3>2 DEF Proper
  <2> QED  BY <2>1, <2>2
<1>5. /\ Derived(p).kdf = "current" /\ Older(p).kdf = "legacy" /\ Derived(p) # NoCred
      /\ Derived(p) # Older(p) /\ Older(p) # NoCred
  BY DerivedType
<1>6. w # NoWrap =>
               /\ Changing(ChangePassword(Older(p), Derived(p), wrap, NoPriv))
               /\ ChangePassword(Older(p), Derived(p), wrap, NoPriv).wrap = wrap
  BY <1>4, <1>5 DEF Changing, ChangePassword
<1>13. /\ k.wrapped = w \/ k.wrapped = wrap
       /\ t.rotation = tab[d].rotation
  BY DEF Keeps
<1>7. DeviceOK(d, t, k, out[d], in[d])
  <2>1. Proper(k.wrapped)  BY <1>3, <1>4, <1>13
  <2>2. /\ t.migrate = Plain("none") \/ Changing(t.migrate)
        /\ Proper(t.wrap) /\ Proper(t.offer) /\ t.closure = t.wrap.key
        /\ t.conn # "none" => t.cred # NoCred
        /\ t.phase = "form" => t.conn \in {"none", "stopped"}
    <3>1. CASE Stays(d, w, t)  BY <1>1, <3>1 DEF DeviceOK, Stays
    <3>2. CASE Boots(d, p, w, wrap, t) /\ t.phase # "form"
      <4>1. tab[d].migrate = Plain("none") \/ Changing(tab[d].migrate)  BY <1>1 DEF DeviceOK
      <4>2. t.migrate = Plain("none") \/ Changing(t.migrate)
        BY <1>6, <3>2, <4>1 DEF Boots, IsOlder
      <4> QED  BY <1>4, <1>5, <3>2, <4>2 DEF Boots, IsOlder
    <3> QED  BY <3>1, <3>2
  <2>3. t.conn # "checked" /\ t.conn # "open"  BY <1>2 DEF Boots, Stays
  <2> QED  BY <1>1, <1>2, <1>13, <2>1, <2>2, <2>3 DEF DeviceOK
<1>8. ASSUME ~Complete PROVE EarlyOK(d, t, k, out[d], in[d])
  <2>1. d = First /\ EarlyOK(d, tab[d], disk[d], out[d], in[d])  BY <1>1, <1>8
  <2>2. w.cred.kdf # "legacy"  BY <2>1 DEF EarlyOK
  <2>3. ~IsOlder(w, p)  BY <1>5, <2>2 DEF IsOlder
  <2>4. k.wrapped.cred.kdf # "legacy" /\ t.cred.kdf # "legacy"
    BY <1>4, <1>5, <1>13, <2>1, <2>2, <2>3, Blanks DEF EarlyOK, Boots, Stays
  <2>5. /\ t.migrate = Plain("none")
        /\ t.offer # NoWrap => t.offer.cred = t.cred
        /\ t.wrap # NoWrap => t.wrap.cred = t.cred
    BY <1>4, <1>5, <2>1, <2>3 DEF EarlyOK, Boots, Stays
  <2>6. k.wrapped = NoWrap => /\ k.docs = NoDocs /\ k.cache = NoCache /\ t.session = 0 /\ t.mgr = 0
                              /\ t.stores = NoDocs /\ t.offer = NoWrap /\ t.closure = 0
    <3> SUFFICES ASSUME k.wrapped = NoWrap
                 PROVE  /\ k.docs = NoDocs /\ k.cache = NoCache /\ t.session = 0 /\ t.mgr = 0
                        /\ t.stores = NoDocs /\ t.offer = NoWrap /\ t.closure = 0
      OBVIOUS
    <3>1. w = NoWrap /\ wrap = NoWrap  BY <1>4, <1>13
    <3>2. /\ k = disk[d] /\ t.session = tab[d].session /\ t.mgr = tab[d].mgr
          /\ t.stores = tab[d].stores
      BY <3>1 DEF Keeps
    <3>3. t.offer = NoWrap /\ t.closure = 0  BY <3>1, Blanks DEF Boots, Stays, IsOlder
    <3> QED  BY <2>1, <3>1, <3>2, <3>3 DEF EarlyOK
  <2>7. t.conn \in {"lost", "checked", "open"} /\ t.closure = 0 => k.wrapped = NoWrap
    BY <1>2, <1>4, <1>13 DEF Boots, Stays
  <2> QED  BY <1>13, <2>1, <2>4, <2>5, <2>6, <2>7 DEF EarlyOK
<1>9. ASSUME NEW M \in Key \ {0}, Agrees(M, tab[d], disk[d], out[d], in[d])
      PROVE  Agrees(M, t, k, out[d], in[d])
  <2>1. w.key \in {0, M} /\ wrap.key \in {0, M}  BY <1>4, <1>9 DEF Agrees
  <2>2. k.wrapped.key \in {0, M}  BY <1>13, <2>1
  <2>3. \A x \in Docs : k.docs[x] \in {0, M} /\ t.stores[x] \in {0, M}  BY <1>9, <2>1 DEF Agrees, Keeps
  <2>4. /\ t.session \in {0, M} /\ t.mgr \in {0, M} /\ t.closure \in {0, M}
        /\ t.offer.key \in {0, M} /\ t.migrate.wrap.key \in {0, M} /\ t.conn # "checked"
    <3>1. t.session \in {0, M} /\ t.mgr \in {0, M}  BY <1>9, <2>1 DEF Agrees, Keeps
    <3>2. CASE Stays(d, w, t)  BY <1>2, <1>9, <3>1, <3>2 DEF Agrees, Stays
    <3>3. CASE Boots(d, p, w, wrap, t) /\ t.phase # "form"
      <4>1. t.migrate.wrap.key \in {0, M}
        BY <1>6, <1>9, <2>1, <3>3 DEF Agrees, Boots, IsOlder
      <4> QED  BY <2>1, <3>1, <3>3, <4>1 DEF Boots, IsOlder
    <3> QED  BY <3>2, <3>3
  <2> QED  BY <1>9, <1>13, <2>2, <2>3, <2>4 DEF Agrees, Keeps
<1>10. /\ UNCHANGED <<row, lastKey, changes, breaks>> /\ out' = [out EXCEPT ![d] = out[d]]
       /\ in' = [in EXCEPT ![d] = in[d]]
  BY <1>1 DEF wire, counts
<1>11. changes' = 0 => \E M \in Key \ {0} :
         /\ wrapped.key \in {0, M} /\ Agrees(M, t, k, out[d], in[d])
         /\ \A e \in Devices \ {d} : Agrees(M, tab[e], disk[e], out[e], in[e])
  BY <1>9, <1>10, SameKeys
<1>12. lastKey' \in Key /\ changes' \in 0..MaxChanges /\ breaks' \in 0..MaxBreaks
  BY <1>1, <1>10
<1> QED  BY <1>1, <1>7, <1>8, <1>10, <1>11, <1>12, DeviceStep

LEMMA ConnectingFacts ==
  ASSUME NEW d, NEW t \in Tab, NEW p \in Passwords, NEW w, NEW wrap \in Wraps, NEW n,
         t.migrate = tab[d].migrate, n = Connecting(t, p, IsOlder(w, p), wrap)
  PROVE  /\ n \in Tab /\ Boots(d, p, w, wrap, n)
         /\ n.session = t.session /\ n.mgr = t.mgr /\ n.stores = t.stores
         /\ n.rotation = t.rotation /\ n.seen = t.seen
<1>1. PICK c \in Creds : c = ServerCred(p, IsOlder(w, p))  BY DerivedType DEF ServerCred
<1>2. PICK m \in Messages :
        m = IF IsOlder(w, p) THEN ChangePassword(Older(p), Derived(p), wrap, NoPriv) ELSE t.migrate
  <2>1. ChangePassword(Older(p), Derived(p), wrap, NoPriv) \in Messages
    BY DerivedType, Blanks, MessageTypes
  <2> QED  BY <2>1 DEF Tab
<1>3. wrap.key \in Key  BY Blanks DEF Wraps
<1>4. n = [t EXCEPT !.closure = wrap.key, !.wrap = wrap, !.offer = wrap, !.conn = "lost",
                    !.cred = c, !.migrate = m]
  BY <1>1, <1>2 DEF Connecting
<1>5. /\ n \in Tab /\ n.closure = wrap.key /\ n.wrap = wrap /\ n.offer = wrap /\ n.conn = "lost"
      /\ n.cred = c /\ n.migrate = m /\ n.session = t.session /\ n.mgr = t.mgr
      /\ n.stores = t.stores /\ n.rotation = t.rotation /\ n.seen = t.seen
  <2>1. "lost" \in {"none", "lost", "checked", "open", "stopped"}  OBVIOUS
  <2>2. /\ n.closure = wrap.key /\ n.wrap = wrap /\ n.offer = wrap /\ n.conn = "lost"
        /\ n.cred = c /\ n.migrate = m
    BY <1>4 DEF Tab
  <2>3. /\ n.session = t.session /\ n.mgr = t.mgr /\ n.stores = t.stores
        /\ n.rotation = t.rotation /\ n.seen = t.seen
    BY <1>4 DEF Tab
  <2>4. n \in Tab  BY <1>3, <1>4, <2>1 DEF Tab
  <2> QED  BY <2>2, <2>3, <2>4
<1>6. /\ c = Derived(p) \/ (IsOlder(w, p) /\ c = Older(p))
      /\ \/ m = t.migrate
         \/ IsOlder(w, p) /\ c = Older(p) /\ m = ChangePassword(Older(p), Derived(p), wrap, NoPriv)
  BY <1>1, <1>2 DEF ServerCred
<1> QED  BY <1>5, <1>6 DEF Boots

LEMMA LoginStep ==
  ASSUME AccountInv, NEW d \in Devices, NEW p \in Passwords, NEW s \in BOOLEAN, Login(d, p, s)
  PROVE  AccountInv'
<1>1. /\ tab[d] \in Tab /\ disk[d] \in Disk /\ tab \in [Devices -> Tab] /\ disk \in [Devices -> Disk]
      /\ disk = [disk EXCEPT ![d] = disk[d]]
  BY DeviceFacts, NotChanging
<1>2. PICK w : w = disk[d].wrapped  OBVIOUS
<1>3. PICK wrap : wrap = IF w = NoWrap THEN NoWrap ELSE Wrap(Derived(p), w.key)  OBVIOUS
<1>4. PICK fresh : fresh = IF w = NoWrap THEN tab[d] ELSE [tab[d] EXCEPT !.mgr = w.key, !.stores = NoDocs]
  OBVIOUS
<1>5. /\ tab[d].phase = "form" /\ (d = First \/ Complete) /\ UNCHANGED <<row, wire, counts>>
      /\ IF HasCache(d, w.key)
           THEN LocalBoot(d, p, IsOlder(w, p), wrap)
           ELSE /\ tab' = [tab EXCEPT ![d] =
                     [Connecting(fresh, p, IsOlder(w, p), wrap) EXCEPT !.phase = "server", !.signup = s]]
                /\ UNCHANGED disk
  BY <1>2, <1>3, <1>4 DEF Login, IsOlder
<1>6. w \in Wraps /\ w.key \in Key  BY <1>1, <1>2, Blanks DEF Disk, Wraps
<1>7. wrap \in Wraps /\ wrap.key = w.key /\ wrap.key \in Key
  BY <1>3, <1>6, WrapType, DerivedType, Blanks
<1>8. CASE ~HasCache(d, w.key)
  <2>1. /\ fresh \in Tab /\ fresh.session = tab[d].session /\ fresh.mgr \in {tab[d].mgr, w.key}
        /\ fresh.stores \in {tab[d].stores, NoDocs} /\ fresh.rotation = tab[d].rotation
        /\ fresh.seen = tab[d].seen /\ fresh.migrate = tab[d].migrate
        /\ w = NoWrap => fresh = tab[d]
    BY <1>1, <1>4, <1>6, Blanks DEF Tab
  <2>2. PICK n : n = Connecting(fresh, p, IsOlder(w, p), wrap)  OBVIOUS
  <2>3. PICK t : t = [n EXCEPT !.phase = "server", !.signup = s]  OBVIOUS
  <2>4. /\ t \in Tab /\ Boots(d, p, w, wrap, t) /\ t.phase # "form"
        /\ t.session = fresh.session /\ t.mgr = fresh.mgr /\ t.stores = fresh.stores
        /\ t.rotation = fresh.rotation /\ t.seen = fresh.seen
    <3>1. /\ n \in Tab /\ Boots(d, p, w, wrap, n)
          /\ n.session = fresh.session /\ n.mgr = fresh.mgr /\ n.stores = fresh.stores
          /\ n.rotation = fresh.rotation /\ n.seen = fresh.seen
      BY <1>7, <2>1, <2>2, ConnectingFacts
    <3>2. /\ t \in Tab /\ t.phase = "server" /\ t.conn = n.conn /\ t.closure = n.closure
          /\ t.wrap = n.wrap /\ t.offer = n.offer /\ t.cred = n.cred /\ t.migrate = n.migrate
          /\ t.session = n.session /\ t.mgr = n.mgr /\ t.stores = n.stores
          /\ t.rotation = n.rotation /\ t.seen = n.seen
      BY <2>3, <3>1 DEF Tab
    <3> QED  BY <3>1, <3>2 DEF Boots
  <2>5. tab' = [tab EXCEPT ![d] = t] /\ disk' = [disk EXCEPT ![d] = disk[d]]
    BY <1>1, <1>5, <1>8, <2>2, <2>3
  <2>6. Keeps(d, w, wrap, t, disk[d])  BY <1>2, <1>7, <2>1, <2>4 DEF Keeps, NoDocs
  <2> QED  BY <1>1, <1>2, <1>3, <1>5, <1>7, <2>4, <2>5, <2>6, LoginEffect
<1>9. CASE HasCache(d, w.key)
  <2>1. w # NoWrap  BY <1>9, Blanks DEF HasCache
  <2>2. PICK xs \in SUBSET Docs :
          /\ disk' = [disk EXCEPT ![d].wrapped = wrap,
                                  ![d].docs = Written(NoDocs, @, wrap.key, xs)]
          /\ LET u == [tab[d] EXCEPT !.session = wrap.key, !.mgr = wrap.key,
                                     !.stores = Opened(NoDocs, wrap.key, xs)]
             IN  \/ tab' = [tab EXCEPT ![d] = u]
                 \/ tab' = [tab EXCEPT ![d] =
                      [Connecting(u, p, IsOlder(w, p), wrap) EXCEPT !.phase = "app", !.signup = FALSE]]
    BY <1>5, <1>9 DEF LocalBoot
  <2>3. PICK docs : docs = Written(NoDocs, disk[d].docs, wrap.key, xs)  OBVIOUS
  <2>4. PICK stores : stores = Opened(NoDocs, wrap.key, xs)  OBVIOUS
  <2>5. disk[d].docs \in [Docs -> Key]  BY <1>1 DEF Disk
  <2>6. /\ docs \in [Docs -> Key] /\ \A x \in Docs : docs[x] \in {disk[d].docs[x], wrap.key}
    BY <1>7, <2>3, <2>5 DEF Written
  <2>7. /\ stores \in [Docs -> Key] /\ \A x \in Docs : stores[x] \in {0, wrap.key}
    BY <1>7, <2>4, Blanks DEF Opened, NoDocs
  <2>8. PICK k : k = [disk[d] EXCEPT !.wrapped = wrap, !.docs = docs]  OBVIOUS
  <2>9. k \in Disk /\ k.wrapped = wrap /\ k.docs = docs /\ k.cache = disk[d].cache
    BY <1>1, <1>7, <2>6, <2>8 DEF Disk
  <2>10. PICK u : u = [tab[d] EXCEPT !.session = wrap.key, !.mgr = wrap.key, !.stores = stores]
    OBVIOUS
  <2>11. /\ u \in Tab /\ u.session = wrap.key /\ u.mgr = wrap.key /\ u.stores = stores
         /\ u.phase = tab[d].phase /\ u.conn = tab[d].conn
         /\ u.closure = tab[d].closure /\ u.wrap = tab[d].wrap /\ u.offer = tab[d].offer
         /\ u.cred = tab[d].cred /\ u.migrate = tab[d].migrate
         /\ u.rotation = tab[d].rotation /\ u.seen = tab[d].seen
    BY <1>1, <1>7, <2>7, <2>10 DEF Tab
  <2>12. PICK n : n = Connecting(u, p, IsOlder(w, p), wrap)  OBVIOUS
  <2>13. PICK v : v = [n EXCEPT !.phase = "app", !.signup = FALSE]  OBVIOUS
  <2>14. /\ v \in Tab /\ Boots(d, p, w, wrap, v) /\ v.phase # "form"
         /\ v.session = u.session /\ v.mgr = u.mgr /\ v.stores = u.stores
         /\ v.rotation = u.rotation /\ v.seen = u.seen
    <3>1. /\ n \in Tab /\ Boots(d, p, w, wrap, n)
          /\ n.session = u.session /\ n.mgr = u.mgr /\ n.stores = u.stores
          /\ n.rotation = u.rotation /\ n.seen = u.seen
      BY <1>7, <2>11, <2>12, ConnectingFacts
    <3>2. /\ v \in Tab /\ v.phase = "app" /\ v.conn = n.conn /\ v.closure = n.closure
          /\ v.wrap = n.wrap /\ v.offer = n.offer /\ v.cred = n.cred /\ v.migrate = n.migrate
          /\ v.session = n.session /\ v.mgr = n.mgr /\ v.stores = n.stores
          /\ v.rotation = n.rotation /\ v.seen = n.seen
      BY <2>13, <3>1 DEF Tab
    <3> QED  BY <3>1, <3>2 DEF Boots
  <2>15. PICK t : (t = v \/ t = u) /\ tab' = [tab EXCEPT ![d] = t]
    BY <2>2, <2>4, <2>10, <2>12, <2>13
  <2>16. disk' = [disk EXCEPT ![d] = k]  BY <1>1, <2>2, <2>3, <2>8
  <2>17. Stays(d, w, u)  BY <2>1, <2>11 DEF Stays
  <2>18. t \in Tab /\ ((Boots(d, p, w, wrap, t) /\ t.phase # "form") \/ Stays(d, w, t))
    BY <2>11, <2>14, <2>15, <2>17
  <2>19. t.session = wrap.key /\ t.mgr = wrap.key /\ t.stores = stores
         /\ t.rotation = tab[d].rotation /\ t.seen = tab[d].seen
    BY <2>11, <2>14, <2>15
  <2>20. Keeps(d, w, wrap, t, k)  BY <2>1, <2>6, <2>7, <2>9, <2>19 DEF Keeps
  <2> QED  BY <1>2, <1>3, <1>5, <1>7, <2>9, <2>15, <2>16, <2>18, <2>20, LoginEffect
<1> QED  BY <1>8, <1>9

(* The message taken from the server, m, and those that remain, i.         *)
Took(d, m, i) ==
  /\ tab[d].conn = "open" /\ m \in Messages /\ i \in Seq(Messages)
  /\ IF m.type = "connected" THEN Told(d, tab[d], out[d], m.wrap) ELSE m.wrap = NoWrap
  /\ ~Complete => m.type # "password_changed"
  /\ \A M \in Key \ {0} : Agrees(M, tab[d], disk[d], out[d], in[d]) => m.wrap.key \in {0, M}
  /\ \A j \in DOMAIN i : /\ i[j].type # "connected" /\ i[j].wrap = NoWrap
                         /\ ~Complete => i[j].type # "password_changed"

LEMMA TakeOne ==
  ASSUME AccountInv, NEW d \in Devices, in[d] # <<>>, NEW m, NEW i,
         m = Head(in[d]), i = Tail(in[d])
  PROVE  Took(d, m, i)
<1>1. PICK s \in Seq(Messages) : s = in[d]  BY DeviceFacts
<1>2. /\ DeviceOK(d, tab[d], disk[d], out[d], s)
      /\ ~Complete => EarlyOK(d, tab[d], disk[d], out[d], s)
  BY <1>1, DeviceFacts
<1>3. s # <<>> /\ m = s[1] /\ i = Tail(s) /\ 1 \in DOMAIN s  BY <1>1
<1>4. /\ i \in Seq(Messages) /\ m \in Messages
      /\ \A j \in DOMAIN i : j \in Nat /\ j # 0 /\ j + 1 \in DOMAIN s /\ i[j] = s[j + 1]
  BY <1>1, <1>3
<1>5. tab[d].conn = "open"  BY <1>2, <1>3 DEF DeviceOK
<1>6. /\ IF m.type = "connected" THEN Told(d, tab[d], out[d], m.wrap) ELSE m.wrap = NoWrap
      /\ ~Complete => m.type # "password_changed"
  BY <1>2, <1>3 DEF DeviceOK, EarlyOK
<1>7. \A M \in Key \ {0} : Agrees(M, tab[d], disk[d], out[d], in[d]) => m.wrap.key \in {0, M}
  BY <1>1, <1>3 DEF Agrees
<1>8. ASSUME NEW j \in DOMAIN i
      PROVE  /\ i[j].type # "connected" /\ i[j].wrap = NoWrap
             /\ ~Complete => i[j].type # "password_changed"
  <2>1. j \in Nat /\ j # 0 /\ j + 1 \in DOMAIN s /\ i[j] = s[j + 1]  BY <1>4
  <2>2. /\ s[j + 1].type = "connected" => j + 1 = 1
        /\ s[j + 1].type # "connected" => s[j + 1].wrap = NoWrap
        /\ ~Complete => s[j + 1].type # "password_changed"
    BY <1>2, <2>1 DEF DeviceOK, EarlyOK
  <2>3. j + 1 # 1  BY <2>1
  <2> QED  BY <2>1, <2>2, <2>3
<1> QED  BY <1>4, <1>5, <1>6, <1>7, <1>8 DEF Took

(* The page is as it was but for its stores, and for signup.               *)
SamePage(d, t, stores) ==
  /\ t \in Tab /\ t.conn = tab[d].conn /\ t.phase = tab[d].phase /\ t.session = tab[d].session
  /\ t.mgr = tab[d].mgr /\ t.stores = stores /\ t.closure = tab[d].closure
  /\ t.wrap = tab[d].wrap /\ t.cred = tab[d].cred /\ t.offer = tab[d].offer
  /\ t.migrate = tab[d].migrate /\ t.rotation = tab[d].rotation /\ t.seen = tab[d].seen

(* A message after which nothing is sent: stores are opened and what they  *)
(* hold is written, keys are cached, or the stored key is forgotten.       *)
LEMMA QuietReceive ==
  ASSUME AccountInv, NEW d \in Devices, NEW m, NEW i, Took(d, m, i), NEW t, NEW k \in Disk,
         NEW stores \in [Docs -> Key], SamePage(d, t, stores),
         k.wrapped = disk[d].wrapped \/ (k.wrapped = NoWrap /\ Complete),
         \A x \in Docs : k.docs[x] \in {disk[d].docs[x], tab[d].mgr},
         \A x \in Docs : stores[x] \in {tab[d].stores[x], tab[d].mgr},
         \/ k.cache = disk[d].cache
         \/ k.cache = [outer |-> tab[d].closure, inner |-> tab[d].closure],
         tab' = [tab EXCEPT ![d] = t], disk' = [disk EXCEPT ![d] = k],
         in' = [in EXCEPT ![d] = i], UNCHANGED <<row, out, counts>>
  PROVE  AccountInv'
<1>1. /\ tab[d] \in Tab /\ disk[d] \in Disk /\ out[d] \in Seq(Messages)
      /\ DeviceOK(d, tab[d], disk[d], out[d], in[d])
      /\ ~Complete => changes = 0 /\ EarlyOK(d, tab[d], disk[d], out[d], in[d])
      /\ breaks \in 0..MaxBreaks /\ changes \in 0..MaxChanges /\ lastKey \in Key
      /\ out = [out EXCEPT ![d] = out[d]]
  BY DeviceFacts
<1>2. /\ t \in Tab /\ t.conn = tab[d].conn /\ t.phase = tab[d].phase /\ t.session = tab[d].session
      /\ t.mgr = tab[d].mgr /\ t.stores = stores /\ t.closure = tab[d].closure
      /\ t.wrap = tab[d].wrap /\ t.cred = tab[d].cred /\ t.offer = tab[d].offer
      /\ t.migrate = tab[d].migrate /\ t.rotation = tab[d].rotation /\ t.seen = tab[d].seen
  BY DEF SamePage
<1>3. /\ tab[d].conn = "open" /\ i \in Seq(Messages)
      /\ \A j \in DOMAIN i : /\ i[j].type # "connected" /\ i[j].wrap = NoWrap
                             /\ ~Complete => i[j].type # "password_changed"
  BY DEF Took
<1>4. DeviceOK(d, t, k, out[d], i)
  <2>1. Proper(k.wrapped)  BY <1>1 DEF DeviceOK, Proper
  <2> QED  BY <1>1, <1>2, <1>3, <2>1 DEF DeviceOK
<1>5. ASSUME ~Complete PROVE EarlyOK(d, t, k, out[d], i)
  <2>1. EarlyOK(d, tab[d], disk[d], out[d], in[d]) /\ k.wrapped = disk[d].wrapped
    BY <1>1, <1>5
  <2>2. d = First  BY <1>3, <2>1 DEF EarlyOK, NewTab
  <2>3. ASSUME k.wrapped = NoWrap PROVE k.docs = NoDocs /\ k.cache = NoCache /\ stores = NoDocs
    <3>1. /\ disk[d].docs = NoDocs /\ disk[d].cache = NoCache /\ tab[d].mgr = 0
          /\ tab[d].stores = NoDocs /\ tab[d].closure = 0
      BY <2>1, <2>3 DEF EarlyOK
    <3>2. \A x \in Docs : k.docs[x] = 0 /\ stores[x] = 0  BY <3>1 DEF NoDocs
    <3>3. k.docs = NoDocs /\ stores = NoDocs  BY <3>2 DEF NoDocs, Disk
    <3> QED  BY <3>1, <3>3 DEF NoCache
  <2> QED  BY <1>2, <1>3, <1>5, <2>1, <2>2, <2>3 DEF EarlyOK
<1>6. ASSUME NEW M \in Key \ {0}, Agrees(M, tab[d], disk[d], out[d], in[d])
      PROVE  Agrees(M, t, k, out[d], i)
  <2>1. \A x \in Docs : k.docs[x] \in {0, M} /\ stores[x] \in {0, M}  BY <1>6 DEF Agrees
  <2>2. k.cache = NoCache \/ k.cache = [outer |-> M, inner |-> M]  BY <1>6 DEF Agrees, NoCache
  <2>3. k.wrapped.key \in {0, M} /\ \A j \in DOMAIN i : i[j].wrap.key \in {0, M}
    BY <1>3, <1>6, Blanks DEF Agrees
  <2> QED  BY <1>2, <1>3, <1>6, <2>1, <2>2, <2>3 DEF Agrees
<1>7. UNCHANGED <<row, lastKey, changes, breaks>> /\ out' = [out EXCEPT ![d] = out[d]]
  BY <1>1 DEF counts
<1>8. changes' = 0 => \E M \in Key \ {0} :
        /\ wrapped.key \in {0, M} /\ Agrees(M, t, k, out[d], i)
        /\ \A e \in Devices \ {d} : Agrees(M, tab[e], disk[e], out[e], in[e])
  BY <1>6, <1>7, SameKeys
<1>9. lastKey' \in Key /\ changes' \in 0..MaxChanges /\ breaks' \in 0..MaxBreaks
  BY <1>1, <1>7
<1> QED  BY <1>1, <1>2, <1>3, <1>4, <1>5, <1>7, <1>8, <1>9, DeviceStep

LEMMA QuietSteps ==
  ASSUME AccountInv, NEW d \in Devices, NEW m, m = Head(in[d]), Receive(d),
         m.type # "connected" \/ MasterKey(tab[d], m) = 0
  PROVE  AccountInv'
<1>1. PICK i : i = Tail(in[d])  OBVIOUS
<1>2. in[d] # <<>> /\ in' = [in EXCEPT ![d] = i] /\ UNCHANGED row  BY <1>1 DEF Receive
<1>3. Took(d, m, i)  BY <1>1, <1>2, TakeOne
<1>4. /\ tab[d] \in Tab /\ disk[d] \in Disk /\ tab \in [Devices -> Tab] /\ disk \in [Devices -> Disk]
      /\ disk = [disk EXCEPT ![d] = disk[d]]
  BY DeviceFacts, NotChanging
<1>5. tab[d].stores \in [Docs -> Key] /\ tab[d].signup \in BOOLEAN /\ tab[d].mgr \in Key
      /\ tab[d].closure \in Key /\ disk[d].docs \in [Docs -> Key]
  BY <1>4 DEF Tab, Disk
<1>6. CASE m.type = "connected"
  <2>1. tab' = [tab EXCEPT ![d].signup = FALSE] /\ UNCHANGED <<disk, out, counts>>
    BY <1>6 DEF Receive, OnConnected
  <2>2. PICK t : t = [tab[d] EXCEPT !.signup = FALSE]  OBVIOUS
  <2>3. tab' = [tab EXCEPT ![d] = t] /\ disk' = [disk EXCEPT ![d] = disk[d]]
    BY <1>4, <2>1, <2>2
  <2>4. SamePage(d, t, tab[d].stores)  BY <1>4, <2>2 DEF Tab, SamePage
  <2>5. UNCHANGED <<row, out, counts>>  BY <1>2, <2>1
  <2> QED  BY <1>2, <1>3, <1>4, <1>5, <2>3, <2>4, <2>5, QuietReceive
<1>7. CASE m.type = "vault_list"
  <2>1. PICK xs \in SUBSET Docs :
          /\ tab' = [tab EXCEPT ![d].stores = Opened(@, tab[d].mgr, xs)]
          /\ disk' = [disk EXCEPT ![d].docs = Written(tab[d].stores, @, tab[d].mgr, xs),
                                  ![d].cache = IF xs = Docs
                                     THEN [outer |-> tab[d].closure, inner |-> tab[d].closure]
                                     ELSE @]
          /\ UNCHANGED <<out, counts>>
    BY <1>7 DEF Receive, OnVaultList
  <2>2. PICK stores : stores = Opened(tab[d].stores, tab[d].mgr, xs)  OBVIOUS
  <2>3. PICK docs : docs = Written(tab[d].stores, disk[d].docs, tab[d].mgr, xs)  OBVIOUS
  <2>4. PICK cache : cache = IF xs = Docs THEN [outer |-> tab[d].closure, inner |-> tab[d].closure]
                             ELSE disk[d].cache
    OBVIOUS
  <2>5. /\ stores \in [Docs -> Key] /\ \A x \in Docs : stores[x] \in {tab[d].stores[x], tab[d].mgr}
    BY <1>5, <2>2 DEF Opened
  <2>6. /\ docs \in [Docs -> Key] /\ \A x \in Docs : docs[x] \in {disk[d].docs[x], tab[d].mgr}
    BY <1>5, <2>3 DEF Written
  <2>7. cache \in [outer : Key, inner : Key]  BY <1>4, <1>5, <2>4 DEF Disk
  <2>8. PICK t : t = [tab[d] EXCEPT !.stores = stores]  OBVIOUS
  <2>9. PICK k : k = [disk[d] EXCEPT !.docs = docs, !.cache = cache]  OBVIOUS
  <2>10. k \in Disk /\ k.wrapped = disk[d].wrapped /\ k.docs = docs /\ k.cache = cache
    BY <1>4, <2>6, <2>7, <2>9 DEF Disk
  <2>11. tab' = [tab EXCEPT ![d] = t] /\ SamePage(d, t, stores)
    <3>1. SamePage(d, t, stores)  BY <1>4, <2>5, <2>8 DEF Tab, SamePage
    <3> QED  BY <1>4, <2>1, <2>2, <2>8, <3>1
  <2>12. disk' = [disk EXCEPT ![d] = k]  BY <1>4, <2>1, <2>3, <2>4, <2>9
  <2>13. /\ \A x \in Docs : k.docs[x] \in {disk[d].docs[x], tab[d].mgr}
         /\ \/ k.cache = disk[d].cache
            \/ k.cache = [outer |-> tab[d].closure, inner |-> tab[d].closure]
    BY <2>4, <2>6, <2>10
  <2> QED  BY <1>2, <1>3, <2>1, <2>5, <2>10, <2>11, <2>12, <2>13, QuietReceive
<1>8. CASE m.type = "password_changed"
  <2>1. disk' = [disk EXCEPT ![d].wrapped = NoWrap] /\ UNCHANGED <<tab, out, counts>>
    BY <1>8 DEF Receive
  <2>2. PICK k : k = [disk[d] EXCEPT !.wrapped = NoWrap]  OBVIOUS
  <2>3. /\ k \in Disk /\ k.wrapped = NoWrap /\ k.docs = disk[d].docs /\ k.cache = disk[d].cache
    BY <1>4, <2>2, Blanks DEF Disk
  <2>4. SamePage(d, tab[d], tab[d].stores)  BY <1>4 DEF SamePage
  <2>5. tab' = [tab EXCEPT ![d] = tab[d]] /\ disk' = [disk EXCEPT ![d] = k]
    BY <1>4, <2>1, <2>2
  <2>6. Complete  BY <1>3, <1>8 DEF Took
  <2>7. UNCHANGED <<row, out, counts>>  BY <1>2, <2>1
  <2>8. \A x \in Docs : k.docs[x] \in {disk[d].docs[x], tab[d].mgr}  BY <2>3
  <2> QED  BY <1>2, <1>3, <1>5, <2>3, <2>4, <2>5, <2>6, <2>7, <2>8, QuietReceive
<1>9. CASE m.type \notin {"connected", "vault_list", "password_changed"}
  <2>1. UNCHANGED <<disk, tab, out, counts>>  BY <1>9 DEF Receive
  <2>2. SamePage(d, tab[d], tab[d].stores)  BY <1>4 DEF SamePage
  <2>3. tab' = [tab EXCEPT ![d] = tab[d]] /\ disk' = [disk EXCEPT ![d] = disk[d]]
    BY <1>4, <2>1
  <2>4. UNCHANGED <<row, out, counts>>  BY <1>2, <2>1
  <2>5. tab[d].stores \in [Docs -> Key] /\ disk[d] \in Disk  BY <1>4, <1>5
  <2> QED  BY <1>2, <1>3, <2>2, <2>3, <2>4, <2>5, QuietReceive
<1> QED  BY <1>6, <1>7, <1>8, <1>9

(* What may be sent after o, and o followed by such messages of S.         *)
MaySend(d, o, m) ==
  /\ m \in Messages
  /\ \/ Changing(m) \/ m.type = "list_vaults"
     \/ m.type = "set_identity" /\ (wrapped # NoWrap \/ (o # <<>> /\ o[1].type = "set_key"))
     \/ /\ m.type = "set_key" /\ o = <<>> /\ d = First /\ priv = NoPriv
        /\ m.wrap.cred = auth /\ m.wrap.cred # NoCred /\ m.wrap.key # 0
Grown(d, o, p, S) ==
  /\ p \in Seq(Messages)
  /\ \A j \in DOMAIN p : Sendable(d, p, j) /\ (p[j] \in S \/ (j \in DOMAIN o /\ p[j] = o[j]))

LEMMA Grow ==
  ASSUME NEW d, NEW o, NEW p, NEW S, Grown(d, o, p, S), NEW m \in S, NEW rest,
         rest = <<>> \/ (rest = <<m>> /\ MaySend(d, p, m))
  PROVE  /\ Grown(d, o, p \o rest, S) /\ (p # <<>> => p \o rest # <<>> /\ (p \o rest)[1] = p[1])
         /\ p = <<>> => p \o rest = rest
<1>1. p \in Seq(Messages) /\ \A j \in DOMAIN p : Sendable(d, p, j)  BY DEF Grown
<1>2. CASE rest = <<>>
  <2>1. p \o rest = p  BY <1>1, <1>2
  <2> QED  BY <1>2, <2>1
<1>3. CASE rest = <<m>> /\ MaySend(d, p, m)
  <2>1. m \in Messages  BY <1>3 DEF MaySend
  <2>2. p \o rest = Append(p, m)  BY <1>1, <1>3, <2>1
  <2>3. PICK q : q = Append(p, m)  OBVIOUS
  <2>4. /\ q \in Seq(Messages)
        /\ \A j \in DOMAIN q : Sendable(d, q, j) /\ (q[j] = m \/ (j \in DOMAIN p /\ q[j] = p[j]))
        /\ q # <<>> /\ (p # <<>> => q[1] = p[1])
    BY <1>1, <1>3, <2>1, <2>3, SendMore DEF MaySend
  <2>5. Grown(d, o, q, S)  BY <2>4 DEF Grown
  <2>6. p = <<>> => q = rest  BY <1>3, <2>1, <2>3
  <2> QED  BY <2>2, <2>3, <2>4, <2>5, <2>6
<1> QED  BY <1>2, <1>3

(* What onConnected sends.                                                 *)
Answered(d, wrap, key) ==
  {SetKey(wrap), SetIdentity("identity", key), SetIdentity("signing", key), tab[d].migrate,
   Plain("list_vaults")}

LEMMA AnswersSent ==
  ASSUME AccountInv, NEW d \in Devices, NEW wrap \in Wraps, NEW key \in Key,
         NEW a, NEW b, NEW c, NEW e, NEW f,
         \/ a = <<>> /\ wrapped # NoWrap
         \/ /\ a = <<SetKey(wrap)>> /\ out[d] = <<>> /\ d = First /\ priv = NoPriv
            /\ wrap.cred = auth /\ wrap.cred # NoCred /\ wrap.key # 0,
         b = <<>> \/ b = <<SetIdentity("identity", key)>>,
         c = <<>> \/ c = <<SetIdentity("signing", key)>>,
         e = <<>> \/ (e = <<tab[d].migrate>> /\ tab[d].migrate.type # "none"),
         f = <<>> \/ f = <<Plain("list_vaults")>>
  PROVE  Grown(d, out[d], out[d] \o a \o b \o c \o e \o f, Answered(d, wrap, key))
<1> DEFINE S == Answered(d, wrap, key)
<1>1. PICK s \in Seq(Messages) : s = out[d]  BY DeviceFacts
<1>2. /\ tab[d] \in Tab /\ \A j \in DOMAIN s : Sendable(d, s, j)
      /\ tab[d].migrate \in Messages
      /\ tab[d].migrate = Plain("none") \/ Changing(tab[d].migrate)
  BY <1>1, DeviceFacts DEF DeviceOK, Tab
<1>3. Grown(d, s, s, S)  BY <1>1, <1>2 DEF Grown
<1>4. /\ SetKey(wrap) \in Messages /\ SetKey(wrap).type = "set_key" /\ SetKey(wrap).wrap = wrap
      /\ \A k \in Kinds : SetIdentity(k, key) \in Messages /\ SetIdentity(k, key).type = "set_identity"
      /\ Plain("list_vaults") \in Messages /\ Plain("list_vaults").type = "list_vaults"
      /\ Plain("none").type = "none"
  BY Blanks, MessageTypes
<1>5. "identity" \in Kinds /\ "signing" \in Kinds  BY DEF Kinds
<1>6. /\ SetKey(wrap) \in S /\ SetIdentity("identity", key) \in S /\ SetIdentity("signing", key) \in S
      /\ tab[d].migrate \in S /\ Plain("list_vaults") \in S
  BY DEF Answered
<1>8. PICK p1 : p1 = s \o a  OBVIOUS
<1>9. /\ Grown(d, s, p1, S)
      /\ wrapped # NoWrap \/ (p1 # <<>> /\ p1[1].type = "set_key")
  <2>1. a = <<SetKey(wrap)>> => MaySend(d, s, SetKey(wrap))  BY <1>1, <1>4 DEF MaySend
  <2>2. Grown(d, s, p1, S) /\ (s = <<>> => p1 = a)  BY <1>3, <1>6, <1>8, <2>1, Grow
  <2> QED  BY <1>1, <1>4, <2>2
<1>10. PICK p2 : p2 = p1 \o b  OBVIOUS
<1>11. /\ Grown(d, s, p2, S)
       /\ wrapped # NoWrap \/ (p2 # <<>> /\ p2[1].type = "set_key")
  <2>1. MaySend(d, p1, SetIdentity("identity", key))  BY <1>4, <1>5, <1>9 DEF MaySend
  <2>2. Grown(d, s, p2, S) /\ (p1 # <<>> => p2 # <<>> /\ p2[1] = p1[1])
    BY <1>6, <1>9, <1>10, <2>1, Grow
  <2> QED  BY <1>9, <2>2
<1>12. PICK p3 : p3 = p2 \o c  OBVIOUS
<1>13. Grown(d, s, p3, S)
  <2>1. MaySend(d, p2, SetIdentity("signing", key))  BY <1>4, <1>5, <1>11 DEF MaySend
  <2> QED  BY <1>6, <1>11, <1>12, <2>1, Grow
<1>14. PICK p4 : p4 = p3 \o e  OBVIOUS
<1>15. Grown(d, s, p4, S)
  <2>1. e # <<>> => MaySend(d, p3, tab[d].migrate)  BY <1>2, <1>4 DEF MaySend
  <2> QED  BY <1>6, <1>13, <1>14, <2>1, Grow
<1>16. PICK p5 : p5 = p4 \o f  OBVIOUS
<1>17. Grown(d, s, p5, S)
  <2>1. MaySend(d, p4, Plain("list_vaults"))  BY <1>4 DEF MaySend
  <2> QED  BY <1>6, <1>15, <1>16, <2>1, Grow
<1>18. p5 = s \o a \o b \o c \o e \o f  BY <1>8, <1>10, <1>12, <1>14, <1>16
<1> QED  BY <1>1, <1>17, <1>18

(* The page after onConnected with the master key.                         *)
Saved(d, t, key, wrap) ==
  /\ t \in Tab /\ t.conn = tab[d].conn /\ t.phase \in {tab[d].phase, "app"} /\ t.session = key
  /\ t.mgr \in {tab[d].mgr, key} /\ t.stores = tab[d].stores /\ t.closure = key
  /\ t.wrap = wrap /\ t.cred = tab[d].cred /\ t.offer = tab[d].offer
  /\ t.migrate = tab[d].migrate /\ t.rotation = tab[d].rotation /\ t.seen = tab[d].seen

LEMMA SavedDevice ==
  ASSUME AccountInv, NEW d \in Devices, NEW m, NEW i, Took(d, m, i), NEW o, NEW t, NEW k,
         NEW key \in Key \ {0}, NEW wrap \in Wraps, Grown(d, out[d], o, Answered(d, wrap, key)),
         Proper(wrap), wrap.key = key, Saved(d, t, key, wrap),
         k = [disk[d] EXCEPT !.wrapped = wrap],
         ~Complete => wrap.cred = tab[d].cred
  PROVE  /\ DeviceOK(d, t, k, o, i) /\ (~Complete => EarlyOK(d, t, k, o, i))
         /\ k \in Disk /\ k.wrapped = wrap /\ k.docs = disk[d].docs /\ k.cache = disk[d].cache
<1>1. /\ tab[d] \in Tab /\ disk[d] \in Disk
      /\ DeviceOK(d, tab[d], disk[d], out[d], in[d])
      /\ ~Complete => changes = 0 /\ EarlyOK(d, tab[d], disk[d], out[d], in[d])
  BY DeviceFacts
<1>2. k \in Disk /\ k.wrapped = wrap /\ k.docs = disk[d].docs /\ k.cache = disk[d].cache
  BY <1>1 DEF Disk
<1>3. /\ tab[d].conn = "open" /\ i \in Seq(Messages)
      /\ \A j \in DOMAIN i : /\ i[j].type # "connected" /\ i[j].wrap = NoWrap
                             /\ ~Complete => i[j].type # "password_changed"
  BY DEF Took
<1>4. wrap # NoWrap  BY Blanks
<1>5. DeviceOK(d, t, k, o, i)
  <2>1. \A j \in DOMAIN o : Sendable(d, o, j)  BY DEF Grown
  <2>2. Proper(t.offer) /\ t.cred # NoCred /\ t.phase # "form"
    BY <1>1, <1>3 DEF DeviceOK, Saved
  <2> QED  BY <1>1, <1>2, <1>3, <2>1, <2>2 DEF DeviceOK, Saved
<1>6. ASSUME ~Complete PROVE EarlyOK(d, t, k, o, i)
  <2>1. EarlyOK(d, tab[d], disk[d], out[d], in[d])  BY <1>1, <1>6
  <2>2. d = First  BY <1>3, <2>1 DEF EarlyOK, NewTab
  <2>3. tab[d].migrate = Plain("none")  BY <2>1 DEF EarlyOK
  <2>4. \A x \in Answered(d, wrap, key) : x.type # "change_password"
    <3>1. /\ SetKey(wrap).type = "set_key" /\ Plain("list_vaults").type = "list_vaults"
          /\ \A y \in Kinds : SetIdentity(y, key).type = "set_identity"
          /\ Plain("none").type = "none"
      BY Blanks, MessageTypes
    <3> QED  BY <2>3, <3>1 DEF Answered, Kinds
  <2>5. \A j \in DOMAIN o : o[j].type # "change_password"
    BY <2>1, <2>4 DEF Grown, EarlyOK
  <2>6. t.rotation.step = "idle" /\ t.migrate = Plain("none")
        /\ (t.offer # NoWrap => t.offer.cred = t.cred)
        /\ t.wrap.cred = t.cred /\ t.cred.kdf # "legacy" /\ k.wrapped.cred.kdf # "legacy"
    BY <1>2, <1>6, <2>1 DEF EarlyOK, Saved
  <2>7. t.closure # 0  BY DEF Saved
  <2> QED  BY <1>2, <1>3, <1>4, <1>6, <2>2, <2>5, <2>6, <2>7 DEF EarlyOK
<1> QED  BY <1>2, <1>5, <1>6

(* A new master key is the only one: there is nothing of an older one.     *)
LEMMA NoKeyYet ==
  ASSUME AccountInv, NEW d \in Devices, NEW m, NEW i, Took(d, m, i), m.type = "connected",
         m.wrap = NoWrap, tab[d].closure = 0, NEW M \in Key \ {0}
  PROVE  /\ wrapped.key \in {0, M} /\ Agrees(M, tab[d], disk[d], out[d], i)
         /\ \A e \in Devices \ {d} : Agrees(M, tab[e], disk[e], out[e], in[e])
<1>1. /\ d = First /\ priv = NoPriv /\ wrapped = tab[d].offer /\ out[d] = <<>> /\ tab[d].conn = "open"
      /\ \A j \in DOMAIN i : i[j].wrap = NoWrap
  BY DEF Took, Told
<1>2. ~Complete  BY <1>1, Blanks DEF Complete, Kinds
<1>3. EarlyOK(d, tab[d], disk[d], out[d], in[d])  BY <1>2, DeviceFacts
<1>4. disk[d].wrapped = NoWrap  BY <1>1, <1>3 DEF EarlyOK
<1>5. /\ disk[d].docs = NoDocs /\ disk[d].cache = NoCache /\ tab[d].session = 0 /\ tab[d].mgr = 0
      /\ tab[d].stores = NoDocs /\ tab[d].offer = NoWrap /\ tab[d].rotation.step = "idle"
      /\ tab[d].migrate = Plain("none")
  BY <1>3, <1>4 DEF EarlyOK
<1>6. Plain("none").wrap.key = 0 /\ NoWrap.key = 0 /\ \A x \in Docs : NoDocs[x] = 0
  BY Blanks DEF Plain, NoDocs
<1>7. Agrees(M, tab[d], disk[d], out[d], i)  BY <1>1, <1>4, <1>5, <1>6 DEF Agrees
<1>8. ASSUME NEW e \in Devices \ {d} PROVE Agrees(M, tab[e], disk[e], out[e], in[e])
  <2>1. DeviceOK(e, tab[e], disk[e], out[e], in[e]) /\ EarlyOK(e, tab[e], disk[e], out[e], in[e])
    BY <1>2, DeviceFacts
  <2>2. tab[e] = NewTab /\ disk[e] = BlankDisk /\ out[e] = <<>>  BY <1>1, <2>1 DEF EarlyOK
  <2>3. /\ NewTab.conn = "none" /\ NewTab.session = 0 /\ NewTab.mgr = 0 /\ NewTab.stores = NoDocs
        /\ NewTab.closure = 0 /\ NewTab.offer = NoWrap /\ NewTab.migrate = Plain("none")
        /\ NewTab.rotation = NoRotation /\ NoRotation.step = "idle"
        /\ BlankDisk.wrapped = NoWrap /\ BlankDisk.docs = NoDocs /\ BlankDisk.cache = NoCache
    BY DEF NewTab, NoRotation, BlankDisk
  <2>4. in[e] = <<>>  BY <2>1, <2>2, <2>3 DEF DeviceOK
  <2> QED  BY <1>6, <2>2, <2>3, <2>4 DEF Agrees
<1> QED  BY <1>1, <1>5, <1>6, <1>7, <1>8

LEMMA SavedKeys ==
  ASSUME NEW M \in Key \ {0}, NEW d \in Devices, NEW i, NEW o, NEW t, NEW k, NEW wrap \in Wraps,
         Agrees(M, tab[d], disk[d], out[d], i), tab[d].conn = "open",
         Grown(d, out[d], o, Answered(d, wrap, M)), wrap.key = M, Saved(d, t, M, wrap),
         k.wrapped = wrap, k.docs = disk[d].docs, k.cache = disk[d].cache
  PROVE  Agrees(M, t, k, o, i)
<1>1. ASSUME NEW x \in Answered(d, wrap, M) PROVE x.wrap.key \in {0, M}
  <2>1. /\ SetKey(wrap).wrap = wrap /\ Plain("list_vaults").wrap = NoWrap
        /\ \A y \in Kinds : SetIdentity(y, M).wrap = NoWrap
    BY Blanks, MessageTypes
  <2>2. tab[d].migrate.wrap.key \in {0, M}  BY DEF Agrees
  <2> QED  BY <2>1, <2>2, Blanks DEF Answered, Kinds
<1>2. \A j \in DOMAIN o : o[j].wrap.key \in {0, M}  BY <1>1 DEF Grown, Agrees
<1>3. /\ k.wrapped.key \in {0, M} /\ \A x \in Docs : k.docs[x] \in {0, M} /\ t.stores[x] \in {0, M}
      /\ k.cache = NoCache \/ k.cache = [outer |-> M, inner |-> M]
  BY DEF Agrees, Saved
<1>4. /\ t.session \in {0, M} /\ t.mgr \in {0, M} /\ t.closure \in {0, M} /\ t.offer.key \in {0, M}
      /\ t.conn # "checked" /\ t.migrate.wrap.key \in {0, M} /\ t.rotation.step = "idle"
      /\ \A j \in DOMAIN i : i[j].wrap.key \in {0, M}
  BY DEF Agrees, Saved
<1> QED  BY <1>2, <1>3, <1>4 DEF Agrees

LEMMA OnConnectedStep ==
  ASSUME AccountInv, NEW d \in Devices, NEW m, m = Head(in[d]), Receive(d),
         m.type = "connected", MasterKey(tab[d], m) # 0
  PROVE  AccountInv'
<1>1. PICK i : i = Tail(in[d])  OBVIOUS
<1>2. in[d] # <<>> /\ in' = [in EXCEPT ![d] = i] /\ UNCHANGED row  BY <1>1 DEF Receive
<1>3. Took(d, m, i)  BY <1>1, <1>2, TakeOne
<1>4. /\ tab[d] \in Tab /\ disk[d] \in Disk /\ tab \in [Devices -> Tab] /\ disk \in [Devices -> Disk]
      /\ DeviceOK(d, tab[d], disk[d], out[d], in[d])
      /\ ~Complete => changes = 0 /\ EarlyOK(d, tab[d], disk[d], out[d], in[d])
      /\ breaks \in 0..MaxBreaks /\ changes \in 0..MaxChanges /\ lastKey \in Key
  BY DeviceFacts, NotChanging
<1>5. PICK key : key = MasterKey(tab[d], m)  OBVIOUS
<1>6. PICK wrap : wrap = IF tab[d].closure # 0 THEN tab[d].wrap
                         ELSE IF Unstored(m) THEN Wrap(tab[d].cred, key) ELSE m.wrap
  OBVIOUS
<1>7. PICK bad : bad = {x \in Kinds : m.priv[x] \notin {0, key}}  OBVIOUS
<1>8. "identity" \in Kinds /\ "signing" \in Kinds  BY DEF Kinds
<1>9. PICK a, b, c, e, f :
        /\ a = IF Unstored(m) THEN <<SetKey(wrap)>> ELSE <<>>
        /\ b = IF m.priv["identity"] = 0 /\ "identity" \notin bad THEN <<SetIdentity("identity", key)>> ELSE <<>>
        /\ c = IF m.priv["signing"] = 0 /\ "identity" \notin bad THEN <<SetIdentity("signing", key)>> ELSE <<>>
        /\ e = IF bad = {} /\ tab[d].migrate.type # "none" THEN <<tab[d].migrate>> ELSE <<>>
        /\ f = IF bad = {} THEN <<Plain("list_vaults")>> ELSE <<>>
  OBVIOUS
<1>10. PICK o : o = out[d] \o a \o b \o c \o e \o f  OBVIOUS
<1>11. PICK k : k = [disk[d] EXCEPT !.wrapped = wrap]  OBVIOUS
<1>12. PICK saved : saved = [tab[d] EXCEPT !.closure = key, !.wrap = wrap, !.session = key,
                                           !.signup = FALSE]
  OBVIOUS
<1>13. PICK t : t = IF bad = {} THEN [saved EXCEPT !.mgr = IF @ = 0 THEN key ELSE @, !.phase = "app"]
                    ELSE saved
  OBVIOUS
<1>14. /\ key \in Key /\ lastKey' \in {key, lastKey} /\ UNCHANGED <<changes, breaks>>
       /\ disk' = [disk EXCEPT ![d] = k] /\ out' = [out EXCEPT ![d] = o]
       /\ tab' = [tab EXCEPT ![d] = t]
  <2>1. OnConnected(d, m)  BY DEF Receive
  <2>2. /\ key \in Key /\ lastKey' = (IF key > lastKey THEN key ELSE lastKey)
        /\ disk' = [disk EXCEPT ![d].wrapped = wrap] /\ UNCHANGED <<changes, breaks>>
    BY <1>5, <1>6, <2>1 DEF OnConnected
  <2>3. out' = [out EXCEPT ![d] = o]
    <3>1. out' = [out EXCEPT ![d] =
                    @ \o (IF Unstored(m) THEN <<SetKey(wrap)>> ELSE <<>>)
                      \o (IF m.priv["identity"] = 0 /\ "identity" \notin bad THEN <<SetIdentity("identity", key)>> ELSE <<>>)
                      \o (IF m.priv["signing"] = 0 /\ "identity" \notin bad THEN <<SetIdentity("signing", key)>> ELSE <<>>)
                      \o (IF bad = {} /\ tab[d].migrate.type # "none" THEN <<tab[d].migrate>> ELSE <<>>)
                      \o (IF bad = {} THEN <<Plain("list_vaults")>> ELSE <<>>)]
      BY <1>5, <1>6, <1>7, <1>8, <2>1 DEF OnConnected
    <3> QED  BY <1>9, <1>10, <3>1
  <2>4. tab' = [tab EXCEPT ![d] = t]
    <3>1. CASE bad = {}
      <4>1. {x \in Kinds : m.priv[x] \notin {0, MasterKey(tab[d], m)}} = {}  BY <1>5, <1>7, <3>1
      <4>2. PICK app : app = [saved EXCEPT !.mgr = IF @ = 0 THEN key ELSE @, !.phase = "app"]  OBVIOUS
      <4>3. tab' = [tab EXCEPT ![d] = app]
        BY <1>5, <1>6, <1>12, <2>1, <4>1, <4>2, ZenonT(60) DEF OnConnected
      <4> QED  BY <1>13, <3>1, <4>2, <4>3
    <3>2. CASE bad # {}
      <4>1. tab' = [tab EXCEPT ![d] = saved]
        BY <1>5, <1>6, <1>7, <1>12, <2>1, <3>2 DEF OnConnected
      <4> QED  BY <1>13, <3>2, <4>1
    <3> QED  BY <3>1, <3>2
  <2>5. disk' = [disk EXCEPT ![d] = k]  BY <1>4, <1>11, <2>2
  <2> QED  BY <2>2, <2>3, <2>4, <2>5
<1>15. key \in Key \ {0}  BY <1>5, <1>14
<1>16. /\ tab[d].conn = "open" /\ tab[d].cred # NoCred /\ Proper(tab[d].wrap)
       /\ tab[d].closure = tab[d].wrap.key /\ tab[d].wrap \in Wraps /\ tab[d].cred \in Creds
       /\ m.wrap \in Wraps /\ Told(d, tab[d], out[d], m.wrap) /\ i \in Seq(Messages)
  BY <1>3, <1>4 DEF Took, DeviceOK, Tab, Messages
<1>17. wrap \in Wraps /\ wrap.key = key /\ Proper(wrap) /\ wrap # NoWrap
  <2>1. CASE tab[d].closure # 0
    BY <1>5, <1>6, <1>15, <1>16, <2>1, Blanks DEF MasterKey
  <2>2. CASE tab[d].closure = 0 /\ Unstored(m)
    <3>1. wrap = Wrap(tab[d].cred, key)  BY <1>6, <2>2
    <3> QED  BY <1>15, <1>16, <3>1, WrapType DEF Proper
  <2>3. CASE tab[d].closure = 0 /\ ~Unstored(m)
    <3>1. wrap = m.wrap /\ key = m.wrap.key  BY <1>5, <1>6, <1>15, <2>3 DEF MasterKey
    <3>2. Proper(m.wrap) /\ m.wrap # NoWrap  BY <1>16, <2>3 DEF Told, Unstored
    <3> QED  BY <1>16, <3>1, <3>2
  <2> QED  BY <2>1, <2>2, <2>3
<1>18. ~Complete => wrap.cred = tab[d].cred
  <2> SUFFICES ASSUME ~Complete PROVE wrap.cred = tab[d].cred  OBVIOUS
  <2>1. CASE tab[d].closure # 0
    <3>1. wrap = tab[d].wrap  BY <1>6, <2>1
    <3> QED  BY <1>4, <1>17, <3>1 DEF EarlyOK
  <2>2. CASE tab[d].closure = 0 /\ Unstored(m)
    <3>1. wrap = Wrap(tab[d].cred, key)  BY <1>6, <2>2
    <3> QED  BY <1>15, <1>16, <3>1, WrapType
  <2>3. CASE tab[d].closure = 0 /\ ~Unstored(m)
    BY <1>5, <1>6, <1>15, <2>3 DEF MasterKey
  <2> QED  BY <2>1, <2>2, <2>3
<1>19. Grown(d, out[d], o, Answered(d, wrap, key))
  <2>1. \/ a = <<>> /\ wrapped # NoWrap
        \/ /\ a = <<SetKey(wrap)>> /\ out[d] = <<>> /\ d = First /\ priv = NoPriv
           /\ wrap.cred = auth /\ wrap.cred # NoCred /\ wrap.key # 0
    <3>1. CASE Unstored(m)
      <4>1. d = First /\ priv = NoPriv /\ auth = tab[d].cred /\ out[d] = <<>>
        BY <1>16, <3>1 DEF Told, Unstored
      <4>2. ~Complete  BY <4>1, Blanks DEF Complete, Kinds
      <4> QED  BY <1>9, <1>15, <1>16, <1>17, <1>18, <3>1, <4>1, <4>2
    <3>2. CASE ~Unstored(m)
      <4>1. wrapped # NoWrap  BY <1>16, <3>2 DEF Told, Unstored
      <4> QED  BY <1>9, <3>2, <4>1
    <3> QED  BY <3>1, <3>2
  <2>2. /\ b = <<>> \/ b = <<SetIdentity("identity", key)>>
        /\ c = <<>> \/ c = <<SetIdentity("signing", key)>>
        /\ e = <<>> \/ (e = <<tab[d].migrate>> /\ tab[d].migrate.type # "none")
        /\ f = <<>> \/ f = <<Plain("list_vaults")>>
    BY <1>9
  <2> QED  BY <1>10, <1>15, <1>17, <2>1, <2>2, AnswersSent
<1>20. Saved(d, t, key, wrap)
  <2>1. /\ saved \in Tab /\ saved.closure = key /\ saved.wrap = wrap /\ saved.session = key
        /\ saved.conn = tab[d].conn /\ saved.phase = tab[d].phase /\ saved.mgr = tab[d].mgr
        /\ saved.stores = tab[d].stores /\ saved.cred = tab[d].cred /\ saved.offer = tab[d].offer
        /\ saved.migrate = tab[d].migrate /\ saved.rotation = tab[d].rotation
        /\ saved.seen = tab[d].seen
    BY <1>4, <1>12, <1>15, <1>17 DEF Tab
  <2>2. CASE bad # {}
    <3>1. t = saved  BY <1>13, <2>2
    <3> QED  BY <2>1, <3>1 DEF Saved
  <2>3. CASE bad = {}
    <3>1. PICK g \in Key : g = IF saved.mgr = 0 THEN key ELSE saved.mgr
      BY <1>15, <2>1 DEF Tab
    <3>2. t = [saved EXCEPT !.mgr = g, !.phase = "app"]  BY <1>13, <2>3, <3>1
    <3>3. /\ t \in Tab /\ t.mgr = g /\ t.phase = "app" /\ t.closure = saved.closure
          /\ t.wrap = saved.wrap /\ t.session = saved.session /\ t.conn = saved.conn
          /\ t.stores = saved.stores /\ t.cred = saved.cred /\ t.offer = saved.offer
          /\ t.migrate = saved.migrate /\ t.rotation = saved.rotation /\ t.seen = saved.seen
      BY <2>1, <3>2 DEF Tab
    <3> QED  BY <2>1, <3>1, <3>3 DEF Saved
  <2> QED  BY <2>2, <2>3
<1>21. /\ DeviceOK(d, t, k, o, i) /\ (~Complete => EarlyOK(d, t, k, o, i))
       /\ k \in Disk /\ k.wrapped = wrap /\ k.docs = disk[d].docs /\ k.cache = disk[d].cache
  BY <1>3, <1>11, <1>15, <1>17, <1>18, <1>19, <1>20, SavedDevice
<1>22. ASSUME changes' = 0
       PROVE  \E M \in Key \ {0} :
                /\ wrapped.key \in {0, M} /\ Agrees(M, t, k, o, i)
                /\ \A x \in Devices \ {d} : Agrees(M, tab[x], disk[x], out[x], in[x])
  <2>1. \E M \in Key \ {0} :
          /\ wrapped.key \in {0, M} /\ Agrees(M, tab[d], disk[d], out[d], i) /\ key = M
          /\ \A x \in Devices \ {d} : Agrees(M, tab[x], disk[x], out[x], in[x])
    <3>1. CASE m.wrap = NoWrap /\ tab[d].closure = 0  BY <1>3, <1>15, <3>1, NoKeyYet
    <3>2. CASE ~(m.wrap = NoWrap /\ tab[d].closure = 0)
      <4>1. PICK M \in Key \ {0} :
              /\ wrapped.key \in {0, M}
              /\ \A x \in Devices : Agrees(M, tab[x], disk[x], out[x], in[x])
        BY <1>14, <1>22 DEF AccountInv, KeyInv
      <4>2. Agrees(M, tab[d], disk[d], out[d], in[d])  BY <4>1
      <4>3. m.wrap.key \in {0, M} /\ tab[d].closure \in {0, M}
        BY <1>3, <4>2 DEF Took, Agrees
      <4>4. key \in {0, M}  BY <1>5, <3>2, <4>3 DEF MasterKey, Unstored
      <4>5. \A j \in DOMAIN i : i[j].wrap.key = 0  BY <1>3, Blanks DEF Took
      <4>6. Agrees(M, tab[d], disk[d], out[d], i)  BY <4>2, <4>5 DEF Agrees
      <4> QED  BY <1>15, <4>1, <4>4, <4>6
    <3> QED  BY <3>1, <3>2
  <2>2. PICK M \in Key \ {0} :
          /\ wrapped.key \in {0, M} /\ Agrees(M, tab[d], disk[d], out[d], i) /\ key = M
          /\ \A x \in Devices \ {d} : Agrees(M, tab[x], disk[x], out[x], in[x])
    BY <2>1
  <2>3. Agrees(M, t, k, o, i)  BY <1>16, <1>17, <1>19, <1>20, <1>21, <2>2, SavedKeys
  <2> QED  BY <2>2, <2>3
<1>23. /\ lastKey' \in Key /\ changes' \in 0..MaxChanges /\ breaks' \in 0..MaxBreaks
       /\ changes' = changes /\ o \in Seq(Messages) /\ t \in Tab
       /\ ~Complete => changes' = 0
  BY <1>4, <1>14, <1>19, <1>20 DEF Grown, Saved
<1> QED  BY <1>2, <1>14, <1>16, <1>21, <1>22, <1>23, DeviceStep

LEMMA ReceiveStep == ASSUME AccountInv, NEW d \in Devices, Receive(d) PROVE AccountInv'
<1>1. PICK m : m = Head(in[d])  OBVIOUS
<1> QED  BY <1>1, QuietSteps, OnConnectedStep

(* While the first device has something to send, or once the sign-up is    *)
(* complete, no device is about to learn that there is no wrapped key.     *)
NoNews(t, i) ==
  /\ t.conn = "checked" => t.seen # NoWrap
  /\ \A j \in DOMAIN i : i[j].type = "connected" => i[j].wrap # NoWrap

LEMMA BlankOthers ==
  ASSUME AccountInv, ~Complete, NEW e \in Devices, e # First
  PROVE  /\ tab[e] = NewTab /\ disk[e] = BlankDisk /\ out[e] = <<>> /\ in[e] = <<>>
         /\ tab[e].conn = "none"
<1>1. DeviceOK(e, tab[e], disk[e], out[e], in[e]) /\ EarlyOK(e, tab[e], disk[e], out[e], in[e])
  BY DeviceFacts
<1>2. tab[e] = NewTab /\ disk[e] = BlankDisk /\ out[e] = <<>>  BY <1>1 DEF EarlyOK
<1>3. tab[e].conn = "none"  BY <1>2 DEF NewTab
<1>4. in[e] = <<>>  BY <1>1, <1>3 DEF DeviceOK
<1> QED  BY <1>2, <1>3, <1>4

LEMMA NothingNew ==
  ASSUME AccountInv, NEW d \in Devices, out[d] # <<>>, NEW e \in Devices
  PROVE  /\ NoNews(tab[e], in[e])
         /\ \A j \in DOMAIN out[e] : out[e][j].type = "set_key" => e = d /\ j = 1
<1>1. DeviceOK(e, tab[e], disk[e], out[e], in[e])  BY DeviceFacts
<1>2. CASE Complete
  <2>1. priv # NoPriv  BY <1>2, Blanks DEF Complete, Kinds
  <2>2. \A o, w : Told(e, tab[e], o, w) => w # NoWrap  BY <2>1 DEF Told
  <2>3. NoNews(tab[e], in[e])  BY <1>1, <2>2 DEF DeviceOK, NoNews
  <2>4. \A j \in DOMAIN out[e] : out[e][j].type # "set_key"
    BY <1>1, <2>1 DEF DeviceOK, Sendable, Changing
  <2> QED  BY <2>3, <2>4
<1>3. CASE ~Complete
  <2>1. d = First  BY <1>3, BlankOthers
  <2>2. CASE e # First
    <3>1. tab[e].conn = "none" /\ in[e] = <<>> /\ out[e] = <<>>  BY <1>3, <2>2, BlankOthers
    <3> QED  BY <3>1 DEF NoNews
  <2>3. CASE e = First
    <3>1. \A w : Told(e, tab[e], out[e], w) => w # NoWrap  BY <2>1, <2>3 DEF Told
    <3>2. NoNews(tab[e], in[e])  BY <1>1, <3>1 DEF DeviceOK, NoNews
    <3>3. \A j \in DOMAIN out[e] : out[e][j].type = "set_key" => j = 1
      BY <1>1 DEF DeviceOK, Sendable, Changing
    <3> QED  BY <2>1, <2>3, <3>2, <3>3
  <2> QED  BY <2>2, <2>3
<1> QED  BY <1>2, <1>3

LEMMA RowMoves ==
  ASSUME NEW e \in Devices, NEW t, NEW k, NEW o, NEW i, NEW p, NEW q, DeviceOK(e, t, k, o, i),
         NoNews(t, i), wrapped # NoWrap => wrapped' # NoWrap,
         \A j \in DOMAIN p : \/ p[j].type = "set_identity" /\ wrapped' # NoWrap
                             \/ p[j].type = "list_vaults" \/ Changing(p[j]),
         t.conn # "open" => q = <<>>,
         \A j \in DOMAIN q : \/ j \in DOMAIN i /\ q[j] = i[j]
                             \/ q[j].type # "connected" /\ q[j].wrap = NoWrap
  PROVE  DeviceOK(e, t, k, p, q)'
<1>1. \A j \in DOMAIN p : Sendable(e, p, j)'  BY DEF Sendable, Changing
<1>2. \A w : Told(e, t, o, w) /\ w # NoWrap => Told(e, t, p, w)'  BY DEF Told, Proper
<1>3. t.conn = "checked" => Told(e, t, p, t.seen)'  BY <1>2 DEF DeviceOK, NoNews
<1>4. ASSUME NEW j \in DOMAIN q
      PROVE  IF q[j].type = "connected" THEN j = 1 /\ Told(e, t, p, q[j].wrap)' ELSE q[j].wrap = NoWrap
  <2>1. CASE j \in DOMAIN i /\ q[j] = i[j]
    <3>1. IF i[j].type = "connected" THEN j = 1 /\ Told(e, t, o, i[j].wrap) ELSE i[j].wrap = NoWrap
      BY <2>1 DEF DeviceOK
    <3>2. i[j].type = "connected" => i[j].wrap # NoWrap  BY <2>1 DEF NoNews
    <3> QED  BY <1>2, <2>1, <3>1, <3>2
  <2>2. CASE q[j].type # "connected" /\ q[j].wrap = NoWrap  BY <2>2
  <2> QED  BY <2>1, <2>2
<1> QED  BY <1>1, <1>3, <1>4 DEF DeviceOK, Proper, Changing

(* What is left of what a device has sent when its first message is taken. *)
LEMMA RestSent ==
  ASSUME AccountInv, NEW d \in Devices, out[d] # <<>>, NEW m, m = Head(out[d])
  PROVE  /\ m \in Messages /\ Tail(out[d]) \in Seq(Messages)
         /\ m.type = "set_key" \/ m.type = "set_identity" \/ m.type = "list_vaults" \/ Changing(m)
         /\ m.type = "set_key" => /\ d = First /\ priv = NoPriv /\ m.wrap.cred = auth
                                  /\ m.wrap.cred # NoCred /\ m.wrap.key # 0
         /\ m.type = "set_identity" => wrapped # NoWrap
         /\ ~Complete => m.type # "change_password"
         /\ \A M \in Key \ {0} : Agrees(M, tab[d], disk[d], out[d], in[d]) => m.wrap.key \in {0, M}
         /\ \A j \in DOMAIN Tail(out[d]) :
              /\ \E n \in DOMAIN out[d] : Tail(out[d])[j] = out[d][n]
              /\ \/ /\ Tail(out[d])[j].type = "set_identity"
                    /\ wrapped # NoWrap \/ m.type = "set_key"
                 \/ Tail(out[d])[j].type = "list_vaults" \/ Changing(Tail(out[d])[j])
<1>1. PICK s \in Seq(Messages) : s = out[d]  BY DeviceFacts
<1>2. PICK o : o = Tail(s)  OBVIOUS
<1>3. /\ DeviceOK(d, tab[d], disk[d], s, in[d])
      /\ ~Complete => EarlyOK(d, tab[d], disk[d], s, in[d])
  BY <1>1, DeviceFacts
<1>4. s # <<>> /\ m = s[1] /\ 1 \in DOMAIN s /\ m \in Messages  BY <1>1
<1>5. /\ o \in Seq(Messages)
      /\ \A j \in DOMAIN o : j \in Nat /\ j # 0 /\ j + 1 \in DOMAIN s /\ o[j] = s[j + 1]
  BY <1>1, <1>2, <1>4
<1>6. Sendable(d, s, 1)  BY <1>3, <1>4 DEF DeviceOK
<1>7. /\ m.type = "set_key" \/ m.type = "set_identity" \/ m.type = "list_vaults" \/ Changing(m)
      /\ m.type = "set_key" => /\ d = First /\ priv = NoPriv /\ m.wrap.cred = auth
                               /\ m.wrap.cred # NoCred /\ m.wrap.key # 0
      /\ m.type = "set_identity" => wrapped # NoWrap
  BY <1>4, <1>6 DEF Sendable, Changing
<1>8. ~Complete => m.type # "change_password"  BY <1>3, <1>4 DEF EarlyOK
<1>9. \A M \in Key \ {0} : Agrees(M, tab[d], disk[d], out[d], in[d]) => m.wrap.key \in {0, M}
  BY <1>1, <1>4 DEF Agrees
<1>10. ASSUME NEW j \in DOMAIN o
       PROVE  /\ \E n \in DOMAIN s : o[j] = s[n]
              /\ \/ o[j].type = "set_identity" /\ (wrapped # NoWrap \/ m.type = "set_key")
                 \/ o[j].type = "list_vaults" \/ Changing(o[j])
  <2>1. PICK n : n = j + 1  OBVIOUS
  <2>2. n \in DOMAIN s /\ o[j] = s[n] /\ n # 1  BY <1>5, <2>1
  <2>3. Sendable(d, s, n)  BY <1>3, <2>2 DEF DeviceOK
  <2> QED  BY <1>4, <2>2, <2>3 DEF Sendable
<1> QED  BY <1>1, <1>2, <1>4, <1>5, <1>7, <1>8, <1>9, <1>10

LEMMA ServeEffect ==
  ASSUME AccountInv, NEW d \in Devices, out[d] # <<>>, NEW m, m = Head(out[d]),
         NEW q \in [Devices -> Seq(Messages)], in' = q,
         out' = [out EXCEPT ![d] = Tail(@)], UNCHANGED <<disk, tab, counts>>,
         auth' \in Creds, wrapped' \in Wraps, priv' \in PrivKeys, RowInv',
         wrapped' # NoWrap \/ (wrapped' = wrapped /\ m.type # "set_key"),
         ~Complete' => ~Complete, wrapped'.key \in {wrapped.key, m.wrap.key},
         \A e \in Devices : tab[e].conn # "open" => q[e] = <<>>,
         \A e \in Devices : \A j \in DOMAIN q[e] :
           \/ j \in DOMAIN in[e] /\ q[e][j] = in[e][j]
           \/ /\ q[e][j].type # "connected" /\ q[e][j].wrap = NoWrap
              /\ ~Complete' => q[e][j].type # "password_changed"
  PROVE  AccountInv'
<1>1. PICK o : o = Tail(out[d])  OBVIOUS
<1>2. /\ o \in Seq(Messages)
      /\ \A M \in Key \ {0} : Agrees(M, tab[d], disk[d], out[d], in[d]) => m.wrap.key \in {0, M}
      /\ \A j \in DOMAIN o :
           /\ \E n \in DOMAIN out[d] : o[j] = out[d][n]
           /\ \/ o[j].type = "set_identity" /\ (wrapped # NoWrap \/ m.type = "set_key")
              \/ o[j].type = "list_vaults" \/ Changing(o[j])
  BY <1>1, RestSent
<1>3. AccountTypeOK /\ DevicesInv /\ EarlyInv /\ KeyInv  BY DEF AccountInv
<1>4. /\ tab' = tab /\ disk' = disk /\ lastKey' = lastKey /\ changes' = changes /\ breaks' = breaks
      /\ out' = [out EXCEPT ![d] = o]
  BY <1>1 DEF counts
<1>5. AccountTypeOK'  BY <1>2, <1>3, <1>4 DEF AccountTypeOK
<1>6. out'[d] = o /\ \A e \in Devices \ {d} : out'[e] = out[e]  BY <1>3, <1>4 DEF AccountTypeOK
<1>7. wrapped # NoWrap => wrapped' # NoWrap  OBVIOUS
<1>8. DevicesInv'
  <2> SUFFICES ASSUME NEW e \in Devices PROVE DeviceOK(e, tab[e], disk[e], out[e], in[e])'
    BY DEF DevicesInv
  <2>1. PICK t, k, g, r, p, x : t = tab[e] /\ k = disk[e] /\ g = out[e] /\ r = in[e]
                               /\ p = out'[e] /\ x = q[e]
    OBVIOUS
  <2>2. DeviceOK(e, t, k, g, r) /\ NoNews(t, r)  BY <1>3, <2>1, NothingNew DEF DevicesInv
  <2>3. ASSUME NEW j \in DOMAIN p
        PROVE  \/ p[j].type = "set_identity" /\ wrapped' # NoWrap
               \/ p[j].type = "list_vaults" \/ Changing(p[j])
    <3>1. CASE e = d
      <4>1. p = o  BY <1>6, <2>1, <3>1
      <4> QED  BY <1>2, <4>1, <2>3
    <3>2. CASE e # d
      <4>1. p = g /\ g = out[e]  BY <1>6, <2>1, <3>2
      <4>2. g[j].type # "set_key"  BY <2>3, <3>2, <4>1, NothingNew
      <4>3. g[1].type # "set_key"
        <5>1. g \in Seq(Messages)  BY <4>1, DeviceFacts
        <5>2. 1 \in DOMAIN g  BY <2>3, <4>1, <5>1
        <5> QED  BY <3>2, <4>1, <5>2, NothingNew
      <4>4. Sendable(e, g, j)  BY <2>2, <2>3, <4>1 DEF DeviceOK
      <4> QED  BY <1>7, <4>1, <4>2, <4>3, <4>4 DEF Sendable
    <3> QED  BY <3>1, <3>2
  <2>4. /\ t.conn # "open" => x = <<>>
        /\ \A j \in DOMAIN x : \/ j \in DOMAIN r /\ x[j] = r[j]
                               \/ x[j].type # "connected" /\ x[j].wrap = NoWrap
    BY <2>1
  <2>5. DeviceOK(e, t, k, p, x)'  BY <1>7, <2>2, <2>3, <2>4, RowMoves
  <2>6. tab'[e] = t /\ disk'[e] = k /\ out'[e] = p /\ in'[e] = x  BY <1>4, <2>1
  <2> QED  BY <2>5, <2>6
<1>9. EarlyInv'
  <2> SUFFICES ASSUME ~Complete', NEW e \in Devices
               PROVE  changes' = 0 /\ EarlyOK(e, tab'[e], disk'[e], out'[e], in'[e])
    BY DEF EarlyInv, EarlyOK
  <2>1. changes = 0 /\ EarlyOK(e, tab[e], disk[e], out[e], in[e])  BY <1>3 DEF EarlyInv
  <2>2. \A j \in DOMAIN in'[e] : in'[e][j].type # "password_changed"  BY <2>1 DEF EarlyOK
  <2>3. ASSUME NEW j \in DOMAIN out'[e] PROVE out'[e][j].type # "change_password"
    <3>1. PICK p : p = out[e] /\ \A i \in DOMAIN p : p[i].type # "change_password"
      BY <2>1 DEF EarlyOK
    <3>2. CASE e = d
      <4>1. j \in DOMAIN o /\ out'[e][j] = o[j]  BY <1>6, <2>3, <3>2
      <4>2. PICK i \in DOMAIN p : o[j] = p[i]  BY <1>2, <3>1, <3>2, <4>1
      <4> QED  BY <3>1, <4>1, <4>2
    <3>3. CASE e # d
      <4>1. out'[e] = p  BY <1>6, <3>1, <3>3
      <4> QED  BY <2>3, <3>1, <4>1
    <3> QED  BY <3>2, <3>3
  <2>4. e # First => out'[e] = <<>>  BY <1>6, <2>1 DEF EarlyOK
  <2> QED  BY <1>4, <2>1, <2>2, <2>3, <2>4 DEF EarlyOK
<1>10. KeyInv'
  <2> SUFFICES ASSUME changes = 0
               PROVE  \E M \in Key \ {0} :
                        /\ wrapped'.key \in {0, M}
                        /\ \A e \in Devices : Agrees(M, tab'[e], disk'[e], out'[e], in'[e])
    BY <1>4 DEF KeyInv, Agrees
  <2>1. PICK M \in Key \ {0} :
          wrapped.key \in {0, M} /\ \A e \in Devices : Agrees(M, tab[e], disk[e], out[e], in[e])
    BY <1>3 DEF KeyInv
  <2>2. wrapped'.key \in {0, M}
    <3>1. m.wrap.key \in {0, M}  BY <1>2, <2>1
    <3> QED  BY <2>1, <3>1
  <2>3. ASSUME NEW e \in Devices PROVE Agrees(M, tab'[e], disk'[e], out'[e], in'[e])
    <3>1. Agrees(M, tab[e], disk[e], out[e], in[e])  BY <2>1
    <3>2. \A j \in DOMAIN in'[e] : in'[e][j].wrap.key \in {0, M}  BY <3>1, Blanks DEF Agrees
    <3>3. ASSUME NEW j \in DOMAIN out'[e] PROVE out'[e][j].wrap.key \in {0, M}
      <4>1. PICK p : p = out[e] /\ \A i \in DOMAIN p : p[i].wrap.key \in {0, M}
        BY <3>1 DEF Agrees
      <4>2. CASE e = d
        <5>1. j \in DOMAIN o /\ out'[e][j] = o[j]  BY <1>6, <3>3, <4>2
        <5>2. PICK i \in DOMAIN p : o[j] = p[i]  BY <1>2, <4>1, <4>2, <5>1
        <5> QED  BY <4>1, <5>1, <5>2
      <4>3. CASE e # d
        <5>1. out'[e] = p  BY <1>6, <4>1, <4>3
        <5> QED  BY <3>3, <4>1, <5>1
      <4> QED  BY <4>2, <4>3
    <3> QED  BY <1>4, <3>1, <3>2, <3>3 DEF Agrees
  <2> QED  BY <2>2, <2>3
<1> QED  BY <1>5, <1>8, <1>9, <1>10 DEF AccountInv

LEMMA Told1 ==
  ASSUME AccountInv, NEW e \in Devices, NEW type \in {"vault_list", "ok", "error", "password_changed"}
  PROVE  /\ Tell(e, Plain(type)) \in Seq(Messages)
         /\ tab[e].conn # "open" => Tell(e, Plain(type)) = <<>>
         /\ \A j \in DOMAIN Tell(e, Plain(type)) :
              \/ j \in DOMAIN in[e] /\ Tell(e, Plain(type))[j] = in[e][j]
              \/ Tell(e, Plain(type))[j].type = type /\ Tell(e, Plain(type))[j].wrap = NoWrap
<1>1. PICK s \in Seq(Messages) : s = in[e]  BY DeviceFacts
<1>2. PICK x \in Messages : x = Plain(type) /\ x.type = type /\ x.wrap = NoWrap
  BY Blanks, MessageTypes
<1>3. tab[e].conn # "open" => s = <<>>  BY <1>1, DeviceFacts DEF DeviceOK
<1>4. PICK p : p = Append(s, x)  OBVIOUS
<1>5. p \in Seq(Messages) /\ \A j \in DOMAIN p : (j \in DOMAIN s /\ p[j] = s[j]) \/ p[j] = x
  BY <1>4
<1>6. Tell(e, Plain(type)) = IF tab[e].conn = "open" THEN p ELSE s  BY <1>1, <1>2, <1>4 DEF Tell
<1>7. CASE tab[e].conn = "open"
  <2>1. Tell(e, Plain(type)) = p  BY <1>6, <1>7
  <2> QED  BY <1>1, <1>2, <1>5, <1>7, <2>1
<1>8. CASE tab[e].conn # "open"
  <2>1. Tell(e, Plain(type)) = <<>>  BY <1>3, <1>6, <1>8
  <2> QED  BY <2>1
<1> QED  BY <1>7, <1>8

(* The row does not change, and one device is answered.                    *)
LEMMA AnswerStep ==
  ASSUME AccountInv, NEW d \in Devices, out[d] # <<>>, Head(out[d]).type # "set_key",
         NEW type \in {"vault_list", "error"}, Reply(d, Plain(type)), UNCHANGED row,
         out' = [out EXCEPT ![d] = Tail(@)], UNCHANGED <<disk, tab, counts>>
  PROVE  AccountInv'
<1>1. PICK q : q = [in EXCEPT ![d] = Tell(d, Plain(type))]  OBVIOUS
<1>2. PICK m : m = Head(out[d])  OBVIOUS
<1>3. AccountTypeOK /\ RowInv  BY DEF AccountInv
<1>4. Tell(d, Plain(type)) \in Seq(Messages)  BY Told1
<1>5. q \in [Devices -> Seq(Messages)] /\ in' = q  BY <1>1, <1>3, <1>4 DEF Reply, AccountTypeOK
<1>6. /\ q[d] = Tell(d, Plain(type)) /\ \A e \in Devices \ {d} : q[e] = in[e]
  BY <1>1, <1>3 DEF AccountTypeOK
<1>7. ASSUME NEW e \in Devices
      PROVE  /\ tab[e].conn # "open" => q[e] = <<>>
             /\ \A j \in DOMAIN q[e] :
                  \/ j \in DOMAIN in[e] /\ q[e][j] = in[e][j]
                  \/ q[e][j].type = type /\ q[e][j].wrap = NoWrap
  <2>1. CASE e = d
    <3>1. /\ tab[d].conn # "open" => q[d] = <<>>
          /\ \A j \in DOMAIN q[d] : \/ j \in DOMAIN in[d] /\ q[d][j] = in[d][j]
                                    \/ q[d][j].type = type /\ q[d][j].wrap = NoWrap
      BY <1>6, Told1
    <3> QED  BY <2>1, <3>1
  <2>2. CASE e # d
    <3>1. q[e] = in[e]  BY <1>6, <2>2
    <3>2. tab[e].conn # "open" => in[e] = <<>>  BY DeviceFacts DEF DeviceOK
    <3> QED  BY <3>1, <3>2
  <2> QED  BY <2>1, <2>2
<1>8. auth' = auth /\ wrapped' = wrapped /\ priv' = priv  BY DEF row
<1>9. auth' \in Creds /\ wrapped' \in Wraps /\ priv' \in PrivKeys
  BY <1>3, <1>8 DEF AccountTypeOK
<1>10. RowInv' /\ (~Complete' => ~Complete)  BY <1>3, <1>8 DEF RowInv, PasswordUnwraps, Complete
<1>11. wrapped' = wrapped /\ m.type # "set_key" /\ wrapped'.key \in {wrapped.key, m.wrap.key}
  BY <1>2, <1>8
<1>12. \A e \in Devices : tab[e].conn # "open" => q[e] = <<>>  BY <1>7
<1>13. \A e \in Devices : \A j \in DOMAIN q[e] :
         \/ j \in DOMAIN in[e] /\ q[e][j] = in[e][j]
         \/ /\ q[e][j].type # "connected" /\ q[e][j].wrap = NoWrap
            /\ ~Complete' => q[e][j].type # "password_changed"
  <2> SUFFICES ASSUME NEW e \in Devices, NEW j \in DOMAIN q[e]
               PROVE  \/ j \in DOMAIN in[e] /\ q[e][j] = in[e][j]
                      \/ /\ q[e][j].type # "connected" /\ q[e][j].wrap = NoWrap
                         /\ q[e][j].type # "password_changed"
    OBVIOUS
  <2>1. \/ j \in DOMAIN in[e] /\ q[e][j] = in[e][j]
        \/ q[e][j].type = type /\ q[e][j].wrap = NoWrap
    BY <1>7
  <2> QED  BY <2>1
<1> QED  BY <1>2, <1>5, <1>9, <1>10, <1>11, <1>12, <1>13, ServeEffect

(* The row changes, and no device is answered.                             *)
LEMMA KeysStep ==
  ASSUME AccountInv, NEW d \in Devices, out[d] # <<>>, NEW m, m = Head(out[d]), UNCHANGED in,
         out' = [out EXCEPT ![d] = Tail(@)], UNCHANGED <<disk, tab, counts>>,
         (m.type = "set_key" /\ HandleSetKey(m)) \/ (m.type = "set_identity" /\ HandleSetIdentity(m))
  PROVE  AccountInv'
<1>1. AccountTypeOK /\ RowInv  BY DEF AccountInv
<1>2. /\ m \in Messages
      /\ m.type = "set_key" => /\ d = First /\ priv = NoPriv /\ m.wrap.cred = auth
                               /\ m.wrap.cred # NoCred /\ m.wrap.key # 0
      /\ m.type = "set_identity" => wrapped # NoWrap
  BY RestSent
<1>3. in \in [Devices -> Seq(Messages)] /\ auth \in Creds /\ wrapped \in Wraps /\ priv \in PrivKeys
  BY <1>1 DEF AccountTypeOK
<1>4. \A e \in Devices : tab[e].conn # "open" => in[e] = <<>>  BY DeviceFacts DEF DeviceOK
<1>5. CASE m.type = "set_key" /\ HandleSetKey(m)
  <2>1. wrapped' = m.wrap /\ auth' = auth /\ priv' = priv  BY <1>5 DEF HandleSetKey
  <2>2. m.wrap # NoWrap /\ m.wrap \in Wraps  BY <1>2, <1>5, Blanks DEF Messages
  <2>3. RowInv'  BY <1>2, <1>5, <2>1, <2>2 DEF RowInv, PasswordUnwraps, Proper
  <2>4. ~Complete  BY <1>2, <1>5, Blanks DEF Complete, Kinds
  <2> QED  BY <1>3, <1>4, <2>1, <2>2, <2>3, <2>4, ServeEffect
<1>6. CASE m.type = "set_identity" /\ HandleSetIdentity(m)
  <2>1. /\ priv' = [k \in Kinds |-> IF m.priv[k] # 0 THEN m.priv[k] ELSE priv[k]]
        /\ auth' = auth /\ wrapped' = wrapped
    BY <1>6 DEF HandleSetIdentity
  <2>2. wrapped # NoWrap  BY <1>2, <1>6
  <2>3. RowInv'  BY <1>1, <2>1, <2>2 DEF RowInv, PasswordUnwraps
  <2>4. priv' \in PrivKeys  BY <1>2, <1>3, <2>1 DEF PrivKeys, Messages
  <2>5. \A k \in Kinds : priv[k] # 0 => priv'[k] # 0  BY <2>1
  <2>6. Complete => Complete'  BY <2>1, <2>5 DEF Complete
  <2> QED  BY <1>3, <1>4, <1>6, <2>1, <2>2, <2>3, <2>4, <2>6, ServeEffect
<1> QED  BY <1>5, <1>6

LEMMA PasswordStep ==
  ASSUME AccountInv, NEW d \in Devices, out[d] # <<>>, NEW m, m = Head(out[d]),
         out' = [out EXCEPT ![d] = Tail(@)], UNCHANGED <<disk, tab, counts>>,
         m.type = "change_password", HandleChangePassword(m),
         in' = [e \in Devices |-> Tell(e, Plain(IF e = d THEN "ok" ELSE "password_changed"))]
  PROVE  AccountInv'
<1>1. AccountTypeOK /\ RowInv  BY DEF AccountInv
<1>2. /\ m \in Messages /\ Complete /\ m.new # NoCred /\ m.wrap.cred = m.new /\ m.wrap.key # 0
  BY RestSent DEF Changing
<1>3. /\ auth' = m.new /\ priv' = priv /\ wrapped' \in {m.wrap, wrapped}
      /\ DbMayFail = FALSE => wrapped' = m.wrap
  BY DEF HandleChangePassword
<1>4. m.new \in Creds /\ m.wrap \in Wraps /\ m.wrap # NoWrap  BY <1>2, Blanks DEF Messages
<1>5. wrapped # NoWrap /\ wrapped \in Wraps /\ priv \in PrivKeys
  BY <1>1, <1>2 DEF Complete, AccountTypeOK
<1>6. /\ auth' \in Creds /\ wrapped' \in Wraps /\ priv' \in PrivKeys /\ wrapped' # NoWrap
  BY <1>3, <1>4, <1>5
<1>7. RowInv'  BY <1>1, <1>2, <1>3, <1>6 DEF RowInv, PasswordUnwraps, Proper
<1>8. Complete'  BY <1>2, <1>3, <1>6 DEF Complete
<1>9. wrapped'.key \in {wrapped.key, m.wrap.key}  BY <1>3
<1>10. PICK q : q = [e \in Devices |-> Tell(e, Plain(IF e = d THEN "ok" ELSE "password_changed"))]
  OBVIOUS
<1>11. ASSUME NEW e \in Devices
       PROVE  /\ q[e] \in Seq(Messages) /\ (tab[e].conn # "open" => q[e] = <<>>)
              /\ \A j \in DOMAIN q[e] :
                   \/ j \in DOMAIN in[e] /\ q[e][j] = in[e][j]
                   \/ /\ q[e][j].type # "connected" /\ q[e][j].wrap = NoWrap
                      /\ ~Complete' => q[e][j].type # "password_changed"
  <2>1. PICK type \in {"ok", "password_changed"} : q[e] = Tell(e, Plain(type))
    BY <1>10
  <2>2. /\ q[e] \in Seq(Messages) /\ (tab[e].conn # "open" => q[e] = <<>>)
        /\ \A j \in DOMAIN q[e] : \/ j \in DOMAIN in[e] /\ q[e][j] = in[e][j]
                                  \/ q[e][j].type = type /\ q[e][j].wrap = NoWrap
    BY <2>1, Told1
  <2> QED  BY <1>8, <2>2
<1>12. q \in [Devices -> Seq(Messages)] /\ in' = q  BY <1>10, <1>11
<1> QED  BY <1>6, <1>7, <1>8, <1>9, <1>11, <1>12, ServeEffect

LEMMA ServeStep == ASSUME AccountInv, NEW d \in Devices, Serve(d) PROVE AccountInv'
<1>1. PICK m : m = Head(out[d])  OBVIOUS
<1>2. out[d] # <<>> /\ out' = [out EXCEPT ![d] = Tail(@)] /\ UNCHANGED <<disk, tab, counts>>
  BY DEF Serve
<1>3. m.type \in {"set_key", "set_identity", "list_vaults", "change_password"}
  BY <1>1, <1>2, RestSent DEF Changing
<1>4. CASE m.type = "set_key"
  <2>1. HandleSetKey(m) /\ UNCHANGED in  BY <1>1, <1>4 DEF Serve
  <2> QED  BY <1>1, <1>2, <1>4, <2>1, KeysStep
<1>5. CASE m.type = "set_identity"
  <2>1. HandleSetIdentity(m) /\ UNCHANGED in  BY <1>1, <1>5 DEF Serve
  <2> QED  BY <1>1, <1>2, <1>5, <2>1, KeysStep
<1>6. CASE m.type = "list_vaults"
  <2>1. Reply(d, Plain("vault_list")) /\ UNCHANGED row  BY <1>1, <1>6 DEF Serve
  <2> QED  BY <1>1, <1>2, <1>6, <2>1, AnswerStep
<1>7. CASE m.type = "change_password" /\ auth = m.old
  <2>1. /\ HandleChangePassword(m)
        /\ in' = [e \in Devices |-> Tell(e, Plain(IF e = d THEN "ok" ELSE "password_changed"))]
    BY <1>1, <1>7 DEF Serve
  <2> QED  BY <1>1, <1>2, <1>7, <2>1, PasswordStep
<1>8. CASE m.type = "change_password" /\ auth # m.old
  <2>1. Reply(d, Plain("error")) /\ UNCHANGED row  BY <1>1, <1>8 DEF Serve
  <2> QED  BY <1>1, <1>2, <1>8, <2>1, AnswerStep
<1> QED  BY <1>3, <1>4, <1>5, <1>6, <1>7, <1>8

LEMMA CheckStep == ASSUME AccountInv, NEW d \in Devices, Check(d) PROVE AccountInv'
<1>1. /\ tab[d] \in Tab /\ disk[d] \in Disk /\ out[d] \in Seq(Messages) /\ in[d] \in Seq(Messages)
      /\ DeviceOK(d, tab[d], disk[d], out[d], in[d])
      /\ ~Complete => changes = 0 /\ EarlyOK(d, tab[d], disk[d], out[d], in[d])
      /\ breaks \in 0..MaxBreaks /\ changes \in 0..MaxChanges /\ lastKey \in Key
      /\ auth \in Creds /\ wrapped \in Wraps /\ priv \in PrivKeys
      /\ disk = [disk EXCEPT ![d] = disk[d]] /\ out = [out EXCEPT ![d] = out[d]]
      /\ in = [in EXCEPT ![d] = in[d]]
  BY DeviceFacts
<1>2. /\ tab[d].conn = "lost" /\ out[d] = <<>> /\ in[d] = <<>> /\ UNCHANGED <<priv, disk, wire, counts>>
      /\ tab[d].cred # NoCred
  BY <1>1 DEF Check, DeviceOK
<1>3. AccountTypeOK /\ RowInv /\ DevicesInv /\ EarlyInv /\ KeyInv  BY DEF AccountInv
<1>4. /\ disk' = [disk EXCEPT ![d] = disk[d]] /\ out' = [out EXCEPT ![d] = out[d]]
      /\ in' = [in EXCEPT ![d] = in[d]] /\ changes' = changes /\ lastKey' \in Key
      /\ changes' \in 0..MaxChanges /\ breaks' \in 0..MaxBreaks
  BY <1>1, <1>2 DEF wire, counts
<1>5. CASE tab' = [tab EXCEPT ![d] = Refused(tab[d])] /\ UNCHANGED <<auth, wrapped>>
  <2>1. PICK t : t = Refused(tab[d])  OBVIOUS
  <2>2. /\ t \in Tab /\ t.conn = "stopped" /\ t.phase \in {"app", "form"}
        /\ t.session = tab[d].session /\ t.mgr = tab[d].mgr /\ t.stores = tab[d].stores
        /\ t.closure = tab[d].closure /\ t.wrap = tab[d].wrap /\ t.cred = tab[d].cred
        /\ t.offer = tab[d].offer /\ t.migrate = tab[d].migrate /\ t.rotation = tab[d].rotation
    <3>1. PICK f : f = IF tab[d].phase = "app" THEN "app" ELSE "form"  OBVIOUS
    <3>2. f \in {"app", "form"} /\ t = [tab[d] EXCEPT !.conn = "stopped", !.phase = f]
      BY <1>1, <2>1, <3>1 DEF Refused, Tab
    <3> QED  BY <1>1, <3>2 DEF Tab
  <2>3. DeviceOK(d, t, disk[d], out[d], in[d])  BY <1>1, <1>2, <2>2 DEF DeviceOK
  <2>4. ASSUME ~Complete PROVE EarlyOK(d, t, disk[d], out[d], in[d])
    <3>1. d = First  BY <1>2, <2>4, BlankOthers
    <3> QED  BY <1>1, <1>2, <2>2, <2>4, <3>1 DEF EarlyOK
  <2>5. ASSUME NEW M \in Key \ {0}, Agrees(M, tab[d], disk[d], out[d], in[d])
        PROVE  Agrees(M, t, disk[d], out[d], in[d])
    BY <2>2, <2>5 DEF Agrees
  <2>6. changes' = 0 => \E M \in Key \ {0} :
          /\ wrapped.key \in {0, M} /\ Agrees(M, t, disk[d], out[d], in[d])
          /\ \A e \in Devices \ {d} : Agrees(M, tab[e], disk[e], out[e], in[e])
    BY <1>4, <2>5, SameKeys
  <2>7. UNCHANGED row /\ tab' = [tab EXCEPT ![d] = t]  BY <1>2, <1>5, <2>1 DEF row
  <2>8. ~Complete => changes' = 0 /\ EarlyOK(d, t, disk[d], out[d], in[d])  BY <1>1, <1>4, <2>4
  <2> QED  BY <1>1, <1>4, <2>2, <2>3, <2>6, <2>7, <2>8, DeviceStep
<1>6. CASE /\ auth' = tab[d].cred /\ (auth = NoCred \/ auth = tab[d].cred)
           /\ wrapped' = IF wrapped = NoWrap THEN tab[d].offer ELSE wrapped
           /\ tab' = [tab EXCEPT ![d].conn = "checked", ![d].seen = wrapped]
  <2>1. PICK t : t = [tab[d] EXCEPT !.conn = "checked", !.seen = wrapped]  OBVIOUS
  <2>2. /\ t \in Tab /\ t.conn = "checked" /\ t.seen = wrapped /\ t.phase = tab[d].phase
        /\ t.session = tab[d].session /\ t.mgr = tab[d].mgr /\ t.stores = tab[d].stores
        /\ t.closure = tab[d].closure /\ t.wrap = tab[d].wrap /\ t.cred = tab[d].cred
        /\ t.offer = tab[d].offer /\ t.migrate = tab[d].migrate /\ t.rotation = tab[d].rotation
    BY <1>1, <2>1 DEF Tab
  <2>3. tab' = [tab EXCEPT ![d] = t]  BY <1>3, <1>6, <2>1 DEF AccountTypeOK
  <2>4. ASSUME ~Complete PROVE EarlyOK(d, t, disk[d], out[d], in[d])
    <3>1. d = First  BY <1>2, <2>4, BlankOthers
    <3> QED  BY <1>1, <1>2, <2>2, <2>4, <3>1 DEF EarlyOK
  <2>5. ASSUME NEW M \in Key \ {0}, Agrees(M, tab[d], disk[d], out[d], in[d]), wrapped.key \in {0, M}
        PROVE  Agrees(M, t, disk[d], out[d], in[d])
    BY <2>2, <2>5 DEF Agrees
  <2>6. changes' = 0 => \E M \in Key \ {0} :
          /\ wrapped.key \in {0, M} /\ tab[d].offer.key \in {0, M}
          /\ Agrees(M, t, disk[d], out[d], in[d])
          /\ \A e \in Devices \ {d} : Agrees(M, tab[e], disk[e], out[e], in[e])
    <3> SUFFICES ASSUME changes = 0
                 PROVE  \E M \in Key \ {0} :
                          /\ wrapped.key \in {0, M} /\ tab[d].offer.key \in {0, M}
                          /\ Agrees(M, t, disk[d], out[d], in[d])
                          /\ \A e \in Devices \ {d} : Agrees(M, tab[e], disk[e], out[e], in[e])
      BY <1>4
    <3>1. PICK M \in Key \ {0} :
            wrapped.key \in {0, M} /\ \A e \in Devices : Agrees(M, tab[e], disk[e], out[e], in[e])
      BY <1>3 DEF KeyInv
    <3>2. Agrees(M, tab[d], disk[d], out[d], in[d])  BY <3>1
    <3>3. Agrees(M, t, disk[d], out[d], in[d])  BY <2>5, <3>1, <3>2
    <3>4. tab[d].offer.key \in {0, M}  BY <3>2 DEF Agrees
    <3> QED  BY <3>1, <3>3, <3>4
  <2>7. CASE wrapped # NoWrap
    <3>1. auth' = auth /\ wrapped' = wrapped  BY <1>3, <1>6, <2>7 DEF RowInv
    <3>2. UNCHANGED row  BY <1>2, <3>1 DEF row
    <3>3. Told(d, t, out[d], wrapped)  BY <1>3, <2>7 DEF RowInv, Told
    <3>4. DeviceOK(d, t, disk[d], out[d], in[d])  BY <1>1, <1>2, <2>2, <3>3 DEF DeviceOK
    <3>5. ~Complete => changes' = 0 /\ EarlyOK(d, t, disk[d], out[d], in[d])
      BY <1>1, <1>4, <2>4
    <3>6. changes' = 0 => \E M \in Key \ {0} :
            /\ wrapped.key \in {0, M} /\ Agrees(M, t, disk[d], out[d], in[d])
            /\ \A e \in Devices \ {d} : Agrees(M, tab[e], disk[e], out[e], in[e])
      BY <2>6
    <3> QED  BY <1>1, <1>4, <2>2, <2>3, <3>2, <3>4, <3>5, <3>6, DeviceStep
  <2>8. CASE wrapped = NoWrap
    <3>1. priv = NoPriv /\ ~Complete  BY <1>3, <2>8 DEF RowInv, Complete
    <3>2. d = First  BY <1>2, <3>1, BlankOthers
    <3>3. changes = 0 /\ EarlyOK(d, tab[d], disk[d], out[d], in[d])  BY <1>1, <3>1
    <3>4. /\ auth' = tab[d].cred /\ wrapped' = tab[d].offer /\ priv' = priv
          /\ tab[d].offer \in Wraps /\ tab[d].cred \in Creds /\ Proper(tab[d].offer)
          /\ tab[d].offer # NoWrap => tab[d].offer.cred = tab[d].cred
      BY <1>1, <1>2, <1>6, <2>8, <3>3 DEF Tab, DeviceOK, EarlyOK
    <3>5. AccountTypeOK'  BY <1>3, <1>4, <2>2, <2>3, <3>1, <3>4 DEF AccountTypeOK
    <3>6. RowInv'  BY <1>2, <3>1, <3>4 DEF RowInv, PasswordUnwraps, Proper
    <3>7. ~Complete'  BY <3>1, <3>4, Blanks DEF Complete, Kinds
    <3>8. /\ tab'[d] = t /\ disk' = disk /\ out' = out /\ in' = in
          /\ \A e \in Devices \ {d} : tab'[e] = tab[e]
      BY <1>2, <1>3, <2>3 DEF AccountTypeOK, wire
    <3>9. DevicesInv'
      <4> SUFFICES ASSUME NEW e \in Devices PROVE DeviceOK(e, tab[e], disk[e], out[e], in[e])'
        BY DEF DevicesInv
      <4>1. DeviceOK(e, tab[e], disk[e], out[e], in[e])  BY <1>3 DEF DevicesInv
      <4>2. CASE e = d
        <5>1. Told(d, t, <<>>, NoWrap)'  BY <3>1, <3>2, <3>4, <2>2 DEF Told
        <5> QED  BY <1>2, <2>2, <2>8, <3>8, <4>1, <4>2, <5>1 DEF DeviceOK, Proper, Changing
      <4>3. CASE e # d
        <5>1. /\ tab[e] = NewTab /\ out[e] = <<>> /\ in[e] = <<>> /\ tab[e].conn = "none"
          BY <3>1, <3>2, <4>3, BlankOthers
        <5> QED  BY <3>8, <4>1, <4>3, <5>1 DEF DeviceOK, Proper, Changing
      <4> QED  BY <4>2, <4>3
    <3>10. EarlyInv'
      <4>1. EarlyOK(d, t, disk[d], out[d], in[d])  BY <2>4, <3>1
      <4>2. \A e \in Devices \ {d} : EarlyOK(e, tab[e], disk[e], out[e], in[e])
        BY <1>3, <3>1 DEF EarlyInv
      <4>3. \A e \in Devices : EarlyOK(e, tab'[e], disk'[e], out'[e], in'[e])
        BY <3>8, <4>1, <4>2
      <4> QED  BY <1>4, <3>3, <4>3 DEF EarlyInv, EarlyOK
    <3>11. KeyInv'
      <4>1. PICK M \in Key \ {0} :
              /\ tab[d].offer.key \in {0, M} /\ Agrees(M, t, disk[d], out[d], in[d])
              /\ \A e \in Devices \ {d} : Agrees(M, tab[e], disk[e], out[e], in[e])
        BY <1>4, <2>6, <3>3
      <4>2. \A e \in Devices : Agrees(M, tab'[e], disk'[e], out'[e], in'[e])  BY <3>8, <4>1
      <4>3. wrapped'.key \in {0, M}  BY <3>4, <4>1
      <4> QED  BY <4>2, <4>3 DEF KeyInv, Agrees
    <3> QED  BY <3>5, <3>6, <3>9, <3>10, <3>11 DEF AccountInv
  <2> QED  BY <2>7, <2>8
<1> QED  BY <1>5, <1>6 DEF Check

(* An account that does not exist yet, and one from before the derivation  *)
(* was strengthened.                                                       *)
LEMMA AccountInits == AccountInit => AccountInv
<1> SUFFICES ASSUME AccountInit PROVE AccountInv
  OBVIOUS
<1>1. /\ tab = [d \in Devices |-> NewTab] /\ out = [d \in Devices |-> <<>>]
      /\ in = [d \in Devices |-> <<>>] /\ changes = 0 /\ breaks = 0
  BY DEF AccountInit
<1>2. /\ 0 \in 0..MaxChanges /\ 0 \in 0..MaxBreaks /\ 1 \in Key \ {0}
  BY AccountsAssumption DEF Key
<1>3. /\ NewTab.phase = "form" /\ NewTab.session = 0 /\ NewTab.mgr = 0 /\ NewTab.stores = NoDocs
      /\ NewTab.closure = 0 /\ NewTab.wrap = NoWrap /\ NewTab.cred = NoCred
      /\ NewTab.offer = NoWrap /\ NewTab.conn = "none" /\ NewTab.migrate = Plain("none")
      /\ NewTab.rotation = NoRotation /\ NewTab \in Tab
  BY Blanks DEF NewTab
<1>4. /\ NoRotation.step = "idle" /\ NoRotation.todo = {} /\ Plain("none").wrap = NoWrap
      /\ \A x \in Docs : NoDocs[x] = 0
  BY DEF NoRotation, Plain, NoDocs
<1>5. BlankDisk.wrapped = NoWrap /\ BlankDisk.docs = NoDocs /\ BlankDisk.cache = NoCache
  BY DEF BlankDisk
<1>6. \A d \in Devices : tab[d] = NewTab /\ out[d] = <<>> /\ in[d] = <<>>  BY <1>1
<1>7. ASSUME NEW k, Proper(k.wrapped), NEW d \in Devices PROVE DeviceOK(d, NewTab, k, <<>>, <<>>)
  BY <1>3, <1>4, <1>7, Blanks DEF DeviceOK, Proper
<1>8. ASSUME NEW k, k.wrapped.key \in {0, 1}, \A x \in Docs : k.docs[x] \in {0, 1},
             k.cache = NoCache \/ k.cache = [outer |-> 1, inner |-> 1]
      PROVE  Agrees(1, NewTab, k, <<>>, <<>>)
  BY <1>3, <1>4, <1>8, Blanks DEF Agrees
<1>9. CASE /\ auth = NoCred /\ wrapped = NoWrap /\ priv = NoPriv /\ lastKey = 0
           /\ disk = [d \in Devices |-> BlankDisk]
  <2>1. AccountTypeOK
    <3>1. disk \in [Devices -> Disk] /\ tab \in [Devices -> Tab]  BY <1>1, <1>9, Blanks
    <3>2. out \in [Devices -> Seq(Messages)] /\ in \in [Devices -> Seq(Messages)]  BY <1>1
    <3> QED  BY <1>1, <1>2, <1>9, <3>1, <3>2, Blanks DEF AccountTypeOK
  <2>2. RowInv  BY <1>9 DEF RowInv, PasswordUnwraps, Proper
  <2>3. \A d \in Devices : disk[d] = BlankDisk  BY <1>9
  <2>4. DevicesInv
    <3>1. Proper(BlankDisk.wrapped)  BY <1>5 DEF Proper
    <3>2. \A d \in Devices : DeviceOK(d, NewTab, BlankDisk, <<>>, <<>>)  BY <1>7, <3>1
    <3> QED  BY <1>6, <2>3, <3>2 DEF DevicesInv
  <2>5. EarlyInv
    <3>1. \A d \in Devices : EarlyOK(d, NewTab, BlankDisk, <<>>, <<>>)
      BY <1>3, <1>4, <1>5, Blanks DEF EarlyOK
    <3> QED  BY <1>1, <1>6, <2>3, <3>1 DEF EarlyInv
  <2>6. KeyInv
    <3>1. Agrees(1, NewTab, BlankDisk, <<>>, <<>>)  BY <1>4, <1>5, <1>8, Blanks
    <3>2. \A d \in Devices : Agrees(1, tab[d], disk[d], out[d], in[d])  BY <1>6, <2>3, <3>1
    <3> QED  BY <1>2, <1>9, <3>2, Blanks DEF KeyInv
  <2> QED  BY <2>1, <2>2, <2>4, <2>5, <2>6 DEF AccountInv
<1>10. CASE /\ auth = Older(OldPw) /\ wrapped = Wrap(auth, 1) /\ lastKey = 1
            /\ priv = [k \in Kinds |-> 1]
            /\ \E c \in {NoCache, [outer |-> 1, inner |-> 1]} :
                 disk = [d \in Devices |-> IF d # First THEN BlankDisk ELSE
                           [wrapped |-> wrapped, docs |-> [x \in Docs |-> 1], cache |-> c]]
  <2>1. PICK c \in {NoCache, [outer |-> 1, inner |-> 1]} :
          disk = [d \in Devices |-> IF d # First THEN BlankDisk ELSE
                    [wrapped |-> wrapped, docs |-> [x \in Docs |-> 1], cache |-> c]]
    BY <1>10
  <2>2. PICK b : b = [wrapped |-> wrapped, docs |-> [x \in Docs |-> 1], cache |-> c]  OBVIOUS
  <2>3. /\ auth \in Creds /\ auth # NoCred /\ wrapped \in Wraps /\ wrapped.cred = auth
        /\ wrapped.key = 1
    <3>1. auth \in Creds /\ auth # NoCred
      BY <1>10, AccountsAssumption DEF Older, NoCred, Creds
    <3> QED  BY <1>2, <1>10, <3>1 DEF Wrap, Wraps
  <2>4. priv \in PrivKeys /\ \A k \in Kinds : priv[k] = 1  BY <1>2, <1>10 DEF PrivKeys
  <2>5. /\ b.wrapped = wrapped /\ b.cache = c /\ b \in Disk /\ \A x \in Docs : b.docs[x] = 1
    <3>1. c \in [outer : Key, inner : Key]
      <4>1. 0 \in Key /\ 1 \in Key  BY <1>2, Blanks
      <4>2. c = [outer |-> 0, inner |-> 0] \/ c = [outer |-> 1, inner |-> 1]  BY DEF NoCache
      <4> QED  BY <4>1, <4>2
    <3>2. [x \in Docs |-> 1] \in [Docs -> Key]  BY <1>2
    <3> QED  BY <2>2, <2>3, <3>1, <3>2 DEF Disk
  <2>6. \A d \in Devices : disk[d] = b \/ disk[d] = BlankDisk  BY <2>1, <2>2
  <2>7. AccountTypeOK
    <3>1. disk \in [Devices -> Disk]  BY <2>1, <2>5, <2>6, Blanks
    <3>2. tab \in [Devices -> Tab]  BY <1>1, Blanks
    <3>3. out \in [Devices -> Seq(Messages)] /\ in \in [Devices -> Seq(Messages)]  BY <1>1
    <3> QED  BY <1>1, <1>2, <1>10, <2>3, <2>4, <3>1, <3>2, <3>3 DEF AccountTypeOK
  <2>8. RowInv /\ Complete
    BY <2>3, <2>4, Blanks DEF RowInv, PasswordUnwraps, Proper, Complete
  <2>9. DevicesInv
    <3>1. Proper(b.wrapped) /\ Proper(BlankDisk.wrapped)  BY <1>5, <2>3, <2>5 DEF Proper
    <3>2. \A d \in Devices : DeviceOK(d, NewTab, b, <<>>, <<>>) /\ DeviceOK(d, NewTab, BlankDisk, <<>>, <<>>)
      BY <1>7, <3>1
    <3> QED  BY <1>6, <2>6, <3>2 DEF DevicesInv
  <2>10. KeyInv
    <3>1. Agrees(1, NewTab, BlankDisk, <<>>, <<>>)  BY <1>4, <1>5, <1>8, Blanks
    <3>2. Agrees(1, NewTab, b, <<>>, <<>>)  BY <1>8, <2>3, <2>5
    <3>3. \A d \in Devices : Agrees(1, tab[d], disk[d], out[d], in[d])  BY <1>6, <2>6, <3>1, <3>2
    <3> QED  BY <1>2, <2>3, <3>3 DEF KeyInv
  <2> QED  BY <2>7, <2>8, <2>9, <2>10 DEF AccountInv, EarlyInv
<1> QED  BY <1>9, <1>10 DEF AccountInit

LEMMA AccountInvStep == AccountInv /\ [AccountNext]_accountVars => AccountInv'
<1> SUFFICES ASSUME AccountInv, [AccountNext]_accountVars PROVE AccountInv'
  OBVIOUS
<1>1. CASE UNCHANGED accountVars
  <2>1. /\ auth' = auth /\ wrapped' = wrapped /\ priv' = priv /\ disk' = disk /\ tab' = tab
        /\ out' = out /\ in' = in /\ lastKey' = lastKey /\ changes' = changes /\ breaks' = breaks
    BY <1>1 DEF accountVars, row, wire, counts
  <2>2. AccountTypeOK' /\ RowInv'
    BY <2>1 DEF AccountInv, AccountTypeOK, RowInv, PasswordUnwraps, Proper
  <2>3. DevicesInv'
    BY <2>1 DEF AccountInv, DevicesInv, DeviceOK, Told, Sendable, Proper, Changing
  <2>4. EarlyInv'  BY <2>1 DEF AccountInv, EarlyInv, EarlyOK, Complete
  <2>5. KeyInv'
    <3> SUFFICES ASSUME changes = 0
                 PROVE  \E M \in Key \ {0} :
                          /\ wrapped'.key \in {0, M}
                          /\ \A d \in Devices : Agrees(M, tab'[d], disk'[d], out'[d], in'[d])
      BY <2>1 DEF KeyInv, Agrees
    <3>1. PICK M \in Key \ {0} :
            wrapped.key \in {0, M} /\ \A d \in Devices : Agrees(M, tab[d], disk[d], out[d], in[d])
      BY DEF AccountInv, KeyInv
    <3> QED  BY <2>1, <3>1
  <2> QED  BY <2>2, <2>3, <2>4, <2>5 DEF AccountInv
<1>2. ASSUME NEW d \in Devices, AccountStep(d) PROVE AccountInv'
  <2>1. CASE Check(d)  BY <2>1, CheckStep
  <2>2. CASE Register(d)  BY <2>2, RegisterStep
  <2>3. CASE Serve(d)  BY <2>3, ServeStep
  <2>4. CASE Receive(d)  BY <2>4, ReceiveStep
  <2>5. ASSUME NEW x \in Docs, ReEncrypt(d, x) PROVE AccountInv'  BY <2>5, ReEncryptStep
  <2>6. ASSUME NEW x \in Docs, Persist(d, x) PROVE AccountInv'  BY <2>6, PersistStep
  <2>7. CASE ReEncryptCache(d)  BY <2>7, ReEncryptCacheStep
  <2>8. CASE CommitChange(d)  BY <2>8, CommitStep
  <2> QED  BY <1>2, <2>1, <2>2, <2>3, <2>4, <2>5, <2>6, <2>7, <2>8 DEF AccountStep
<1>3. ASSUME NEW d \in Devices, NEW p \in Passwords, NEW s \in BOOLEAN, Login(d, p, s)
      PROVE  AccountInv'
  BY <1>3, LoginStep
<1>4. ASSUME NEW d \in Devices, NEW p \in Passwords, NEW q \in Passwords, BeginChange(d, p, q)
      PROVE  AccountInv'
  BY <1>4, BeginChangeStep
<1>5. ASSUME NEW d \in Devices, CloseTab(d) \/ Logout(d) \/ PurgeLocal(d) PROVE AccountInv'
  BY <1>5, EndSteps
<1>6. ASSUME NEW d \in Devices, Lose(d) PROVE AccountInv'  BY <1>6, LoseStep
<1> QED  BY <1>1, <1>2, <1>3, <1>4, <1>5, <1>6 DEF AccountNext

(* The types of the account.                                               *)
THEOREM AccountTypes == AccountSpec => []AccountTypeOK
<1>1. AccountInv => AccountTypeOK  BY DEF AccountInv
<1> QED  BY <1>1, AccountInits, AccountInvStep, PTL DEF AccountSpec

(* Where a change of password is stored whole, the password the server     *)
(* takes is the one that unwraps the key it keeps: a sign-up that was      *)
(* interrupted, a migration, and a change of password on another device    *)
(* replace both or neither.  With DbMayFail the second of the two          *)
(* statements (client.go, handleChangePassword) may fail alone, and the    *)
(* account is left with a key its password does not open.                  *)
THEOREM PasswordUnwrapsAlways ==
  ASSUME DbMayFail = FALSE PROVE AccountSpec => []PasswordUnwraps
<1>1. AccountInv => PasswordUnwraps  BY DEF AccountInv, RowInv
<1> QED  BY <1>1, AccountInits, AccountInvStep, PTL DEF AccountSpec

(* Without a change of the password, what a device has stored opens with   *)
(* the key its stored wrapped key gives.                                   *)
THEOREM StoredIsReadableAlways == AccountSpec => []StoredIsReadable
<1>1. AccountInv => StoredIsReadable
  <2> SUFFICES ASSUME AccountInv, changes = 0, NEW d \in Devices, disk[d].wrapped # NoWrap
               PROVE  /\ \A x \in Docs : disk[d].docs[x] \in {0, disk[d].wrapped.key}
                      /\ disk[d].cache \in {NoCache, [outer |-> disk[d].wrapped.key,
                                                     inner |-> disk[d].wrapped.key]}
    BY DEF StoredIsReadable
  <2>1. PICK M \in Key \ {0} : Agrees(M, tab[d], disk[d], out[d], in[d])
    BY DEF AccountInv, KeyInv
  <2>2. disk[d].wrapped.key # 0  BY DEF AccountInv, DevicesInv, DeviceOK, Proper
  <2>3. disk[d].wrapped.key = M  BY <2>1, <2>2 DEF Agrees
  <2> QED  BY <2>1, <2>3 DEF Agrees
<1> QED  BY <1>1, AccountInits, AccountInvStep, PTL DEF AccountSpec

(* A server that has a master key takes no other one.                      *)
LEMMA KeyIsKept ==
  ASSUME AccountInv, changes = 0, wrapped # NoWrap, NEW d \in Devices, Check(d) \/ Serve(d)
  PROVE  wrapped'.key = wrapped.key
<1>1. CASE Check(d)  BY <1>1 DEF Check
<1>2. CASE Serve(d)
  <2>1. PICK m : m = Head(out[d])  OBVIOUS
  <2>2. PICK M \in Key \ {0} : wrapped.key \in {0, M} /\ Agrees(M, tab[d], disk[d], out[d], in[d])
    BY DEF AccountInv, KeyInv
  <2>3. out[d] # <<>>  BY <1>2 DEF Serve
  <2>4. wrapped.key = M  BY <2>2 DEF AccountInv, RowInv, Proper
  <2>5. /\ m.wrap.key \in {0, M}
        /\ m.type = "set_key" => m.wrap.key # 0
        /\ m.type = "change_password" => m.wrap.key # 0
        /\ m.type \in {"set_key", "set_identity", "list_vaults", "change_password"}
    BY <2>1, <2>2, <2>3, RestSent DEF Changing
  <2>6. \/ m.type = "set_key" /\ wrapped' = m.wrap
        \/ m.type = "change_password" /\ wrapped' = m.wrap
        \/ wrapped' = wrapped
    BY <1>2, <2>1, <2>5 DEF Serve, HandleSetKey, HandleSetIdentity, HandleChangePassword, row
  <2> QED  BY <2>4, <2>5, <2>6
<1> QED  BY <1>1, <1>2

(* The account keeps the master key it was given at sign-up until a change *)
(* of the password is begun: a sign-up that was interrupted and repeated,  *)
(* or a message sent before the interruption, never replaces it.           *)
THEOREM OneMasterKeyAlways == AccountSpec => OneMasterKey
<1>1. ASSUME AccountInv, AccountNext, wrapped # NoWrap, wrapped'.key # wrapped.key
      PROVE  changes > 0
  <2>1. PICK d \in Devices : Check(d) \/ Serve(d)
    <3>1. \A d \in Devices : Receive(d) \/ Register(d) => UNCHANGED row  BY DEF Receive, Register
    <3>2. \A d \in Devices, x \in Docs : ReEncrypt(d, x) \/ Persist(d, x) => UNCHANGED row
      BY DEF ReEncrypt, Persist
    <3>3. \A d \in Devices : ReEncryptCache(d) \/ CommitChange(d) => UNCHANGED row
      BY DEF ReEncryptCache, CommitChange
    <3>4. \A d \in Devices, p \in Passwords, q \in Passwords, s \in BOOLEAN :
            Login(d, p, s) \/ BeginChange(d, p, q) => UNCHANGED row
      BY DEF Login, BeginChange
    <3>5. \A d \in Devices : Lose(d) \/ CloseTab(d) \/ Logout(d) \/ PurgeLocal(d) => UNCHANGED row
      BY DEF Lose, CloseTab, Logout, PurgeLocal, Break
    <3>6. ~UNCHANGED row  BY <1>1 DEF row
    <3> QED  BY <1>1, <3>1, <3>2, <3>3, <3>4, <3>5, <3>6 DEF AccountNext, AccountStep
  <2>2. changes # 0  BY <1>1, <2>1, KeyIsKept
  <2>3. changes \in 0..MaxChanges  BY <1>1 DEF AccountInv, AccountTypeOK
  <2> QED  BY <2>2, <2>3
<1>2. AccountInv /\ [AccountNext]_accountVars
        => [wrapped # NoWrap /\ wrapped'.key # wrapped.key => changes > 0]_accountVars
  BY <1>1
<1> QED  BY <1>2, AccountInits, AccountInvStep, PTL DEF AccountSpec, OneMasterKey
-----------------------------------------------------------------------------
(* Both hierarchies side by side keep their types: each moves while the    *)
(* other stands still.                                                     *)
THEOREM SecretsTypes == SecretsSpec => []SecretsTypeOK
<1> DEFINE Inv == AccountInv /\ WholeBookInv
<1>1. SecretsInit => Inv  BY AccountInits, WholeBookInits DEF SecretsInit
<1>2. Inv /\ [SecretsNext]_secretsVars => Inv'
  <2> SUFFICES ASSUME Inv, [SecretsNext]_secretsVars PROVE Inv'
    OBVIOUS
  <2>1. [AccountNext]_accountVars /\ [SharedBookNext]_bookVars
    BY DEF SecretsNext, secretsVars
  <2> QED  BY <2>1, AccountInvStep, WholeBookStep
<1>3. Inv => SecretsTypeOK  BY BookIsTyped DEF AccountInv, SecretsTypeOK
<1> QED  BY <1>1, <1>2, <1>3, PTL DEF SecretsSpec
=============================================================================
