------------------------------- MODULE Accounts -------------------------------
(***************************************************************************)
(* One user's account on the server and on his devices: sign-up, login     *)
(* from the local cache or from the server, migration of the key           *)
(* derivation, change of the password, logout (frontend/src/ui/auth.ts,    *)
(* ui/account.ts, lib/auth.ts, the login part of connect.ts, the keys of   *)
(* lib/crypto.ts, and the handlers of client.go they talk to).             *)
(*                                                                         *)
(* A password and a derivation make a credential, which authenticates and  *)
(* wraps.  A master key is a number, 0 for none; what is encrypted is the  *)
(* number of the key that opens it.                                        *)
(***************************************************************************)
EXTENDS Naturals, Sequences

CONSTANTS
  Devices,
  First,        \* the device the account was made on
  Docs,         \* the catalogs of the user's books, kept on every device
  Passwords,
  OldPw,        \* the password the account begins with
  NoPw,         \* no password
  DbMayFail,    \* whether the second statement of a password change may fail
  MaxKeys,      \* bound: master keys generated
  MaxChanges,   \* bound: password changes begun
  MaxBreaks     \* bound: tabs closed, connections lost, logouts

ASSUME AccountsAssumption ==
  /\ First \in Devices /\ OldPw \in Passwords /\ NoPw \notin Passwords
  /\ DbMayFail \in BOOLEAN
  /\ MaxKeys \in Nat \ {0} /\ MaxChanges \in Nat /\ MaxBreaks \in Nat

Kinds == {"identity", "signing"}
Key == 0..MaxKeys
PrivKeys == [Kinds -> Key]
NoPriv == [k \in Kinds |-> 0]

(* deriveKeys and deriveKeysLegacy.                                        *)
Derived(p) == [pw |-> p, kdf |-> "current"]
Older(p) == [pw |-> p, kdf |-> "legacy"]
NoCred == [pw |-> NoPw, kdf |-> "none"]
Creds == {NoCred} \cup [pw : Passwords, kdf : {"current", "legacy"}]

(* A master key wrapped under a credential.                                *)
Wrap(c, k) == [cred |-> c, key |-> k]
NoWrap == Wrap(NoCred, 0)
Wraps == {NoWrap} \cup [cred : Creds, key : Key]

Messages == [type : {"none", "set_key", "set_identity", "change_password", "list_vaults",
                     "connected", "vault_list", "password_changed", "ok", "error"},
             old : Creds, new : Creds, wrap : Wraps, priv : PrivKeys]
Plain(t) == [type |-> t, old |-> NoCred, new |-> NoCred, wrap |-> NoWrap, priv |-> NoPriv]
SetKey(w) == [Plain("set_key") EXCEPT !.wrap = w]
SetIdentity(k, key) == [Plain("set_identity") EXCEPT !.priv[k] = key]
ChangePassword(o, n, w, p) ==
  [type |-> "change_password", old |-> o, new |-> n, wrap |-> w, priv |-> p]
Connected(w, p) == [Plain("connected") EXCEPT !.wrap = w, !.priv = p]

Disk == [wrapped : Wraps, docs : [Docs -> Key], cache : [outer : Key, inner : Key]]
NoCache == [outer |-> 0, inner |-> 0]
NoDocs == [x \in Docs |-> 0]
BlankDisk == [wrapped |-> NoWrap, docs |-> NoDocs, cache |-> NoCache]

(* A password change under way: docs still to re-encrypt, then the cache.  *)
Rotation == [step : {"idle", "docs", "commit"}, todo : SUBSET Docs,
             old : Creds, new : Creds, key : Key]
NoRotation == [step |-> "idle", todo |-> {}, old |-> NoCred, new |-> NoCred, key |-> 0]

Tab == [phase : {"form", "server", "app"},          \* the screen
        session : Key, mgr : Key, stores : [Docs -> Key], \* sessionKeys, DocumentManager, open stores
        closure : Key, wrap : Wraps,                  \* masterKey, wrappedMasterKey of createSyncConnection
        cred : Creds, offer : Wraps, signup : BOOLEAN, \* the SyncClient's options
        conn : {"none", "lost", "checked", "open", "stopped"}, seen : Wraps,
        migrate : Messages, rotation : Rotation]
NewTab == [phase |-> "form", session |-> 0, mgr |-> 0, stores |-> NoDocs,
           closure |-> 0, wrap |-> NoWrap, cred |-> NoCred, offer |-> NoWrap,
           signup |-> FALSE, conn |-> "none", seen |-> NoWrap,
           migrate |-> Plain("none"), rotation |-> NoRotation]

VARIABLES
  auth, wrapped, priv,  \* the user's row: auth_hash, wrapped_master_key and the
                        \* wrapped private keys
  disk,                 \* localStorage and IndexedDB of a device
  tab,                  \* the page's memory
  out, in,              \* messages of the device's connection
  lastKey, changes, breaks

row == <<auth, wrapped, priv>>
wire == <<out, in>>
counts == <<lastKey, changes, breaks>>
accountVars == <<row, disk, tab, wire, counts>>

(* No account yet, or one from before the derivation was strengthened.     *)
AccountInit ==
  /\ tab = [d \in Devices |-> NewTab]
  /\ out = [d \in Devices |-> <<>>] /\ in = [d \in Devices |-> <<>>]
  /\ changes = 0 /\ breaks = 0
  /\ \/ /\ auth = NoCred /\ wrapped = NoWrap /\ priv = NoPriv /\ lastKey = 0
        /\ disk = [d \in Devices |-> BlankDisk]
     \/ /\ auth = Older(OldPw) /\ wrapped = Wrap(auth, 1) /\ lastKey = 1
        /\ priv = [k \in Kinds |-> 1]
        /\ \E c \in {NoCache, [outer |-> 1, inner |-> 1]} :
             disk = [d \in Devices |-> IF d # First THEN BlankDisk ELSE
                       [wrapped |-> wrapped, docs |-> [x \in Docs |-> 1], cache |-> c]]

-----------------------------------------------------------------------------
(* Login.                                                                  *)

(* DocumentManager.open of every book: a store that is open is taken as it *)
(* is, a stored document must open with the manager's key, and is written  *)
(* again; the first that does not open ends the handler.                   *)
Opens(st, docs, k, xs) ==
  LET readable == {x \in Docs : st[x] # 0 \/ docs[x] \in {0, k}}
  IN  xs \subseteq readable /\ (readable = Docs => xs = Docs)

(* The map of stores afterwards.                                            *)
Opened(st, k, xs) == [x \in Docs |-> IF x \in xs /\ st[x] = 0 THEN k ELSE st[x]]

(* A store just opened is written with the manager's key.                  *)
Written(st, docs, k, xs) == [x \in Docs |-> IF x \in xs /\ st[x] = 0 THEN k ELSE docs[x]]

(* The cache is used if it opens with the master key.                      *)
HasCache(d, k) == k # 0 /\ disk[d].cache.outer = k

(* The sign-up has reached the server: nobody logs in on a second device,  *)
(* or changes the password, before.                                        *)
Complete == wrapped # NoWrap /\ \A k \in Kinds : priv[k] # 0

(* Variant: the server is given the new credential during a migration.     *)
ServerCred_New(p, older) == Derived(p)

(* serverDerived: while migrating, the server still knows the older one.   *)
ServerCred(p, older) == IF older THEN Older(p) ELSE Derived(p)

(* The page ready to connect with the keys it has.                         *)
Connecting(t, p, older, wrap) ==
  [t EXCEPT !.closure = wrap.key, !.wrap = wrap, !.offer = wrap, !.conn = "lost",
            !.cred = ServerCred(p, older),
            !.migrate = IF older THEN ChangePassword(Older(p), Derived(p), wrap, NoPriv) ELSE @]

(* localBoot: the session is saved, the keys in the cache are unwrapped,   *)
(* the catalogs opened; then the app is shown and connectInBackground      *)
(* follows.  What does not open returns to the form.                       *)
LocalBoot(d, p, older, wrap) ==
  LET key == wrap.key
      inner == disk[d].cache.inner = key
  IN  \E xs \in SUBSET Docs :
        /\ IF inner THEN Opens(NoDocs, disk[d].docs, key, xs) ELSE xs = {}
        /\ disk' = [disk EXCEPT ![d].wrapped = wrap, ![d].docs = Written(NoDocs, @, key, xs)]
        /\ LET t == [tab[d] EXCEPT !.session = key, !.mgr = key, !.stores = Opened(NoDocs, key, xs)]
           IN  tab' = [tab EXCEPT ![d] =
                 IF inner /\ xs = Docs
                   THEN [Connecting(t, p, older, wrap) EXCEPT !.phase = "app", !.signup = FALSE]
                   ELSE t]

(* The form is submitted: the stored key is unwrapped, with the older      *)
(* derivation if need be; with a cache the app starts from it, without one *)
(* it waits for the server.                                                *)
Login(d, p, s) ==
  LET t == tab[d]
      w == disk[d].wrapped
      older == w # NoWrap /\ w.cred = Older(p)
      wrap == IF w = NoWrap THEN NoWrap ELSE Wrap(Derived(p), w.key)
      fresh == IF w = NoWrap THEN t ELSE [t EXCEPT !.mgr = w.key, !.stores = NoDocs]
  IN  /\ t.phase = "form"
      /\ d = First \/ Complete
      /\ w = NoWrap \/ w.cred = Derived(p) \/ older
      /\ IF HasCache(d, w.key)
           THEN LocalBoot(d, p, older, wrap)
           ELSE /\ tab' = [tab EXCEPT ![d] =
                     [Connecting(fresh, p, older, wrap) EXCEPT !.phase = "server", !.signup = s]]
                /\ UNCHANGED disk
      /\ UNCHANGED <<row, wire, counts>>

-----------------------------------------------------------------------------
(* The connection.                                                         *)

(* Variant: a refusal is not shown.                                        *)
Refused_Silently(t) == [t EXCEPT !.conn = "stopped"]

(* "auth_failed" and the like: no more attempts, and unless the app is     *)
(* shown, back to the form.                                                *)
Refused(t) == [t EXCEPT !.conn = "stopped", !.phase = IF @ = "app" THEN @ ELSE "form"]

(* handleConnect checks the credential (UpsertUser) and stores the wrapped *)
(* key it is offered if there is none ...                                  *)
Check(d) ==
  LET t == tab[d]
      new == auth = NoCred /\ t.signup
  IN  /\ t.conn = "lost" /\ out[d] = <<>>
      /\ IF new \/ (auth = t.cred /\ ~t.signup)
           THEN /\ auth' = t.cred
                /\ wrapped' = IF wrapped = NoWrap THEN t.offer ELSE wrapped
                /\ tab' = [tab EXCEPT ![d].conn = "checked", ![d].seen = wrapped]
           ELSE tab' = [tab EXCEPT ![d] = Refused(t)] /\ UNCHANGED <<auth, wrapped>>
      /\ UNCHANGED <<priv, disk, wire, counts>>

(* ... and, two seconds after the check at the soonest, registers the      *)
(* connection and answers with the keys.                                   *)
Register(d) ==
  /\ tab[d].conn = "checked"
  /\ tab' = [tab EXCEPT ![d].conn = "open"]
  /\ in' = [in EXCEPT ![d] = <<Connected(tab[d].seen, priv)>>]
  /\ UNCHANGED <<row, disk, out, counts>>

(* "set_key".                                                              *)
HandleSetKey(m) == wrapped' = m.wrap /\ UNCHANGED <<auth, priv>>

(* "set_identity" and "set_signing_identity".                              *)
HandleSetIdentity(m) ==
  /\ priv' = [k \in Kinds |-> IF m.priv[k] # 0 THEN m.priv[k] ELSE priv[k]]
  /\ UNCHANGED <<auth, wrapped>>

(* Variant: the wrapped key is not stored with the new credential.         *)
HandleChangePassword_CredentialOnly(m) ==
  auth = m.old /\ auth' = m.new /\ UNCHANGED <<wrapped, priv>>

(* "change_password": the credential, then the wrapped key, whose failure  *)
(* is only logged; the wrapped private keys in the message are not read.   *)
HandleChangePassword(m) ==
  /\ auth = m.old
  /\ auth' = m.new
  /\ \/ wrapped' = m.wrap
     \/ DbMayFail /\ UNCHANGED wrapped
  /\ UNCHANGED priv

Tell(d, m) == IF tab[d].conn = "open" THEN Append(in[d], m) ELSE in[d]
Reply(d, m) == in' = [in EXCEPT ![d] = Tell(d, m)]

(* The server takes the device's next message.                             *)
Serve(d) ==
  /\ out[d] # <<>>
  /\ out' = [out EXCEPT ![d] = Tail(@)]
  /\ LET m == Head(out[d])
     IN  CASE m.type = "set_key" -> HandleSetKey(m) /\ UNCHANGED in
           [] m.type = "set_identity" -> HandleSetIdentity(m) /\ UNCHANGED in
           [] m.type = "list_vaults" -> Reply(d, Plain("vault_list")) /\ UNCHANGED row
           [] m.type = "change_password" ->
                IF auth = m.old
                  THEN /\ HandleChangePassword(m)
                       /\ in' = [e \in Devices |->
                                   Tell(e, Plain(IF e = d THEN "ok" ELSE "password_changed"))]
                  ELSE Reply(d, Plain("error")) /\ UNCHANGED row
  /\ UNCHANGED <<disk, tab, counts>>

-----------------------------------------------------------------------------
(* What the page does with the server's messages.                          *)

(* Variant: the key in the answer is overlooked.                           *)
Unstored_Always(m) == TRUE

(* The server has no master key of the user.                               *)
Unstored(m) == m.wrap = NoWrap

(* Variant: the key the page has is not asked for.                         *)
MasterKey_NotMine(t, m) ==
  IF Unstored(m) THEN lastKey + 1 ELSE IF m.wrap.cred = t.cred THEN m.wrap.key ELSE 0

(* The master key: the one the page has, the server's, unwrapped, or a new *)
(* one; 0 when the server's does not unwrap.                               *)
MasterKey(t, m) ==
  IF t.closure # 0 THEN t.closure
  ELSE IF Unstored(m) THEN lastKey + 1
  ELSE IF m.wrap.cred = t.cred THEN m.wrap.key ELSE 0

(* onConnected: the session is saved; private keys the server has are      *)
(* unwrapped, those it has not are made and sent; then the app is shown,   *)
(* a migration sent and the vaults asked for.  A key that does not unwrap  *)
(* ends the handler where it is.                                           *)
OnConnected(d, m) ==
  LET t == tab[d]
      key == MasterKey(t, m)
      wrap == IF t.closure # 0 THEN t.wrap
              ELSE IF Unstored(m) THEN Wrap(t.cred, key) ELSE m.wrap
      bad == {k \in Kinds : m.priv[k] \notin {0, key}}
      made == [k \in Kinds |-> m.priv[k] = 0 /\ "identity" \notin bad]
      When(c, x) == IF c THEN <<x>> ELSE <<>>
      saved == [t EXCEPT !.closure = key, !.wrap = wrap, !.session = key, !.signup = FALSE]
  IN  IF key = 0
        THEN tab' = [tab EXCEPT ![d].signup = FALSE] /\ UNCHANGED <<disk, out, counts>>
        ELSE /\ key \in Key
             /\ lastKey' = IF key > lastKey THEN key ELSE lastKey
             /\ disk' = [disk EXCEPT ![d].wrapped = wrap]
             /\ out' = [out EXCEPT ![d] =
                  @ \o When(Unstored(m), SetKey(wrap))
                    \o When(made["identity"], SetIdentity("identity", key))
                    \o When(made["signing"], SetIdentity("signing", key))
                    \o When(bad = {} /\ t.migrate.type # "none", t.migrate)
                    \o When(bad = {}, Plain("list_vaults"))]
             /\ tab' = [tab EXCEPT ![d] =
                  IF bad = {} THEN [saved EXCEPT !.mgr = IF @ = 0 THEN key ELSE @, !.phase = "app"]
                  ELSE saved]
             /\ UNCHANGED <<changes, breaks>>

(* onVaultList, as far as the account goes: the catalogs are opened and    *)
(* the keys cached for the next start, under the key of the connection.    *)
OnVaultList(d) ==
  LET t == tab[d]
  IN  \E xs \in SUBSET Docs :
        /\ Opens(t.stores, disk[d].docs, t.mgr, xs)
        /\ tab' = [tab EXCEPT ![d].stores = Opened(@, t.mgr, xs)]
        /\ disk' = [disk EXCEPT ![d].docs = Written(t.stores, @, t.mgr, xs),
                                ![d].cache = IF xs = Docs
                                               THEN [outer |-> t.closure, inner |-> t.closure]
                                               ELSE @]
        /\ UNCHANGED <<out, counts>>

(* The page takes the next message.  "password_changed" forgets the stored *)
(* key; the logout follows when the user has read the notice.              *)
Receive(d) ==
  /\ in[d] # <<>>
  /\ in' = [in EXCEPT ![d] = Tail(@)]
  /\ LET m == Head(in[d])
     IN  CASE m.type = "connected" -> OnConnected(d, m)
           [] m.type = "vault_list" -> OnVaultList(d)
           [] m.type = "password_changed" ->
                disk' = [disk EXCEPT ![d].wrapped = NoWrap] /\ UNCHANGED <<tab, out, counts>>
           [] OTHER -> UNCHANGED <<disk, tab, out, counts>>
  /\ UNCHANGED row

-----------------------------------------------------------------------------
(* The account page.                                                       *)

(* A change of password: a new master key, under the new password ...      *)
BeginChange(d, p, q) ==
  /\ tab[d].phase = "app" /\ tab[d].session # 0 /\ tab[d].rotation.step = "idle"
  /\ Complete /\ changes < MaxChanges /\ changes' = changes + 1
  /\ lastKey < MaxKeys /\ lastKey' = lastKey + 1
  /\ tab' = [tab EXCEPT ![d].rotation =
       [step |-> "docs", todo |-> {x \in Docs : disk[d].docs[x] # 0},
        old |-> Derived(p), new |-> Derived(q), key |-> lastKey + 1]]
  /\ UNCHANGED <<row, disk, wire, breaks>>

(* ... under which the stored documents are encrypted one by one, until    *)
(* one does not open (reEncryptAllDocs) ...                                *)
ReEncrypt(d, x) ==
  LET r == tab[d].rotation
  IN  /\ x \in r.todo
      /\ IF disk[d].docs[x] = tab[d].session
           THEN /\ disk' = [disk EXCEPT ![d].docs[x] = r.key]
                /\ tab' = [tab EXCEPT ![d].rotation.todo = @ \ {x}]
           ELSE tab' = [tab EXCEPT ![d].rotation = NoRotation] /\ UNCHANGED disk
      /\ UNCHANGED <<row, wire, counts>>

(* ... and the cache, whose contents stay wrapped as they were ...         *)
ReEncryptCache(d) ==
  LET r == tab[d].rotation
  IN  /\ r.step = "docs" /\ r.todo = {}
      /\ tab' = [tab EXCEPT ![d].rotation.step = "commit"]
      /\ disk' = [disk EXCEPT ![d].cache.outer = IF @ = tab[d].session /\ @ # 0 THEN r.key ELSE @]
      /\ UNCHANGED <<row, wire, counts>>

(* ... before the stored key, the session's and the manager's are replaced *)
(* and the server is told, if there is a connection.                       *)
CommitChange(d) ==
  LET r == tab[d].rotation
      w == Wrap(r.new, r.key)
  IN  /\ r.step = "commit"
      /\ disk' = [disk EXCEPT ![d].wrapped = w]
      /\ tab' = [tab EXCEPT ![d].session = r.key, ![d].mgr = r.key, ![d].rotation = NoRotation]
      /\ out' = IF tab[d].conn # "open" THEN out
                ELSE [out EXCEPT ![d] = Append(@, ChangePassword(r.old, r.new, w,
                                                                 [k \in Kinds |-> r.key]))]
      /\ UNCHANGED <<row, in, counts>>

(* An open store writes with the key it was opened with.                   *)
Persist(d, x) ==
  /\ tab[d].stores[x] \notin {0, disk[d].docs[x]}
  /\ disk' = [disk EXCEPT ![d].docs[x] = tab[d].stores[x]]
  /\ UNCHANGED <<row, tab, wire, counts>>

-----------------------------------------------------------------------------
(* Endings.  Of what was sent a prefix still arrives.                      *)

Break(d) ==
  /\ breaks < MaxBreaks /\ breaks' = breaks + 1
  /\ in' = [in EXCEPT ![d] = <<>>]
  /\ UNCHANGED <<row, lastKey, changes>>
CutOff(d) == \E n \in 0..Len(out[d]) : out' = [out EXCEPT ![d] = SubSeq(@, 1, n)]

Lose(d) ==
  /\ tab[d].conn \in {"checked", "open"} /\ Break(d) /\ CutOff(d)
  /\ tab' = [tab EXCEPT ![d].conn = "lost"]
  /\ UNCHANGED disk

CloseTab(d) ==
  /\ tab[d] # NewTab /\ Break(d) /\ CutOff(d)
  /\ tab' = [tab EXCEPT ![d] = NewTab]
  /\ UNCHANGED disk

(* logout: the cache goes, the wrapped key and the documents stay.         *)
Logout(d) ==
  /\ tab[d].phase = "app" /\ Break(d)
  /\ tab' = [tab EXCEPT ![d] = [NewTab EXCEPT !.migrate = tab[d].migrate]]
  /\ disk' = [disk EXCEPT ![d].cache = NoCache]
  /\ UNCHANGED out

(* purgeLocalData, then the page is loaded again.                          *)
PurgeLocal(d) ==
  /\ tab[d].phase = "app" /\ Break(d) /\ CutOff(d)
  /\ tab' = [tab EXCEPT ![d] = NewTab]
  /\ disk' = [disk EXCEPT ![d] = BlankDisk]

AccountStep(d) ==
  \/ Check(d) \/ Register(d) \/ Serve(d) \/ Receive(d)
  \/ \E x \in Docs : ReEncrypt(d, x) \/ Persist(d, x)
  \/ ReEncryptCache(d) \/ CommitChange(d)

AccountNext ==
  \E d \in Devices :
    \/ AccountStep(d)
    \/ \E p \in Passwords, s \in BOOLEAN : Login(d, p, s)
    \/ \E p, q \in Passwords : BeginChange(d, p, q)
    \/ Lose(d) \/ CloseTab(d) \/ Logout(d) \/ PurgeLocal(d)

(* The network comes back, and the server and the page take messages.      *)
AccountFairness ==
  \A d \in Devices : WF_accountVars(Check(d)) /\ WF_accountVars(Register(d))
                     /\ WF_accountVars(Serve(d)) /\ WF_accountVars(Receive(d))

AccountSpec == AccountInit /\ [][AccountNext]_accountVars /\ AccountFairness

-----------------------------------------------------------------------------
(* Properties.                                                             *)

AccountTypeOK ==
  /\ auth \in Creds /\ wrapped \in Wraps /\ priv \in PrivKeys
  /\ disk \in [Devices -> Disk] /\ tab \in [Devices -> Tab]
  /\ out \in [Devices -> Seq(Messages)] /\ in \in [Devices -> Seq(Messages)]
  /\ lastKey \in Key /\ changes \in 0..MaxChanges /\ breaks \in 0..MaxBreaks

(* Without a change of the password, what a device has stored opens with   *)
(* the key its stored wrapped key gives: the documents, the cache, and the *)
(* keys inside it, whatever was interrupted.                               *)
StoredIsReadable ==
  changes = 0 =>
    \A d \in Devices :
      LET s == disk[d]
      IN  s.wrapped # NoWrap =>
            /\ \A x \in Docs : s.docs[x] \in {0, s.wrapped.key}
            /\ s.cache \in {NoCache, [outer |-> s.wrapped.key, inner |-> s.wrapped.key]}

(* The password the server takes is the one that unwraps the key it keeps. *)
PasswordUnwraps == wrapped # NoWrap => wrapped.cred = auth

(* The account keeps the master key it was given at sign-up unless the     *)
(* password is changed, however often sign-up and login were interrupted.  *)
OneMasterKey ==
  [][wrapped # NoWrap /\ wrapped'.key # wrapped.key => changes > 0]_accountVars

(* A login that waits for the server comes to an end, and a migration of   *)
(* the key derivation that nothing interrupts is completed.                *)
LoginSettles ==
  \A d \in Devices :
    /\ (tab[d].phase = "server" /\ changes = 0) ~> (tab[d].phase # "server" \/ changes > 0)
    /\ (tab[d].migrate.type # "none" /\ tab[d].phase = "app")
         ~> (auth.kdf = "current" \/ changes > 0 \/ breaks > 0)
=============================================================================
