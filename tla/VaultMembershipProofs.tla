------------------------ MODULE VaultMembershipProofs ------------------------
(***************************************************************************)
(* TypeOK, OneOwner and OwnerDecides of VaultMembership for every set of   *)
(* users, connections and requests.                                        *)
(***************************************************************************)
EXTENDS VaultMembership, TLAPS

Busy(c) == pc[c] # "idle"

(* What a busy handler has checked, or was asked, that its writes rely on. *)
Checked(c) ==
  /\ pc[c] \in {"add", "target", "count", "write", "from", "to", "swap"} => h[c].on # UserOf[c]
  /\ pc[c] = "swap" => member[h[c].on] # "none"

(* Under careful use every running handler is the owner's, so there is one *)
(* of them at a time and nothing it has read changes before it writes.     *)
Alone ==
  careful => /\ Owners = {creator} \ {None}
             /\ \A c, d \in Clients : Busy(c) /\ Busy(d) => c = d
             /\ \A c \in Clients : Busy(c) => UserOf[c] = creator /\ Checked(c)

(* The statements on a row serve removals and changes of role.             *)
OnARow ==
  \A c \in Clients : pc[c] \in {"target", "count", "write"} =>
                      h[c].op \in {"remove", "editor", "viewer"}

Typed == TypeOK /\ OnARow
IInv == Typed /\ Alone

-----------------------------------------------------------------------------
(* Types.                                                                  *)

LEMMA AskTypes ==
  ASSUME TypeOK, NEW c \in Clients, NEW o \in Ops, NEW t \in Users \cup {None},
         NEW k \in 0..MaxKeys, NEW us \in SUBSET Users, Ask(c, o, t, k, us)
  PROVE  /\ pc' \in [Clients -> Pcs] /\ h' \in [Clients -> Request]
         /\ careful' \in BOOLEAN /\ requests' \in 0..MaxRequests
         /\ UNCHANGED <<rows, keys, refused>>
<1>1. FirstStep(o) \in Pcs
  BY DEF FirstStep, Pcs, Ops
<1>2. [op |-> o, on |-> t, key |-> k, cover |-> us] \in Request
  BY DEF Request
<1>3. pc' \in [Clients -> Pcs] /\ h' \in [Clients -> Request]
  BY <1>1, <1>2 DEF TypeOK, Ask
<1>4. careful' \in BOOLEAN
  BY DEF Ask
<1>5. requests' \in 0..MaxRequests
  BY MembershipAssumption DEF Ask, TypeOK
<1> QED
  BY <1>3, <1>4, <1>5 DEF Ask

LEMMA NoRequestType == NoRequest \in Request
BY MembershipAssumption DEF NoRequest, Request, Ops

LEMMA GotoTypes ==
  ASSUME TypeOK, NEW c \in Clients, NEW l \in Pcs, Goto(c, l)
  PROVE  pc' \in [Clients -> Pcs] /\ h' \in [Clients -> Request]
BY NoRequestType DEF Goto, TypeOK

LEMMA DoneTypes ==
  ASSUME TypeOK, NEW c \in Clients, Done(c)
  PROVE  pc' \in [Clients -> Pcs] /\ h' \in [Clients -> Request]
BY GotoTypes DEF Done, Pcs

LEMMA TypeInit == Init => TypeOK
<1> SUFFICES ASSUME Init PROVE TypeOK
  OBVIOUS
<1>1. FirstRole \in [Users -> Roles] /\ UserOf \in [Clients -> Users]
  BY MembershipAssumption DEF Roles
<1>2. h \in [Clients -> Request] /\ pc \in [Clients -> Pcs]
  BY NoRequestType DEF Init, Pcs
<1> QED
  BY <1>1, <1>2, MembershipAssumption DEF Init, TypeOK

LEMMA BrowserTypes ==
  ASSUME TypeOK, NEW c \in Clients, Browser(c)
  PROVE  TypeOK'
<1> USE MembershipAssumption DEF rows, keys, browser, count
<1>0. UserOf[c] \in Users
  OBVIOUS
<1>1. CASE Delete(c)
  <2>1. Ask(c, "delete", UserOf[c], 0, {})
    BY <1>1 DEF Delete
  <2>2. "delete" \in Ops
    BY DEF Ops
  <2> QED
    BY <1>0, <1>1, <2>1, <2>2, AskTypes DEF Delete, TypeOK
<1>2. CASE Listed(c)
  BY <1>2 DEF Listed, Members, TypeOK
<1>3. CASE NotListed(c)
  BY <1>3 DEF NotListed, TypeOK
<1>4. CASE Rotate(c)
  <2>1. Ask(c, "rotate", UserOf[c], lastKey + 1, list[c])
    BY <1>4 DEF Rotate
  <2>2. "rotate" \in Ops /\ lastKey + 1 \in 1..MaxKeys /\ list[c] \in SUBSET Users
    BY <1>4 DEF Ops, Rotate, TypeOK
  <2>3. /\ pc' \in [Clients -> Pcs] /\ h' \in [Clients -> Request]
        /\ careful' \in BOOLEAN /\ requests' \in 0..MaxRequests
        /\ UNCHANGED <<rows, keys, refused>>
    BY <1>0, <2>1, <2>2, AskTypes
  <2>4. lastKey' \in 1..MaxKeys /\ bookKey' \in [Clients -> 0..MaxKeys]
    BY <1>4, <2>2 DEF Rotate, TypeOK
  <2>5. /\ page' \in [Clients -> {"idle", "removed", "listed"}]
        /\ list' \in [Clients -> SUBSET Users]
    BY <1>4 DEF Rotate, TypeOK
  <2> QED
    BY <2>3, <2>4, <2>5 DEF TypeOK
<1>5. CASE Refresh(c)
  BY <1>0, <1>5 DEF Refresh, TypeOK
<1>6. ASSUME NEW t \in Users, Manage(c, t) PROVE TypeOK'
  <2>1. PICK o \in {"remove", "editor", "viewer", "transfer"} : Ask(c, o, t, 0, {})
    BY <1>6 DEF Manage
  <2>2. o \in Ops
    BY DEF Ops
  <2> QED
    BY <1>6, <2>1, <2>2, AskTypes DEF Manage, TypeOK
<1>7. ASSUME NEW t \in Users, Invite(c, t) PROVE TypeOK'
  <2>1. Ask(c, "invite", t, bookKey[c], {}) /\ bookKey[c] \in 0..MaxKeys
    BY <1>7 DEF Invite, TypeOK
  <2>2. "invite" \in Ops
    BY DEF Ops
  <2> QED
    BY <1>7, <2>1, <2>2, AskTypes DEF Invite, TypeOK
<1> QED
  BY <1>1, <1>2, <1>3, <1>4, <1>5, <1>6, <1>7 DEF Browser

LEMMA HandlerTypes ==
  ASSUME Typed, NEW c \in Clients, Handler(c)
  PROVE  TypeOK'
<1>z. TypeOK /\ OnARow
  BY DEF Typed
<1> USE MembershipAssumption DEF rows, keys, browser, count
<1>0. /\ UserOf[c] \in Users /\ h[c] \in Request
      /\ h[c].op \in Ops /\ h[c].key \in 0..MaxKeys /\ h[c].cover \subseteq Users
  BY <1>z DEF TypeOK, Request
<1>1. CASE Add(c)
  <2>1. h[c].on \in Users
    BY <1>z, <1>1 DEF Add, TypeOK
  <2>2. "viewer" \in Roles
    BY DEF Roles
  <2> QED
    BY <1>z, <1>0, <1>1, <2>1, <2>2, DoneTypes DEF Add, TypeOK
<1>2. CASE Target(c)
  <2>1. {"count", "write"} \subseteq Pcs
    BY DEF Pcs
  <2> QED
    BY <1>z, <1>2, <2>1, GotoTypes DEF Target, TypeOK
<1>3. CASE Count(c)
  <2>1. {"idle", "write"} \subseteq Pcs
    BY DEF Pcs
  <2> QED
    BY <1>z, <1>3, <2>1, GotoTypes DEF Count, TypeOK
<1>4. CASE Write(c)
  <2>1. h[c].op \in {"remove", "editor", "viewer"}
    BY <1>z, <1>4 DEF Write, OnARow
  <2>2. {"none", "editor", "viewer"} \subseteq Roles
    BY DEF Roles
  <2>3. member' \in [Users -> Roles]
    <3> DEFINE new == IF h[c].op = "remove" \/ member[h[c].on] = "none"
                        THEN "none" ELSE h[c].op
    <3>1. new \in Roles
      BY <2>1, <2>2
    <3>2. member' = [member EXCEPT ![h[c].on] = new]
      BY <1>4 DEF Write
    <3> QED
      BY <1>z, <3>1, <3>2 DEF TypeOK
  <2>8. key' \in [Users -> 0..MaxKeys]
    <3>1. \A u \in Users : key'[u] \in {0, key[u]}
      BY <1>z, <1>4 DEF Write, TypeOK
    <3>2. DOMAIN key' = Users /\ key' = [u \in Users |-> key'[u]]
      BY <1>z, <1>4 DEF Write, TypeOK
    <3> QED
      BY <1>z, <3>1, <3>2 DEF TypeOK
  <2>9. inviter' \in [Users -> Users \cup {None}]
    BY <1>z, <1>4 DEF Write, TypeOK
  <2>4. page' \in [Clients -> {"idle", "removed", "listed"}]
    BY <1>z, <1>4 DEF Write, TypeOK
  <2>5. pc' \in [Clients -> Pcs] /\ h' \in [Clients -> Request]
    BY <1>z, <1>4, DoneTypes DEF Write
  <2>6. stale' \subseteq Users /\ late' \in [Clients -> SUBSET Users]
    BY <1>z, <1>4 DEF Write, TypeOK
  <2>7. UNCHANGED <<creator, account, list, bookKey, lastKey, current, refused, count>>
    BY <1>4 DEF Write
  <2> QED
    BY <1>z, <2>3, <2>4, <2>5, <2>6, <2>7, <2>8, <2>9 DEF TypeOK
<1>5. CASE From(c)
  <2>1. {"idle", "to"} \subseteq Pcs
    BY DEF Pcs
  <2> QED
    BY <1>z, <1>5, <2>1, GotoTypes DEF From, TypeOK
<1>6. CASE To(c)
  <2>1. {"idle", "swap"} \subseteq Pcs
    BY DEF Pcs
  <2> QED
    BY <1>z, <1>6, <2>1, GotoTypes DEF To, TypeOK
<1>7. CASE Swap(c)
  <2>1. {"none", "owner", "editor"} \subseteq Roles
    BY DEF Roles
  <2>2. h[c].on \in Users \cup {None}
    BY <1>0 DEF Request
  <2> QED
    BY <1>z, <1>0, <1>7, <2>1, <2>2, DoneTypes DEF Swap, TypeOK
<1>8. CASE Cover(c)
  <2>1. {"idle", "rekey"} \subseteq Pcs
    BY DEF Pcs
  <2> QED
    BY <1>z, <1>8, <2>1, GotoTypes DEF Cover, TypeOK
<1>9. CASE Rekey(c)
  BY <1>z, <1>0, <1>9, DoneTypes DEF Rekey, TypeOK
<1>10. CASE DropVault(c)
  <2>1. "none" \in Roles
    BY DEF Roles
  <2> QED
    BY <1>z, <1>10, <2>1, DoneTypes DEF DropVault, TypeOK
<1>11. CASE Abort(c)
  BY <1>z, <1>11, DoneTypes DEF Abort, TypeOK
<1> QED
  BY <1>1, <1>2, <1>3, <1>4, <1>5, <1>6, <1>7, <1>8, <1>9, <1>10, <1>11 DEF Handler

LEMMA PurgeTypes ==
  ASSUME TypeOK, NEW c \in Clients, Purge(c)
  PROVE  TypeOK'
<1> USE DEF rows, keys, browser, count
<1>1. PICK u \in Users : u = UserOf[c]
  BY MembershipAssumption
<1>2. CASE \E w \in Members \ {u} : inviter[w] = u
  BY <1>1, <1>2 DEF Purge, TypeOK
<1>3. CASE ~ \E w \in Members \ {u} : inviter[w] = u
  <2>1. creator' \in Users \cup {None}
    BY <1>1, <1>3 DEF Purge, TypeOK, Members
  <2>2. /\ account' \subseteq Users /\ member' \in [Users -> Roles]
        /\ key' \in [Users -> 0..MaxKeys] /\ inviter' \in [Users -> Users \cup {None}]
    BY <1>1, <1>3, MembershipAssumption DEF Purge, TypeOK, Roles
  <2>3. /\ bookKey' \in [Clients -> 0..MaxKeys]
        /\ page' \in [Clients -> {"idle", "removed", "listed"}]
    BY <1>1, <1>3, MembershipAssumption DEF Purge, TypeOK
  <2>4. careful' \in BOOLEAN /\ UNCHANGED <<list, lastKey, refused, pc, h, keys, requests>>
    BY <1>1, <1>3 DEF Purge
  <2> QED
    BY <2>1, <2>2, <2>3, <2>4 DEF TypeOK
<1> QED
  BY <1>2, <1>3

(* The requests whose handlers read a row first, and how they go on.       *)
LEMMA OnARowStep ==
  ASSUME Typed, [Next]_vars
  PROVE  OnARow'
<1> USE DEF Typed, TypeOK, OnARow
<1>1. CASE UNCHANGED vars
  BY <1>1 DEF vars
<1>2. ASSUME NEW c \in Clients, NEW o \in Ops, NEW t \in Users \cup {None}, NEW k, NEW us,
             Ask(c, o, t, k, us)
      PROVE  OnARow'
  BY <1>2 DEF Ask, FirstStep, Ops
<1>3. ASSUME NEW c \in Clients, Browser(c) PROVE OnARow'
  <2>1. UserOf[c] \in Users /\ {"remove", "editor", "viewer", "transfer"} \subseteq Ops
        /\ {"delete", "rotate", "invite"} \subseteq Ops
    BY MembershipAssumption DEF Ops
  <2>2. CASE Listed(c) \/ NotListed(c) \/ Refresh(c)
    BY <2>2 DEF Listed, NotListed, Refresh
  <2> QED
    BY <1>2, <1>3, <2>1, <2>2 DEF Browser, Delete, Rotate, Manage, Invite
<1>4. ASSUME NEW c \in Clients, Done(c) PROVE OnARow'
  BY <1>4 DEF Done, Goto, NoRequest
<1>5. ASSUME NEW c \in Clients, NEW l, Goto(c, l),
             pc[c] \in {"target", "count"} \/ l \in {"idle", "to", "swap", "rekey"}
      PROVE  OnARow'
  BY <1>5 DEF Goto, NoRequest
<1>6. ASSUME NEW c \in Clients, Handler(c) PROVE OnARow'
  BY <1>4, <1>5, <1>6
  DEF Handler, Add, Target, Count, Write, From, To, Swap, Cover, Rekey, DropVault, Abort
<1>7. ASSUME NEW c \in Clients, Purge(c) PROVE OnARow'
  BY <1>7 DEF Purge
<1> QED
  BY <1>1, <1>3, <1>6, <1>7 DEF Next

LEMMA TypedStep == Typed /\ [Next]_vars => Typed'
<1> SUFFICES ASSUME Typed, [Next]_vars PROVE Typed'
  OBVIOUS
<1>1. CASE UNCHANGED vars
  BY <1>1, OnARowStep DEF vars, rows, browser, keys, count, Typed, TypeOK
<1>2. CASE Next
  BY <1>2, BrowserTypes, HandlerTypes, PurgeTypes, OnARowStep DEF Next, Typed
<1> QED
  BY <1>1, <1>2

(* Type invariant.                                                         *)
THEOREM TypeCorrect == Spec => []TypeOK
<1>1. Init => Typed
  BY TypeInit DEF Typed, Init, OnARow
<1>2. Typed => TypeOK
  BY DEF Typed
<1> QED
  BY <1>1, <1>2, TypedStep, PTL DEF Spec

-----------------------------------------------------------------------------
(* One owner.                                                              *)

LEMMA AloneInit == Init => Alone
BY MembershipAssumption DEF Init, Alone, Owners, Busy

(* Under careful use a request taken is the owner's, and the only one.     *)
LEMMA AloneAsk ==
  ASSUME IInv, NEW c \in Clients, NEW o \in Ops, NEW t \in Users, NEW k, NEW us,
         Ask(c, o, t, k, us), t = UserOf[c] => o \in {"invite", "rotate", "delete"}
  PROVE  Alone'
<1> SUFFICES ASSUME careful' PROVE Alone'
  BY DEF Alone
<1>1. /\ careful /\ pc[c] = "idle" /\ UNCHANGED <<creator, member>>
      /\ \A a \in Clients : UserOf[a] = UserOf[c] => pc[a] = "idle"
      /\ o = "invite" => member[UserOf[c]] = "owner" /\ t # UserOf[c]
  BY DEF Ask, rows
<1>2. UserOf[c] \in Users
  BY MembershipAssumption
<1>3. Owners' = Owners
  BY <1>1 DEF Owners
<1>4. CASE ~ Allowed(UserOf[c], o)
  BY <1>1, <1>3, <1>4 DEF Ask, IInv, Alone, Busy, Checked
<1>5. CASE Allowed(UserOf[c], o)
  <2>1. member[UserOf[c]] = "owner"
    BY <1>1, <1>5 DEF Allowed
  <2>2. UserOf[c] = creator
    BY <1>1, <1>2, <2>1 DEF IInv, Alone, Owners
  <2>3. \A a \in Clients : ~ Busy(a)
    BY <1>1, <2>2 DEF IInv, Alone, Busy
  <2>4. /\ pc' = [pc EXCEPT ![c] = FirstStep(o)]
        /\ h' = [h EXCEPT ![c] = [op |-> o, on |-> t, key |-> k, cover |-> us]]
    BY <1>5 DEF Ask
  <2>5. \A a \in Clients : Busy(a)' => a = c
    BY <2>3, <2>4 DEF Busy, IInv, Typed, TypeOK
  <2>6. pc'[c] = FirstStep(o) /\ h'[c].on = t
    BY <2>4 DEF IInv, Typed, TypeOK
  <2>7. Checked(c)'
    BY <1>1, <2>6 DEF Checked, FirstStep, Ops
  <2> QED
    BY <1>1, <1>3, <2>2, <2>5, <2>7 DEF Alone, IInv
<1> QED
  BY <1>4, <1>5

(* What a handler of the owner does, when he is alone, before it writes.   *)
LEMMA AloneGoto ==
  ASSUME IInv, NEW c \in Clients, NEW l, Goto(c, l),
         UNCHANGED <<creator, member, careful>>,
         Busy(c) /\ l # "add",
         l \in {"target", "count", "write"} => pc[c] \in {"target", "count", "write"},
         l \in {"from", "to", "swap"} => pc[c] \in {"from", "to", "swap"},
         l = "swap" => member[h[c].on] # "none"
  PROVE  Alone'
<1> SUFFICES ASSUME careful' PROVE Alone'
  BY DEF Alone
<1>1. careful /\ Owners' = Owners /\ creator' = creator
  BY DEF Owners
<1>2. \A a \in Clients : Busy(a) => a = c
  BY <1>1 DEF IInv, Alone
<1>3. pc' = [pc EXCEPT ![c] = l] /\ pc \in [Clients -> Pcs]
  BY DEF Goto, IInv, Typed, TypeOK
<1>4. \A a \in Clients : Busy(a)' => a = c
  BY <1>2, <1>3 DEF Busy
<1>5. UserOf[c] = creator /\ Checked(c)
  BY <1>1 DEF IInv, Alone
<1>6. Checked(c)'
  BY <1>3, <1>5 DEF Checked, Goto
<1> QED
  BY <1>1, <1>4, <1>5, <1>6 DEF Alone, IInv

(* When he writes, no other handler is running, before or after.           *)
LEMMA AloneDone ==
  ASSUME IInv, careful, NEW c \in Clients, Busy(c), Done(c)
  PROVE  \A a \in Clients : ~ Busy(a)'
<1>1. \A a \in Clients : Busy(a) => a = c
  BY DEF IInv, Alone
<1>2. pc' = [pc EXCEPT ![c] = "idle"] /\ pc \in [Clients -> Pcs]
  BY DEF Done, Goto, IInv, Typed, TypeOK
<1> QED
  BY <1>1, <1>2 DEF Busy

LEMMA AloneBrowser ==
  ASSUME IInv, NEW c \in Clients, Browser(c)
  PROVE  Alone'
<1>1. /\ UserOf[c] \in Users
      /\ {"remove", "editor", "viewer", "transfer", "delete", "rotate", "invite"} \subseteq Ops
  BY MembershipAssumption DEF Ops
<1>2. CASE Delete(c)
  BY <1>1, <1>2, AloneAsk DEF Delete
<1>3. CASE Rotate(c)
  BY <1>1, <1>3, AloneAsk DEF Rotate
<1>4. ASSUME NEW t \in Users, Manage(c, t) PROVE Alone'
  BY <1>1, <1>4, AloneAsk DEF Manage
<1>5. ASSUME NEW t \in Users, Invite(c, t) PROVE Alone'
  BY <1>1, <1>5, AloneAsk DEF Invite
<1>6. CASE Listed(c) \/ NotListed(c) \/ Refresh(c)
  <2>1. UNCHANGED <<creator, member, pc, h, careful>>
    BY <1>6 DEF Listed, NotListed, Refresh, rows, count
  <2> QED
    BY <2>1 DEF IInv, Alone, Owners, Busy, Checked
<1> QED
  BY <1>2, <1>3, <1>4, <1>5, <1>6 DEF Browser

LEMMA AloneHandler ==
  ASSUME IInv, NEW c \in Clients, Handler(c)
  PROVE  Alone'
<1>0. UserOf[c] \in Users /\ None \notin Users
  BY MembershipAssumption
<1>z. /\ member \in [Users -> Roles] /\ h[c].op \in Ops
      /\ creator \in Users \cup {None}
  BY DEF IInv, Typed, TypeOK, Request
<1>1. CASE Target(c) \/ Count(c) \/ From(c) \/ To(c) \/ Cover(c) \/ Rekey(c) \/ Abort(c)
  <2>1. UNCHANGED <<creator, member, careful>> /\ Busy(c)
    BY <1>1 DEF Target, Count, From, To, Cover, Rekey, Abort, rows, count, Busy
  <2>2. CASE Target(c)
    BY <2>1, <2>2, AloneGoto DEF Target
  <2>3. CASE Count(c)
    BY <2>1, <2>3, AloneGoto DEF Count
  <2>4. CASE From(c)
    BY <2>1, <2>4, AloneGoto DEF From
  <2>5. CASE To(c)
    BY <2>1, <2>5, AloneGoto DEF To, Members
  <2>6. CASE Cover(c)
    BY <2>1, <2>6, AloneGoto DEF Cover
  <2>7. CASE Rekey(c) \/ Abort(c)
    BY <2>1, <2>7, AloneGoto DEF Rekey, Abort, Done
  <2> QED
    BY <1>1, <2>2, <2>3, <2>4, <2>5, <2>6, <2>7
<1>2. CASE Add(c) \/ Write(c) \/ Swap(c) \/ DropVault(c)
  <2> SUFFICES ASSUME careful' PROVE Alone'
    BY DEF Alone
  <2>1. careful /\ Busy(c) /\ Done(c)
    BY <1>2 DEF Add, Write, Swap, DropVault, count, Busy
  <2>2. \A a \in Clients : ~ Busy(a)'
    BY <2>1, AloneDone
  <2>3. UserOf[c] = creator /\ Checked(c) /\ Owners = {creator}
    BY <1>0, <2>1 DEF IInv, Alone
  <2>4. CASE Add(c)
    <3>1. /\ h[c].on # creator /\ creator' = creator
          /\ member' = [member EXCEPT ![h[c].on] = "viewer"]
      BY <2>3, <2>4 DEF Add, Checked
    <3>2. Owners' = {creator}
      BY <1>z, <2>3, <3>1 DEF Owners
    <3> QED
      BY <1>0, <2>2, <2>3, <3>1, <3>2 DEF Alone
  <2>5. CASE Write(c)
    <3>1. h[c].on # creator /\ creator' = creator
      BY <2>3, <2>5 DEF Write, Checked
    <3>2. h[c].op \in {"remove", "editor", "viewer"}
      BY <2>5 DEF Write, IInv, Typed, OnARow
    <3>3. /\ \A u \in Users \ {h[c].on} : member'[u] = member[u]
          /\ h[c].on \in Users => member'[h[c].on] # "owner"
      BY <1>z, <2>5, <3>2 DEF Write
    <3>4. Owners' = {creator}
      BY <2>3, <3>1, <3>3 DEF Owners
    <3> QED
      BY <1>0, <2>2, <2>3, <3>1, <3>4 DEF Alone
  <2>6. CASE Swap(c)
    <3>1. /\ h[c].on # creator /\ member[h[c].on] # "none"
          /\ h[c].on \in Users /\ creator' = h[c].on
      BY <1>0, <2>3, <2>6 DEF Swap, Checked, IInv, Typed, TypeOK, Request
    <3>2. \A u \in Users : member'[u] = "owner" <=> u = h[c].on
      BY <1>z, <2>3, <2>6, <3>1 DEF Swap, Members, Owners
    <3>3. Owners' = {h[c].on}
      BY <3>1, <3>2 DEF Owners
    <3> QED
      BY <1>0, <2>2, <3>1, <3>3 DEF Alone
  <2>7. CASE DropVault(c)
    <3>1. Owners' = {} /\ creator' = None
      BY <2>7 DEF DropVault, Owners
    <3> QED
      BY <2>2, <3>1 DEF Alone
  <2> QED
    BY <1>2, <2>4, <2>5, <2>6, <2>7
<1> QED
  BY <1>1, <1>2 DEF Handler

LEMMA IInvStep == IInv /\ [Next]_vars => IInv'
<1> SUFFICES ASSUME IInv, [Next]_vars PROVE IInv'
  OBVIOUS
<1>1. Typed'
  BY TypedStep DEF IInv
<1>2. CASE UNCHANGED vars
  BY <1>1, <1>2 DEF vars, rows, count, IInv, Alone, Owners, Busy, Checked
<1>3. ASSUME NEW c \in Clients, Purge(c) PROVE Alone'
  BY <1>3 DEF Purge, Alone
<1> QED
  BY <1>1, <1>2, <1>3, AloneBrowser, AloneHandler DEF Next, IInv

LEMMA IInvInit == Init => IInv
BY TypeInit, AloneInit DEF IInv, Typed, Init, OnARow

(* The vault has the one owner its row in vaults names, for as long as no  *)
(* user makes two requests at a time, only the owner invites, not himself, *)
(* and nobody purges his account.                                          *)
THEOREM OneOwnerIsKept == Spec => []OneOwner
<1>1. IInv => OneOwner
  BY DEF IInv, Alone, OneOwner
<1> QED
  BY <1>1, IInvInit, IInvStep, PTL DEF Spec

(* In such use a row changes by a decision of who is the owner still,      *)
(* whatever happened between the check of his role and the write.          *)
THEOREM OwnerIsStillOwner == Spec => OwnerDecides
<1>1. ASSUME IInv, [Next]_vars, NEW t \in Users, careful, careful', member'[t] # member[t]
      PROVE  \E c \in Clients : /\ pc[c] # "idle" /\ pc'[c] = "idle"
                                 /\ member[UserOf[c]] = "owner"
  <2>1. PICK c \in Clients : Handler(c)
    <3>1. CASE UNCHANGED vars
      BY <1>1, <3>1 DEF vars, rows
    <3>2. ASSUME NEW c \in Clients, Purge(c) PROVE FALSE
      BY <1>1, <3>2 DEF Purge
    <3>3. ASSUME NEW c \in Clients, Browser(c) PROVE FALSE
      BY <1>1, <3>3
      DEF Browser, Delete, Manage, Invite, Rotate, Listed, NotListed, Refresh, Ask, rows
    <3> QED
      BY <1>1, <3>1, <3>2, <3>3 DEF Next
  <2>2. Done(c) /\ pc[c] # "idle"
    BY <1>1, <2>1
    DEF Handler, Add, Target, Count, Write, From, To, Swap, Cover, Rekey, DropVault, Abort, rows
  <2>3. pc'[c] = "idle"
    BY <1>1, <2>2 DEF Done, Goto, IInv, Typed, TypeOK
  <2>4. UserOf[c] = creator /\ UserOf[c] \in Users /\ Owners = {creator} \ {None}
    BY <1>1, <2>2, MembershipAssumption DEF IInv, Alone, Busy
  <2>5. member[UserOf[c]] = "owner"
    BY <2>4, MembershipAssumption DEF Owners
  <2> QED
    BY <2>2, <2>3, <2>5
<1>2. IInv /\ [Next]_vars =>
        [\A t \in Users : careful /\ careful' /\ member'[t] # member[t] =>
           \E c \in Clients : /\ pc[c] # "idle" /\ pc'[c] = "idle"
                              /\ member[UserOf[c]] = "owner"]_vars
  BY <1>1
<1> QED
  BY <1>2, IInvInit, IInvStep, PTL DEF Spec, OwnerDecides

-----------------------------------------------------------------------------
(* The generations of the key.                                             *)

(* A rotation past its check names every member who was not invited since. *)
Covering ==
  /\ KeysCovered
  /\ \A c \in Clients : pc[c] = "rekey" => Members \subseteq h[c].cover \cup late[c]

LEMMA CoveringInit == Init => Covering
BY DEF Init, Covering, KeysCovered, Members

LEMMA CoveringAsk ==
  ASSUME TypeOK, Covering, NEW c \in Clients, NEW o, NEW t, NEW k, NEW us, Ask(c, o, t, k, us)
  PROVE  Covering'
<1>1. UNCHANGED <<member, key, current, late, stale>>
  BY DEF Ask, rows, keys
<1>2. FirstStep(o) # "rekey"
  BY DEF FirstStep
<1>3. \A d \in Clients : pc'[d] = "rekey" => pc[d] = "rekey" /\ h'[d] = h[d]
  BY <1>2 DEF Ask, TypeOK
<1> QED
  BY <1>1, <1>3 DEF Covering, KeysCovered, Members

LEMMA CoveringBrowser ==
  ASSUME TypeOK, Covering, NEW c \in Clients, Browser(c)
  PROVE  Covering'
<1>1. CASE Listed(c) \/ NotListed(c) \/ Refresh(c)
  <2>1. UNCHANGED <<member, key, current, late, stale, pc, h>>
    BY <1>1 DEF Listed, NotListed, Refresh, rows, keys
  <2> QED
    BY <2>1 DEF Covering, KeysCovered, Members
<1> QED
  BY <1>1, CoveringAsk DEF Browser, Delete, Manage, Invite, Rotate

(* A handler that ends, or goes on to another step than "rekey".           *)
LEMMA OtherRotations ==
  ASSUME TypeOK, NEW c \in Clients, NEW l, Goto(c, l), l # "rekey"
  PROVE  \A d \in Clients : pc'[d] = "rekey" => d # c /\ pc[d] = "rekey" /\ h'[d] = h[d]
BY DEF Goto, TypeOK

LEMMA CoveringHandler ==
  ASSUME TypeOK, Covering, NEW c \in Clients, Handler(c)
  PROVE  Covering'
<1> DEFINE Others == \A d \in Clients :
              pc'[d] = "rekey" => d # c /\ pc[d] = "rekey" /\ h'[d] = h[d]
<1>0. ASSUME Done(c) PROVE Others
  BY <1>0, OtherRotations DEF Done
<1>1. CASE Add(c)
  <2>1. /\ Others /\ h[c].on \in Users
        /\ key' = [key EXCEPT ![h[c].on] = h[c].key] /\ current' = current
        /\ Members' = Members \cup {h[c].on}
    BY <1>0, <1>1 DEF Add, TypeOK, Members
  <2>2. KeysCovered'
    BY <1>1, <2>1 DEF Add, Covering, KeysCovered, TypeOK
  <2>3. \A d \in Clients : pc[d] = "rekey" => late'[d] = late[d] \cup {h[c].on}
    BY <1>1 DEF Add
  <2> QED
    BY <2>1, <2>2, <2>3 DEF Covering
<1>2. CASE Target(c) \/ Count(c) \/ From(c) \/ To(c)
  <2>1. Others
    BY <1>2, OtherRotations DEF Target, Count, From, To
  <2>2. UNCHANGED <<member, key, current, late, stale>>
    BY <1>2 DEF Target, Count, From, To, rows, keys
  <2> QED
    BY <2>1, <2>2 DEF Covering, KeysCovered, Members
<1>3. CASE Write(c)
  <2> DEFINE t == h[c].on
  <2>1. Others /\ current' = current
    BY <1>0, <1>3 DEF Write
  <2>2. CASE h[c].op = "remove"
    <3>1. /\ Members' = Members \ {t} /\ stale' = stale \ {t}
          /\ \A u \in Users \ {t} : key'[u] = key[u]
          /\ \A d \in Clients : late'[d] = late[d] \ {t}
      BY <1>3, <2>2 DEF Write, TypeOK, Members
    <3> QED
      BY <2>1, <3>1 DEF Covering, KeysCovered, Members
  <2>3. CASE h[c].op # "remove"
    <3>1. Members' \subseteq Members /\ stale' = stale
      BY <1>3, <2>3 DEF Write, TypeOK, Members
    <3>2. \A d \in Clients : late'[d] = late[d]
      BY <1>3, <2>3 DEF Write
    <3>3. \A u \in Users : key'[u] = key[u]
      BY <1>3, <2>3 DEF Write, TypeOK
    <3> QED
      BY <2>1, <3>1, <3>2, <3>3 DEF Covering, KeysCovered, Members
  <2> QED
    BY <2>2, <2>3
<1>4. CASE Swap(c)
  <2>1. Others /\ UNCHANGED <<key, current, late, stale>>
    BY <1>0, <1>4 DEF Swap, keys
  <2>2. Members' \subseteq Members
    BY <1>4 DEF Swap, Members
  <2> QED
    BY <2>1, <2>2 DEF Covering, KeysCovered
<1>5. CASE Cover(c)
  <2>1. UNCHANGED <<member, key, current, stale>> /\ late' = [late EXCEPT ![c] = {}]
    BY <1>5 DEF Cover, rows
  <2>2. pc'[c] = "rekey" => h' = h /\ Members \subseteq h[c].cover
    BY <1>5 DEF Cover, Goto, TypeOK
  <2>3. \A d \in Clients \ {c} : pc'[d] = pc[d] /\ h'[d] = h[d] /\ late'[d] = late[d]
    BY <1>5 DEF Cover, Goto, TypeOK
  <2> QED
    BY <2>1, <2>2, <2>3 DEF Covering, KeysCovered, Members
<1>6. CASE Rekey(c)
  <2>1. /\ Others /\ Members' = Members
        /\ Members \subseteq h[c].cover \cup late[c]
        /\ current' = h[c].key /\ stale' = late[c]
    BY <1>0, <1>6 DEF Rekey, Members, Covering
  <2>2. \A u \in Users : u \in h[c].cover \cap Members => key'[u] = h[c].key
    BY <1>6 DEF Rekey
  <2>3. \A d \in Clients \ {c} : late'[d] = late[d]
    BY <1>6 DEF Rekey, TypeOK
  <2>4. Members \subseteq Users
    BY DEF Members
  <2> QED
    BY <2>1, <2>2, <2>3, <2>4 DEF Covering, KeysCovered
<1>7. CASE DropVault(c)
  BY <1>7 DEF DropVault, Covering, KeysCovered, Members
<1>8. CASE Abort(c)
  <2>1. Others /\ UNCHANGED <<member, key, current, stale>>
    BY <1>0, <1>8 DEF Abort, rows
  <2>2. \A d \in Clients \ {c} : late'[d] = late[d]
    BY <1>8 DEF Abort, TypeOK
  <2> QED
    BY <2>1, <2>2 DEF Covering, KeysCovered, Members
<1> QED
  BY <1>1, <1>2, <1>3, <1>4, <1>5, <1>6, <1>7, <1>8 DEF Handler

LEMMA CoveringPurge ==
  ASSUME TypeOK, Covering, NEW c \in Clients, Purge(c)
  PROVE  Covering'
<1>1. UserOf[c] \in Users /\ UNCHANGED <<pc, h, current, late, stale>>
  BY MembershipAssumption DEF Purge, keys
<1>2. CASE UNCHANGED <<member, key>>
  BY <1>1, <1>2 DEF Covering, KeysCovered, Members
<1>3. CASE ~ UNCHANGED <<member, key>>
  <2>1. /\ member' = [member EXCEPT ![UserOf[c]] = "none"]
        /\ key' = [key EXCEPT ![UserOf[c]] = 0]
    BY <1>3 DEF Purge, rows
  <2>2. Members' = Members \ {UserOf[c]} /\ \A u \in Users \ {UserOf[c]} : key'[u] = key[u]
    BY <1>1, <2>1 DEF TypeOK, Members
  <2> QED
    BY <1>1, <2>2 DEF Covering, KeysCovered, Members
<1> QED
  BY <1>2, <1>3

(* Every member holds the key of the last rotation, but for those invited  *)
(* with an older one since its members were read.                          *)
THEOREM RotationCoversMembers == Spec => []KeysCovered
<1>1. Typed /\ Covering /\ [Next]_vars => Covering'
  <2>1. Covering /\ UNCHANGED vars => Covering'
    BY DEF vars, rows, keys, Covering, KeysCovered, Members
  <2> QED
    BY <2>1, CoveringBrowser, CoveringHandler, CoveringPurge DEF Next, Typed
<1>2. Init => Typed /\ Covering
  BY IInvInit, CoveringInit DEF IInv
<1>3. Covering => KeysCovered
  BY DEF Covering
<1> QED
  BY <1>1, <1>2, <1>3, TypedStep, PTL DEF Spec
=============================================================================
