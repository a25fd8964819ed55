----------------------------- MODULE RelayServer -----------------------------
(***************************************************************************)
(* The sync server's handling of ONE vault document: the rows of           *)
(* sync_messages that belong to it, the hub's subscriptions to it, and the *)
(* push, subscribe, unsubscribe, connect, teardown and purge handlers of   *)
(* backend/internal/sync/client.go.  Every connection has a goroutine      *)
(* (ReadPump) that runs one handler at a time; a handler is a sequence of  *)
(* separate, non-transactional SQL statements, so the handlers of          *)
(* different connections interleave between statements.                    *)
(*                                                                         *)
(* A payload is an opaque encrypted snapshot: a row is identified by its   *)
(* BIGSERIAL id.  The browser's end of a connection appears only as far as *)
(* the server depends on it: it records the sequence number of each "sync",*)
(* "ack" and "caught_up" it processes and presents it when it subscribes.  *)
(***************************************************************************)
EXTENDS Naturals, Sequences, FiniteSets

CONSTANTS
  Users, Devices,
  Clients,      \* connections; a slot is reused after its teardown
  UserOf,       \* [Clients -> Users]
  DeviceOf,     \* [Clients -> Devices]
  Readers,      \* connections that open the document (an import pushes a
                \* document without ever subscribing to it)
  FirstRole,    \* [Users -> Roles]: the members to begin with
  Managed,      \* users whose vault role changes while the system runs
  Purgers,      \* users who may delete their account
  DbMayFail,    \* whether SQL statements may fail (error, 5 s timeout)
  MaxPushes,    \* bound: rows ever inserted
  MaxBacklog    \* bound: a browser sends nothing while this much is unread

ASSUME RelayAssumption ==
  /\ UserOf \in [Clients -> Users]
  /\ DeviceOf \in [Clients -> Devices]
  /\ FirstRole \in [Users -> {"owner", "editor", "viewer", "none"}]
  /\ Readers \subseteq Clients
  /\ Managed \subseteq Users
  /\ Purgers \subseteq Users
  /\ DbMayFail \in BOOLEAN
  /\ MaxPushes \in Nat /\ MaxBacklog \in Nat

Roles == {"owner", "editor", "viewer", "none"}
Writers == {"owner", "editor"}
Row == [id : Nat, user : Users, device : Devices, seq : Nat]
Msg == [type : {"sync", "ack", "push_error", "caught_up", "error"},
        id : Nat, seq : Nat]
Pcs == {"closed", "read", "store", "insert", "compact", "ack", "relay",
        "hub", "query", "replay"}
(* The locals of the handler a connection is running.                      *)
Locals == [max : Nat, id : Nat, seq : Nat, to : SUBSET Users,
           todo : SUBSET Row, upTo : Nat]
NoLocals == [max |-> 0, id |-> 0, seq |-> 0, to |-> {}, todo |-> {}, upTo |-> 0]

VARIABLES
  role,      \* vault_members: each user's role, "none" when not a member
  account,   \* users with a row in users (and their devices in devices)
  rows,      \* sync_messages of this document
  lastId,    \* ids handed out by the BIGSERIAL
  top,       \* ghost: the highest seq ever assigned
  link,      \* connections whose browser end is still there
  subs,      \* hub.docs[..][doc]
  pc,        \* where each connection's goroutine is
  h,         \* the locals of its handler
  base,      \* the last_seq of its latest subscribe
  queue,     \* messages enqueued for it and not yet processed by the browser
  lastSeq,   \* per device: the last_seq in the browser's IndexedDB
  asked,     \* per device: its SyncClient's lastSeqs entry, {} when absent
  seen,      \* ghost, per device: ids of the rows the browser has processed
  intact     \* ghost: subscribed connections whose user has been a member
             \* and whose statements have not failed since they subscribed

db == <<role, account, rows, lastId, top>>
net == <<link, queue, lastSeq, asked, seen>>
vars == <<role, account, rows, lastId, top, link, subs, pc, h, base, queue,
          lastSeq, asked, seen, intact>>

-----------------------------------------------------------------------------
(* Helpers.                                                                *)

Message(t, i, s) == [type |-> t, id |-> i, seq |-> s]

(* COALESCE(MAX(seq), 0)                                                   *)
MaxSeq(S) ==
  IF S = {} THEN 0
  ELSE (CHOOSE r \in S : \A q \in S : q.seq <= r.seq).seq

(* Enqueue on every connection of C; nobody reads the queue of a dead one. *)
SendTo(C, m) ==
  queue' = [c \in Clients |->
              IF c \in C \cap link THEN Append(queue[c], m) ELSE queue[c]]

CanSend(c) == c \in link /\ Len(queue[c]) < MaxBacklog
Storing == {c \in Clients : pc[c] \in {"store", "insert"}}
Finish(c) == pc' = [pc EXCEPT ![c] = "read"] /\ h' = [h EXCEPT ![c] = NoLocals]
Goto(c, l) == pc' = [pc EXCEPT ![c] = l]

Init ==
  /\ role = FirstRole
  /\ account = Users
  /\ rows = {} /\ lastId = 0 /\ top = 0
  /\ link = {} /\ subs = {} /\ intact = {}
  /\ pc = [c \in Clients |-> "closed"]
  /\ h = [c \in Clients |-> NoLocals]
  /\ base = [c \in Clients |-> 0]
  /\ queue = [c \in Clients |-> <<>>]
  /\ lastSeq = [d \in Devices |-> 0]
  /\ asked = [d \in Devices |-> {}]
  /\ seen = [d \in Devices |-> {}]

-----------------------------------------------------------------------------
(* The connection.  A browser has one live socket, but the server may      *)
(* still hold an older one of the same device.  A reconnecting page keeps  *)
(* its SyncClient, a reloaded one starts a new one.                        *)

Connect(c) ==
  /\ pc[c] = "closed" /\ UserOf[c] \in account
  /\ \A o \in link : DeviceOf[o] # DeviceOf[c]
  /\ link' = link \cup {c}
  /\ queue' = [queue EXCEPT ![c] = <<>>]
  /\ asked' \in {asked, [asked EXCEPT ![DeviceOf[c]] = {}]}
  /\ Goto(c, "read")
  /\ UNCHANGED <<db, subs, h, base, lastSeq, seen, intact>>

(* The network fails or the page goes away; the server notices later.      *)
Drop(c) ==
  /\ c \in link
  /\ link' = link \ {c}
  /\ queue' = [queue EXCEPT ![c] = <<>>]
  /\ intact' = intact \ {c}
  /\ UNCHANGED <<db, subs, pc, h, base, lastSeq, asked, seen>>

(* Variant: subscriptions keyed by device, as if an old connection's        *)
(* teardown could take its successor's with it.                            *)
Teardown_ByDevice(c) ==
  /\ pc[c] = "read" /\ c \notin link
  /\ subs' = {o \in subs : DeviceOf[o] # DeviceOf[c]}
  /\ Goto(c, "closed")
  /\ UNCHANGED <<db, link, h, base, queue, lastSeq, asked, seen, intact>>

(* The deferred function of ReadPump, once the running handler returned.   *)
Teardown(c) ==
  /\ pc[c] = "read" /\ c \notin link
  /\ subs' = subs \ {c}
  /\ Goto(c, "closed")
  /\ UNCHANGED <<db, link, h, base, queue, lastSeq, asked, seen, intact>>

-----------------------------------------------------------------------------
(* push                                                                    *)

(* checkVaultWriteAccess; a failed query counts as no access.              *)
Push(c) ==
  /\ pc[c] = "read" /\ CanSend(c)
  /\ lastId + Cardinality(Storing) < MaxPushes
  /\ role[UserOf[c]] \in Writers
  /\ Goto(c, "store")
  /\ UNCHANGED <<db, link, subs, h, base, queue, lastSeq, asked, seen, intact>>

PushDenied(c) ==
  /\ pc[c] = "read" /\ CanSend(c)
  /\ role[UserOf[c]] \notin Writers \/ DbMayFail
  /\ SendTo({c}, Message("push_error", 0, 0))
  /\ UNCHANGED <<db, link, subs, pc, h, base, lastSeq, asked, seen, intact>>

(* The sub-select of the INSERT reads MAX(seq) in the statement's snapshot.*)
StoreRead(c) ==
  /\ pc[c] = "store"
  /\ h' = [h EXCEPT ![c].max = MaxSeq(rows)]
  /\ Goto(c, "insert")
  /\ UNCHANGED <<db, net, subs, base, intact>>

(* UNIQUE(user_id, doc_id, seq), and the foreign key on users.             *)
Conflict(c) ==
  \/ \E r \in rows : r.user = UserOf[c] /\ r.seq = h[c].max + 1
  \/ UserOf[c] \notin account

NewRow(c) == [id |-> lastId + 1, user |-> UserOf[c],
              device |-> DeviceOf[c], seq |-> h[c].max + 1]

AddRow(new) ==
  /\ rows' = rows \cup {new}
  /\ lastId' = lastId + 1
  /\ top' = IF new.seq > top THEN new.seq ELSE top

Insert(c) ==
  /\ pc[c] = "insert" /\ ~Conflict(c)
  /\ AddRow(NewRow(c))
  /\ h' = [h EXCEPT ![c].id = NewRow(c).id, ![c].seq = NewRow(c).seq]
  /\ Goto(c, "compact")
  /\ UNCHANGED <<role, account, net, subs, base, intact>>

(* The row is committed but the answer is lost to the timeout: the handler *)
(* reports "failed to store message" and relays nothing.                   *)
InsertUnconfirmed(c) ==
  /\ pc[c] = "insert" /\ ~Conflict(c) /\ DbMayFail
  /\ AddRow(NewRow(c))
  /\ SendTo({c}, Message("push_error", 0, 0))
  /\ intact' = {}
  /\ Finish(c)
  /\ UNCHANGED <<role, account, link, subs, base, lastSeq, asked, seen>>

(* push_error "failed to store message"                                    *)
InsertFails(c) ==
  /\ pc[c] = "insert"
  /\ Conflict(c) \/ DbMayFail
  /\ SendTo({c}, Message("push_error", 0, 0))
  /\ Finish(c)
  /\ UNCHANGED <<db, link, subs, base, lastSeq, asked, seen, intact>>

(* Variants: keep only the row this handler inserted; delete seq <= MAX.   *)
Compact_KeepOwn(c) ==
  /\ pc[c] = "compact"
  /\ rows' = {r \in rows : r.id = h[c].id}
  /\ Goto(c, "ack")
  /\ UNCHANGED <<role, account, lastId, top, net, subs, h, base, intact>>

Compact_Inclusive(c) ==
  /\ pc[c] = "compact"
  /\ rows' = {}
  /\ Goto(c, "ack")
  /\ UNCHANGED <<role, account, lastId, top, net, subs, h, base, intact>>

(* DELETE ... WHERE seq < MAX(seq)                                         *)
Compact(c) ==
  /\ pc[c] = "compact"
  /\ rows' = {r \in rows : \A q \in rows : q.seq <= r.seq}
  /\ Goto(c, "ack")
  /\ UNCHANGED <<role, account, lastId, top, net, subs, h, base, intact>>

(* A failed compaction is only logged.                                     *)
CompactFails(c) ==
  /\ pc[c] = "compact" /\ DbMayFail
  /\ Goto(c, "ack")
  /\ UNCHANGED <<db, net, subs, h, base, intact>>

(* Variant: the member query selects the wrong column.                     *)
Ack_WrongColumn(c) ==
  /\ pc[c] = "ack"
  /\ SendTo({c}, Message("ack", h[c].id, h[c].seq))
  /\ h' = [h EXCEPT ![c].to = {role[u] : u \in Users}]
  /\ Goto(c, "relay")
  /\ UNCHANGED <<db, link, subs, base, lastSeq, asked, seen, intact>>

(* The ack, then GetVaultMemberIDs.                                        *)
Ack(c) ==
  /\ pc[c] = "ack"
  /\ SendTo({c}, Message("ack", h[c].id, h[c].seq))
  /\ h' = [h EXCEPT ![c].to = {u \in Users : role[u] # "none"}]
  /\ Goto(c, "relay")
  /\ UNCHANGED <<db, link, subs, base, lastSeq, asked, seen, intact>>

(* The member list cannot be read: the relay goes to nobody.               *)
AckNoMembers(c) ==
  /\ pc[c] = "ack" /\ DbMayFail
  /\ SendTo({c}, Message("ack", h[c].id, h[c].seq))
  /\ intact' = {}
  /\ Goto(c, "relay")
  /\ UNCHANGED <<db, link, subs, h, base, lastSeq, asked, seen>>

(* Variant: skip the sender's user instead of the sender's device.         *)
Relay_SkipUser(c) ==
  /\ pc[c] = "relay"
  /\ SendTo({o \in subs : /\ UserOf[o] \in h[c].to
                          /\ UserOf[o] # UserOf[c]},
            Message("sync", h[c].id, h[c].seq))
  /\ Finish(c)
  /\ UNCHANGED <<db, link, subs, base, lastSeq, asked, seen, intact>>

(* Hub.BroadcastVaultDoc, under the hub's read lock.                       *)
Relay(c) ==
  /\ pc[c] = "relay"
  /\ SendTo({o \in subs : /\ UserOf[o] \in h[c].to
                          /\ DeviceOf[o] # DeviceOf[c]},
            Message("sync", h[c].id, h[c].seq))
  /\ Finish(c)
  /\ UNCHANGED <<db, link, subs, base, lastSeq, asked, seen, intact>>

-----------------------------------------------------------------------------
(* subscribe and unsubscribe                                               *)

(* The browser presents the last_seq of its store when it opens the        *)
(* document and the one of its SyncClient when it reconnects.              *)
Presented(d) == {lastSeq[d]} \cup asked[d]

(* checkVaultAccess                                                        *)
Subscribe(c) ==
  /\ c \in Readers /\ pc[c] = "read" /\ CanSend(c)
  /\ role[UserOf[c]] # "none"
  /\ \E s \in Presented(DeviceOf[c]) :
       /\ base' = [base EXCEPT ![c] = s]
       /\ asked' = [asked EXCEPT ![DeviceOf[c]] = {s}]
  /\ intact' = intact \ {c}
  /\ Goto(c, "hub")
  /\ UNCHANGED <<db, link, queue, lastSeq, seen, subs, h>>

SubscribeDenied(c) ==
  /\ c \in Readers /\ pc[c] = "read" /\ CanSend(c)
  /\ role[UserOf[c]] = "none" \/ DbMayFail
  /\ SendTo({c}, Message("error", 0, 0))
  /\ \E s \in Presented(DeviceOf[c]) : asked' = [asked EXCEPT ![DeviceOf[c]] = {s}]
  /\ UNCHANGED <<db, link, subs, pc, h, base, lastSeq, seen, intact>>

HubSubscribe(c) ==
  /\ pc[c] = "hub"
  /\ subs' = subs \cup {c}
  /\ intact' = IF c \in link /\ role[UserOf[c]] # "none"
               THEN intact \cup {c} ELSE intact
  /\ Goto(c, "query")
  /\ UNCHANGED <<db, net, h, base>>

(* GetVaultMessagesSince                                                   *)
Query(c) ==
  LET found == {r \in rows : r.seq > base[c]}
  IN  /\ pc[c] = "query"
      /\ h' = [h EXCEPT ![c].todo = found,
                        ![c].upTo = IF found = {} THEN base[c]
                                    ELSE MaxSeq(found)]
      /\ Goto(c, "replay")
      /\ UNCHANGED <<db, net, subs, base, intact>>

(* "failed to fetch history": the subscription stays.                      *)
QueryFails(c) ==
  /\ pc[c] = "query" /\ DbMayFail
  /\ SendTo({c}, Message("error", 0, 0))
  /\ intact' = intact \ {c}
  /\ Finish(c)
  /\ UNCHANGED <<db, link, subs, base, lastSeq, asked, seen>>

(* One row of the result, in ascending order of seq.                       *)
Replay(c) ==
  /\ pc[c] = "replay"
  /\ \E r \in h[c].todo :
       /\ \A q \in h[c].todo : r.seq <= q.seq
       /\ SendTo({c}, Message("sync", r.id, r.seq))
       /\ h' = [h EXCEPT ![c].todo = @ \ {r}]
  /\ UNCHANGED <<db, link, subs, pc, base, lastSeq, asked, seen, intact>>

(* Variant: report the newest stored number instead of the replayed one.   *)
CaughtUp_Newest(c) ==
  /\ pc[c] = "replay" /\ h[c].todo = {}
  /\ SendTo({c}, Message("caught_up", 0, MaxSeq(rows)))
  /\ Finish(c)
  /\ UNCHANGED <<db, link, subs, base, lastSeq, asked, seen, intact>>

CaughtUp(c) ==
  /\ pc[c] = "replay" /\ h[c].todo = {}
  /\ SendTo({c}, Message("caught_up", 0, h[c].upTo))
  /\ Finish(c)
  /\ UNCHANGED <<db, link, subs, base, lastSeq, asked, seen, intact>>

Unsubscribe(c) ==
  /\ pc[c] = "read" /\ CanSend(c) /\ c \in subs
  /\ subs' = subs \ {c}
  /\ asked' = [asked EXCEPT ![DeviceOf[c]] = {}]
  /\ intact' = intact \ {c}
  /\ UNCHANGED <<db, link, queue, lastSeq, seen, pc, h, base>>

-----------------------------------------------------------------------------
(* What other handlers commit, and the browser.                            *)

(* vault_members changes: invite, remove, change role, transfer.           *)
SetRole(u, r) ==
  /\ u \in Managed \cap account /\ r # role[u]
  /\ role' = [role EXCEPT ![u] = r]
  /\ intact' = IF r = "none" THEN {c \in intact : UserOf[c] # u} ELSE intact
  /\ UNCHANGED <<account, rows, lastId, top, net, subs, pc, h, base>>

(* PurgeUser, one transaction, of a user who is not the last member (with  *)
(* the last member the vault goes too).  sync_messages.device_id and       *)
(* .user_id are ON DELETE CASCADE: every row the user wrote goes with the  *)
(* devices.                                                                *)
Purge(u) ==
  /\ u \in Purgers \cap account
  /\ \E v \in Users \ {u} : role[v] # "none"
  /\ \E c \in link : UserOf[c] = u /\ pc[c] = "read"
  /\ role' = [role EXCEPT ![u] = "none"]
  /\ account' = account \ {u}
  /\ rows' = {r \in rows : r.user # u}
  /\ intact' = {c \in intact : UserOf[c] # u}
  /\ UNCHANGED <<lastId, top, net, subs, pc, h, base>>

(* The browser processes the next message: onRemoteChange, onAck and       *)
(* onCaughtUp all store the message's sequence number; SyncClient keeps    *)
(* only that of a "caught_up".                                             *)
Deliver(c) ==
  /\ c \in link /\ queue[c] # <<>>
  /\ LET m == Head(queue[c]) IN
       /\ lastSeq' = IF m.type \in {"sync", "ack", "caught_up"}
                     THEN [lastSeq EXCEPT ![DeviceOf[c]] = m.seq]
                     ELSE lastSeq
       /\ asked' = IF m.type = "caught_up"
                   THEN [asked EXCEPT ![DeviceOf[c]] = {m.seq}] ELSE asked
       /\ seen' = IF m.type \in {"sync", "ack"}
                  THEN [seen EXCEPT ![DeviceOf[c]] = @ \cup {m.id}]
                  ELSE seen
  /\ queue' = [queue EXCEPT ![c] = Tail(@)]
  /\ UNCHANGED <<db, link, subs, pc, h, base, intact>>

(* The steps of a handler that has been started.                           *)
Handler(c) ==
  \/ StoreRead(c) \/ Insert(c) \/ InsertUnconfirmed(c) \/ InsertFails(c)
  \/ Compact(c) \/ CompactFails(c) \/ Ack(c) \/ AckNoMembers(c) \/ Relay(c)
  \/ HubSubscribe(c) \/ Query(c) \/ QueryFails(c) \/ Replay(c) \/ CaughtUp(c)

Next ==
  \/ \E c \in Clients :
       \/ Connect(c) \/ Drop(c) \/ Teardown(c)
       \/ Push(c) \/ PushDenied(c)
       \/ Subscribe(c) \/ SubscribeDenied(c) \/ Unsubscribe(c)
       \/ Handler(c) \/ Deliver(c)
  \/ \E u \in Users : Purge(u) \/ \E r \in Roles : SetRole(u, r)

Spec == Init /\ [][Next]_vars

(* A started handler runs to its end and a live browser reads its socket.  *)
FairSpec ==
  Spec /\ \A c \in Clients : WF_vars(Handler(c)) /\ WF_vars(Deliver(c))
-----------------------------------------------------------------------------
(* Properties.                                                             *)

(* Type invariant.                                                         *)
TypeOK ==
  /\ role \in [Users -> Roles] /\ account \subseteq Users
  /\ rows \subseteq Row /\ lastId \in Nat /\ top \in Nat
  /\ link \subseteq Clients /\ subs \subseteq Clients /\ intact \subseteq Clients
  /\ pc \in [Clients -> Pcs] /\ h \in [Clients -> Locals]
  /\ base \in [Clients -> Nat]
  /\ queue \in [Clients -> Seq(Msg)]
  /\ lastSeq \in [Devices -> Nat] /\ asked \in [Devices -> SUBSET Nat]
  /\ seen \in [Devices -> SUBSET Nat]

InQueue(c, i) ==
  \E k \in 1..Len(queue[c]) : queue[c][k].type = "sync" /\ queue[c][k].id = i

(* A push handler still has to relay row i to connection c.                *)
WillRelay(o, c, i) ==
  /\ h[o].id = i
  /\ \/ pc[o] \in {"compact", "ack"}
     \/ pc[o] = "relay" /\ UserOf[c] \in h[o].to

Covered(c, r) ==
  \/ r.seq <= base[c]
  \/ r.id \in seen[DeviceOf[c]]
  \/ InQueue(c, r.id)
  \/ \E o \in Clients : WillRelay(o, c, r.id)
  \/ pc[c] = "query"
  \/ r \in h[c].todo

(* handleSubscribe joins the hub BEFORE it queries the history, so an open *)
(* subscription has no gap: each stored snapshot another device wrote that *)
(* is newer than what the browser presented has been processed, is on its  *)
(* way, will be relayed, or is in the history still to be replayed.        *)
NoGap ==
  \A c \in intact, r \in rows : r.device = DeviceOf[c] \/ Covered(c, r)

(* "Compact: keep only the latest snapshot" (client.go): whatever handlers *)
(* interleave, the row with the highest sequence number ever assigned is   *)
(* stored, so an acknowledged push is on the server or was superseded.     *)
LatestKept == top > 0 => \E r \in rows : r.seq = top

(* A browser that would present the current snapshot's number, or a later  *)
(* one, has that snapshot: it would never be replayed to it again.         *)
UpToDateIsTrue ==
  \A d \in Devices, r \in rows :
    /\ r.seq = top /\ r.device # d
    /\ \E n \in Presented(d) : n >= top
    => r.id \in seen[d]

(* "Sequencing is by vault_id + doc_id so all members share the same       *)
(* sequence space" (db.go, StoreVaultMessage): no two stored snapshots of  *)
(* a document have the same sequence number.                               *)
UniqueSeq == \A r, q \in rows : r.seq = q.seq => r = q

(* The relay implements the abstract sequenced document: the highest       *)
(* stored number goes up by ones, and no browser is ahead of it.           *)
Sequenced == INSTANCE SequencedDoc WITH latest <- MaxSeq(rows)
ImplementsSequenced == Sequenced!Spec

(* Every snapshot stored while a subscription is intact reaches that       *)
(* browser, unless it is superseded first.                                 *)
SubscriberSees ==
  \A c \in Clients, i \in 1..MaxPushes :
    (c \in intact /\ \E r \in rows : /\ r.id = i /\ r.seq > base[c]
                                    /\ r.device # DeviceOf[c])
      ~> (\/ i \in seen[DeviceOf[c]] \/ c \notin intact
          \/ \A r \in rows : r.id # i)
=============================================================================
