------------------------------ MODULE PushQueue ------------------------------
(***************************************************************************)
(* The browser's persistent push queue (frontend/src/sync/push-queue.ts)   *)
(* with what it works on: the dirty flags, push heads and pending vaults   *)
(* in IndexedDB (automerge-store.ts), the socket (sync-client.ts), the     *)
(* connection callbacks that drive it (connect.ts), and the server as far  *)
(* as it answers them.                                                     *)
(*                                                                         *)
(* A document's content is the number of local edits it holds; its         *)
(* Automerge heads are that number.  JavaScript runs one callback at a     *)
(* time, so an action is the code between two awaits.  Time is abstracted: *)
(* an armed timer may fire at any moment, and the length of the backoff    *)
(* and the debounce windows are left out.                                  *)
(***************************************************************************)
EXTENDS Naturals, Sequences, FiniteSets

CONSTANTS
  Docs, Vaults,
  VaultOf,       \* [Docs -> Vaults \cup {Personal}]
  Personal,      \* documents outside any vault
  Known,         \* vaults that exist on the server to begin with
  Demotable,     \* vaults in which this user may become a viewer
  MaxPushErrors, \* MAX_PUSH_ERRORS
  MaxEdits,      \* bound: local edits of a document
  MaxDrops,      \* bound: lost connections, reloads and logins
  MaxRefusals,   \* bound: messages rate-limited or failed by the server
  MaxWire        \* bound: messages in the socket in each direction

ASSUME QueueAssumption ==
  /\ Personal \notin Vaults /\ "none" \notin Docs
  /\ VaultOf \in [Docs -> Vaults \cup {Personal}]
  /\ Known \subseteq Vaults /\ Demotable \subseteq Vaults
  /\ MaxPushErrors \in Nat \ {0} /\ MaxEdits \in Nat \ {0} /\ MaxDrops \in Nat
  /\ MaxRefusals \in Nat /\ MaxWire \in Nat \ {0}

VARIABLES
  ver,       \* per document: edits in memory
  saved,     \* per document: edits in IndexedDB
  dirty,     \* documents with a "dirty:" key in IndexedDB
  heads,     \* per document: "pushHeads:" in IndexedDB, 0 when absent
  pendDb,    \* vaults with a "pendingVault:" key in IndexedDB
  books,     \* vaults of the books list (their key is loaded)
  dirtySet, timers, flush, ratePaused, backoff, errs,
  deferred, failed, pend, ready,     \* the fields of PushQueue
  jobs,      \* pushDoc calls in progress
  imports,   \* documents an import has changed, before it flushes
  acks,      \* documents whose onAck has cleared IndexedDB, not yet memory
  poll,      \* the ids a poll has read from IndexedDB, while it has not used them
  ask,       \* documents in the "Discard these changes?" dialog
  listing,   \* the onVaultList call in progress
  refresh,   \* the 3 s timer that asks for the vault list again
  conn,      \* "closed", "open" (WebSocket.OPEN) or "up" (after "connected")
  up, down,  \* messages on their way to and from the server
  srv,       \* per document: the newest version the server has stored
  access,    \* per vault: this user's access on the server
  drops, refusals

idb == <<saved, dirty, heads, pendDb>>
mem == <<dirtySet, timers, flush, ratePaused, backoff, errs,
         deferred, failed, pend, ready>>
calls == <<jobs, imports, acks, poll, ask, listing, refresh>>
net == <<conn, up, down>>
server == <<srv, access>>
count == <<drops, refusals>>
vars == <<ver, books, idb, mem, calls, net, server, count>>

None == "none"
Msg(t, x, n) == [type |-> t, of |-> x, n |-> n]
Job(d, by, stage, n) == [doc |-> d, by |-> by, stage |-> stage, ver |-> n]
Idle == [on |-> FALSE, todo |-> {}, cur |-> None]

Open == conn # "closed"
InVaults(W) == {d \in Docs : VaultOf[d] \in W}
Send(msgs) == up' = IF Open THEN up \o msgs ELSE up
Room(n) == Len(up) + n <= MaxWire

(* What a flush does not skip.                                             *)
Pushable == dirtySet \ (deferred \cup InVaults(pend) \cup InVaults(failed))

(* flushAllDirty up to its first await, when the dirty set is S.           *)
FlushAll(S, isReady, paused) ==
  LET starts == ~flush.on /\ Open /\ isReady
  IN  /\ flush' = IF starts THEN [on |-> TRUE, todo |-> S, cur |-> None] ELSE flush
      /\ ratePaused' = (paused /\ ~starts)

(* Deletes the "dirty:" and "pushHeads:" keys of the documents D.          *)
ClearFlags(D) ==
  /\ dirty' = dirty \ D
  /\ heads' = [d \in Docs |-> IF d \in D THEN 0 ELSE heads[d]]

(* The page has just loaded from the local cache: no socket yet, and       *)
(* updateRefs has been called.                                             *)
Init ==
  /\ ver = [d \in Docs |-> 0]
  /\ saved = ver /\ heads = ver /\ srv = ver /\ errs = ver
  /\ dirty = {} /\ pendDb = {} /\ books = Known
  /\ dirtySet = {} /\ timers = {} /\ flush = Idle
  /\ ratePaused = FALSE /\ backoff = FALSE
  /\ deferred = {} /\ failed = {} /\ pend = {} /\ ready = FALSE
  /\ jobs = {} /\ imports = {} /\ acks = {} /\ poll = {} /\ ask = {}
  /\ listing = {} /\ refresh = FALSE
  /\ conn = "closed" /\ up = <<>> /\ down = <<>>
  /\ access = [v \in Vaults |-> IF v \in Known THEN "write" ELSE "none"]
  /\ drops = 0 /\ refusals = 0

-----------------------------------------------------------------------------
(* The user.                                                               *)

(* A change to an open document, reported to the queue.                    *)
Edit(d) ==
  /\ ver[d] < MaxEdits /\ VaultOf[d] \in books \cup {Personal}
  /\ ver' = [ver EXCEPT ![d] = @ + 1]
  /\ dirtySet' = dirtySet \cup {d} /\ timers' = timers \cup {d}
  /\ UNCHANGED <<idb, books, flush, ratePaused, backoff, errs, deferred,
                 failed, pend, ready, calls, net, server, count>>

(* importRecipesIntoBook changes documents without telling the queue ...   *)
Import(d) ==
  /\ ver[d] < MaxEdits /\ VaultOf[d] \in books
  /\ ver' = [ver EXCEPT ![d] = @ + 1]
  /\ imports' = imports \cup {d}
  /\ UNCHANGED <<idb, books, mem, jobs, acks, poll, ask, listing, refresh,
                 net, server, count>>

(* ... and starts a flush once they are written.                           *)
ImportDone(d) ==
  /\ d \in imports /\ saved[d] = ver[d]
  /\ imports' = imports \ {d}
  /\ FlushAll(dirtySet, ready, ratePaused)
  /\ UNCHANGED <<ver, books, idb, dirtySet, timers, backoff, errs, deferred,
                 failed, pend, ready, jobs, acks, poll, ask, listing, refresh,
                 net, server, count>>

(* createBook: the vault is pending, its catalog is the first edit.        *)
CreateBook(v) ==
  LET catalog == InVaults({v})
  IN  /\ access[v] = "none" /\ v \notin books \cup pendDb
      /\ \A d \in catalog : ver[d] = 0
      /\ pendDb' = pendDb \cup {v} /\ books' = books \cup {v}
      /\ ver' = [d \in Docs |-> IF d \in catalog THEN 1 ELSE ver[d]]
      /\ dirtySet' = dirtySet \cup catalog /\ timers' = timers \cup catalog
      /\ Send(<<Msg("create", {v}, 0)>>)
      /\ UNCHANGED <<saved, dirty, heads, flush, ratePaused, backoff, errs,
                     deferred, failed, pend, ready, calls, conn, down, server,
                     count>>

(* The answer to "Discard these changes?".                                 *)
Answer(v, discard) ==
  LET D == ask \cap InVaults({v})
  IN  /\ D # {}
      /\ ask' = ask \ D
      /\ IF discard
           THEN dirtySet' = dirtySet \ D /\ ClearFlags(D)
           ELSE UNCHANGED <<dirtySet, dirty, heads>>
      /\ UNCHANGED <<ver, books, saved, pendDb, timers, flush, ratePaused,
                     backoff, errs, deferred, failed, pend, ready, jobs, imports, acks,
                     poll, listing, refresh, net, server, count>>

(* persistAndMarkDirty: one transaction for the document and its flag.     *)
Persist(d) ==
  /\ saved[d] < ver[d]
  /\ saved' = [saved EXCEPT ![d] = ver[d]]
  /\ dirty' = dirty \cup {d}
  /\ UNCHANGED <<ver, heads, pendDb, books, mem, calls, net, server, count>>

-----------------------------------------------------------------------------
(* pushDoc: wait for the writes queued when it was called, snapshot, sign  *)
(* and encrypt, send.                                                      *)

Snapshot(j) ==
  /\ j \in jobs /\ j.stage = "write" /\ saved[j.doc] >= j.ver
  /\ jobs' = (jobs \ {j}) \cup {Job(j.doc, j.by, "send", ver[j.doc])}
  /\ UNCHANGED <<ver, books, idb, mem, imports, acks, poll, ask, listing, refresh,
                 net, server, count>>

(* Mutant: a lost connection leaves the flush at its document.             *)
SendPush_NoReset(j) ==
  LET d == j.doc
      noKey == VaultOf[d] \notin books \cup {Personal}
  IN  /\ j \in jobs /\ j.stage = "send"
      /\ jobs' = jobs \ {j}
      /\ IF noKey
           THEN deferred' = deferred \cup {d} /\ UNCHANGED <<up, heads>>
           ELSE /\ Open => Room(1)
                /\ Send(<<Msg("push", d, j.ver)>>)
                /\ heads' = IF Open THEN [heads EXCEPT ![d] = j.ver] ELSE heads
                /\ UNCHANGED deferred
      /\ flush' = IF j.by = "debounce" THEN flush
                  ELSE [flush EXCEPT !.cur = IF Open THEN None ELSE @,
                                     !.todo = IF noKey \/ Open THEN @ ELSE {}]
      /\ UNCHANGED <<ver, saved, dirty, pendDb, books, dirtySet, timers,
                     ratePaused, backoff, errs, failed, pend, ready, imports,
                     acks, poll, ask, listing, refresh, conn, down, server, count>>

(* SyncClient.push and what pushDoc does with its result.                  *)
SendPush(j) ==
  LET d == j.doc
      noKey == VaultOf[d] \notin books \cup {Personal}
  IN  /\ j \in jobs /\ j.stage = "send"
      /\ jobs' = jobs \ {j}
      /\ IF noKey
           THEN deferred' = deferred \cup {d} /\ UNCHANGED <<up, heads>>
           ELSE /\ Open => Room(1)
                /\ Send(<<Msg("push", d, j.ver)>>)
                /\ heads' = IF Open THEN [heads EXCEPT ![d] = j.ver] ELSE heads
                /\ UNCHANGED deferred
      /\ flush' = IF j.by = "debounce" THEN flush
                  ELSE [flush EXCEPT !.cur = None,
                                     !.todo = IF noKey \/ Open THEN @ ELSE {}]
      /\ UNCHANGED <<ver, saved, dirty, pendDb, books, dirtySet, timers,
                     ratePaused, backoff, errs, failed, pend, ready, imports,
                     acks, poll, ask, listing, refresh, conn, down, server, count>>

(* fireDebounce                                                            *)
Debounce(d) ==
  /\ d \in timers
  /\ timers' = timers \ {d}
  /\ jobs' = IF Open THEN jobs \cup {Job(d, "debounce", "write", ver[d])} ELSE jobs
  /\ UNCHANGED <<ver, books, idb, dirtySet, flush, ratePaused, backoff, errs,
                 deferred, failed, pend, ready, imports, acks, poll, ask, listing,
                 refresh, net, server, count>>

(* The loop of flushAllDirty.                                              *)
FlushNext(d) ==
  /\ flush.on /\ flush.cur = None /\ Open /\ ~ratePaused
  /\ d \in flush.todo \cap Pushable
  /\ flush' = [flush EXCEPT !.todo = @ \ {d}, !.cur = d]
  /\ jobs' = jobs \cup {Job(d, "flush", "write", ver[d])}
  /\ UNCHANGED <<ver, books, idb, dirtySet, timers, ratePaused, backoff, errs,
                 deferred, failed, pend, ready, imports, acks, poll, ask, listing,
                 refresh, net, server, count>>

FlushEnd ==
  /\ flush.on /\ flush.cur = None
  /\ ~Open \/ ratePaused \/ flush.todo \cap Pushable = {}
  /\ flush' = Idle
  /\ backoff' = (backoff \/ (Pushable # {} /\ Open))
  /\ UNCHANGED <<ver, books, idb, dirtySet, timers, ratePaused, errs, deferred,
                 failed, pend, ready, calls, net, server, count>>

(* Mutant: the timer does not lift the pause.                              *)
BackoffFire_StaysPaused ==
  /\ backoff /\ backoff' = FALSE
  /\ FlushAll(dirtySet, ready, ratePaused)
  /\ UNCHANGED <<ver, books, idb, dirtySet, timers, errs, deferred, failed,
                 pend, ready, calls, net, server, count>>

(* The timer of scheduleBackoffFlush.                                      *)
BackoffFire ==
  /\ backoff /\ backoff' = FALSE
  /\ FlushAll(dirtySet, ready, FALSE)
  /\ UNCHANGED <<ver, books, idb, dirtySet, timers, errs, deferred, failed,
                 pend, ready, calls, net, server, count>>

(* poll reads IndexedDB, then uses what it read.                           *)
PollScan ==
  /\ poll = {} /\ ~flush.on /\ Open /\ dirty \cup dirtySet # {}
  /\ poll' = {dirty}
  /\ UNCHANGED <<ver, books, idb, mem, jobs, imports, acks, ask, listing, refresh, net,
                 server, count>>

(* Mutant: the poll does not add what it found.                            *)
PollApply_MemoryOnly ==
  \E ids \in poll :
    /\ poll' = {}
    /\ dirtySet' = dirtySet
    /\ IF dirtySet' # {} /\ ~backoff
         THEN FlushAll(dirtySet', ready, ratePaused)
         ELSE UNCHANGED <<flush, ratePaused>>
    /\ UNCHANGED <<ver, books, idb, timers, backoff, errs, deferred, failed,
                   pend, ready, jobs, imports, acks, ask, listing, refresh, net,
                   server, count>>

PollApply ==
  \E ids \in poll :
    /\ poll' = {}
    /\ dirtySet' = dirtySet \cup (ids \ InVaults(failed))
    /\ IF dirtySet' # {} /\ ~backoff
         THEN FlushAll(dirtySet', ready, ratePaused)
         ELSE UNCHANGED <<flush, ratePaused>>
    /\ UNCHANGED <<ver, books, idb, timers, backoff, errs, deferred, failed,
                   pend, ready, jobs, imports, acks, ask, listing, refresh, net,
                   server, count>>

-----------------------------------------------------------------------------
(* Messages from the server.  A handler that is awaited (onVaultList)      *)
(* holds back the next message.                                            *)

Receive(type) ==
  /\ down # <<>> /\ listing = {} /\ Head(down).type = type
  /\ down' = Tail(down)

(* onConnected: updateRefs, listVaults, then resubscribeAll.               *)
OnConnected ==
  /\ Receive("connected")
  /\ conn' = "up" /\ ready' = FALSE
  /\ Send(<<Msg("resync", None, 0)>>)
  /\ UNCHANGED <<ver, books, idb, dirtySet, timers, flush, ratePaused, backoff,
                 errs, deferred, failed, pend, calls, server, count>>

(* onVaultList as far as setBooks: it has read the pending vaults.         *)
OnVaultList ==
  /\ Receive("vault_list")
  /\ LET listed == Head(down).of
     IN  /\ books' = listed \cup (pendDb \cap books)
         /\ listing' = {[server |-> listed, pend |-> pendDb]}
  /\ UNCHANGED <<ver, idb, mem, jobs, imports, acks, poll, ask, refresh, conn, up,
                 server, count>>

(* The rest: onVaultsChanged, setPendingVaultIds, createPendingVaults, the *)
(* refresh timer, purgeOrphanedDirty, flushAllDirty.                       *)
VaultListDone ==
  \E l \in listing :
    LET unknown == pendDb \ l.server
        orphans == {d \in dirtySet : VaultOf[d] \notin books \cup {Personal}}
    IN  /\ listing' = {}
        /\ ready' = TRUE /\ deferred' = {} /\ failed' = {}
        /\ pend' = l.pend
        /\ pendDb' = unknown
        /\ IF unknown # {} THEN Send(<<Msg("create", unknown, 0)>>) ELSE UNCHANGED up
        /\ refresh' = (refresh \/ l.pend # {})
        /\ dirtySet' = dirtySet \ orphans
        /\ ClearFlags(orphans)
        /\ FlushAll(dirtySet', TRUE, ratePaused)
        /\ UNCHANGED <<ver, saved, books, timers, backoff, errs, jobs, imports, acks,
                       poll, ask, conn, down, server, count>>

Refresh ==
  /\ refresh /\ refresh' = FALSE
  /\ Send(<<Msg("list", None, 0)>>)
  /\ UNCHANGED <<ver, books, idb, mem, jobs, imports, acks, poll, ask, listing, conn,
                 down, server, count>>

OnVaultCreated ==
  /\ Receive("vault_created")
  /\ pendDb' = pendDb \ Head(down).of
  /\ pend' = pend \ Head(down).of
  /\ Send(<<Msg("list", None, 0)>>)
  /\ UNCHANGED <<ver, saved, dirty, heads, books, dirtySet, timers, flush,
                 ratePaused, backoff, errs, deferred, failed, ready, calls,
                 conn, server, count>>

(* role_changed and the other notices that only ask for the list again.    *)
OnNotice ==
  /\ Receive("notice")
  /\ Send(<<Msg("list", None, 0)>>)
  /\ UNCHANGED <<ver, books, idb, mem, calls, conn, server, count>>

(* tryClearDirtyOnCaughtUp for the subscribed documents.                   *)
OnCaughtUp ==
  /\ Receive("caught_up")
  /\ LET D == {d \in Head(down).of \cap dirtySet : heads[d] # 0 /\ heads[d] = ver[d]}
     IN  dirtySet' = dirtySet \ D /\ ClearFlags(D)
  /\ UNCHANGED <<ver, saved, pendDb, books, timers, flush, ratePaused, backoff,
                 errs, deferred, failed, pend, ready, calls, conn, up, server,
                 count>>

(* Mutant: the flag in IndexedDB is not cleared.                           *)
OnAck_KeepsFlag ==
  /\ Receive("ack")
  /\ ClearFlags({})
  /\ acks' = acks \cup {Head(down).of}
  /\ UNCHANGED <<ver, saved, pendDb, books, mem, jobs, imports, poll, ask, listing,
                 refresh, conn, up, server, count>>

(* onAck clears IndexedDB first, memory after the await.                   *)
OnAck ==
  /\ Receive("ack")
  /\ ClearFlags({Head(down).of})
  /\ acks' = acks \cup {Head(down).of}
  /\ UNCHANGED <<ver, saved, pendDb, books, mem, jobs, imports, poll, ask, listing,
                 refresh, conn, up, server, count>>

AckDone(d) ==
  /\ d \in acks /\ acks' = acks \ {d}
  /\ dirtySet' = dirtySet \ {d}
  /\ errs' = [errs EXCEPT ![d] = 0]
  /\ UNCHANGED <<ver, books, idb, timers, flush, ratePaused, backoff, deferred,
                 failed, pend, ready, jobs, imports, poll, ask, listing, refresh, net,
                 server, count>>

(* onPushError, "insufficient permissions".                                *)
OnDenied ==
  /\ Receive("denied")
  /\ LET d == Head(down).of
         v == VaultOf[d]
     IN  /\ dirtySet' = IF v \in pend THEN dirtySet \ {d} ELSE dirtySet
         /\ failed' = IF v \in pend THEN failed ELSE failed \cup {v}
         /\ ask' = IF v \in pend \cup failed THEN ask
                   ELSE ask \cup (dirtySet \cap InVaults({v}))
  /\ UNCHANGED <<ver, books, idb, timers, flush, ratePaused, backoff, errs,
                 deferred, pend, ready, jobs, imports, acks, poll, listing, refresh,
                 conn, up, server, count>>

(* Mutant: gives up one error late.                                        *)
OnPushError_OffByOne ==
  /\ Receive("push_error")
  /\ LET d == Head(down).of
         giveUp == errs[d] + 1 > MaxPushErrors
     IN  /\ errs' = [errs EXCEPT ![d] = IF giveUp THEN 0 ELSE @ + 1]
         /\ dirtySet' = dirtySet \ {d}
         /\ ClearFlags(IF giveUp THEN {d} ELSE {})
  /\ UNCHANGED <<ver, saved, pendDb, books, timers, flush, ratePaused, backoff,
                 deferred, failed, pend, ready, calls, conn, up, server, count>>

(* onPushError, any other message: give up after MAX_PUSH_ERRORS.          *)
OnPushError ==
  /\ Receive("push_error")
  /\ LET d == Head(down).of
         giveUp == errs[d] + 1 >= MaxPushErrors
     IN  /\ errs' = [errs EXCEPT ![d] = IF giveUp THEN 0 ELSE @ + 1]
         /\ dirtySet' = dirtySet \ {d}
         /\ ClearFlags(IF giveUp THEN {d} ELSE {})
  /\ UNCHANGED <<ver, saved, pendDb, books, timers, flush, ratePaused, backoff,
                 deferred, failed, pend, ready, calls, conn, up, server, count>>

OnRateLimited ==
  /\ Receive("rate_limited")
  /\ ratePaused' = TRUE /\ backoff' = TRUE
  /\ UNCHANGED <<ver, books, idb, dirtySet, timers, flush, errs, deferred,
                 failed, pend, ready, calls, conn, up, server, count>>

-----------------------------------------------------------------------------
(* The server and the network.                                             *)

Listed == {v \in Vaults : access[v] # "none"}
Readable == InVaults(Listed \cup {Personal})

Take(type) ==
  /\ up # <<>> /\ Len(down) < MaxWire /\ Head(up).type = type
  /\ up' = Tail(up)

Reply(msgs) == down' = down \o msgs

ServeConnect ==
  /\ Take("connect") /\ Reply(<<Msg("connected", None, 0)>>)
  /\ UNCHANGED <<ver, books, idb, mem, calls, conn, server, count>>

(* list_vaults, then the subscriptions of the open documents.              *)
ServeResync ==
  /\ Take("resync")
  /\ \E D \in SUBSET Readable :
       Reply(<<Msg("vault_list", Listed, 0), Msg("caught_up", D, 0)>>)
  /\ UNCHANGED <<ver, books, idb, mem, calls, conn, server, count>>

ServeList ==
  /\ Take("list") /\ Reply(<<Msg("vault_list", Listed, 0)>>)
  /\ UNCHANGED <<ver, books, idb, mem, calls, conn, server, count>>

(* A vault that exists already is an error the queue ignores.              *)
ServeCreate ==
  /\ Take("create")
  /\ LET new == Head(up).of \ Listed
     IN  /\ access' = [v \in Vaults |-> IF v \in new THEN "write" ELSE access[v]]
         /\ Reply(IF new = {} THEN <<>> ELSE <<Msg("vault_created", new, 0)>>)
  /\ UNCHANGED <<ver, books, idb, mem, calls, conn, srv, count>>

(* The stored snapshot replaces the one before it.                         *)
ServePush ==
  /\ Take("push")
  /\ LET d == Head(up).of
         allowed == VaultOf[d] = Personal \/ access[VaultOf[d]] = "write"
     IN  /\ srv' = IF allowed THEN [srv EXCEPT ![d] = Head(up).n] ELSE srv
         /\ Reply(<<Msg(IF allowed THEN "ack" ELSE "denied", d, 0)>>)
  /\ UNCHANGED <<ver, books, idb, mem, calls, conn, access, count>>

(* The rate limiter takes a message, whatever it was; a fresh connection   *)
(* has its whole burst left for the first two.                             *)
Limit ==
  /\ refusals < MaxRefusals /\ refusals' = refusals + 1
  /\ Take("push") \/ Take("list") \/ Take("create")
  /\ Reply(<<Msg("rate_limited", None, 0)>>)
  /\ UNCHANGED <<ver, books, idb, mem, calls, conn, server, drops>>

(* "failed to store message"                                               *)
StoreFails ==
  /\ refusals < MaxRefusals /\ refusals' = refusals + 1
  /\ Take("push") /\ Reply(<<Msg("push_error", Head(up).of, 0)>>)
  /\ UNCHANGED <<ver, books, idb, mem, calls, conn, server, drops>>

(* An owner makes this user a viewer.                                      *)
Demote(v) ==
  /\ v \in Demotable /\ access[v] = "write"
  /\ access' = [access EXCEPT ![v] = "read"]
  /\ IF conn = "up" THEN Reply(<<Msg("notice", None, 0)>>) ELSE UNCHANGED down
  /\ UNCHANGED <<ver, books, idb, mem, calls, conn, up, srv, count>>

Connect ==
  /\ conn = "closed" /\ conn' = "open"
  /\ up' = <<Msg("connect", None, 0)>>
  /\ UNCHANGED <<ver, books, idb, mem, calls, down, server, count>>

Drop ==
  /\ drops < MaxDrops /\ drops' = drops + 1
  /\ Open /\ conn' = "closed" /\ up' = <<>> /\ down' = <<>>
  /\ UNCHANGED <<ver, books, idb, mem, calls, server, refusals>>

(* The page is reloaded: memory is lost, the queue starts from IndexedDB   *)
(* (start) and is handed a new client (updateRefs) before it connects.     *)
Reload ==
  /\ drops < MaxDrops /\ drops' = drops + 1
  /\ conn' = "closed" /\ up' = <<>> /\ down' = <<>>
  /\ ver' = saved
  /\ dirtySet' = dirty /\ timers' = {} /\ flush' = Idle
  /\ ratePaused' = FALSE /\ backoff' = FALSE
  /\ errs' = [d \in Docs |-> 0]
  /\ deferred' = {} /\ failed' = {} /\ pend' = {} /\ ready' = FALSE
  /\ jobs' = {} /\ imports' = {} /\ acks' = {} /\ poll' = {} /\ ask' = {}
  /\ listing' = {} /\ refresh' = FALSE
  /\ UNCHANGED <<idb, books, server, refusals>>

Pushing == \E j \in jobs : Snapshot(j) \/ SendPush(j)
Flushing == FlushEnd \/ \E d \in Docs : FlushNext(d)
Polling == PollScan \/ PollApply
Serve == ServeConnect \/ ServeResync \/ ServeList \/ ServeCreate \/ ServePush
Deliver == \/ OnConnected \/ OnVaultList \/ OnVaultCreated \/ OnNotice
           \/ OnCaughtUp \/ OnAck \/ OnDenied \/ OnPushError \/ OnRateLimited

Next ==
  \/ \E d \in Docs : \/ Edit(d) \/ Import(d) \/ ImportDone(d) \/ Persist(d)
                     \/ Debounce(d) \/ AckDone(d)
  \/ \E v \in Vaults : \/ CreateBook(v) \/ Demote(v)
                       \/ \E discard \in BOOLEAN : Answer(v, discard)
  \/ Pushing \/ Flushing \/ BackoffFire \/ Polling
  \/ VaultListDone \/ Refresh \/ Deliver
  \/ Serve \/ Limit \/ StoreFails \/ Connect \/ Drop \/ Reload

Spec == Init /\ [][Next]_vars

(* Awaited calls return, armed timers fire, the poll interval ticks, the   *)
(* client reconnects and the server answers.                               *)
FairSpec ==
  /\ Spec
  /\ \A d \in Docs : WF_vars(Persist(d)) /\ WF_vars(AckDone(d))
                     /\ WF_vars(Debounce(d)) /\ WF_vars(ImportDone(d))
  /\ WF_vars(Pushing) /\ WF_vars(Flushing) /\ WF_vars(BackoffFire)
  /\ WF_vars(Polling) /\ WF_vars(VaultListDone) /\ WF_vars(Refresh)
  /\ WF_vars(Deliver) /\ WF_vars(Serve) /\ WF_vars(Connect)
-----------------------------------------------------------------------------
(* Properties.                                                             *)

Versions == 0..MaxEdits
Jobs == [doc : Docs, by : {"debounce", "flush"}, stage : {"write", "send"},
         ver : Versions]

(* What the browser and the server write to each other.                    *)
Requests ==
  [type : {"connect", "resync", "list"}, of : {None}, n : {0}]
    \cup [type : {"create"}, of : SUBSET Vaults, n : {0}]
    \cup [type : {"push"}, of : Docs, n : Versions]
Answers ==
  [type : {"connected", "rate_limited", "notice"}, of : {None}, n : {0}]
    \cup [type : {"vault_list", "vault_created"}, of : SUBSET Vaults, n : {0}]
    \cup [type : {"caught_up"}, of : SUBSET Docs, n : {0}]
    \cup [type : {"ack", "push_error"}, of : Docs, n : {0}]
    \cup [type : {"denied"}, of : InVaults(Vaults), n : {0}]

(* Type invariant.                                                         *)
TypeOK ==
  /\ ver \in [Docs -> Versions] /\ saved \in [Docs -> Versions]
  /\ heads \in [Docs -> Versions] /\ srv \in [Docs -> Versions]
  /\ errs \in [Docs -> 0..MaxPushErrors - 1]
  /\ dirty \subseteq Docs /\ dirtySet \subseteq Docs /\ timers \subseteq Docs
  /\ deferred \subseteq Docs /\ acks \subseteq Docs /\ ask \subseteq Docs
  /\ pendDb \subseteq Vaults /\ books \subseteq Vaults
  /\ failed \subseteq Vaults /\ pend \subseteq Vaults
  /\ flush \in [on : BOOLEAN, todo : SUBSET Docs, cur : Docs \cup {None}]
  /\ ratePaused \in BOOLEAN /\ backoff \in BOOLEAN /\ ready \in BOOLEAN
  /\ refresh \in BOOLEAN
  /\ jobs \subseteq Jobs /\ imports \subseteq Docs /\ poll \subseteq SUBSET Docs
  /\ listing \subseteq [server : SUBSET Vaults, pend : SUBSET Vaults]
  /\ conn \in {"closed", "open", "up"}
  /\ up \in Seq(Requests) /\ down \in Seq(Answers)
  /\ access \in [Vaults -> {"write", "read", "none"}]
  /\ drops \in 0..MaxDrops /\ refusals \in 0..MaxRefusals

(* onRateLimited "pauses" the queue by stopping the flush in progress: a   *)
(* paused queue always has the timer armed that will resume it.            *)
PausedIsScheduled == ratePaused => backoff

(* flushAllDirty's "flushing" flag refuses every other flush: it pushes    *)
(* one document at a time, waiting for it, and the flag is not left set    *)
(* when the loop stops for a lost connection or a rate limit.              *)
FlushIsRunning ==
  /\ {j.doc : j \in {i \in jobs : i.by = "flush"}} = {flush.cur} \ {None}
  /\ ~flush.on => flush = Idle

(* "Guarantees: every local change eventually reaches the server"         *)
(* (push-queue.ts): while the server lacks a stored change, something      *)
(* still remembers to send it -- a dirty flag, a timer, a push under way.  *)
UnsentIsRemembered ==
  \A d \in Docs : saved[d] > srv[d] =>
    \/ d \in dirty \cup dirtySet \cup timers \cup {j.doc : j \in jobs}
    \/ \E i \in DOMAIN up : up[i].type = "push" /\ up[i].of = d

(* Dirty documents do not stay dirty, unless this user is now a viewer and *)
(* keeps the changes, or the vault is not created: a lost create_vault is  *)
(* retried on the next connection only (createBook).                       *)
DirtyIsResolved ==
  \A d \in Docs : d \in dirty ~>
    (d \in dirty => VaultOf[d] \in {v \in Vaults : access[v] # "write"})

(* No retry loop: once faults and edits are over the queue goes quiet.     *)
RetriesEnd == <>[](jobs = {} /\ up = <<>>)
=============================================================================
