--------------------------- MODULE PushQueueProofs ---------------------------
(***************************************************************************)
(* Proofs about PushQueue, for any number of documents and vaults and any  *)
(* bounds: its types, with those of the messages in the socket, that one   *)
(* flush works on one document at a time, and that a paused queue has the  *)
(* timer armed that will resume it.                                        *)
(***************************************************************************)
EXTENDS PushQueue, TLAPS

Flushes == [on : BOOLEAN, todo : SUBSET Docs, cur : Docs \cup {None}]

-----------------------------------------------------------------------------
(* Types.                                                                  *)

LEMMA RequestTypes ==
  /\ \A t \in {"connect", "resync", "list"} : Msg(t, None, 0) \in Requests
  /\ \A V \in SUBSET Vaults : Msg("create", V, 0) \in Requests
  /\ \A d \in Docs, n \in Versions : Msg("push", d, n) \in Requests
BY DEF Msg, Requests

LEMMA AnswerTypes ==
  /\ \A t \in {"connected", "rate_limited", "notice"} : Msg(t, None, 0) \in Answers
  /\ \A t \in {"vault_list", "vault_created"}, V \in SUBSET Vaults :
       Msg(t, V, 0) \in Answers
  /\ \A D \in SUBSET Docs : Msg("caught_up", D, 0) \in Answers
  /\ \A t \in {"ack", "push_error"}, d \in Docs : Msg(t, d, 0) \in Answers
  /\ \A d \in InVaults(Vaults) : Msg("denied", d, 0) \in Answers
BY DEF Msg, Answers

(* The next answer, and what is left to be read.                           *)
LEMMA ReceiveType ==
  ASSUME TypeOK, NEW type, Receive(type)
  PROVE  /\ down' \in Seq(Answers)
         /\ type \in {"vault_list", "vault_created"} => Head(down).of \in SUBSET Vaults
         /\ type = "caught_up" => Head(down).of \in SUBSET Docs
         /\ type \in {"ack", "push_error"} => Head(down).of \in Docs
         /\ type = "denied" => Head(down).of \in InVaults(Vaults)
<1>1. down \in Seq(Answers) /\ down # <<>>  BY DEF TypeOK, Receive
<1>2. Head(down) \in Answers /\ Tail(down) \in Seq(Answers)  BY <1>1
<1>3. Head(down).type = type /\ down' = Tail(down)  BY DEF Receive
<1> QED  BY <1>2, <1>3 DEF Answers

(* The next request, and what is left to be read.                          *)
LEMMA TakeType ==
  ASSUME TypeOK, NEW type, Take(type)
  PROVE  /\ up' \in Seq(Requests)
         /\ type = "create" => Head(up).of \in SUBSET Vaults
         /\ type = "push" => Head(up).of \in Docs /\ Head(up).n \in Versions
<1>1. up \in Seq(Requests) /\ up # <<>>  BY DEF TypeOK, Take
<1>2. Head(up) \in Requests /\ Tail(up) \in Seq(Requests)  BY <1>1
<1>3. Head(up).type = type /\ up' = Tail(up)  BY DEF Take
<1> QED  BY <1>2, <1>3 DEF Requests

LEMMA SendType ==
  ASSUME TypeOK, NEW m \in Requests, Send(<<m>>)
  PROVE  up' \in Seq(Requests)
<1>1. up \in Seq(Requests) /\ <<m>> \in Seq(Requests)  BY DEF TypeOK
<1>2. up \o <<m>> \in Seq(Requests)  BY <1>1
<1> QED  BY <1>1, <1>2 DEF Send

LEMMA ReplyType ==
  ASSUME TypeOK, NEW msgs \in Seq(Answers), Reply(msgs)
  PROVE  down' \in Seq(Answers)
<1>1. down \in Seq(Answers)  BY DEF TypeOK
<1> QED  BY <1>1 DEF Reply

LEMMA FlushAllType ==
  ASSUME TypeOK, NEW S \in SUBSET Docs, NEW r \in BOOLEAN, NEW p \in BOOLEAN,
         FlushAll(S, r, p)
  PROVE  flush' \in Flushes /\ ratePaused' \in BOOLEAN
<1>1. flush \in Flushes  BY DEF TypeOK, Flushes
<1>2. [on |-> TRUE, todo |-> S, cur |-> None] \in Flushes  BY DEF Flushes
<1>3. flush' \in Flushes  BY <1>1, <1>2, Zenon DEF FlushAll
<1>4. ratePaused' \in BOOLEAN  BY Zenon DEF FlushAll
<1> QED  BY <1>3, <1>4

LEMMA ClearFlagsType ==
  ASSUME TypeOK, NEW D, ClearFlags(D)
  PROVE  dirty' \subseteq Docs /\ heads' \in [Docs -> Versions]
<1>1. 0 \in Versions  BY QueueAssumption DEF Versions
<1> QED  BY <1>1 DEF TypeOK, ClearFlags

LEMMA JobTypes ==
  /\ \A d \in Docs, by \in {"debounce", "flush"}, s \in {"write", "send"}, n \in Versions :
       Job(d, by, s, n) \in Jobs
  /\ \A j \in Jobs : /\ j.doc \in Docs /\ j.by \in {"debounce", "flush"}
                     /\ j.ver \in Versions
BY DEF Job, Jobs

LEMMA TypeInit == Init => TypeOK
<1> SUFFICES ASSUME Init PROVE TypeOK  OBVIOUS
<1>1. 0 \in Versions /\ 0 \in 0..MaxPushErrors - 1 /\ 0 \in 0..MaxDrops /\ 0 \in 0..MaxRefusals
  BY QueueAssumption DEF Versions
<1>2. up \in Seq(Requests) /\ down \in Seq(Answers)  BY DEF Init
<1> QED  BY <1>1, <1>2, QueueAssumption DEF Init, TypeOK, Idle

LEMMA TypeStep == ASSUME TypeOK, [Next]_vars PROVE TypeOK'
<1> USE QueueAssumption
<1>0. CASE UNCHANGED vars
  BY <1>0 DEF vars, idb, mem, calls, net, server, count, TypeOK
<1>1. ASSUME NEW d \in Docs, Edit(d) PROVE TypeOK'
  <2>1. ver[d] + 1 \in Versions /\ ver' = [ver EXCEPT ![d] = @ + 1]
    <3>1. ver[d] \in 0..MaxEdits /\ ver[d] < MaxEdits  BY <1>1 DEF Edit, TypeOK, Versions
    <3> QED  BY <1>1, <3>1 DEF Edit, Versions
  <2>2. ver' \in [Docs -> Versions]  BY <2>1 DEF TypeOK
  <2> QED  BY <1>1, <2>2 DEF Edit, TypeOK, idb, calls, net, server, count
<1>2. ASSUME NEW d \in Docs, Import(d) PROVE TypeOK'
  <2>1. ver[d] + 1 \in Versions /\ ver' = [ver EXCEPT ![d] = @ + 1]
    <3>1. ver[d] \in 0..MaxEdits /\ ver[d] < MaxEdits  BY <1>2 DEF Import, TypeOK, Versions
    <3> QED  BY <1>2, <3>1 DEF Import, Versions
  <2>2. ver' \in [Docs -> Versions]  BY <2>1 DEF TypeOK
  <2> QED  BY <1>2, <2>2 DEF Import, TypeOK, idb, mem, net, server, count
<1>3. ASSUME NEW d \in Docs, ImportDone(d) PROVE TypeOK'
  <2>1. flush' \in Flushes /\ ratePaused' \in BOOLEAN
    <3>1. FlushAll(dirtySet, ready, ratePaused)  BY <1>3 DEF ImportDone
    <3> QED  BY <3>1, FlushAllType DEF TypeOK
  <2> QED  BY <1>3, <2>1 DEF ImportDone, Flushes, TypeOK, idb, net, server, count
<1>4. ASSUME NEW d \in Docs, Persist(d) PROVE TypeOK'
  BY <1>4 DEF Persist, TypeOK, mem, calls, net, server, count
<1>5. ASSUME NEW d \in Docs, Debounce(d) PROVE TypeOK'
  <2>1. jobs' \subseteq Jobs  BY <1>5, JobTypes DEF Debounce, TypeOK
  <2> QED  BY <1>5, <2>1 DEF Debounce, TypeOK, idb, net, server, count
<1>6. ASSUME NEW d \in Docs, AckDone(d) PROVE TypeOK'
  <2>1. errs' \in [Docs -> 0..MaxPushErrors - 1]  BY <1>6 DEF AckDone, TypeOK
  <2> QED  BY <1>6, <2>1 DEF AckDone, TypeOK, idb, net, server, count
<1>7. ASSUME NEW v \in Vaults, CreateBook(v) PROVE TypeOK'
  <2>1. ver' \in [Docs -> Versions]  BY <1>7 DEF CreateBook, TypeOK, Versions
  <2>2. up' \in Seq(Requests)
    <3>1. Msg("create", {v}, 0) \in Requests  BY RequestTypes
    <3>2. Send(<<Msg("create", {v}, 0)>>)  BY <1>7 DEF CreateBook
    <3> QED  BY <3>1, <3>2, SendType
  <2> QED  BY <1>7, <2>1, <2>2 DEF CreateBook, InVaults, TypeOK, calls, server, count
<1>8. ASSUME NEW v \in Vaults, Demote(v) PROVE TypeOK'
  <2>1. down' \in Seq(Answers)
    <3>1. CASE UNCHANGED down  BY <3>1 DEF TypeOK
    <3>2. CASE Reply(<<Msg("notice", None, 0)>>)
      <4>1. <<Msg("notice", None, 0)>> \in Seq(Answers)  BY AnswerTypes
      <4> QED  BY <3>2, <4>1, ReplyType
    <3> QED  BY <1>8, <3>1, <3>2 DEF Demote
  <2> QED  BY <1>8, <2>1 DEF Demote, TypeOK, idb, mem, calls, count
<1>9. ASSUME NEW v \in Vaults, NEW discard \in BOOLEAN, Answer(v, discard) PROVE TypeOK'
  <2>1. dirty' \subseteq Docs /\ heads' \in [Docs -> Versions] /\ dirtySet' \subseteq Docs
    BY <1>9, ClearFlagsType DEF Answer, TypeOK
  <2>2. UNCHANGED <<ver, books, saved, pendDb, timers, flush, ratePaused,
                    backoff, errs, deferred, failed, pend, ready, jobs, imports, acks,
                    poll, listing, refresh, net, server, count>>
        /\ ask' \subseteq ask
    BY <1>9 DEF Answer
  <2> QED  BY <2>1, <2>2 DEF TypeOK, net, server, count
<1>10. ASSUME NEW j \in jobs, Snapshot(j) PROVE TypeOK'
  <2>1. jobs' \subseteq Jobs
    <3>1. j \in Jobs /\ ver \in [Docs -> Versions]  BY DEF TypeOK
    <3>2. j.doc \in Docs /\ j.by \in {"debounce", "flush"}  BY <3>1, JobTypes
    <3>3. ver[j.doc] \in Versions  BY <3>1, <3>2
    <3>4. Job(j.doc, j.by, "send", ver[j.doc]) \in Jobs  BY <3>2, <3>3, JobTypes
    <3>5. jobs' = (jobs \ {j}) \cup {Job(j.doc, j.by, "send", ver[j.doc])}
      BY <1>10 DEF Snapshot
    <3> QED  BY <3>4, <3>5 DEF TypeOK
  <2> QED  BY <1>10, <2>1 DEF Snapshot, TypeOK, idb, mem, net, server, count
<1>11. ASSUME NEW j \in jobs, SendPush(j) PROVE TypeOK'
  <2>1. j.doc \in Docs /\ j.ver \in Versions  BY JobTypes DEF TypeOK
  <2>2. up' \in Seq(Requests)
    <3>1. CASE UNCHANGED up  BY <3>1 DEF TypeOK
    <3>2. CASE Send(<<Msg("push", j.doc, j.ver)>>)
      <4>1. Msg("push", j.doc, j.ver) \in Requests  BY <2>1, RequestTypes
      <4> QED  BY <3>2, <4>1, SendType
    <3> QED  BY <1>11, <3>1, <3>2 DEF SendPush
  <2>3. heads' \in [Docs -> Versions] /\ deferred' \subseteq Docs
    <3>1. heads' = heads \/ heads' = [heads EXCEPT ![j.doc] = j.ver]
      BY <1>11, Zenon DEF SendPush
    <3>2. deferred' = deferred \/ deferred' = deferred \cup {j.doc}
      BY <1>11, Zenon DEF SendPush
    <3>3. heads' \in [Docs -> Versions]
      <4>1. [heads EXCEPT ![j.doc] = j.ver] \in [Docs -> Versions]  BY <2>1 DEF TypeOK
      <4> QED  BY <3>1, <4>1 DEF TypeOK
    <3>4. deferred' \subseteq Docs  BY <2>1, <3>2 DEF TypeOK
    <3> QED  BY <3>3, <3>4
  <2>4. flush' \in Flushes  BY <1>11 DEF SendPush, TypeOK, Flushes
  <2> QED  BY <1>11, <2>2, <2>3, <2>4 DEF SendPush, TypeOK, Flushes, server, count
<1>12. CASE FlushEnd
  <2>1. flush' \in Flushes  BY <1>12 DEF FlushEnd, Idle, Flushes
  <2>2. backoff' \in BOOLEAN  BY <1>12, Zenon DEF FlushEnd, TypeOK
  <2> QED  BY <1>12, <2>1, <2>2 DEF FlushEnd, TypeOK, Flushes, idb, calls, net, server, count
<1>13. ASSUME NEW d \in Docs, FlushNext(d) PROVE TypeOK'
  <2>1. jobs' \subseteq Jobs  BY <1>13, JobTypes DEF FlushNext, TypeOK
  <2>2. flush' \in Flushes  BY <1>13 DEF FlushNext, TypeOK, Flushes
  <2> QED  BY <1>13, <2>1, <2>2 DEF FlushNext, TypeOK, Flushes, idb, net, server, count
<1>14. CASE BackoffFire
  <2>1. flush' \in Flushes /\ ratePaused' \in BOOLEAN
    <3>1. FlushAll(dirtySet, ready, FALSE)  BY <1>14 DEF BackoffFire
    <3>2. dirtySet \in SUBSET Docs /\ ready \in BOOLEAN /\ FALSE \in BOOLEAN
      BY DEF TypeOK
    <3> QED  BY <3>1, <3>2, FlushAllType
  <2> QED  BY <1>14, <2>1 DEF BackoffFire, Flushes, TypeOK, idb, calls, net, server, count
<1>15. CASE PollScan
  BY <1>15 DEF PollScan, TypeOK, idb, mem, net, server, count
<1>16. CASE PollApply
  <2>1. dirtySet' \subseteq Docs  BY <1>16 DEF PollApply, TypeOK
  <2>2. flush' \in Flushes /\ ratePaused' \in BOOLEAN
    <3>1. CASE UNCHANGED <<flush, ratePaused>>  BY <3>1 DEF TypeOK, Flushes
    <3>2. CASE FlushAll(dirtySet', ready, ratePaused)
      <4>1. ready \in BOOLEAN /\ ratePaused \in BOOLEAN  BY DEF TypeOK
      <4> QED  BY <2>1, <3>2, <4>1, FlushAllType
    <3> QED  BY <1>16, <3>1, <3>2 DEF PollApply
  <2> QED  BY <1>16, <2>1, <2>2 DEF PollApply, Flushes, TypeOK, idb, net, server, count
<1>17. CASE VaultListDone
  <2>1. PICK l \in listing :
          LET unknown == pendDb \ l.server
              orphans == {d \in dirtySet : VaultOf[d] \notin books \cup {Personal}}
          IN  /\ listing' = {}
              /\ ready' = TRUE /\ deferred' = {} /\ failed' = {}
              /\ pend' = l.pend
              /\ pendDb' = unknown
              /\ IF unknown # {} THEN Send(<<Msg("create", unknown, 0)>>) ELSE UNCHANGED up
              /\ refresh' = (refresh \/ l.pend # {})
              /\ dirtySet' = dirtySet \ orphans
              /\ ClearFlags(orphans)
              /\ FlushAll(dirtySet', TRUE, ratePaused)
              /\ UNCHANGED <<ver, saved, books, timers, backoff, errs, jobs, imports, acks,
                             poll, ask, conn, down, server, count>>
    BY <1>17 DEF VaultListDone
  <2>2. pendDb' \subseteq Vaults /\ pend' \subseteq Vaults /\ dirtySet' \in SUBSET Docs
    BY <2>1 DEF TypeOK
  <2>3. up' \in Seq(Requests)
    <3>1. CASE UNCHANGED up  BY <3>1 DEF TypeOK
    <3>2. CASE Send(<<Msg("create", pendDb', 0)>>)
      <4>1. Msg("create", pendDb', 0) \in Requests  BY <2>2, RequestTypes
      <4> QED  BY <3>2, <4>1, SendType
    <3> QED  BY <2>1, <3>1, <3>2
  <2>4. refresh' \in BOOLEAN  BY <2>1, Zenon DEF TypeOK
  <2>5. dirty' \subseteq Docs /\ heads' \in [Docs -> Versions]  BY <2>1, ClearFlagsType
  <2>6. flush' \in Flushes /\ ratePaused' \in BOOLEAN
    <3>1. ratePaused \in BOOLEAN /\ FlushAll(dirtySet', TRUE, ratePaused)  BY <2>1 DEF TypeOK
    <3> QED  BY <2>2, <3>1, FlushAllType
  <2>7. UNCHANGED <<ver, saved, books, timers, backoff, errs, jobs, imports, acks,
                    poll, ask, conn, down, server, count>>
        /\ listing' = {} /\ ready' = TRUE /\ deferred' = {} /\ failed' = {}
    BY <2>1
  <2> QED  BY <2>2, <2>3, <2>4, <2>5, <2>6, <2>7 DEF TypeOK, Flushes, server, count
<1>18. CASE Refresh
  <2>1. up' \in Seq(Requests)
    <3>1. Msg("list", None, 0) \in Requests  BY RequestTypes
    <3> QED  BY <1>18, <3>1, SendType DEF Refresh
  <2> QED  BY <1>18, <2>1 DEF Refresh, TypeOK, idb, mem, server, count
<1>19. CASE OnConnected
  <2>1. up' \in Seq(Requests)
    <3>1. Msg("resync", None, 0) \in Requests  BY RequestTypes
    <3> QED  BY <1>19, <3>1, SendType DEF OnConnected
  <2>2. down' \in Seq(Answers)  BY <1>19, ReceiveType DEF OnConnected
  <2> QED  BY <1>19, <2>1, <2>2 DEF OnConnected, TypeOK, idb, calls, server, count
<1>20. CASE OnVaultList
  <2>1. Receive("vault_list")  BY <1>20 DEF OnVaultList
  <2>2. down' \in Seq(Answers) /\ Head(down).of \in SUBSET Vaults  BY <2>1, ReceiveType
  <2> QED  BY <1>20, <2>2 DEF OnVaultList, TypeOK, idb, mem, server, count
<1>21. CASE OnVaultCreated
  <2>1. up' \in Seq(Requests)
    <3>1. Msg("list", None, 0) \in Requests  BY RequestTypes
    <3> QED  BY <1>21, <3>1, SendType DEF OnVaultCreated
  <2>2. down' \in Seq(Answers)  BY <1>21, ReceiveType DEF OnVaultCreated
  <2> QED  BY <1>21, <2>1, <2>2 DEF OnVaultCreated, TypeOK, calls, server, count
<1>22. CASE OnNotice
  <2>1. up' \in Seq(Requests)
    <3>1. Msg("list", None, 0) \in Requests  BY RequestTypes
    <3> QED  BY <1>22, <3>1, SendType DEF OnNotice
  <2>2. down' \in Seq(Answers)  BY <1>22, ReceiveType DEF OnNotice
  <2> QED  BY <1>22, <2>1, <2>2 DEF OnNotice, TypeOK, idb, mem, calls, server, count
<1>23. CASE OnCaughtUp
  <2>1. down' \in Seq(Answers)  BY <1>23, ReceiveType DEF OnCaughtUp
  <2>2. dirtySet' \subseteq Docs /\ dirty' \subseteq Docs /\ heads' \in [Docs -> Versions]
    BY <1>23, ClearFlagsType DEF OnCaughtUp, TypeOK
  <2> QED  BY <1>23, <2>1, <2>2 DEF OnCaughtUp, TypeOK, calls, server, count
<1>24. CASE OnAck
  <2>1. Receive("ack")  BY <1>24 DEF OnAck
  <2>2. down' \in Seq(Answers) /\ Head(down).of \in Docs  BY <2>1, ReceiveType
  <2>3. dirty' \subseteq Docs /\ heads' \in [Docs -> Versions]
    BY <1>24, ClearFlagsType DEF OnAck
  <2> QED  BY <1>24, <2>2, <2>3 DEF OnAck, TypeOK, mem, server, count
<1>25. CASE OnDenied
  <2>1. Receive("denied")  BY <1>25 DEF OnDenied
  <2>2. down' \in Seq(Answers) /\ Head(down).of \in InVaults(Vaults)
    BY <2>1, ReceiveType
  <2> DEFINE d == Head(down).of
             v == VaultOf[d]
  <2>3. /\ dirtySet' = IF v \in pend THEN dirtySet \ {d} ELSE dirtySet
        /\ failed' = IF v \in pend THEN failed ELSE failed \cup {v}
        /\ ask' = IF v \in pend \cup failed THEN ask
                  ELSE ask \cup (dirtySet \cap InVaults({v}))
    BY <1>25 DEF OnDenied
  <2>4. v \in Vaults /\ d \in Docs  BY <2>2 DEF InVaults
  <2> HIDE DEF v, d
  <2> QED  BY <1>25, <2>2, <2>3, <2>4 DEF OnDenied, TypeOK, idb, server, count
<1>26. CASE OnPushError
  <2>1. Receive("push_error")  BY <1>26 DEF OnPushError
  <2>2. down' \in Seq(Answers) /\ Head(down).of \in Docs  BY <2>1, ReceiveType
  <2>3. errs' \in [Docs -> 0..MaxPushErrors - 1] /\ dirtySet' \subseteq Docs
    BY <1>26, <2>2 DEF OnPushError, TypeOK
  <2>4. dirty' \subseteq Docs /\ heads' \in [Docs -> Versions]
    BY <1>26, ClearFlagsType DEF OnPushError
  <2> QED  BY <1>26, <2>2, <2>3, <2>4 DEF OnPushError, TypeOK, calls, server, count
<1>27. CASE OnRateLimited
  <2>1. down' \in Seq(Answers)  BY <1>27, ReceiveType DEF OnRateLimited
  <2> QED  BY <1>27, <2>1 DEF OnRateLimited, TypeOK, idb, calls, server, count
<1>28. CASE ServeConnect
  <2>1. up' \in Seq(Requests)  BY <1>28, TakeType DEF ServeConnect
  <2>2. <<Msg("connected", None, 0)>> \in Seq(Answers)  BY AnswerTypes
  <2>3. down' \in Seq(Answers)  BY <1>28, <2>2, ReplyType DEF ServeConnect
  <2> QED  BY <1>28, <2>1, <2>3 DEF ServeConnect, TypeOK, idb, mem, calls, server, count
<1>29. CASE ServeResync
  <2>1. up' \in Seq(Requests)  BY <1>29, TakeType DEF ServeResync
  <2>2. down' \in Seq(Answers)
    <3>1. PICK D \in SUBSET Readable :
            Reply(<<Msg("vault_list", Listed, 0), Msg("caught_up", D, 0)>>)
      BY <1>29 DEF ServeResync
    <3>2. D \in SUBSET Docs /\ Listed \in SUBSET Vaults
      BY DEF Readable, InVaults, Listed
    <3>3. Msg("vault_list", Listed, 0) \in Answers /\ Msg("caught_up", D, 0) \in Answers
      BY <3>2, AnswerTypes
    <3>4. <<Msg("vault_list", Listed, 0), Msg("caught_up", D, 0)>> \in Seq(Answers)
      BY <3>3
    <3> QED  BY <3>1, <3>4, ReplyType
  <2> QED  BY <1>29, <2>1, <2>2 DEF ServeResync, TypeOK, idb, mem, calls, server, count
<1>30. CASE ServeList
  <2>1. up' \in Seq(Requests)  BY <1>30, TakeType DEF ServeList
  <2>2. Listed \in SUBSET Vaults  BY DEF Listed
  <2>3. Msg("vault_list", Listed, 0) \in Answers  BY <2>2, AnswerTypes
  <2>4. <<Msg("vault_list", Listed, 0)>> \in Seq(Answers)  BY <2>3
  <2>5. down' \in Seq(Answers)  BY <1>30, <2>4, ReplyType DEF ServeList
  <2> QED  BY <1>30, <2>1, <2>5 DEF ServeList, TypeOK, idb, mem, calls, server, count
<1>31. CASE ServeCreate
  <2>1. Take("create")  BY <1>31 DEF ServeCreate
  <2>2. up' \in Seq(Requests) /\ Head(up).of \in SUBSET Vaults  BY <2>1, TakeType
  <2> DEFINE new == Head(up).of \ Listed
             answer == IF new = {} THEN <<>> ELSE <<Msg("vault_created", new, 0)>>
  <2>3. Msg("vault_created", new, 0) \in Answers
    <3>1. new \in SUBSET Vaults  BY <2>2
    <3> QED  BY <3>1, AnswerTypes
  <2>4. answer \in Seq(Answers)  BY <2>3
  <2>5. Reply(answer) /\ access' = [w \in Vaults |-> IF w \in new THEN "write" ELSE access[w]]
    BY <1>31 DEF ServeCreate
  <2>6. down' \in Seq(Answers)
    <3> HIDE DEF answer
    <3> QED  BY <2>4, <2>5, ReplyType
  <2> QED  BY <1>31, <2>2, <2>5, <2>6 DEF ServeCreate, TypeOK, idb, mem, calls, count
<1>32. CASE ServePush
  <2>1. Take("push")  BY <1>32 DEF ServePush
  <2>2. up' \in Seq(Requests) /\ Head(up).of \in Docs /\ Head(up).n \in Versions
    BY <2>1, TakeType
  <2> DEFINE d == Head(up).of
             allowed == VaultOf[d] = Personal \/ access[VaultOf[d]] = "write"
             t == IF allowed THEN "ack" ELSE "denied"
  <2>3. Reply(<<Msg(t, d, 0)>>)  BY <1>32 DEF ServePush
  <2>4. Msg(t, d, 0) \in Answers
    <3>1. CASE allowed  BY <2>2, <3>1, AnswerTypes
    <3>2. CASE ~allowed
      <4>1. d \in InVaults(Vaults)  BY <2>2, <3>2 DEF InVaults
      <4> QED  BY <3>2, <4>1, AnswerTypes
    <3> QED  BY <3>1, <3>2
  <2>5. <<Msg(t, d, 0)>> \in Seq(Answers)  BY <2>4
  <2>6. down' \in Seq(Answers)
    <3> HIDE DEF t, d
    <3> QED  BY <2>3, <2>5, ReplyType
  <2>7. srv' \in [Docs -> Versions]  BY <1>32, <2>2 DEF ServePush, TypeOK
  <2> QED  BY <1>32, <2>2, <2>6, <2>7 DEF ServePush, TypeOK, idb, mem, calls, count
<1>33. CASE Limit
  <2>1. up' \in Seq(Requests)  BY <1>33, TakeType DEF Limit
  <2>2. <<Msg("rate_limited", None, 0)>> \in Seq(Answers)  BY AnswerTypes
  <2>3. down' \in Seq(Answers)  BY <1>33, <2>2, ReplyType DEF Limit
  <2>4. refusals' \in 0..MaxRefusals  BY <1>33 DEF Limit, TypeOK
  <2> QED  BY <1>33, <2>1, <2>3, <2>4 DEF Limit, TypeOK, idb, mem, calls, server
<1>34. CASE StoreFails
  <2>1. Take("push")  BY <1>34 DEF StoreFails
  <2>2. up' \in Seq(Requests) /\ Head(up).of \in Docs  BY <2>1, TakeType
  <2>3. Msg("push_error", Head(up).of, 0) \in Answers  BY <2>2, AnswerTypes
  <2>4. <<Msg("push_error", Head(up).of, 0)>> \in Seq(Answers)  BY <2>3
  <2>5. down' \in Seq(Answers)  BY <1>34, <2>4, ReplyType DEF StoreFails
  <2>6. refusals' \in 0..MaxRefusals  BY <1>34 DEF StoreFails, TypeOK
  <2> QED  BY <1>34, <2>2, <2>5, <2>6 DEF StoreFails, TypeOK, idb, mem, calls, server
<1>35. CASE Connect
  <2>1. Msg("connect", None, 0) \in Requests  BY RequestTypes
  <2>2. up' \in Seq(Requests)  BY <1>35, <2>1 DEF Connect
  <2> QED  BY <1>35, <2>2 DEF Connect, TypeOK, idb, mem, calls, server, count
<1>36. CASE Drop
  <2>1. up' \in Seq(Requests) /\ down' \in Seq(Answers)  BY <1>36 DEF Drop
  <2>2. drops' \in 0..MaxDrops  BY <1>36 DEF Drop, TypeOK
  <2> QED  BY <1>36, <2>1, <2>2 DEF Drop, TypeOK, idb, mem, calls, server
<1>37. CASE Reload
  <2>1. up' \in Seq(Requests) /\ down' \in Seq(Answers)  BY <1>37 DEF Reload
  <2>2. drops' \in 0..MaxDrops /\ errs' \in [Docs -> 0..MaxPushErrors - 1]
    BY <1>37 DEF Reload, TypeOK
  <2>3. flush' \in Flushes  BY <1>37 DEF Reload, Idle, Flushes
  <2> QED  BY <1>37, <2>1, <2>2, <2>3 DEF Reload, TypeOK, Flushes, idb, server
<1> QED
  BY <1>0, <1>1, <1>2, <1>3, <1>4, <1>5, <1>6, <1>7, <1>8, <1>9, <1>10, <1>11,
     <1>12, <1>13, <1>14, <1>15, <1>16, <1>17, <1>18, <1>19, <1>20, <1>21, <1>22,
     <1>23, <1>24, <1>25, <1>26, <1>27, <1>28, <1>29, <1>30, <1>31, <1>32, <1>33,
     <1>34, <1>35, <1>36, <1>37
     DEF Next, Pushing, Flushing, Polling, Deliver, Serve


(* PushQueue keeps its types, and those of the messages under way: a       *)
(* refusal only ever names a document of a vault, so that OnDenied never   *)
(* files a personal document's "vault" under the failed ones.              *)
THEOREM TypeCorrect == Spec => []TypeOK
<1>1. TypeOK /\ [Next]_vars => TypeOK'  BY TypeStep
<1> QED  BY TypeInit, <1>1, PTL DEF Spec

-----------------------------------------------------------------------------
(* The timer of a paused queue.  Inductive with the types: only            *)
(* OnRateLimited pauses, and only BackoffFire and Reload disarm the timer. *)

(* push-queue.ts: a queue that a rate limit has paused has the timer of    *)
(* scheduleBackoffFlush armed, so that something resumes it.               *)
THEOREM PausedHasTimer == Spec => []PausedIsScheduled
<1>1. Init => PausedIsScheduled  BY DEF Init, PausedIsScheduled
<1>2. ASSUME TypeOK, PausedIsScheduled, [Next]_vars PROVE PausedIsScheduled'
  <2> SUFFICES ASSUME ratePaused' PROVE backoff'  BY DEF PausedIsScheduled
  <2>0. CASE ratePaused' = ratePaused /\ (backoff => backoff')
    BY <1>2, <2>0 DEF PausedIsScheduled
  <2>1. ASSUME NEW d \in Docs, ImportDone(d) PROVE backoff'
    <3>1. FlushAll(dirtySet, ready, ratePaused) /\ backoff' = backoff
      BY <2>1 DEF ImportDone
    <3>2. ratePaused  BY <3>1, Zenon DEF FlushAll
    <3> QED  BY <1>2, <3>1, <3>2 DEF PausedIsScheduled
  <2>2. CASE BackoffFire
    <3>1. FlushAll(dirtySet, ready, FALSE)  BY <2>2 DEF BackoffFire
    <3> QED  BY <3>1, Zenon DEF FlushAll
  <2>3. CASE PollApply
    <3>1. backoff' = backoff
          /\ (FlushAll(dirtySet', ready, ratePaused) \/ ratePaused' = ratePaused)
      BY <2>3 DEF PollApply
    <3>2. ratePaused  BY <3>1, Zenon DEF FlushAll
    <3> QED  BY <1>2, <3>1, <3>2 DEF PausedIsScheduled
  <2>4. CASE VaultListDone
    <3>1. backoff' = backoff /\ FlushAll(dirtySet', TRUE, ratePaused)
      BY <2>4 DEF VaultListDone
    <3>2. ratePaused  BY <3>1, Zenon DEF FlushAll
    <3> QED  BY <1>2, <3>1, <3>2 DEF PausedIsScheduled
  <2>5. CASE OnRateLimited  BY <2>5 DEF OnRateLimited
  <2>6. CASE Reload  BY <2>6 DEF Reload
  <2>7. CASE FlushEnd
    <3>1. ratePaused' = ratePaused /\ (backoff => backoff')
      BY <2>7, Zenon DEF FlushEnd
    <3> QED  BY <2>0, <3>1
  <2>8. CASE UNCHANGED vars  BY <2>0, <2>8 DEF vars, mem
  <2>9. ASSUME NEW d \in Docs,
               Edit(d) \/ Import(d) \/ Persist(d) \/ Debounce(d) \/ AckDone(d)
        PROVE  backoff'
    BY <2>0, <2>9 DEF Edit, Import, Persist, Debounce, AckDone, mem
  <2>10. ASSUME NEW v \in Vaults, CreateBook(v) \/ Demote(v) PROVE backoff'
    BY <2>0, <2>10 DEF CreateBook, Demote, mem
  <2>11. CASE Pushing
    <3>1. ratePaused' = ratePaused /\ backoff' = backoff
      BY <2>11 DEF Pushing, Snapshot, SendPush, mem
    <3> QED  BY <2>0, <3>1
  <2>12. ASSUME NEW d \in Docs, FlushNext(d) PROVE backoff'
    BY <2>0, <2>12 DEF FlushNext
  <2>13. CASE PollScan \/ Refresh  BY <2>0, <2>13 DEF PollScan, Refresh, mem
  <2>14. CASE OnConnected \/ OnVaultList \/ OnVaultCreated \/ OnNotice \/ OnCaughtUp
              \/ OnAck \/ OnDenied \/ OnPushError
    BY <2>0, <2>14 DEF OnConnected, OnVaultList, OnVaultCreated, OnNotice, OnCaughtUp,
                       OnAck, OnDenied, OnPushError, mem
  <2>15. CASE Serve \/ Limit \/ StoreFails \/ Connect \/ Drop
    BY <2>0, <2>15 DEF Serve, ServeConnect, ServeResync, ServeList, ServeCreate,
                       ServePush, Limit, StoreFails, Connect, Drop, mem
  <2>16. ASSUME NEW v \in Vaults, NEW discard \in BOOLEAN, Answer(v, discard)
         PROVE  backoff'
    BY <2>0, <2>16 DEF Answer
  <2> QED
    BY <1>2, <2>1, <2>2, <2>3, <2>4, <2>5, <2>6, <2>7, <2>8, <2>9, <2>10, <2>11,
       <2>12, <2>13, <2>14, <2>15, <2>16 DEF Next, Flushing, Polling, Deliver
<1> QED  BY <1>1, <1>2, TypeCorrect, PTL DEF Spec

-----------------------------------------------------------------------------
(* The flush in progress.  FlushIsRunning says of the documents pushed for *)
(* a flush that there is one at most; that it is one CALL (and ends with   *)
(* its document) takes the invariant that there is one such job at most.   *)

FlushJobs == {j \in jobs : j.by = "flush"}
OneFlushJob == \A i, j \in FlushJobs : i = j
FlushInv == FlushIsRunning /\ OneFlushJob

(* What FlushIsRunning says of the jobs, one at a time.                    *)
LEMMA RunningMeans ==
  FlushIsRunning <=> /\ \A j \in FlushJobs : j.doc = flush.cur /\ j.doc # None
                     /\ flush.cur # None => FlushJobs # {}
                     /\ ~flush.on => flush = Idle
BY DEF FlushIsRunning, FlushJobs

LEMMA FlushKeeps ==
  ASSUME FlushInv, flush' = flush, FlushJobs' = FlushJobs
  PROVE  FlushInv'
BY DEF FlushInv, FlushIsRunning, OneFlushJob, FlushJobs

LEMMA FlushAllKeeps ==
  ASSUME FlushInv, NEW S, NEW r, NEW p, FlushAll(S, r, p), jobs' = jobs
  PROVE  FlushInv'
<1>1. FlushJobs' = FlushJobs  BY DEF FlushJobs
<1>2. CASE flush' = flush  BY <1>1, <1>2, FlushKeeps
<1>3. CASE ~flush.on /\ flush' = [on |-> TRUE, todo |-> S, cur |-> None]
  <2>1. flush = Idle /\ flush.cur = None  BY <1>3 DEF FlushInv, FlushIsRunning, Idle
  <2>2. flush'.cur = None /\ flush'.on  BY <1>3
  <2> QED  BY <1>1, <2>1, <2>2 DEF FlushInv, FlushIsRunning, OneFlushJob, FlushJobs
<1> QED  BY <1>2, <1>3, Zenon DEF FlushAll

(* Every other action leaves the flush and its jobs alone.                 *)
LEMMA FlushUntouched ==
  ASSUME FlushInv, flush' = flush, jobs' = jobs
  PROVE  FlushInv'
BY FlushKeeps DEF FlushJobs

LEMMA FlushStep == ASSUME TypeOK, FlushInv, [Next]_vars PROVE FlushInv'
<1>0. CASE UNCHANGED vars  BY <1>0, FlushUntouched DEF vars, mem, calls
<1>1. ASSUME NEW d \in Docs, Debounce(d) PROVE FlushInv'
  <2>1. Job(d, "debounce", "write", ver[d]).by = "debounce"  BY DEF Job
  <2>2. FlushJobs' = FlushJobs /\ flush' = flush  BY <1>1, <2>1 DEF Debounce, FlushJobs
  <2> QED  BY <2>2, FlushKeeps
<1>2. ASSUME NEW j \in jobs, Snapshot(j) PROVE FlushInv'
  <2> DEFINE k == Job(j.doc, j.by, "send", ver[j.doc])
  <2>1. k.doc = j.doc /\ k.by = j.by  BY DEF Job
  <2>2. jobs' = (jobs \ {j}) \cup {k} /\ flush' = flush
    BY <1>2 DEF Snapshot, mem
  <2> HIDE DEF k
  <2>3. CASE j.by # "flush"
    <3>1. FlushJobs' = FlushJobs  BY <2>1, <2>2, <2>3 DEF FlushJobs
    <3> QED  BY <2>2, <3>1, FlushKeeps
  <2>4. CASE j.by = "flush"
    <3>1. j \in FlushJobs  BY <2>4 DEF FlushJobs
    <3>2. FlushJobs' = {k}
      BY <2>1, <2>2, <2>4, <3>1 DEF FlushInv, OneFlushJob, FlushJobs
    <3>3. k.doc = flush.cur /\ k.doc # None
      BY <2>1, <3>1, RunningMeans DEF FlushInv
    <3>4. FlushIsRunning'
      BY <2>2, <3>2, <3>3 DEF FlushInv, FlushIsRunning, FlushJobs
    <3> QED  BY <3>2, <3>4 DEF FlushInv, OneFlushJob
  <2> QED  BY <2>3, <2>4
<1>3. ASSUME NEW j \in jobs, SendPush(j) PROVE FlushInv'
  <2>1. jobs' = jobs \ {j}  BY <1>3 DEF SendPush
  <2>2. CASE j.by # "flush"
    <3>1. j.by = "debounce"  BY <2>2, JobTypes DEF TypeOK
    <3>2. flush' = flush  BY <1>3, <3>1 DEF SendPush
    <3>3. FlushJobs' = FlushJobs  BY <2>1, <2>2 DEF FlushJobs
    <3> QED  BY <3>2, <3>3, FlushKeeps
  <2>3. CASE j.by = "flush"
    <3>1. j \in FlushJobs  BY <2>3 DEF FlushJobs
    <3>2. FlushJobs' = {}
      BY <2>1, <3>1 DEF FlushInv, OneFlushJob, FlushJobs
    <3>3. flush \in Flushes  BY DEF TypeOK, Flushes
    <3>4. flush'.cur = None /\ flush'.on = flush.on
      BY <1>3, <2>3, <3>3 DEF SendPush, Flushes
    <3>5. flush.on
      <4>1. flush.cur # None  BY <3>1, RunningMeans DEF FlushInv
      <4> QED  BY <4>1, RunningMeans DEF FlushInv, Idle
    <3>6. FlushIsRunning'
      BY <3>2, <3>4, <3>5 DEF FlushIsRunning, FlushJobs
    <3> QED  BY <3>2, <3>6 DEF FlushInv, OneFlushJob
  <2> QED  BY <2>2, <2>3
<1>4. CASE FlushEnd
  <2>1. flush.cur = None /\ flush' = Idle /\ jobs' = jobs
    BY <1>4 DEF FlushEnd, calls
  <2>2. FlushJobs = {}  BY <2>1, RunningMeans DEF FlushInv
  <2>3. FlushJobs' = {}  BY <2>1, <2>2 DEF FlushJobs
  <2> QED  BY <2>1, <2>3 DEF FlushInv, FlushIsRunning, OneFlushJob, FlushJobs, Idle
<1>5. ASSUME NEW d \in Docs, FlushNext(d) PROVE FlushInv'
  <2> DEFINE k == Job(d, "flush", "write", ver[d])
  <2>1. k.doc = d /\ k.by = "flush" /\ d # None
    BY QueueAssumption DEF Job, None
  <2>2. flush \in Flushes  BY DEF TypeOK, Flushes
  <2>3. flush.cur = None /\ flush'.cur = d /\ flush'.on /\ jobs' = jobs \cup {k}
    BY <1>5, <2>2 DEF FlushNext, Flushes
  <2> HIDE DEF k
  <2>4. FlushJobs = {}  BY <2>3, RunningMeans DEF FlushInv
  <2>5. FlushJobs' = {k}  BY <2>1, <2>3, <2>4 DEF FlushJobs
  <2>6. FlushIsRunning'  BY <2>1, <2>3, <2>5 DEF FlushIsRunning, FlushJobs
  <2> QED  BY <2>5, <2>6 DEF FlushInv, OneFlushJob
<1>6. ASSUME NEW d \in Docs, ImportDone(d) PROVE FlushInv'
  <2>1. FlushAll(dirtySet, ready, ratePaused) /\ jobs' = jobs  BY <1>6 DEF ImportDone
  <2> QED  BY <2>1, FlushAllKeeps
<1>7. CASE BackoffFire
  <2>1. FlushAll(dirtySet, ready, FALSE) /\ jobs' = jobs  BY <1>7 DEF BackoffFire, calls
  <2> QED  BY <2>1, FlushAllKeeps
<1>8. CASE PollApply
  <2>1. jobs' = jobs /\ (FlushAll(dirtySet', ready, ratePaused) \/ flush' = flush)
    BY <1>8 DEF PollApply
  <2>2. CASE flush' = flush  BY <2>1, <2>2, FlushUntouched
  <2>3. CASE FlushAll(dirtySet', ready, ratePaused)  BY <2>1, <2>3, FlushAllKeeps
  <2> QED  BY <2>1, <2>2, <2>3
<1>9. CASE VaultListDone
  <2>1. FlushAll(dirtySet', TRUE, ratePaused) /\ jobs' = jobs  BY <1>9 DEF VaultListDone
  <2> QED  BY <2>1, FlushAllKeeps
<1>10. CASE Reload
  <2>1. jobs' = {} /\ flush' = Idle  BY <1>10 DEF Reload
  <2> QED  BY <2>1 DEF FlushInv, FlushIsRunning, OneFlushJob, FlushJobs, Idle
<1>11. ASSUME NEW d \in Docs, Edit(d) \/ Import(d) \/ Persist(d) \/ AckDone(d)
       PROVE  FlushInv'
  BY <1>11, FlushUntouched DEF Edit, Import, Persist, AckDone, mem, calls
<1>12. ASSUME NEW v \in Vaults, CreateBook(v) PROVE FlushInv'
  BY <1>12, FlushUntouched DEF CreateBook, calls
<1>13. ASSUME NEW v \in Vaults, Demote(v) PROVE FlushInv'
  <2>1. flush' = flush /\ jobs' = jobs  BY <1>13 DEF Demote, mem, calls
  <2> QED  BY <2>1, FlushUntouched
<1>14. ASSUME NEW v \in Vaults, NEW discard \in BOOLEAN, Answer(v, discard)
       PROVE  FlushInv'
  BY <1>14, FlushUntouched DEF Answer
<1>15. CASE PollScan \/ Refresh
  BY <1>15, FlushUntouched DEF PollScan, Refresh, mem
<1>16. CASE OnConnected \/ OnVaultList \/ OnVaultCreated \/ OnNotice \/ OnCaughtUp
            \/ OnAck \/ OnDenied \/ OnPushError \/ OnRateLimited
  <2>1. flush' = flush /\ jobs' = jobs
    BY <1>16 DEF OnConnected, OnVaultList, OnVaultCreated, OnNotice, OnCaughtUp,
                 OnAck, OnDenied, OnPushError, OnRateLimited, mem, calls
  <2> QED  BY <2>1, FlushUntouched
<1>17. CASE Serve \/ Limit \/ StoreFails \/ Connect \/ Drop
  <2>1. flush' = flush /\ jobs' = jobs
    BY <1>17 DEF Serve, ServeConnect, ServeResync, ServeList, ServeCreate,
                 ServePush, Limit, StoreFails, Connect, Drop, mem, calls
  <2> QED  BY <2>1, FlushUntouched
<1> QED
  BY <1>0, <1>1, <1>2, <1>3, <1>4, <1>5, <1>6, <1>7, <1>8, <1>9, <1>10, <1>11,
     <1>12, <1>13, <1>14, <1>15, <1>16, <1>17
     DEF Next, Pushing, Flushing, Polling, Deliver

(* push-queue.ts: the "flushing" flag lets one flush run at a time, a      *)
(* flush waits for the document it pushes before it takes the next, and    *)
(* the flag is never left set when the loop has ended.                     *)
THEOREM OneFlushRuns == Spec => []FlushIsRunning
<1>1. Init => FlushInv
  BY DEF Init, Idle, FlushInv, FlushIsRunning, OneFlushJob, FlushJobs
<1>2. TypeOK /\ FlushInv /\ [Next]_vars => FlushInv'  BY FlushStep
<1>3. FlushInv => FlushIsRunning  BY DEF FlushInv
<1> QED  BY <1>1, <1>2, <1>3, TypeCorrect, PTL DEF Spec
=============================================================================
