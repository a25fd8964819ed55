-------------------------- MODULE RelayServerProofs --------------------------
(***************************************************************************)
(* Proofs about RelayServer, for any users, devices, connections and       *)
(* bounds: type correctness, the absence of gaps in open subscriptions,    *)
(* (when no account is purged) that the newest snapshot is always stored   *)
(* and that the relay implements SequencedDoc, and (with one user) that a  *)
(* device told it is up to date is.                                        *)
(***************************************************************************)
EXTENDS RelayServer, Extrema

(* Sequence numbers are bounded, so MaxSeq picks an existing maximum.      *)
Bounded == \A r \in rows : r.seq <= top

TypeInv == TypeOK /\ Bounded

LEMMA MaxSeqIsMax ==
  ASSUME NEW S \in SUBSET Row, NEW b \in Nat, \A r \in S : r.seq <= b
  PROVE  /\ MaxSeq(S) \in Nat /\ MaxSeq(S) <= b
         /\ \A r \in S : r.seq <= MaxSeq(S)
         /\ S # {} => \E r \in S : r.seq = MaxSeq(S)
<1>1. CASE S = {}  BY <1>1 DEF MaxSeq
<1>2. CASE S # {}
  <2>1. \A r \in S : r.seq \in 0..b  BY DEF Row
  <2>2. \E r \in S : \A q \in S : q.seq <= r.seq  BY <1>2, <2>1, HasMaxSeq
  <2> DEFINE m == CHOOSE r \in S : \A q \in S : q.seq <= r.seq
  <2>3. m \in S /\ \A q \in S : q.seq <= m.seq  BY <2>2
  <2>4. MaxSeq(S) = m.seq  BY <1>2 DEF MaxSeq
  <2> HIDE DEF m
  <2> QED  BY <2>3, <2>4 DEF Row
<1> QED  BY <1>1, <1>2

LEMMA SendToType ==
  ASSUME TypeOK, NEW C, NEW m \in Msg, SendTo(C, m)
  PROVE  queue' \in [Clients -> Seq(Msg)]
  BY DEF SendTo, TypeOK

LEMMA FinishType ==
  ASSUME TypeOK, NEW c \in Clients, Finish(c)
  PROVE  pc' \in [Clients -> Pcs] /\ h' \in [Clients -> Locals]
  BY DEF TypeOK, Finish, Pcs, Locals, NoLocals

LEMMA GotoType ==
  ASSUME TypeOK, NEW c \in Clients, NEW l \in Pcs, Goto(c, l)
  PROVE  pc' \in [Clients -> Pcs]
  BY DEF TypeOK, Goto

LEMMA MessageType ==
  ASSUME NEW i \in Nat, NEW s \in Nat,
         NEW t \in {"sync", "ack", "push_error", "caught_up", "error"}
  PROVE  Message(t, i, s) \in Msg
  BY DEF Message, Msg

LEMMA LocalsType ==
  ASSUME NEW l \in Locals, NEW n \in Nat, NEW k \in Nat,
         NEW U \in SUBSET Users, NEW R \in SUBSET Row
  PROVE  /\ [l EXCEPT !.max = n] \in Locals
         /\ [l EXCEPT !.id = n, !.seq = k] \in Locals
         /\ [l EXCEPT !.to = U] \in Locals
         /\ [l EXCEPT !.todo = R] \in Locals
         /\ [l EXCEPT !.todo = R, !.upTo = n] \in Locals
  BY DEF Locals

(* Every variable keeps its type, and no stored number exceeds top.        *)
LEMMA TypeStep == TypeInv /\ [Next]_vars => TypeInv'
<1> SUFFICES ASSUME TypeOK, Bounded, [Next]_vars PROVE TypeOK' /\ Bounded'
  BY DEF TypeInv
<1> USE RelayAssumption
<1>a. \A l \in {"closed", "read", "store", "insert", "compact", "ack", "relay",
              "hub", "query", "replay"} : l \in Pcs  BY DEF Pcs
<1>0. CASE UNCHANGED vars
  BY <1>0 DEF TypeOK, Bounded, vars
<1>1. ASSUME NEW c \in Clients, Connect(c) PROVE TypeOK' /\ Bounded'
  <2>1. asked' \in [Devices -> SUBSET Nat]  BY <1>1 DEF Connect, TypeOK
  <2>2. UNCHANGED <<role, account, rows, lastId, top>>  BY <1>1 DEF Connect, db
  <2>3. /\ link' \subseteq Clients /\ pc' \in [Clients -> Pcs]
        /\ queue' \in [Clients -> Seq(Msg)]
    BY <1>1 DEF Connect, Goto, TypeOK, Pcs
  <2>4. UNCHANGED <<subs, h, base, lastSeq, seen, intact>>  BY <1>1 DEF Connect
  <2> QED  BY <2>1, <2>2, <2>3, <2>4 DEF TypeOK, Bounded
<1>2. ASSUME NEW c \in Clients, Drop(c) PROVE TypeOK' /\ Bounded'
  BY <1>2 DEF Drop, TypeOK, Bounded, db
<1>3. ASSUME NEW c \in Clients, Teardown(c) PROVE TypeOK' /\ Bounded'
  BY <1>3 DEF Teardown, Goto, TypeOK, Bounded, db, Pcs
<1>4. ASSUME NEW c \in Clients, Push(c) PROVE TypeOK' /\ Bounded'
  BY <1>4 DEF Push, Goto, TypeOK, Bounded, db, Pcs
<1>5. ASSUME NEW c \in Clients, PushDenied(c) PROVE TypeOK' /\ Bounded'
  BY <1>5, SendToType, MessageType DEF PushDenied, TypeOK, Bounded, db
<1>6. ASSUME NEW c \in Clients, StoreRead(c) PROVE TypeOK' /\ Bounded'
  <2>1. MaxSeq(rows) \in Nat  BY MaxSeqIsMax DEF TypeOK, Bounded
  <2>2. h' = [h EXCEPT ![c] = [h[c] EXCEPT !.max = MaxSeq(rows)]]
    BY <1>6 DEF StoreRead
  <2>3. h' \in [Clients -> Locals]  BY <2>1, <2>2, LocalsType DEF TypeOK
  <2> QED  BY <1>6, <2>3 DEF StoreRead, Goto, TypeOK, Bounded, db, net, Pcs
<1>7. ASSUME NEW c \in Clients, Insert(c) PROVE TypeOK' /\ Bounded'
  <2>1. NewRow(c) \in Row
    BY DEF NewRow, Row, TypeOK, Locals
  <2>2. NewRow(c).id \in Nat /\ NewRow(c).seq \in Nat  BY <2>1 DEF Row
  <2>3. rows' \subseteq Row /\ lastId' \in Nat /\ top' \in Nat /\ Bounded'
    BY <1>7, <2>1, <2>2 DEF Insert, AddRow, TypeOK, Bounded, Row
  <2>4. h' = [h EXCEPT ![c] = [h[c] EXCEPT !.id = NewRow(c).id,
                                           !.seq = NewRow(c).seq]]
    BY <1>7 DEF Insert, TypeOK
  <2>5. h' \in [Clients -> Locals]  BY <2>2, <2>4, LocalsType DEF TypeOK
  <2> QED  BY <1>7, <2>3, <2>5 DEF Insert, Goto, TypeOK, Pcs, net
<1>8. ASSUME NEW c \in Clients, InsertUnconfirmed(c) PROVE TypeOK' /\ Bounded'
  <2>1. NewRow(c) \in Row
    BY DEF NewRow, Row, TypeOK, Locals
  <2>2. NewRow(c).seq \in Nat  BY <2>1 DEF Row
  <2>3. rows' \subseteq Row /\ lastId' \in Nat /\ top' \in Nat /\ Bounded'
    BY <1>8, <2>1, <2>2 DEF InsertUnconfirmed, AddRow, TypeOK, Bounded, Row
  <2> QED  BY <1>8, <2>3, SendToType, MessageType, FinishType
           DEF InsertUnconfirmed, TypeOK
<1>9. ASSUME NEW c \in Clients, InsertFails(c) PROVE TypeOK' /\ Bounded'
  BY <1>9, SendToType, MessageType, FinishType
  DEF InsertFails, TypeOK, Bounded, db
<1>10. ASSUME NEW c \in Clients, Compact(c) PROVE TypeOK' /\ Bounded'
  BY <1>10 DEF Compact, Goto, TypeOK, Bounded, Pcs, net
<1>11. ASSUME NEW c \in Clients, CompactFails(c) PROVE TypeOK' /\ Bounded'
  BY <1>11 DEF CompactFails, Goto, TypeOK, Bounded, Pcs, net, db
<1>12. ASSUME NEW c \in Clients, Ack(c) PROVE TypeOK' /\ Bounded'
  <2>1. Message("ack", h[c].id, h[c].seq) \in Msg
    BY DEF Message, Msg, TypeOK, Locals
  <2>2. h' = [h EXCEPT ![c] = [h[c] EXCEPT !.to = {u \in Users : role[u] # "none"}]]
    BY <1>12 DEF Ack
  <2>3. h' \in [Clients -> Locals]  BY <2>2, LocalsType DEF TypeOK
  <2> QED  BY <1>12, <2>1, <2>3, SendToType
           DEF Ack, Goto, TypeOK, Bounded, Pcs, db
<1>13. ASSUME NEW c \in Clients, AckNoMembers(c) PROVE TypeOK' /\ Bounded'
  <2>1. Message("ack", h[c].id, h[c].seq) \in Msg
    BY DEF Message, Msg, TypeOK, Locals
  <2> QED  BY <1>13, <2>1, SendToType
           DEF AckNoMembers, Goto, TypeOK, Bounded, Pcs, db
<1>14. ASSUME NEW c \in Clients, Relay(c) PROVE TypeOK' /\ Bounded'
  <2>1. Message("sync", h[c].id, h[c].seq) \in Msg
    BY DEF Message, Msg, TypeOK, Locals
  <2> QED  BY <1>14, <2>1, SendToType, FinishType DEF Relay, TypeOK, Bounded, db
<1>15. ASSUME NEW c \in Clients, Subscribe(c) PROVE TypeOK' /\ Bounded'
  <2>1. PICK s \in Presented(DeviceOf[c]) :
          /\ base' = [base EXCEPT ![c] = s]
          /\ asked' = [asked EXCEPT ![DeviceOf[c]] = {s}]
    BY <1>15 DEF Subscribe
  <2>2. s \in Nat  BY DEF Presented, TypeOK
  <2>3. base' \in [Clients -> Nat] /\ asked' \in [Devices -> SUBSET Nat]
    BY <2>1, <2>2 DEF TypeOK
  <2> QED  BY <1>15, <2>3 DEF Subscribe, Goto, TypeOK, Bounded, Pcs, db
<1>16. ASSUME NEW c \in Clients, SubscribeDenied(c) PROVE TypeOK' /\ Bounded'
  <2>1. PICK s \in Presented(DeviceOf[c]) :
          asked' = [asked EXCEPT ![DeviceOf[c]] = {s}]
    BY <1>16 DEF SubscribeDenied
  <2>2. asked' \in [Devices -> SUBSET Nat]  BY <2>1 DEF Presented, TypeOK
  <2> QED  BY <1>16, <2>2, SendToType, MessageType
           DEF SubscribeDenied, TypeOK, Bounded, db
<1>17. ASSUME NEW c \in Clients, HubSubscribe(c) PROVE TypeOK' /\ Bounded'
  BY <1>17 DEF HubSubscribe, Goto, TypeOK, Bounded, Pcs, db, net
<1>18. ASSUME NEW c \in Clients, Query(c) PROVE TypeOK' /\ Bounded'
  <2> DEFINE found == {r \in rows : r.seq > base[c]}
  <2>1. found \in SUBSET Row /\ MaxSeq(found) \in Nat
    BY MaxSeqIsMax DEF TypeOK, Bounded
  <2> HIDE DEF found
  <2>2. (IF found = {} THEN base[c] ELSE MaxSeq(found)) \in Nat
    BY <2>1 DEF TypeOK
  <2>3. h' \in [Clients -> Locals]
    <3>1. h' = [h EXCEPT ![c] = [h[c] EXCEPT !.todo = found,
                  !.upTo = IF found = {} THEN base[c] ELSE MaxSeq(found)]]
      BY <1>18 DEF Query, TypeOK, found
    <3> QED  BY <2>1, <2>2, <3>1, LocalsType DEF TypeOK
  <2> QED  BY <1>18, <2>3 DEF Query, Goto, TypeOK, Bounded, Pcs, db, net
<1>19. ASSUME NEW c \in Clients, QueryFails(c) PROVE TypeOK' /\ Bounded'
  BY <1>19, SendToType, MessageType, FinishType
  DEF QueryFails, TypeOK, Bounded, db
<1>20. ASSUME NEW c \in Clients, Replay(c) PROVE TypeOK' /\ Bounded'
  <2>1. PICK r \in h[c].todo :
          /\ SendTo({c}, Message("sync", r.id, r.seq))
          /\ h' = [h EXCEPT ![c].todo = @ \ {r}]
    BY <1>20 DEF Replay
  <2>2. Message("sync", r.id, r.seq) \in Msg
    BY DEF Message, Msg, TypeOK, Locals, Row
  <2>3. queue' \in [Clients -> Seq(Msg)]  BY <2>1, <2>2, SendToType
  <2>4. h' \in [Clients -> Locals]
    <3>1. h' = [h EXCEPT ![c] = [h[c] EXCEPT !.todo = h[c].todo \ {r}]]
      BY <2>1 DEF TypeOK
    <3>2. h[c] \in Locals /\ h[c].todo \ {r} \in SUBSET Row
      BY DEF TypeOK, Locals
    <3>3. [h[c] EXCEPT !.todo = h[c].todo \ {r}] \in Locals
      BY <3>2, LocalsType
    <3> QED  BY <3>1, <3>3 DEF TypeOK
  <2> QED  BY <1>20, <2>3, <2>4 DEF Replay, TypeOK, Bounded, db
<1>21. ASSUME NEW c \in Clients, CaughtUp(c) PROVE TypeOK' /\ Bounded'
  <2>1. Message("caught_up", 0, h[c].upTo) \in Msg
    BY DEF Message, Msg, TypeOK, Locals
  <2> QED  BY <1>21, <2>1, SendToType, FinishType
           DEF CaughtUp, TypeOK, Bounded, db
<1>22. ASSUME NEW c \in Clients, Unsubscribe(c) PROVE TypeOK' /\ Bounded'
  BY <1>22 DEF Unsubscribe, TypeOK, Bounded, db, net
<1>23. ASSUME NEW c \in Clients, Deliver(c) PROVE TypeOK' /\ Bounded'
  <2>1. queue[c] \in Seq(Msg) /\ queue[c] # <<>>
    BY <1>23 DEF Deliver, TypeOK
  <2>2. Head(queue[c]) \in Msg /\ Tail(queue[c]) \in Seq(Msg)  BY <2>1
  <2>3. lastSeq' \in [Devices -> Nat] /\ seen' \in [Devices -> SUBSET Nat]
    BY <1>23, <2>2 DEF Deliver, TypeOK, Msg
  <2> QED  BY <1>23, <2>2, <2>3 DEF Deliver, TypeOK, Bounded, db
<1>24. ASSUME NEW u \in Users, NEW r \in Roles, SetRole(u, r)
       PROVE  TypeOK' /\ Bounded'
  BY <1>24 DEF SetRole, TypeOK, Bounded, net
<1>25. ASSUME NEW u \in Users, Purge(u) PROVE TypeOK' /\ Bounded'
  BY <1>25 DEF Purge, TypeOK, Bounded, net, Roles
<1> QED
  BY <1>0, <1>1, <1>2, <1>3, <1>4, <1>5, <1>6, <1>7, <1>8, <1>9, <1>10,
     <1>11, <1>12, <1>13, <1>14, <1>15, <1>16, <1>17, <1>18, <1>19, <1>20,
     <1>21, <1>22, <1>23, <1>24, <1>25 DEF Next, Handler

LEMMA TypeInit == Init => TypeInv
  BY RelayAssumption
  DEF Init, TypeInv, TypeOK, Bounded, Roles, Pcs, Locals, NoLocals

(* Every reachable state is well typed, for every number of users, devices *)
(* and connections.                                                        *)
THEOREM TypeCorrect == Spec => []TypeOK
<1>1. TypeInv => TypeOK  BY DEF TypeInv
<1> QED  BY <1>1, TypeInit, TypeStep, PTL DEF Spec

-----------------------------------------------------------------------------
(* The strengthening of NoGap.                                             *)

(* An intact subscription is in the hub, alive, and its user a member.     *)
IntactInv ==
  \A c \in intact : c \in subs /\ c \in link /\ role[UserOf[c]] # "none"

RowIds == \A r \in rows : r.id <= lastId

(* A handler holds rows to replay only while it replays, and the id of a   *)
(* push it is still processing belongs to its own device.                  *)
HandlerInv ==
  \A c \in Clients :
    /\ pc[c] # "replay" => h[c].todo = {}
    /\ h[c].id <= lastId
    /\ pc[c] \in {"compact", "ack", "relay"} =>
         \A r \in rows : r.id = h[c].id => r.device = DeviceOf[c]

GapInv == TypeInv /\ IntactInv /\ RowIds /\ HandlerInv /\ NoGap

(* Reading the maximum changes nothing that the invariants read.           *)
LEMMA StoreReadKeeps ==
  ASSUME TypeOK, NEW c \in Clients, StoreRead(c)
  PROVE  /\ pc' = [pc EXCEPT ![c] = "insert"]
         /\ \A o \in Clients : h'[o].todo = h[o].todo /\ h'[o].id = h[o].id
                              /\ h'[o].to = h[o].to
         /\ UNCHANGED <<db, net, subs, base, intact>>
<1>1. h' = [h EXCEPT ![c] = [h[c] EXCEPT !.max = MaxSeq(rows)]]
  BY DEF StoreRead
<1>2. h'[c] = [h[c] EXCEPT !.max = MaxSeq(rows)]  BY <1>1 DEF TypeOK
<1>3. h[c] \in Locals  BY DEF TypeOK
<1>4. h'[c].todo = h[c].todo /\ h'[c].id = h[c].id /\ h'[c].to = h[c].to
  BY <1>2, <1>3 DEF Locals
<1>5. \A o \in Clients : o # c => h'[o] = h[o]  BY <1>1 DEF TypeOK
<1>6. pc' = [pc EXCEPT ![c] = "insert"] /\ UNCHANGED <<db, net, subs, base, intact>>
  BY DEF StoreRead, Goto
<1> QED  BY <1>4, <1>5, <1>6

(* The insert notes the id of the row and leaves the rest of the locals.   *)
LEMMA InsertKeeps ==
  ASSUME TypeOK, NEW c \in Clients, Insert(c)
  PROVE  /\ h'[c].id = lastId + 1 /\ h'[c].todo = h[c].todo /\ h'[c].to = h[c].to
         /\ pc' = [pc EXCEPT ![c] = "compact"]
         /\ \A o \in Clients : o # c => h'[o] = h[o]
<1> DEFINE new == NewRow(c)
<1>1. h' = [h EXCEPT ![c] = [[h[c] EXCEPT !.id = new.id] EXCEPT !.seq = new.seq]]
  BY DEF Insert
<1>2. new.id = lastId + 1  BY DEF NewRow
<1> HIDE DEF new
<1>3. h'[c] = [[h[c] EXCEPT !.id = new.id] EXCEPT !.seq = new.seq]
  BY <1>1 DEF TypeOK
<1>4. h[c] \in Locals  BY DEF TypeOK
<1>5. h'[c].id = new.id /\ h'[c].todo = h[c].todo /\ h'[c].to = h[c].to
  BY <1>3, <1>4 DEF Locals
<1>6. \A o \in Clients : o # c => h'[o] = h[o]  BY <1>1 DEF TypeOK
<1>7. pc' = [pc EXCEPT ![c] = "compact"]  BY DEF Insert, Goto
<1> QED  BY <1>2, <1>5, <1>6, <1>7

LEMMA StructureInit == Init => IntactInv /\ RowIds /\ HandlerInv /\ NoGap
  BY DEF Init, IntactInv, RowIds, HandlerInv, NoGap, NoLocals

LEMMA StructureStep ==
  ASSUME TypeInv, IntactInv, RowIds, HandlerInv, [Next]_vars
  PROVE  IntactInv' /\ RowIds' /\ HandlerInv'
<1> USE RelayAssumption DEF TypeInv, TypeOK
<1> DEFINE Goal == IntactInv' /\ RowIds' /\ HandlerInv'
<1>0. CASE UNCHANGED vars
  BY <1>0 DEF vars, IntactInv, RowIds, HandlerInv
<1>1. ASSUME NEW c \in Clients, Connect(c) PROVE Goal
  BY <1>1 DEF Connect, Goto, db, IntactInv, RowIds, HandlerInv
<1>2. ASSUME NEW c \in Clients, Drop(c) PROVE Goal
  BY <1>2 DEF Drop, db, IntactInv, RowIds, HandlerInv
<1>3. ASSUME NEW c \in Clients, Teardown(c) PROVE Goal
  BY <1>3 DEF Teardown, Goto, db, IntactInv, RowIds, HandlerInv
<1>4. ASSUME NEW c \in Clients, Push(c) PROVE Goal
  BY <1>4 DEF Push, Goto, db, IntactInv, RowIds, HandlerInv
<1>5. ASSUME NEW c \in Clients, PushDenied(c) PROVE Goal
  BY <1>5 DEF PushDenied, db, IntactInv, RowIds, HandlerInv
<1>6. ASSUME NEW c \in Clients, StoreRead(c) PROVE Goal
  <2>0. /\ pc' = [pc EXCEPT ![c] = "insert"]
         /\ \A o \in Clients : h'[o].todo = h[o].todo /\ h'[o].id = h[o].id
                              /\ h'[o].to = h[o].to
         /\ UNCHANGED <<db, net, subs, base, intact>>
    BY <1>6, StoreReadKeeps
  <2>1. pc[c] = "store"  BY <1>6 DEF StoreRead
  <2> QED  BY <2>0, <2>1 DEF db, net, IntactInv, RowIds, HandlerInv
<1>7. ASSUME NEW c \in Clients, Insert(c) PROVE Goal
  <2>0. /\ h'[c].id = lastId + 1 /\ h'[c].todo = h[c].todo
        /\ pc' = [pc EXCEPT ![c] = "compact"] /\ pc[c] = "insert"
        /\ \A o \in Clients : o # c => h'[o] = h[o]
    <3>1. pc[c] = "insert"  BY <1>7 DEF Insert
    <3> QED  BY <1>7, <3>1, InsertKeeps
  <2>1. NewRow(c).id = lastId + 1 /\ NewRow(c).device = DeviceOf[c]  BY DEF NewRow
  <2>2. rows' = rows \cup {NewRow(c)} /\ lastId' = lastId + 1
    BY <1>7 DEF Insert, AddRow
  <2>3. \A r \in rows : r.id # lastId + 1 /\ r.id \in Nat  BY DEF RowIds, Row
  <2>4. RowIds'  BY <2>1, <2>2, <2>3 DEF RowIds
  <2>5. IntactInv'  BY <1>7 DEF Insert, net, IntactInv
  <2>6. HandlerInv'
    <3> SUFFICES ASSUME NEW o \in Clients
                 PROVE  /\ pc'[o] # "replay" => h'[o].todo = {}
                        /\ h'[o].id <= lastId'
                        /\ pc'[o] \in {"compact", "ack", "relay"} =>
                             \A r \in rows' : r.id = h'[o].id => r.device = DeviceOf[o]
      BY DEF HandlerInv
    <3>1. CASE o # c
      <4>1. h'[o] = h[o] /\ pc'[o] = pc[o]  BY <2>0, <3>1
      <4>2. h[o].id \in Nat /\ h[o].id <= lastId  BY DEF HandlerInv, Locals
      <4> QED  BY <2>1, <2>2, <4>1, <4>2 DEF HandlerInv
    <3>2. CASE o = c
      <4>1. h'[c].id = lastId + 1 /\ h'[c].todo = h[c].todo /\ pc'[c] = "compact"
        BY <2>0
      <4>2. h[c].todo = {}  BY <2>0 DEF HandlerInv
      <4> QED  BY <2>1, <2>2, <2>3, <3>2, <4>1, <4>2
    <3> QED  BY <3>1, <3>2
  <2> QED  BY <2>4, <2>5, <2>6
<1>8. ASSUME NEW c \in Clients, InsertUnconfirmed(c) PROVE Goal
  <2>1. NewRow(c).id = lastId + 1 /\ NewRow(c).device = DeviceOf[c]  BY DEF NewRow
  <2>2. rows' = rows \cup {NewRow(c)} /\ lastId' = lastId + 1
    BY <1>8 DEF InsertUnconfirmed, AddRow
  <2>3. RowIds'  BY <2>1, <2>2 DEF RowIds, Row
  <2>4. IntactInv'  BY <1>8 DEF InsertUnconfirmed, IntactInv
  <2>5. ASSUME NEW o \in Clients
        PROVE  \/ h'[o] = NoLocals /\ pc'[o] = "read"
               \/ h'[o] = h[o] /\ pc'[o] = pc[o]
    <3>1. pc' = [pc EXCEPT ![c] = "read"] /\ h' = [h EXCEPT ![c] = NoLocals]
      BY <1>8 DEF InsertUnconfirmed, Finish
    <3>2. CASE o = c  BY <3>1, <3>2
    <3>3. CASE o # c
      <4>1. h'[o] = h[o] /\ pc'[o] = pc[o]  BY <3>1, <3>3
      <4> QED  BY <4>1
    <3> QED  BY <3>2, <3>3
  <2>6. HandlerInv'
    <3> SUFFICES ASSUME NEW o \in Clients
                 PROVE  /\ pc'[o] # "replay" => h'[o].todo = {}
                        /\ h'[o].id <= lastId'
                        /\ pc'[o] \in {"compact", "ack", "relay"} =>
                             \A r \in rows' : r.id = h'[o].id => r.device = DeviceOf[o]
      BY DEF HandlerInv
    <3>1. lastId' = lastId + 1 /\ lastId \in Nat  BY <2>2
    <3>2. CASE h'[o] = NoLocals /\ pc'[o] = "read"
      BY <3>1, <3>2 DEF NoLocals
    <3>3. CASE h'[o] = h[o] /\ pc'[o] = pc[o]
      <4>1. h[o].id \in Nat /\ h[o].id <= lastId  BY DEF HandlerInv, Locals
      <4>2. h[o].id # NewRow(c).id  BY <2>1, <3>1, <4>1
      <4>3. ASSUME pc[o] \in {"compact", "ack", "relay"},
                   NEW r \in rows', r.id = h[o].id
            PROVE  r.device = DeviceOf[o]
        <5>1. r \in rows  BY <2>2, <4>2, <4>3
        <5> QED  BY <4>3, <5>1 DEF HandlerInv
      <4>4. pc[o] # "replay" => h[o].todo = {}  BY DEF HandlerInv
      <4> QED  BY <3>1, <3>3, <4>1, <4>3, <4>4
    <3> QED  BY <2>5, <3>2, <3>3
  <2> QED  BY <2>3, <2>4, <2>6
<1>9. ASSUME NEW c \in Clients, InsertFails(c) PROVE Goal
  BY <1>9 DEF InsertFails, Finish, NoLocals, db, IntactInv, RowIds, HandlerInv
<1>10. ASSUME NEW c \in Clients, Compact(c) PROVE Goal
  BY <1>10 DEF Compact, Goto, net, IntactInv, RowIds, HandlerInv
<1>11. ASSUME NEW c \in Clients, CompactFails(c) PROVE Goal
  BY <1>11 DEF CompactFails, Goto, net, db, IntactInv, RowIds, HandlerInv
<1>12. ASSUME NEW c \in Clients, Ack(c) PROVE Goal
  <2>1. /\ UNCHANGED <<role, account, rows, lastId, subs, intact, link>>
        /\ pc[c] = "ack" /\ pc' = [pc EXCEPT ![c] = "relay"]
    BY <1>12 DEF Ack, Goto, db
  <2>2. \A o \in Clients : h'[o].todo = h[o].todo /\ h'[o].id = h[o].id
    <3>1. PICK to : h' = [h EXCEPT ![c].to = to]  BY <1>12 DEF Ack
    <3>2. h[c] \in Locals /\ h \in [Clients -> Locals]  OBVIOUS
    <3>3. h'[c].todo = h[c].todo /\ h'[c].id = h[c].id  BY <3>1, <3>2 DEF Locals
    <3>4. \A o \in Clients : o # c => h'[o] = h[o]  BY <3>1, <3>2
    <3> QED  BY <3>3, <3>4
  <2>3. IntactInv' /\ RowIds'  BY <2>1 DEF IntactInv, RowIds
  <2>4. HandlerInv'  BY <2>1, <2>2 DEF HandlerInv
  <2> QED  BY <2>3, <2>4
<1>13. ASSUME NEW c \in Clients, AckNoMembers(c) PROVE Goal
  BY <1>13 DEF AckNoMembers, Goto, db, IntactInv, RowIds, HandlerInv
<1>14. ASSUME NEW c \in Clients, Relay(c) PROVE Goal
  BY <1>14 DEF Relay, Finish, NoLocals, db, IntactInv, RowIds, HandlerInv
<1>15. ASSUME NEW c \in Clients, Subscribe(c) PROVE Goal
  BY <1>15 DEF Subscribe, Goto, db, net, IntactInv, RowIds, HandlerInv
<1>16. ASSUME NEW c \in Clients, SubscribeDenied(c) PROVE Goal
  BY <1>16 DEF SubscribeDenied, db, IntactInv, RowIds, HandlerInv
<1>17. ASSUME NEW c \in Clients, HubSubscribe(c) PROVE Goal
  BY <1>17 DEF HubSubscribe, Goto, db, net, IntactInv, RowIds, HandlerInv
<1>18. ASSUME NEW c \in Clients, Query(c) PROVE Goal
  <2> DEFINE found == {r \in rows : r.seq > base[c]}
             up == IF found = {} THEN base[c] ELSE MaxSeq(found)
  <2>1. h' = [h EXCEPT ![c] = [h[c] EXCEPT !.todo = found, !.upTo = up]]
    BY <1>18 DEF Query
  <2>2. /\ h'[c].id = h[c].id /\ h'[c].todo = found
        /\ \A d \in Clients \ {c} : h'[d] = h[d]
    BY <2>1 DEF Locals
  <2> HIDE DEF up
  <2>3. /\ UNCHANGED <<role, account, rows, lastId, top, link, subs, intact>>
        /\ pc' = [pc EXCEPT ![c] = "replay"]
    BY <1>18 DEF Query, Goto, db, net
  <2> QED  BY <2>2, <2>3 DEF IntactInv, RowIds, HandlerInv
<1>19. ASSUME NEW c \in Clients, QueryFails(c) PROVE Goal
  BY <1>19 DEF QueryFails, Finish, NoLocals, db, IntactInv, RowIds, HandlerInv
<1>20. ASSUME NEW c \in Clients, Replay(c) PROVE Goal
  BY <1>20 DEF Replay, db, IntactInv, RowIds, HandlerInv, Locals
<1>21. ASSUME NEW c \in Clients, CaughtUp(c) PROVE Goal
  BY <1>21 DEF CaughtUp, Finish, NoLocals, db, IntactInv, RowIds, HandlerInv
<1>22. ASSUME NEW c \in Clients, Unsubscribe(c) PROVE Goal
  BY <1>22 DEF Unsubscribe, db, net, IntactInv, RowIds, HandlerInv
<1>23. ASSUME NEW c \in Clients, Deliver(c) PROVE Goal
  BY <1>23 DEF Deliver, db, IntactInv, RowIds, HandlerInv
<1>24. ASSUME NEW u \in Users, NEW r \in Roles, SetRole(u, r) PROVE Goal
  BY <1>24 DEF SetRole, net, IntactInv, RowIds, HandlerInv
<1>25. ASSUME NEW u \in Users, Purge(u) PROVE Goal
  BY <1>25 DEF Purge, net, IntactInv, RowIds, HandlerInv
<1> QED
  BY <1>0, <1>1, <1>2, <1>3, <1>4, <1>5, <1>6, <1>7, <1>8, <1>9, <1>10,
     <1>11, <1>12, <1>13, <1>14, <1>15, <1>16, <1>17, <1>18, <1>19, <1>20,
     <1>21, <1>22, <1>23, <1>24, <1>25 DEF Next, Handler

-----------------------------------------------------------------------------
(* The steps of NoGap.                                                     *)

(* What is queued for a live connection stays queued until delivered.      *)
LEMMA SendKeepsQueued ==
  ASSUME TypeOK, NEW C, NEW m \in Msg, SendTo(C, m),
         NEW c \in Clients, NEW i, InQueue(c, i)
  PROVE  InQueue(c, i)'
<1>1. PICK k \in 1..Len(queue[c]) : queue[c][k].type = "sync" /\ queue[c][k].id = i
  BY DEF InQueue
<1>2. queue[c] \in Seq(Msg)  BY DEF TypeOK
<1>3. queue'[c] = queue[c] \/ queue'[c] = Append(queue[c], m)  BY DEF SendTo
<1>4. k \in 1..Len(queue'[c]) /\ queue'[c][k] = queue[c][k]  BY <1>1, <1>2, <1>3
<1> QED  BY <1>1, <1>4 DEF InQueue

LEMMA SendQueues ==
  ASSUME TypeOK, NEW C, NEW c \in Clients, c \in C, c \in link,
         NEW i \in Nat, NEW n \in Nat, SendTo(C, Message("sync", i, n))
  PROVE  InQueue(c, i)'
<1> DEFINE m == Message("sync", i, n)
<1>1. m \in Msg /\ m.type = "sync" /\ m.id = i  BY DEF Message, Msg
<1>2. queue[c] \in Seq(Msg)  BY DEF TypeOK
<1>3. queue'[c] = Append(queue[c], m)  BY DEF SendTo
<1> HIDE DEF m
<1>4. Len(queue'[c]) = Len(queue[c]) + 1 /\ Len(queue[c]) \in Nat
  BY <1>1, <1>2, <1>3
<1>5. queue'[c][Len(queue[c]) + 1] = m  BY <1>1, <1>2, <1>3
<1> QED  BY <1>1, <1>4, <1>5 DEF InQueue

LEMMA DeliverMoves ==
  ASSUME TypeOK, NEW a \in Clients, Deliver(a),
         NEW c \in Clients, NEW i, InQueue(c, i)
  PROVE  InQueue(c, i)' \/ i \in seen'[DeviceOf[c]]
<1>1. PICK k \in 1..Len(queue[c]) : queue[c][k].type = "sync" /\ queue[c][k].id = i
  BY DEF InQueue
<1>2. queue[c] \in Seq(Msg) /\ Len(queue[c]) \in Nat  BY DEF TypeOK
<1>3. CASE a # c
  <2>1. queue'[c] = queue[c]  BY <1>3 DEF Deliver, TypeOK
  <2> QED  BY <1>1, <2>1 DEF InQueue
<1>4. CASE a = c /\ k = 1
  <2>1. Head(queue[c]) = queue[c][1]  BY <1>1, <1>2
  <2>2. DeviceOf[c] \in Devices  BY RelayAssumption
  <2>3. seen' = [seen EXCEPT ![DeviceOf[c]] = @ \cup {i}]
    BY <1>1, <1>4, <2>1 DEF Deliver
  <2> QED  BY <2>2, <2>3 DEF TypeOK
<1>5. CASE a = c /\ k # 1
  <2>1. queue'[c] = Tail(queue[c])  BY <1>5 DEF Deliver, TypeOK
  <2>2. k - 1 \in 1..Len(Tail(queue[c])) /\ Tail(queue[c])[k - 1] = queue[c][k]
    BY <1>1, <1>2, <1>5
  <2> QED  BY <1>1, <2>1, <2>2 DEF InQueue
<1> QED  BY <1>3, <1>4, <1>5

(* A row stays covered when nothing that covers it is taken away.          *)
LEMMA KeepCovered ==
  ASSUME NEW c \in Clients, NEW r \in Row, Covered(c, r),
         base'[c] = base[c],
         r.id \in seen[DeviceOf[c]] => r.id \in seen'[DeviceOf[c]],
         InQueue(c, r.id) => InQueue(c, r.id)' \/ r.id \in seen'[DeviceOf[c]],
         pc[c] = "query" => pc'[c] = "query",
         h[c].todo \subseteq h'[c].todo,
         \A o \in Clients : WillRelay(o, c, r.id) => WillRelay(o, c, r.id)'
  PROVE  Covered(c, r)'
  BY DEF Covered

LEMMA NoGapStep ==
  ASSUME TypeInv, IntactInv, RowIds, HandlerInv, NoGap, [Next]_vars
  PROVE  NoGap'
<1> SUFFICES ASSUME NEW c \in Clients, c \in intact',
                    NEW r \in rows', r.device # DeviceOf[c]
             PROVE  Covered(c, r)'
  BY TypeStep DEF TypeInv, TypeOK, NoGap
<1> USE RelayAssumption DEF TypeInv, TypeOK
<1>r. r \in Row  BY TypeStep
<1>d. DeviceOf[c] \in Devices /\ UserOf[c] \in Users  OBVIOUS
<1> USE <1>r, <1>d
<1>0. CASE UNCHANGED vars
  BY <1>0 DEF vars, NoGap, Covered, WillRelay, InQueue
<1>1. ASSUME NEW a \in Clients, Connect(a) PROVE Covered(c, r)'
  <2>1. c \in intact /\ r \in rows /\ Covered(c, r)
    BY <1>1 DEF Connect, NoGap, db
  <2>2. c # a  BY <1>1, <2>1 DEF Connect, IntactInv
  <2>3. \A o \in Clients : WillRelay(o, c, r.id) => WillRelay(o, c, r.id)'
    BY <1>1 DEF Connect, WillRelay, Goto
  <2>4. InQueue(c, r.id) => InQueue(c, r.id)'
    BY <1>1, <2>2 DEF Connect, InQueue
  <2> QED  BY <1>1, <2>1, <2>2, <2>3, <2>4, KeepCovered DEF Connect, Goto
<1>2. ASSUME NEW a \in Clients, Drop(a) PROVE Covered(c, r)'
  <2>1. c \in intact /\ r \in rows /\ Covered(c, r) /\ c # a
    BY <1>2 DEF Drop, NoGap, db
  <2>2. \A o \in Clients : WillRelay(o, c, r.id) => WillRelay(o, c, r.id)'
    BY <1>2 DEF Drop, WillRelay
  <2>3. InQueue(c, r.id) => InQueue(c, r.id)'
    BY <1>2, <2>1 DEF Drop, InQueue
  <2> QED  BY <1>2, <2>1, <2>2, <2>3, KeepCovered DEF Drop
<1>3. ASSUME NEW a \in Clients, Teardown(a) PROVE Covered(c, r)'
  <2>1. c \in intact /\ r \in rows /\ Covered(c, r)
    BY <1>3 DEF Teardown, NoGap, db
  <2>2. \A o \in Clients : WillRelay(o, c, r.id) => WillRelay(o, c, r.id)'
    BY <1>3 DEF Teardown, WillRelay, Goto, db
  <2>3. InQueue(c, r.id) => InQueue(c, r.id)'
    BY <1>3 DEF Teardown, InQueue, Goto, db
  <2> QED  BY <1>3, <2>1, <2>2, <2>3, KeepCovered DEF Teardown, Goto, db
<1>4. ASSUME NEW a \in Clients, Push(a) PROVE Covered(c, r)'
  <2>1. c \in intact /\ r \in rows /\ Covered(c, r)
    BY <1>4 DEF Push, NoGap, db
  <2>2. \A o \in Clients : WillRelay(o, c, r.id) => WillRelay(o, c, r.id)'
    BY <1>4 DEF Push, WillRelay, Goto, db
  <2>3. InQueue(c, r.id) => InQueue(c, r.id)'
    BY <1>4 DEF Push, InQueue, Goto, db
  <2> QED  BY <1>4, <2>1, <2>2, <2>3, KeepCovered DEF Push, Goto, db
<1>5. ASSUME NEW a \in Clients, PushDenied(a) PROVE Covered(c, r)'
  <2>1. c \in intact /\ r \in rows /\ Covered(c, r)
    BY <1>5 DEF PushDenied, NoGap, db
  <2>2. \A o \in Clients : WillRelay(o, c, r.id) => WillRelay(o, c, r.id)'
    BY <1>5 DEF PushDenied, WillRelay
  <2>3. InQueue(c, r.id) => InQueue(c, r.id)'
    BY <1>5, MessageType, SendKeepsQueued DEF PushDenied
  <2> QED  BY <1>5, <2>1, <2>2, <2>3, KeepCovered DEF PushDenied, db
<1>6. ASSUME NEW a \in Clients, StoreRead(a) PROVE Covered(c, r)'
  <2>0. /\ pc' = [pc EXCEPT ![a] = "insert"]
         /\ \A o \in Clients : h'[o].todo = h[o].todo /\ h'[o].id = h[o].id
                              /\ h'[o].to = h[o].to
         /\ UNCHANGED <<db, net, subs, base, intact>>
    BY <1>6, StoreReadKeeps
  <2>1. c \in intact /\ r \in rows /\ Covered(c, r)
    BY <2>0 DEF NoGap, db
  <2>2. \A o \in Clients : WillRelay(o, c, r.id) => WillRelay(o, c, r.id)'
    <3>1. pc[a] = "store"  BY <1>6 DEF StoreRead
    <3> QED  BY <2>0, <3>1 DEF WillRelay
  <2>3. InQueue(c, r.id) => InQueue(c, r.id)'
    BY <2>0 DEF InQueue, net
  <2>4. h[c].todo \subseteq h'[c].todo /\ (pc[c] = "query" => pc'[c] = "query")
    <3>1. pc[a] = "store"  BY <1>6 DEF StoreRead
    <3> QED  BY <2>0, <3>1
  <2> QED  BY <2>0, <2>1, <2>2, <2>3, <2>4, KeepCovered DEF net
<1>7. ASSUME NEW a \in Clients, Insert(a) PROVE Covered(c, r)'
  <2>0. /\ h'[a].id = lastId + 1 /\ h'[a].todo = h[a].todo
        /\ pc' = [pc EXCEPT ![a] = "compact"] /\ pc[a] = "insert"
        /\ \A o \in Clients : o # a => h'[o] = h[o]
    <3>1. pc[a] = "insert"  BY <1>7 DEF Insert
    <3> QED  BY <1>7, <3>1, InsertKeeps
  <2>1. NewRow(a).id = lastId + 1 /\ rows' = rows \cup {NewRow(a)}
    BY <1>7 DEF Insert, AddRow, NewRow
  <2>2. h'[a].id = lastId + 1 /\ pc'[a] = "compact"
    BY <2>0
  <2>3. CASE r = NewRow(a)
    BY <2>1, <2>2, <2>3 DEF Covered, WillRelay
  <2>4. CASE r # NewRow(a)
    <3>1. c \in intact /\ r \in rows /\ Covered(c, r)
      BY <1>7, <2>1, <2>4 DEF Insert, NoGap
    <3>2. \A o \in Clients : WillRelay(o, c, r.id) => WillRelay(o, c, r.id)'
      BY <2>0 DEF WillRelay
    <3>3. InQueue(c, r.id) => InQueue(c, r.id)'
      BY <1>7 DEF Insert, InQueue, net
    <3>4. h[c].todo \subseteq h'[c].todo /\ (pc[c] = "query" => pc'[c] = "query")
      BY <2>0
    <3> QED  BY <1>7, <3>1, <3>2, <3>3, <3>4, KeepCovered DEF Insert, net
  <2> QED  BY <2>3, <2>4
<1>8. ASSUME NEW a \in Clients, InsertUnconfirmed(a) PROVE Covered(c, r)'
  BY <1>8 DEF InsertUnconfirmed
<1>9. ASSUME NEW a \in Clients, InsertFails(a) PROVE Covered(c, r)'
  <2>1. c \in intact /\ r \in rows /\ Covered(c, r)
    BY <1>9 DEF InsertFails, NoGap, db
  <2>2. \A o \in Clients : WillRelay(o, c, r.id) => WillRelay(o, c, r.id)'
    BY <1>9 DEF InsertFails, WillRelay, Finish
  <2>3. InQueue(c, r.id) => InQueue(c, r.id)'
    BY <1>9, MessageType, SendKeepsQueued DEF InsertFails
  <2>4. h[c].todo \subseteq h'[c].todo /\ (pc[c] = "query" => pc'[c] = "query")
    BY <1>9 DEF InsertFails, Finish, HandlerInv
  <2> QED  BY <1>9, <2>1, <2>2, <2>3, <2>4, KeepCovered DEF InsertFails, db
<1>10. ASSUME NEW a \in Clients, Compact(a) PROVE Covered(c, r)'
  <2>1. c \in intact /\ r \in rows /\ Covered(c, r)
    BY <1>10 DEF Compact, NoGap, db
  <2>2. \A o \in Clients : WillRelay(o, c, r.id) => WillRelay(o, c, r.id)'
    BY <1>10 DEF Compact, WillRelay, Goto, net
  <2>3. InQueue(c, r.id) => InQueue(c, r.id)'
    BY <1>10 DEF Compact, InQueue, Goto, net
  <2> QED  BY <1>10, <2>1, <2>2, <2>3, KeepCovered DEF Compact, Goto, net
<1>11. ASSUME NEW a \in Clients, CompactFails(a) PROVE Covered(c, r)'
  <2>1. c \in intact /\ r \in rows /\ Covered(c, r)
    BY <1>11 DEF CompactFails, NoGap, db
  <2>2. \A o \in Clients : WillRelay(o, c, r.id) => WillRelay(o, c, r.id)'
    BY <1>11 DEF CompactFails, WillRelay, Goto, db, net
  <2>3. InQueue(c, r.id) => InQueue(c, r.id)'
    BY <1>11 DEF CompactFails, InQueue, Goto, db, net
  <2> QED  BY <1>11, <2>1, <2>2, <2>3, KeepCovered DEF CompactFails, Goto, db, net
<1>12. ASSUME NEW a \in Clients, Ack(a) PROVE Covered(c, r)'
  <2>1. c \in intact /\ r \in rows /\ Covered(c, r)
    BY <1>12 DEF Ack, NoGap, db
  <2>2. role[UserOf[c]] # "none"  BY <2>1 DEF IntactInv
  <2>3. h' = [h EXCEPT ![a] = [h[a] EXCEPT !.to = {u \in Users : role[u] # "none"}]]
    BY <1>12 DEF Ack
  <2>4. /\ h'[a].id = h[a].id /\ UserOf[c] \in h'[a].to
        /\ \A o \in Clients : h'[o].todo = h[o].todo /\ h'[o].id = h[o].id
        /\ \A o \in Clients : o # a => h'[o] = h[o]
    <3> DEFINE members == {u \in Users : role[u] # "none"}
    <3>1. h'[a] = [h[a] EXCEPT !.to = members]  BY <2>3
    <3>2. UserOf[c] \in members  BY <2>2
    <3> HIDE DEF members
    <3>3. h'[a].id = h[a].id /\ h'[a].todo = h[a].todo /\ h'[a].to = members
      BY <3>1 DEF Locals
    <3>4. \A o \in Clients : o # a => h'[o] = h[o]  BY <2>3
    <3> QED  BY <3>2, <3>3, <3>4
  <2>5. \A o \in Clients : WillRelay(o, c, r.id) => WillRelay(o, c, r.id)'
    BY <1>12, <2>4 DEF Ack, WillRelay, Goto
  <2>6. Message("ack", h[a].id, h[a].seq) \in Msg  BY DEF Message, Msg, Locals
  <2>7. InQueue(c, r.id) => InQueue(c, r.id)'
    BY <1>12, <2>6, SendKeepsQueued DEF Ack
  <2>8. pc[c] = "query" => pc'[c] = "query"  BY <1>12 DEF Ack, Goto
  <2> QED  BY <1>12, <2>1, <2>4, <2>5, <2>7, <2>8, KeepCovered DEF Ack
<1>13. ASSUME NEW a \in Clients, AckNoMembers(a) PROVE Covered(c, r)'
  BY <1>13 DEF AckNoMembers
<1>14. ASSUME NEW a \in Clients, Relay(a) PROVE Covered(c, r)'
  <2>1. c \in intact /\ r \in rows /\ Covered(c, r)
    BY <1>14 DEF Relay, NoGap, db
  <2>2. Message("sync", h[a].id, h[a].seq) \in Msg  BY DEF Message, Msg, Locals
  <2>3. InQueue(c, r.id) => InQueue(c, r.id)'
    BY <1>14, <2>2, SendKeepsQueued DEF Relay
  <2>4. h[c].todo \subseteq h'[c].todo /\ (pc[c] = "query" => pc'[c] = "query")
    BY <1>14 DEF Relay, Finish, HandlerInv
  <2>5. CASE WillRelay(a, c, r.id)
    <3>1. c \in subs /\ c \in link  BY <2>1 DEF IntactInv
    <3>2. h[a].id = r.id /\ UserOf[c] \in h[a].to
      BY <1>14, <2>5 DEF Relay, WillRelay
    <3>3. DeviceOf[c] # DeviceOf[a]  BY <1>14, <2>1, <3>2 DEF Relay, HandlerInv
    <3>4. PICK n \in Nat : n = h[a].seq  BY DEF Locals
    <3>5. SendTo({o \in subs : /\ UserOf[o] \in h[a].to
                              /\ DeviceOf[o] # DeviceOf[a]},
                 Message("sync", r.id, n))
      BY <1>14, <3>2, <3>4 DEF Relay
    <3>6. r.id \in Nat  BY DEF Row
    <3>7. InQueue(c, r.id)'
      BY <3>1, <3>2, <3>3, <3>5, <3>6, SendQueues
    <3> QED  BY <3>7 DEF Covered
  <2>6. CASE ~WillRelay(a, c, r.id)
    <3>1. \A o \in Clients : WillRelay(o, c, r.id) => WillRelay(o, c, r.id)'
      BY <1>14, <2>6 DEF Relay, WillRelay, Finish
    <3> QED  BY <1>14, <2>1, <2>3, <2>4, <3>1, KeepCovered DEF Relay
  <2> QED  BY <2>5, <2>6
<1>15. ASSUME NEW a \in Clients, Subscribe(a) PROVE Covered(c, r)'
  <2>1. c \in intact /\ r \in rows /\ Covered(c, r) /\ c # a
    BY <1>15 DEF Subscribe, NoGap, db
  <2>2. \A o \in Clients : WillRelay(o, c, r.id) => WillRelay(o, c, r.id)'
    BY <1>15 DEF Subscribe, WillRelay, Goto
  <2>3. InQueue(c, r.id) => InQueue(c, r.id)'
    BY <1>15 DEF Subscribe, InQueue, net
  <2> QED  BY <1>15, <2>1, <2>2, <2>3, KeepCovered DEF Subscribe, Goto, net
<1>16. ASSUME NEW a \in Clients, SubscribeDenied(a) PROVE Covered(c, r)'
  <2>1. c \in intact /\ r \in rows /\ Covered(c, r)
    BY <1>16 DEF SubscribeDenied, NoGap, db
  <2>2. \A o \in Clients : WillRelay(o, c, r.id) => WillRelay(o, c, r.id)'
    BY <1>16 DEF SubscribeDenied, WillRelay
  <2>3. InQueue(c, r.id) => InQueue(c, r.id)'
    BY <1>16, MessageType, SendKeepsQueued DEF SubscribeDenied
  <2> QED  BY <1>16, <2>1, <2>2, <2>3, KeepCovered DEF SubscribeDenied, db
<1>17. ASSUME NEW a \in Clients, HubSubscribe(a) PROVE Covered(c, r)'
  <2>1. CASE c = a
    BY <1>17, <2>1 DEF HubSubscribe, Goto, Covered
  <2>2. CASE c # a
    <3>1. c \in intact /\ r \in rows /\ Covered(c, r)
      BY <1>17, <2>2 DEF HubSubscribe, NoGap, db
    <3>2. \A o \in Clients : WillRelay(o, c, r.id) => WillRelay(o, c, r.id)'
      BY <1>17 DEF HubSubscribe, WillRelay, Goto
    <3>3. InQueue(c, r.id) => InQueue(c, r.id)'
      BY <1>17 DEF HubSubscribe, InQueue, net
    <3> QED  BY <1>17, <2>2, <3>1, <3>2, <3>3, KeepCovered
             DEF HubSubscribe, Goto, net
  <2> QED  BY <2>1, <2>2
<1>18. ASSUME NEW a \in Clients, Query(a) PROVE Covered(c, r)'
  <2>1. c \in intact /\ r \in rows /\ Covered(c, r)
    BY <1>18 DEF Query, NoGap, db
  <2>2. /\ h'[a].todo = {q \in rows : q.seq > base[a]}
        /\ \A o \in Clients : o # a => h'[o] = h[o] /\ pc'[o] = pc[o]
        /\ h'[a].id = h[a].id /\ base' = base
    BY <1>18 DEF Query, Goto, Locals
  <2>3. CASE c = a
    <3>1. r.seq \in Nat /\ base[c] \in Nat  BY DEF Row
    <3>2. r.seq <= base[c] \/ r.seq > base[c]  BY <3>1
    <3> QED  BY <2>1, <2>2, <2>3, <3>2 DEF Covered
  <2>4. CASE c # a
    <3>1. \A o \in Clients : WillRelay(o, c, r.id) => WillRelay(o, c, r.id)'
      BY <1>18, <2>2 DEF Query, WillRelay, Goto
    <3>2. InQueue(c, r.id) => InQueue(c, r.id)'
      BY <1>18 DEF Query, InQueue, net
    <3> QED  BY <1>18, <2>1, <2>2, <2>4, <3>1, <3>2, KeepCovered DEF Query, net
  <2> QED  BY <2>3, <2>4
<1>19. ASSUME NEW a \in Clients, QueryFails(a) PROVE Covered(c, r)'
  <2>1. c \in intact /\ r \in rows /\ Covered(c, r) /\ c # a
    BY <1>19 DEF QueryFails, NoGap, db
  <2>2. \A o \in Clients : WillRelay(o, c, r.id) => WillRelay(o, c, r.id)'
    BY <1>19 DEF QueryFails, WillRelay, Finish
  <2>3. InQueue(c, r.id) => InQueue(c, r.id)'
    BY <1>19, MessageType, SendKeepsQueued DEF QueryFails
  <2> QED  BY <1>19, <2>1, <2>2, <2>3, KeepCovered DEF QueryFails, Finish
<1>20. ASSUME NEW a \in Clients, Replay(a) PROVE Covered(c, r)'
  <2>1. c \in intact /\ r \in rows /\ Covered(c, r)
    BY <1>20 DEF Replay, NoGap, db
  <2>2. PICK q \in h[a].todo :
          /\ SendTo({a}, Message("sync", q.id, q.seq))
          /\ h' = [h EXCEPT ![a].todo = @ \ {q}]
    BY <1>20 DEF Replay
  <2>3. q.id \in Nat /\ q.seq \in Nat /\ Message("sync", q.id, q.seq) \in Msg
    <3>1. h[a] \in Locals  OBVIOUS
    <3>2. q \in Row  BY <3>1 DEF Locals
    <3>3. q.id \in Nat /\ q.seq \in Nat  BY <3>2 DEF Row
    <3> QED  BY <3>3 DEF Message, Msg
  <2>4. InQueue(c, r.id) => InQueue(c, r.id)'
    BY <2>2, <2>3, SendKeepsQueued
  <2>5. /\ h'[a].todo = h[a].todo \ {q} /\ pc' = pc
        /\ \A o \in Clients : /\ o # a => h'[o] = h[o]
                              /\ h'[o].id = h[o].id /\ h'[o].to = h[o].to
    <3>1. h' = [h EXCEPT ![a] = [h[a] EXCEPT !.todo = h[a].todo \ {q}]]
      BY <2>2
    <3>2. h'[a] = [h[a] EXCEPT !.todo = h[a].todo \ {q}]  BY <3>1
    <3>3. h'[a].todo = h[a].todo \ {q} /\ h'[a].id = h[a].id /\ h'[a].to = h[a].to
      BY <3>2 DEF Locals
    <3>4. pc' = pc  BY <1>20 DEF Replay
    <3>5. \A o \in Clients : o # a => h'[o] = h[o]  BY <3>1
    <3>6. \A o \in Clients : h'[o].id = h[o].id /\ h'[o].to = h[o].to
      BY <3>3, <3>5
    <3> QED  BY <3>3, <3>4, <3>5, <3>6
  <2>6. CASE c = a /\ r = q
    <3>1. c \in link  BY <2>1 DEF IntactInv
    <3>2. InQueue(c, q.id)'  BY <2>2, <2>3, <2>6, <3>1, SendQueues
    <3> QED  BY <2>6, <3>2 DEF Covered
  <2>7. CASE ~(c = a /\ r = q)
    <3>1. \A o \in Clients : WillRelay(o, c, r.id) => WillRelay(o, c, r.id)'
      BY <2>5 DEF WillRelay
    <3>2. r \in h[c].todo => r \in h'[c].todo  BY <2>5, <2>7
    <3> QED  BY <1>20, <2>1, <2>4, <2>5, <3>1, <3>2 DEF Covered, Replay
  <2> QED  BY <2>6, <2>7
<1>21. ASSUME NEW a \in Clients, CaughtUp(a) PROVE Covered(c, r)'
  <2>1. c \in intact /\ r \in rows /\ Covered(c, r)
    BY <1>21 DEF CaughtUp, NoGap, db
  <2>2. \A o \in Clients : WillRelay(o, c, r.id) => WillRelay(o, c, r.id)'
    BY <1>21 DEF CaughtUp, WillRelay, Finish
  <2>3. Message("caught_up", 0, h[a].upTo) \in Msg  BY DEF Message, Msg, Locals
  <2>4. InQueue(c, r.id) => InQueue(c, r.id)'
    BY <1>21, <2>3, SendKeepsQueued DEF CaughtUp
  <2>5. h[c].todo \subseteq h'[c].todo /\ (pc[c] = "query" => pc'[c] = "query")
    BY <1>21 DEF CaughtUp, Finish
  <2> QED  BY <1>21, <2>1, <2>2, <2>4, <2>5, KeepCovered DEF CaughtUp
<1>22. ASSUME NEW a \in Clients, Unsubscribe(a) PROVE Covered(c, r)'
  <2>1. c \in intact /\ r \in rows /\ Covered(c, r)
    BY <1>22 DEF Unsubscribe, NoGap, db
  <2>2. \A o \in Clients : WillRelay(o, c, r.id) => WillRelay(o, c, r.id)'
    BY <1>22 DEF Unsubscribe, WillRelay, db, net
  <2>3. InQueue(c, r.id) => InQueue(c, r.id)'
    BY <1>22 DEF Unsubscribe, InQueue, db, net
  <2> QED  BY <1>22, <2>1, <2>2, <2>3, KeepCovered DEF Unsubscribe, db, net
<1>23. ASSUME NEW a \in Clients, Deliver(a) PROVE Covered(c, r)'
  <2>1. c \in intact /\ r \in rows /\ Covered(c, r)
    BY <1>23 DEF Deliver, NoGap, db
  <2>2. \A o \in Clients : WillRelay(o, c, r.id) => WillRelay(o, c, r.id)'
    BY <1>23 DEF Deliver, WillRelay
  <2>3. InQueue(c, r.id) => InQueue(c, r.id)' \/ r.id \in seen'[DeviceOf[c]]
    BY <1>23, DeliverMoves
  <2>4. seen[DeviceOf[c]] \subseteq seen'[DeviceOf[c]]  BY <1>23 DEF Deliver
  <2> QED  BY <1>23, <2>1, <2>2, <2>3, <2>4, KeepCovered DEF Deliver
<1>24. ASSUME NEW u \in Users, NEW s \in Roles, SetRole(u, s) PROVE Covered(c, r)'
  <2>1. c \in intact /\ r \in rows /\ Covered(c, r)
    BY <1>24 DEF SetRole, NoGap
  <2>2. \A o \in Clients : WillRelay(o, c, r.id) => WillRelay(o, c, r.id)'
    BY <1>24 DEF SetRole, WillRelay
  <2>3. InQueue(c, r.id) => InQueue(c, r.id)'  BY <1>24 DEF SetRole, InQueue, net
  <2> QED  BY <1>24, <2>1, <2>2, <2>3, KeepCovered DEF SetRole, net
<1>25. ASSUME NEW u \in Users, Purge(u) PROVE Covered(c, r)'
  <2>1. c \in intact /\ r \in rows /\ Covered(c, r)
    BY <1>25 DEF Purge, NoGap
  <2>2. \A o \in Clients : WillRelay(o, c, r.id) => WillRelay(o, c, r.id)'
    BY <1>25 DEF Purge, WillRelay
  <2>3. InQueue(c, r.id) => InQueue(c, r.id)'  BY <1>25 DEF Purge, InQueue, net
  <2> QED  BY <1>25, <2>1, <2>2, <2>3, KeepCovered DEF Purge, net
<1> QED
  BY <1>0, <1>1, <1>2, <1>3, <1>4, <1>5, <1>6, <1>7, <1>8, <1>9, <1>10,
     <1>11, <1>12, <1>13, <1>14, <1>15, <1>16, <1>17, <1>18, <1>19, <1>20,
     <1>21, <1>22, <1>23, <1>24, <1>25 DEF Next, Handler

(* An open subscription has no gap, for every number of users, devices,    *)
(* connections and pushes, with failing statements and purged accounts.    *)
THEOREM SubscriptionsHaveNoGap == Spec => []NoGap
<1>1. Init => GapInv  BY TypeInit, StructureInit DEF GapInv
<1>2. GapInv /\ [Next]_vars => GapInv'
  BY TypeStep, StructureStep, NoGapStep DEF GapInv
<1>3. GapInv => NoGap  BY DEF GapInv
<1> QED  BY <1>1, <1>2, <1>3, PTL DEF Spec

-----------------------------------------------------------------------------
(* Without purged accounts: the newest snapshot stays, and no browser is   *)
(* ahead of the server.                                                    *)

(* Nothing in flight carries a number that has not been assigned.          *)
Assigned ==
  /\ \A c \in Clients :
       /\ h[c].max <= top /\ h[c].seq <= top /\ h[c].upTo <= top
       /\ base[c] <= top
       /\ \A r \in h[c].todo : r.seq <= top
       /\ \A k \in 1..Len(queue[c]) : queue[c][k].seq <= top
  /\ \A d \in Devices : lastSeq[d] <= top /\ \A n \in asked[d] : n <= top

SeqInv == TypeInv /\ LatestKept /\ Assigned

QueuesAssigned ==
  \A c \in Clients : \A k \in 1..Len(queue[c]) : queue[c][k].seq <= top

LEMMA QueuedSeq ==
  ASSUME NEW q \in Seq(Msg), NEW k \in 1..Len(q)
  PROVE  q[k].seq \in Nat
<1>1. q[k] \in Msg  OBVIOUS
<1> QED  BY <1>1 DEF Msg

LEMMA SendAssigned ==
  ASSUME TypeOK, QueuesAssigned, NEW C, NEW m \in Msg, SendTo(C, m),
         m.seq <= top, top' \in Nat, top <= top'
  PROVE  QueuesAssigned'
<1> SUFFICES ASSUME NEW c \in Clients, NEW k \in 1..Len(queue'[c])
             PROVE  queue'[c][k].seq <= top'
  BY DEF QueuesAssigned
<1>1. queue[c] \in Seq(Msg)  BY DEF TypeOK
<1>2. \A j \in 1..Len(queue[c]) : queue[c][j].seq \in Nat /\ queue[c][j].seq <= top
  BY <1>1, QueuedSeq DEF QueuesAssigned
<1>3. m.seq \in Nat /\ top \in Nat  BY DEF Msg, TypeOK
<1>4. CASE queue'[c] = queue[c]  BY <1>2, <1>3, <1>4
<1>5. CASE queue'[c] = Append(queue[c], m)
  <2>1. queue'[c][k] = m \/ (k \in 1..Len(queue[c]) /\ queue'[c][k] = queue[c][k])
    BY <1>1, <1>5
  <2> QED  BY <1>2, <1>3, <2>1
<1> QED  BY <1>4, <1>5 DEF SendTo

LEMMA SeqInit == Init => LatestKept /\ Assigned
  BY DEF Init, LatestKept, Assigned, NoLocals

LEMMA TopIsMax ==
  ASSUME TypeInv, LatestKept PROVE MaxSeq(rows) = top
<1>1. /\ MaxSeq(rows) \in Nat /\ MaxSeq(rows) <= top /\ top \in Nat
      /\ \A r \in rows : r.seq <= MaxSeq(rows)
  BY MaxSeqIsMax DEF TypeInv, TypeOK, Bounded
<1> QED  BY <1>1 DEF LatestKept

(* The step: what each action does to the numbers, in terms of the         *)
(* abstract document.                                                      *)
LEMMA SeqStep ==
  ASSUME SeqInv, [Next]_vars, \A u \in Users : ~Purge(u)
  PROVE  LatestKept' /\ Assigned'
<1> USE RelayAssumption DEF SeqInv, TypeInv, TypeOK
<1> DEFINE Goal == LatestKept' /\ Assigned'
<1>q. QueuesAssigned  BY DEF Assigned, QueuesAssigned
<1>n. \A c \in Clients : h[c] \in Locals /\ NoLocals \in Locals
  BY DEF NoLocals, Locals
<1>0. CASE UNCHANGED vars  BY <1>0 DEF vars, LatestKept, Assigned
<1>1. ASSUME NEW a \in Clients, Connect(a) PROVE Goal
  <2>1. \A d \in Devices : \A n \in asked'[d] : n <= top
    BY <1>1 DEF Connect, Assigned
  <2>2. UNCHANGED <<rows, top, h, base, lastSeq>>  BY <1>1 DEF Connect, db
  <2>3. \A c \in Clients : queue'[c] = queue[c] \/ queue'[c] = <<>>
    BY <1>1 DEF Connect
  <2>4. QueuesAssigned'  BY <1>q, <2>2, <2>3 DEF QueuesAssigned
  <2> QED  BY <2>1, <2>2, <2>4 DEF LatestKept, Assigned, QueuesAssigned
<1>2. ASSUME NEW a \in Clients, Drop(a) PROVE Goal
  BY <1>2 DEF Drop, db, LatestKept, Assigned
<1>3. ASSUME NEW a \in Clients, Teardown(a) PROVE Goal
  BY <1>3 DEF Teardown, db, LatestKept, Assigned
<1>4. ASSUME NEW a \in Clients, Push(a) PROVE Goal
  BY <1>4 DEF Push, db, LatestKept, Assigned
<1>5. ASSUME NEW a \in Clients, PushDenied(a) PROVE Goal
  <2>1. Message("push_error", 0, 0) \in Msg /\ (Message("push_error", 0, 0)).seq <= top
    BY DEF Message, Msg, Locals, Assigned
  <2>2. QueuesAssigned'  BY <1>5, <1>q, <2>1, SendAssigned DEF PushDenied, db
  <2> QED  BY <1>5, <2>2 DEF PushDenied, db, LatestKept, Assigned, QueuesAssigned
<1>6. ASSUME NEW a \in Clients, StoreRead(a) PROVE Goal
  <2>1. MaxSeq(rows) = top  BY TopIsMax
  <2>2. h' = [h EXCEPT ![a] = [h[a] EXCEPT !.max = top]]
    BY <1>6, <2>1 DEF StoreRead
  <2>3. \A c \in Clients : h'[c].seq = h[c].seq /\ h'[c].upTo = h[c].upTo
                            /\ h'[c].todo = h[c].todo /\ h'[c].max \in {h[c].max, top}
    BY <1>n, <2>2 DEF Locals
  <2>4. UNCHANGED <<rows, top, base, queue, lastSeq, asked>>
    BY <1>6 DEF StoreRead, db, net
  <2>5. \A c \in Clients : h'[c].max <= top'
    <3>1. top \in Nat /\ top <= top  OBVIOUS
    <3>2. \A c \in Clients : h[c].max <= top  BY DEF Assigned
    <3> QED  BY <2>3, <2>4, <3>1, <3>2
  <2> QED  BY <2>3, <2>4, <2>5 DEF LatestKept, Assigned
<1>7. ASSUME NEW a \in Clients, Insert(a) PROVE Goal
  <2>1. NewRow(a).seq = h[a].max + 1 /\ h[a].max \in Nat /\ h[a].max <= top
    BY <1>n DEF NewRow, Locals, Assigned
  <2>2. /\ rows' = rows \cup {NewRow(a)}
        /\ top' = IF NewRow(a).seq > top THEN NewRow(a).seq ELSE top
    BY <1>7 DEF Insert, AddRow
  <2>3. top' \in Nat /\ top <= top' /\ NewRow(a).seq <= top'  BY <2>1, <2>2
  <2>4. LatestKept'  BY <2>1, <2>2 DEF LatestKept
  <2>5. h' = [h EXCEPT ![a] = [h[a] EXCEPT !.id = NewRow(a).id, !.seq = NewRow(a).seq]]
    BY <1>7 DEF Insert
  <2>6. \A c \in Clients : /\ h'[c].max = h[c].max /\ h'[c].upTo = h[c].upTo
                            /\ h'[c].todo = h[c].todo
                            /\ h'[c].seq \in {h[c].seq, NewRow(a).seq}
    BY <1>n, <2>5 DEF Locals
  <2>7. UNCHANGED <<base, queue, lastSeq, asked>>  BY <1>7 DEF Insert, net
  <2>8. \A x \in Nat : x <= top => x <= top'  BY <2>3
  <2>9. Assigned'
    <3>1. ASSUME NEW c \in Clients
          PROVE  /\ h'[c].max <= top' /\ h'[c].seq <= top' /\ h'[c].upTo <= top'
                 /\ base'[c] <= top'
                 /\ \A r \in h'[c].todo : r.seq <= top'
                 /\ \A k \in 1..Len(queue'[c]) : queue'[c][k].seq <= top'
      <4>1. h[c].max \in Nat /\ h[c].seq \in Nat /\ h[c].upTo \in Nat /\ base[c] \in Nat
        BY <1>n DEF Locals
      <4>2. \A r \in h[c].todo : r.seq \in Nat  BY <1>n DEF Locals, Row
      <4>3. \A k \in 1..Len(queue[c]) : queue[c][k].seq \in Nat
        BY QueuedSeq
      <4> QED  BY <2>3, <2>6, <2>7, <2>8, <4>1, <4>2, <4>3 DEF Assigned
    <3>2. \A d \in Devices : /\ lastSeq'[d] <= top'
                           /\ \A n \in asked'[d] : n <= top'
      BY <2>7, <2>8 DEF Assigned
    <3> QED  BY <3>1, <3>2 DEF Assigned
  <2> QED  BY <2>4, <2>9
<1>8. ASSUME NEW a \in Clients, InsertUnconfirmed(a) PROVE Goal
  <2>1. NewRow(a).seq = h[a].max + 1 /\ h[a].max \in Nat /\ h[a].max <= top
    BY <1>n DEF NewRow, Locals, Assigned
  <2>2. /\ rows' = rows \cup {NewRow(a)}
        /\ top' = IF NewRow(a).seq > top THEN NewRow(a).seq ELSE top
    BY <1>8 DEF InsertUnconfirmed, AddRow
  <2>3. top' \in Nat /\ top <= top' /\ NewRow(a).seq <= top'  BY <2>1, <2>2
  <2>4. LatestKept'  BY <2>1, <2>2 DEF LatestKept
  <2>5. Message("push_error", 0, 0) \in Msg /\ Message("push_error", 0, 0).seq <= top
    BY DEF Message, Msg
  <2>6. QueuesAssigned'  BY <1>8, <1>q, <2>3, <2>5, SendAssigned DEF InsertUnconfirmed
  <2>7. h' = [h EXCEPT ![a] = NoLocals] /\ UNCHANGED <<base, lastSeq, asked>>
    BY <1>8 DEF InsertUnconfirmed, Finish
  <2>8. \A x \in Nat : x <= top => x <= top'  BY <2>3
  <2>9. Assigned'
    <3>1. ASSUME NEW c \in Clients
          PROVE  /\ h'[c].max <= top' /\ h'[c].seq <= top' /\ h'[c].upTo <= top'
                 /\ base'[c] <= top'
                 /\ \A r \in h'[c].todo : r.seq <= top'
      <4>1. h[c].max \in Nat /\ h[c].seq \in Nat /\ h[c].upTo \in Nat /\ base[c] \in Nat
        BY <1>n DEF Locals
      <4>2. \A r \in h[c].todo : r.seq \in Nat  BY <1>n DEF Locals, Row
      <4> QED  BY <2>3, <2>7, <2>8, <4>1, <4>2 DEF Assigned, NoLocals
    <3>2. \A d \in Devices : /\ lastSeq'[d] <= top'
                           /\ \A n \in asked'[d] : n <= top'
      BY <2>7, <2>8 DEF Assigned
    <3> QED  BY <2>6, <3>1, <3>2 DEF Assigned, QueuesAssigned
  <2> QED  BY <2>4, <2>9
<1>9. ASSUME NEW a \in Clients, InsertFails(a) PROVE Goal
  <2>1. Message("push_error", 0, 0) \in Msg /\ (Message("push_error", 0, 0)).seq <= top
    BY DEF Message, Msg, Locals, Assigned
  <2>2. QueuesAssigned'  BY <1>9, <1>q, <2>1, SendAssigned DEF InsertFails, db
  <2> QED  BY <1>9, <2>2 DEF InsertFails, db, LatestKept, Assigned, QueuesAssigned, Finish, NoLocals
<1>10. ASSUME NEW a \in Clients, Compact(a) PROVE Goal
  <2>1. LatestKept'  BY <1>10 DEF Compact, LatestKept, Bounded
  <2>2. Assigned'  BY <1>10 DEF Compact, Assigned, net
  <2> QED  BY <2>1, <2>2
<1>11. ASSUME NEW a \in Clients, CompactFails(a) PROVE Goal
  BY <1>11 DEF CompactFails, db, net, LatestKept, Assigned
<1>12. ASSUME NEW a \in Clients, Ack(a) PROVE Goal
  <2>1. Message("ack", h[a].id, h[a].seq) \in Msg
        /\ Message("ack", h[a].id, h[a].seq).seq <= top
    BY <1>n DEF Message, Msg, Locals, Assigned
  <2>2. QueuesAssigned'  BY <1>12, <1>q, <2>1, SendAssigned DEF Ack, db
  <2>3. h' = [h EXCEPT ![a] = [h[a] EXCEPT !.to = {u \in Users : role[u] # "none"}]]
    BY <1>12 DEF Ack
  <2>4. \A c \in Clients : h'[c].seq = h[c].seq /\ h'[c].upTo = h[c].upTo
                            /\ h'[c].todo = h[c].todo /\ h'[c].max = h[c].max
    BY <1>n, <2>3 DEF Locals
  <2> QED  BY <1>12, <2>2, <2>4 DEF Ack, db, LatestKept, Assigned, QueuesAssigned
<1>13. ASSUME NEW a \in Clients, AckNoMembers(a) PROVE Goal
  <2>1. Message("ack", h[a].id, h[a].seq) \in Msg /\ (Message("ack", h[a].id, h[a].seq)).seq <= top
    BY DEF Message, Msg, Locals, Assigned
  <2>2. QueuesAssigned'  BY <1>13, <1>q, <2>1, SendAssigned DEF AckNoMembers, db
  <2> QED  BY <1>13, <2>2 DEF AckNoMembers, db, LatestKept, Assigned, QueuesAssigned
<1>14. ASSUME NEW a \in Clients, Relay(a) PROVE Goal
  <2>1. Message("sync", h[a].id, h[a].seq) \in Msg /\ (Message("sync", h[a].id, h[a].seq)).seq <= top
    BY DEF Message, Msg, Locals, Assigned
  <2>2. QueuesAssigned'  BY <1>14, <1>q, <2>1, SendAssigned DEF Relay, db
  <2> QED  BY <1>14, <2>2 DEF Relay, db, LatestKept, Assigned, QueuesAssigned, Finish, NoLocals
<1>15. ASSUME NEW a \in Clients, Subscribe(a) PROVE Goal
  <2>1. PICK s \in Presented(DeviceOf[a]) :
          /\ base' = [base EXCEPT ![a] = s]
          /\ asked' = [asked EXCEPT ![DeviceOf[a]] = {s}]
    BY <1>15 DEF Subscribe
  <2>2. s <= top  BY DEF Assigned, Presented
  <2>3. \A d \in Devices : \A n \in asked'[d] : n <= top
    BY <2>1, <2>2 DEF Assigned
  <2> QED  BY <1>15, <2>1, <2>2, <2>3 DEF Subscribe, db, LatestKept, Assigned
<1>16. ASSUME NEW a \in Clients, SubscribeDenied(a) PROVE Goal
  <2>1. Message("error", 0, 0) \in Msg /\ (Message("error", 0, 0)).seq <= top
    BY DEF Message, Msg, Locals, Assigned
  <2>2. QueuesAssigned'  BY <1>16, <1>q, <2>1, SendAssigned DEF SubscribeDenied, db
  <2>3. PICK s \in Presented(DeviceOf[a]) :
          asked' = [asked EXCEPT ![DeviceOf[a]] = {s}]
    BY <1>16 DEF SubscribeDenied
  <2>4. \A d \in Devices : \A n \in asked'[d] : n <= top
    BY <2>3 DEF Assigned, Presented
  <2> QED  BY <1>16, <2>2, <2>4
           DEF SubscribeDenied, db, LatestKept, Assigned, QueuesAssigned
<1>17. ASSUME NEW a \in Clients, HubSubscribe(a) PROVE Goal
  BY <1>17 DEF HubSubscribe, db, net, LatestKept, Assigned
<1>18. ASSUME NEW a \in Clients, Query(a) PROVE Goal
  <2> DEFINE found == {r \in rows : r.seq > base[a]}
             up == IF found = {} THEN base[a] ELSE MaxSeq(found)
  <2>1. up \in Nat /\ up <= top
    BY MaxSeqIsMax DEF Bounded, Assigned
  <2>2. h' = [h EXCEPT ![a] = [h[a] EXCEPT !.todo = found, !.upTo = up]]
    BY <1>18 DEF Query
  <2> HIDE DEF up
  <2>3. \A c \in Clients : /\ h'[c].seq = h[c].seq /\ h'[c].max = h[c].max
                            /\ h'[c].upTo \in {h[c].upTo, up}
                            /\ h'[c].todo \in {h[c].todo, found}
    BY <1>n, <2>2 DEF Locals
  <2>4. \A r \in found : r.seq <= top  BY DEF Bounded
  <2> HIDE DEF found
  <2>5. UNCHANGED <<rows, top, base, queue, lastSeq, asked>>
    BY <1>18 DEF Query, db, net
  <2>6. \A c \in Clients : h'[c].upTo <= top'  BY <2>1, <2>3, <2>5 DEF Assigned
  <2>7. \A c \in Clients : \A r \in h'[c].todo : r.seq <= top'
    BY <2>3, <2>4, <2>5 DEF Assigned
  <2> QED  BY <2>3, <2>5, <2>6, <2>7 DEF LatestKept, Assigned
<1>19. ASSUME NEW a \in Clients, QueryFails(a) PROVE Goal
  <2>1. Message("error", 0, 0) \in Msg /\ (Message("error", 0, 0)).seq <= top
    BY DEF Message, Msg, Locals, Assigned
  <2>2. QueuesAssigned'  BY <1>19, <1>q, <2>1, SendAssigned DEF QueryFails, db
  <2> QED  BY <1>19, <2>2 DEF QueryFails, db, LatestKept, Assigned, QueuesAssigned, Finish, NoLocals
<1>20. ASSUME NEW a \in Clients, Replay(a) PROVE Goal
  <2>1. PICK q \in h[a].todo :
          /\ SendTo({a}, Message("sync", q.id, q.seq))
          /\ h' = [h EXCEPT ![a].todo = @ \ {q}]
    BY <1>20 DEF Replay
  <2>2. /\ Message("sync", q.id, q.seq) \in Msg
        /\ Message("sync", q.id, q.seq).seq <= top
    BY <1>n DEF Message, Msg, Locals, Row, Assigned
  <2>3. QueuesAssigned'  BY <1>20, <1>q, <2>1, <2>2, SendAssigned DEF Replay, db
  <2>4. h' = [h EXCEPT ![a] = [h[a] EXCEPT !.todo = h[a].todo \ {q}]]  BY <2>1
  <2>5. \A c \in Clients : /\ h'[c].seq = h[c].seq /\ h'[c].max = h[c].max
                            /\ h'[c].upTo = h[c].upTo
                            /\ h'[c].todo \subseteq h[c].todo
    BY <1>n, <2>4 DEF Locals
  <2> QED  BY <1>20, <2>3, <2>5 DEF Replay, db, LatestKept, Assigned, QueuesAssigned
<1>21. ASSUME NEW a \in Clients, CaughtUp(a) PROVE Goal
  <2>1. Message("caught_up", 0, h[a].upTo) \in Msg /\ (Message("caught_up", 0, h[a].upTo)).seq <= top
    BY DEF Message, Msg, Locals, Assigned
  <2>2. QueuesAssigned'  BY <1>21, <1>q, <2>1, SendAssigned DEF CaughtUp, db
  <2> QED  BY <1>21, <2>2 DEF CaughtUp, db, LatestKept, Assigned, QueuesAssigned, Finish, NoLocals
<1>22. ASSUME NEW a \in Clients, Unsubscribe(a) PROVE Goal
  BY <1>22 DEF Unsubscribe, db, net, LatestKept, Assigned
<1>23. ASSUME NEW a \in Clients, Deliver(a) PROVE Goal
  <2>1. queue[a] \in Seq(Msg) /\ queue[a] # <<>>  BY <1>23 DEF Deliver
  <2>2. Head(queue[a]) = queue[a][1] /\ 1 \in 1..Len(queue[a])  BY <2>1
  <2>3. Head(queue[a]).seq <= top  BY <2>2 DEF Assigned
  <2>4. \A k \in 1..Len(Tail(queue[a])) :
          Tail(queue[a])[k] = queue[a][k + 1] /\ k + 1 \in 1..Len(queue[a])
    BY <2>1
  <2>5. \A c \in Clients : \A k \in 1..Len(queue'[c]) : queue'[c][k].seq <= top
    BY <1>23, <2>4 DEF Deliver, Assigned
  <2>6. \A d \in Devices : lastSeq'[d] <= top
    BY <1>23, <2>3 DEF Deliver, Assigned
  <2>7. \A d \in Devices : \A n \in asked'[d] : n <= top
    BY <1>23, <2>3 DEF Deliver, Assigned
  <2> QED  BY <1>23, <2>5, <2>6, <2>7 DEF Deliver, db, LatestKept, Assigned
<1>24. ASSUME NEW u \in Users, NEW s \in Roles, SetRole(u, s) PROVE Goal
  BY <1>24 DEF SetRole, net, LatestKept, Assigned
<1>25. ASSUME NEW u \in Users, Purge(u) PROVE Goal  BY <1>25
<1> QED
  BY <1>0, <1>1, <1>2, <1>3, <1>4, <1>5, <1>6, <1>7, <1>8, <1>9, <1>10,
     <1>11, <1>12, <1>13, <1>14, <1>15, <1>16, <1>17, <1>18, <1>19, <1>20,
     <1>21, <1>22, <1>23, <1>24, <1>25 DEF Next, Handler

(* As long as no account is purged, the snapshot with the highest number   *)
(* ever assigned is stored, whatever pushes and compactions interleave.    *)
THEOREM NewestSnapshotStored == Purgers = {} => (Spec => []LatestKept)
<1> SUFFICES ASSUME Purgers = {} PROVE Spec => []LatestKept
  OBVIOUS
<1>1. Init => SeqInv  BY TypeInit, SeqInit DEF SeqInv
<1>2. SeqInv /\ [Next]_vars => SeqInv'  BY TypeStep, SeqStep DEF SeqInv, Purge
<1>3. SeqInv => LatestKept  BY DEF SeqInv
<1> QED  BY <1>1, <1>2, <1>3, PTL DEF Spec

(* The number goes up by one with an insert that takes a new maximum; a    *)
(* browser's number changes only when it processes a message.              *)
LEMMA NumbersStep ==
  ASSUME SeqInv, [Next]_vars
  PROVE  \/ top' = top + 1 /\ lastSeq' = lastSeq
         \/ /\ top' = top
            /\ \/ lastSeq' = lastSeq
               \/ \E d \in Devices, s \in 0..top : lastSeq' = [lastSeq EXCEPT ![d] = s]
<1> USE RelayAssumption DEF SeqInv, TypeInv, TypeOK
<1> DEFINE Goal == \/ top' = top + 1 /\ lastSeq' = lastSeq
                   \/ /\ top' = top
                      /\ \/ lastSeq' = lastSeq
                         \/ \E d \in Devices, s \in 0..top :
                              lastSeq' = [lastSeq EXCEPT ![d] = s]
<1>1. CASE UNCHANGED vars  BY <1>1 DEF vars
<1>2. ASSUME NEW a \in Clients, Insert(a) \/ InsertUnconfirmed(a) PROVE Goal
  <2>1. NewRow(a).seq = h[a].max + 1 /\ h[a].max \in Nat /\ h[a].max <= top
    BY DEF NewRow, Locals, Assigned
  <2>2. top' = (IF NewRow(a).seq > top THEN NewRow(a).seq ELSE top)
        /\ lastSeq' = lastSeq
    BY <1>2 DEF Insert, InsertUnconfirmed, AddRow, net
  <2> QED  BY <2>1, <2>2
<1>3. ASSUME NEW a \in Clients, Deliver(a) PROVE Goal
  <2>1. queue[a] \in Seq(Msg) /\ queue[a] # <<>>  BY <1>3 DEF Deliver
  <2>2. Head(queue[a]) = queue[a][1] /\ 1 \in 1..Len(queue[a])  BY <2>1
  <2>3. Head(queue[a]).seq \in 0..top
    <3>1. Head(queue[a]).seq \in Nat  BY <2>1, <2>2, QueuedSeq
    <3>2. Head(queue[a]).seq <= top  BY <2>2 DEF Assigned
    <3>3. top \in Nat  BY DEF SeqInv, TypeInv, TypeOK
    <3> QED  BY <3>1, <3>2, <3>3
  <2>4. top' = top  BY <1>3 DEF Deliver, db
  <2>5. \/ lastSeq' = lastSeq
        \/ lastSeq' = [lastSeq EXCEPT ![DeviceOf[a]] = Head(queue[a]).seq]
    BY <1>3 DEF Deliver
  <2> QED  BY <2>3, <2>4, <2>5
<1>4. ASSUME NEW a \in Clients,
             Connect(a) \/ Drop(a) \/ Teardown(a) \/ Push(a) \/ PushDenied(a)
             \/ Subscribe(a) \/ SubscribeDenied(a) \/ Unsubscribe(a)
      PROVE  Goal
  BY <1>4 DEF Connect, Drop, Teardown, Push, PushDenied, Subscribe,
              SubscribeDenied, Unsubscribe, db, net
<1>5. ASSUME NEW a \in Clients,
             StoreRead(a) \/ InsertFails(a) \/ Compact(a) \/ CompactFails(a)
             \/ Ack(a) \/ AckNoMembers(a) \/ Relay(a) \/ HubSubscribe(a)
             \/ Query(a) \/ QueryFails(a) \/ Replay(a) \/ CaughtUp(a)
      PROVE  Goal
  BY <1>5 DEF StoreRead, InsertFails, Compact, CompactFails, Ack, AckNoMembers,
              Relay, HubSubscribe, Query, QueryFails, Replay, CaughtUp, db, net
<1>6. ASSUME NEW u \in Users, NEW s \in Roles, SetRole(u, s) \/ Purge(u)
      PROVE  Goal
  BY <1>6 DEF SetRole, Purge, net
<1>7. Roles # {}  BY DEF Roles
<1> QED  BY <1>1, <1>2, <1>3, <1>4, <1>5, <1>6, <1>7 DEF Next, Handler

(* As long as no account is purged, the relay implements SequencedDoc with *)
(* the highest stored number as the document's: it goes up by ones, never  *)
(* back, and no browser is ahead of it.                                    *)
THEOREM RelayImplementsSequenced ==
  Purgers = {} => (Spec => ImplementsSequenced)
<1> SUFFICES ASSUME Purgers = {} PROVE Spec => Sequenced!Spec
  BY DEF ImplementsSequenced
<1> DEFINE TopMax == MaxSeq(rows) = top
<1>1. Init => Sequenced!Init  BY DEF Init, Sequenced!Init, MaxSeq
<1>2. Init => SeqInv  BY TypeInit, SeqInit DEF SeqInv
<1>3. SeqInv /\ [Next]_vars => SeqInv'  BY TypeStep, SeqStep DEF SeqInv, Purge
<1>4. SeqInv => TopMax  BY TopIsMax DEF SeqInv
<1>5. SeqInv /\ TopMax /\ TopMax' /\ [Next]_vars
        => [Sequenced!Next]_<<MaxSeq(rows), lastSeq>>
  BY NumbersStep DEF Sequenced!Next, Sequenced!Publish, Sequenced!Observe
<1> HIDE DEF TopMax
<1> QED  BY <1>1, <1>2, <1>3, <1>4, <1>5, PTL DEF Spec, Sequenced!Spec
-----------------------------------------------------------------------------
(* One user with any number of devices: a device that would present the    *)
(* current number has the current snapshot.                                *)

OneUser == \A c, o \in Clients : UserOf[c] = UserOf[o]

(* What the one user's devices know of the newest snapshot r.              *)
Known(d, r) == r.device = d \/ r.id \in seen[d]

(* Connection c's device knows r before it comes to place k of its queue.  *)
Before(c, k, r) ==
  \/ Known(DeviceOf[c], r)
  \/ \E j \in 1..(k - 1) : queue[c][j].type = "sync" /\ queue[c][j].id = r.id

DeviceTrue(d, r) == top \in Presented(d) => Known(d, r)

(* A message with the newest number brings the newest snapshot, or comes   *)
(* after it.                                                               *)
QueueTrue(c, r) ==
  \A k \in 1..Len(queue[c]) : queue[c][k].seq = top =>
    \/ queue[c][k].type \in {"sync", "ack"} /\ queue[c][k].id = r.id
    \/ queue[c][k].type = "caught_up" /\ Before(c, k, r)

(* So will what the running handler has still to send.                     *)
HandlerTrue(c, r) ==
  /\ base[c] = top => Known(DeviceOf[c], r)
  /\ \A q \in h[c].todo : q.seq = top => q = r
  /\ pc[c] = "replay" /\ h[c].upTo = top /\ c \in link =>
       r \in h[c].todo \/ Before(c, Len(queue[c]) + 1, r)
  /\ pc[c] \in {"compact", "ack", "relay"} /\ h[c].seq = top => h[c].id = r.id

TrueOf(r) ==
  /\ \A d \in Devices : DeviceTrue(d, r)
  /\ \A c \in Clients : QueueTrue(c, r) /\ HandlerTrue(c, r)

OneWrites == \A r \in rows : r.seq > 0 /\ \A c \in Clients : r.user = UserOf[c]

OneNewest == \A r, q \in rows : r.seq = top /\ q.seq = top => r = q

TruthInv == OneWrites /\ OneNewest /\ \A r \in rows : r.seq = top => TrueOf(r)

(* The user has deleted his account, and with it the vault's document.     *)
Purged == rows = {} /\ \A c \in Clients : UserOf[c] \notin account

LEMMA SendTrue ==
  ASSUME TypeOK, NEW r, NEW C, NEW m \in Msg, SendTo(C, m), UNCHANGED <<top, seen>>,
         NEW c \in Clients, QueueTrue(c, r),
         c \in C /\ c \in link /\ m.seq = top =>
           \/ m.type \in {"sync", "ack"} /\ m.id = r.id
           \/ m.type = "caught_up" /\ Before(c, Len(queue[c]) + 1, r)
  PROVE  /\ QueueTrue(c, r)'
         /\ Before(c, Len(queue[c]) + 1, r) => Before(c, Len(queue[c]) + 1, r)'
         /\ c \in C /\ c \in link /\ m.type = "sync" /\ m.id = r.id =>
              Before(c, Len(queue[c]) + 1, r)'
<1>1. queue[c] \in Seq(Msg) /\ Len(queue[c]) \in Nat  BY DEF TypeOK
<1>2. CASE queue'[c] = queue[c] /\ ~(c \in C /\ c \in link)
  BY <1>2 DEF QueueTrue, Before, Known
<1>3. CASE queue'[c] = Append(queue[c], m) /\ c \in C /\ c \in link
  <2>1. /\ Len(queue'[c]) = Len(queue[c]) + 1 /\ queue'[c][Len(queue[c]) + 1] = m
        /\ \A k \in 1..Len(queue[c]) : queue'[c][k] = queue[c][k]
    BY <1>1, <1>3
  <2>2. Known(DeviceOf[c], r)' <=> Known(DeviceOf[c], r)  BY DEF Known
  <2>3. ASSUME NEW k \in 1..(Len(queue[c]) + 1), Before(c, k, r)
        PROVE  Before(c, k, r)' /\ Before(c, Len(queue[c]) + 1, r)'
    <3>1. CASE Known(DeviceOf[c], r)  BY <2>2, <3>1 DEF Before
    <3>2. ASSUME NEW j \in 1..(k - 1), queue[c][j].type = "sync" /\ queue[c][j].id = r.id
          PROVE  Before(c, k, r)' /\ Before(c, Len(queue[c]) + 1, r)'
      <4>1. j \in 1..Len(queue[c]) /\ j \in 1..(Len(queue'[c]) + 1 - 1)  BY <1>1, <2>1
      <4>2. queue'[c][j].type = "sync" /\ queue'[c][j].id = r.id  BY <2>1, <3>2, <4>1
      <4> QED  BY <4>1, <4>2 DEF Before
    <3> QED  BY <2>3, <3>1, <3>2 DEF Before
  <2>4. ASSUME NEW k \in 1..Len(queue'[c]), queue'[c][k].seq = top
        PROVE  \/ queue'[c][k].type \in {"sync", "ack"} /\ queue'[c][k].id = r.id
               \/ queue'[c][k].type = "caught_up" /\ Before(c, k, r)'
    <3>1. CASE k = Len(queue[c]) + 1
      <4>1. queue'[c][k] = m /\ k \in 1..(Len(queue[c]) + 1)  BY <1>1, <2>1, <3>1
      <4>2. Before(c, k, r) => Before(c, k, r)'  BY <2>3, <4>1
      <4> QED  BY <1>3, <2>4, <3>1, <4>1, <4>2
    <3>2. CASE k \in 1..Len(queue[c])
      <4>1. queue'[c][k] = queue[c][k] /\ k \in 1..(Len(queue[c]) + 1)  BY <1>1, <2>1, <3>2
      <4>2. Before(c, k, r) => Before(c, k, r)'  BY <2>3, <4>1
      <4> QED  BY <2>4, <3>2, <4>1, <4>2 DEF QueueTrue
    <3> QED  BY <1>1, <2>1, <3>1, <3>2
  <2>5. QueueTrue(c, r)'  BY <2>4 DEF QueueTrue
  <2>6. Before(c, Len(queue[c]) + 1, r) => Before(c, Len(queue[c]) + 1, r)'
    <3>1. Len(queue[c]) + 1 \in 1..(Len(queue[c]) + 1)  BY <1>1
    <3> SUFFICES ASSUME Before(c, Len(queue[c]) + 1, r) PROVE Before(c, Len(queue[c]) + 1, r)'
      OBVIOUS
    <3>2. CASE Known(DeviceOf[c], r)  BY <2>2, <3>2 DEF Before
    <3>3. ASSUME NEW j \in 1..Len(queue[c]), queue[c][j].type = "sync" /\ queue[c][j].id = r.id
          PROVE  Before(c, Len(queue[c]) + 1, r)'
      <4>1. j \in 1..(Len(queue'[c]) + 1 - 1)  BY <1>1, <2>1
      <4>2. queue'[c][j].type = "sync" /\ queue'[c][j].id = r.id  BY <2>1, <3>3
      <4> QED  BY <4>1, <4>2 DEF Before
    <3>4. \A j \in 1..(Len(queue[c]) + 1 - 1) : j \in 1..Len(queue[c])  BY <1>1
    <3> QED  BY <3>2, <3>3, <3>4 DEF Before
  <2>7. m.type = "sync" /\ m.id = r.id => Before(c, Len(queue[c]) + 1, r)'
    <3>1. Len(queue[c]) + 1 \in 1..(Len(queue'[c]) + 1 - 1)  BY <1>1, <2>1
    <3> QED  BY <2>1, <3>1 DEF Before
  <2> QED  BY <2>5, <2>6, <2>7
<1> QED  BY <1>2, <1>3 DEF SendTo

(* A handler that does not move on, or moves on to what promises less.     *)
LEMMA HandlerKeeps ==
  ASSUME NEW r, NEW c \in Clients, HandlerTrue(c, r), UNCHANGED top, base'[c] = base[c],
         Known(DeviceOf[c], r) => Known(DeviceOf[c], r)',
         \/ pc'[c] \notin {"replay", "compact", "ack", "relay"} /\ h'[c].todo \subseteq h[c].todo
         \/ /\ pc'[c] = "replay" => pc[c] = "replay"
            /\ pc'[c] \in {"compact", "ack", "relay"} => pc[c] \in {"compact", "ack", "relay"}
            /\ h'[c].todo = h[c].todo /\ h'[c].upTo = h[c].upTo
            /\ h'[c].seq = h[c].seq /\ h'[c].id = h[c].id
            /\ c \in link' => c \in link
            /\ Before(c, Len(queue[c]) + 1, r) => Before(c, Len(queue[c]) + 1, r)'
  PROVE  HandlerTrue(c, r)'
<1>1. base'[c] = top' => Known(DeviceOf[c], r)'  BY DEF HandlerTrue
<1>2. \A q \in h'[c].todo : q.seq = top' => q = r  BY DEF HandlerTrue
<1>3. /\ pc'[c] = "replay" /\ h'[c].upTo = top' /\ c \in link' =>
           r \in h'[c].todo \/ Before(c, Len(queue[c]) + 1, r)'
      /\ pc'[c] \in {"compact", "ack", "relay"} /\ h'[c].seq = top' => h'[c].id = r.id
  BY DEF HandlerTrue
<1> QED  BY <1>1, <1>2, <1>3 DEF HandlerTrue

LEMMA DeliverTrue ==
  ASSUME TypeOK, NEW r \in Row, r.seq = top, TrueOf(r), NEW a \in Clients, Deliver(a)
  PROVE  TrueOf(r)'
<1> USE RelayAssumption DEF TypeOK
<1>1. queue[a] \in Seq(Msg) /\ Len(queue[a]) \in Nat /\ queue[a] # <<>>  BY DEF Deliver
<1>2. PICK m : m = Head(queue[a])  OBVIOUS
<1>3. m = queue[a][1] /\ 1 \in 1..Len(queue[a])  BY <1>1, <1>2
<1>4. PICK d \in Devices : d = DeviceOf[a]  OBVIOUS
<1>5. /\ lastSeq' = IF m.type \in {"sync", "ack", "caught_up"} THEN [lastSeq EXCEPT ![d] = m.seq] ELSE lastSeq
      /\ asked' = IF m.type = "caught_up" THEN [asked EXCEPT ![d] = {m.seq}] ELSE asked
      /\ seen' = IF m.type \in {"sync", "ack"} THEN [seen EXCEPT ![d] = @ \cup {m.id}] ELSE seen
      /\ queue' = [queue EXCEPT ![a] = Tail(queue[a])]
      /\ UNCHANGED <<top, rows, link, pc, h, base>>
  BY <1>2, <1>4 DEF Deliver, db
<1>6. \A b \in Devices : seen[b] \subseteq seen'[b]  BY <1>5
<1>7. \A b \in Devices : Known(b, r) => Known(b, r)'  BY <1>6 DEF Known
<1>8. m.type \in {"sync", "ack"} /\ m.id = r.id => Known(d, r)'  BY <1>5 DEF Known
<1>9. m.seq = top => Known(d, r)'
  <2> SUFFICES ASSUME m.seq = top PROVE Known(d, r)'  OBVIOUS
  <2>1. \/ m.type \in {"sync", "ack"} /\ m.id = r.id
        \/ m.type = "caught_up" /\ Before(a, 1, r)
    BY <1>3 DEF TrueOf, QueueTrue
  <2>2. Before(a, 1, r) => Known(d, r)
    <3>1. 1..(1 - 1) = {}  OBVIOUS
    <3> QED  BY <1>4, <3>1 DEF Before
  <2> QED  BY <1>7, <1>8, <2>1, <2>2
<1>10. ASSUME NEW b \in Devices PROVE DeviceTrue(b, r)'
  <2>1. CASE b = d
    <3>1. Presented(d)' \subseteq Presented(d) \cup {m.seq}  BY <1>5 DEF Presented
    <3> QED  BY <1>5, <1>7, <1>9, <2>1, <3>1 DEF TrueOf, DeviceTrue
  <2>2. CASE b # d
    <3>1. Presented(b)' = Presented(b)  BY <1>5, <2>2 DEF Presented
    <3> QED  BY <1>5, <1>7, <3>1 DEF TrueOf, DeviceTrue
  <2> QED  BY <2>1, <2>2
<1>11. ASSUME NEW c \in Clients, c # a
       PROVE  QueueTrue(c, r)' /\ (Before(c, Len(queue[c]) + 1, r) => Before(c, Len(queue[c]) + 1, r)')
  <2>1. queue'[c] = queue[c]  BY <1>5, <1>11
  <2>2. \A k : Before(c, k, r) => Before(c, k, r)'  BY <1>7, <2>1 DEF Before
  <2>3. QueueTrue(c, r)  BY DEF TrueOf
  <2>4. QueueTrue(c, r)'  BY <1>5, <2>1, <2>2, <2>3 DEF QueueTrue
  <2> QED  BY <2>1, <2>2, <2>4
<1>12. /\ queue'[a] = Tail(queue[a]) /\ Len(queue'[a]) = Len(queue[a]) - 1
       /\ \A k \in 1..(Len(queue[a]) - 1) : queue'[a][k] = queue[a][k + 1]
  BY <1>1, <1>5
<1>13. ASSUME NEW k \in 1..Len(queue[a]), Before(a, k + 1, r) PROVE Before(a, k, r)'
  <2>1. CASE Known(d, r)  BY <1>4, <1>7, <2>1 DEF Before
  <2>2. ASSUME NEW j \in 1..k, queue[a][j].type = "sync" /\ queue[a][j].id = r.id
        PROVE  Before(a, k, r)'
    <3>1. CASE j = 1  BY <1>3, <1>4, <1>8, <2>2, <3>1 DEF Before
    <3>2. CASE j # 1
      <4>1. j - 1 \in 1..(k - 1) /\ j - 1 \in 1..(Len(queue[a]) - 1) /\ (j - 1) + 1 = j
        BY <1>1, <3>2
      <4>2. queue'[a][j - 1] = queue[a][j]  BY <1>12, <4>1
      <4> QED  BY <2>2, <4>1, <4>2 DEF Before
    <3> QED  BY <3>1, <3>2
  <2>3. 1..(k + 1 - 1) = 1..k  OBVIOUS
  <2>4. Known(d, r) \/ \E j \in 1..(k + 1 - 1) : queue[a][j].type = "sync" /\ queue[a][j].id = r.id
    BY <1>4, <1>13 DEF Before
  <2> QED  BY <2>1, <2>2, <2>3, <2>4
<1>14. QueueTrue(a, r)'
  <2> SUFFICES ASSUME NEW k \in 1..Len(queue'[a]), queue'[a][k].seq = top
               PROVE  \/ queue'[a][k].type \in {"sync", "ack"} /\ queue'[a][k].id = r.id
                      \/ queue'[a][k].type = "caught_up" /\ Before(a, k, r)'
    BY <1>5 DEF QueueTrue
  <2>1. k \in 1..Len(queue[a]) /\ k + 1 \in 1..Len(queue[a]) /\ queue'[a][k] = queue[a][k + 1]
    BY <1>1, <1>12
  <2>2. \/ queue[a][k + 1].type \in {"sync", "ack"} /\ queue[a][k + 1].id = r.id
        \/ queue[a][k + 1].type = "caught_up" /\ Before(a, k + 1, r)
    BY <2>1 DEF TrueOf, QueueTrue
  <2> QED  BY <1>13, <2>1, <2>2
<1>15. Before(a, Len(queue[a]) + 1, r) => Before(a, Len(queue[a]) + 1, r)'
  <2> SUFFICES ASSUME Before(a, Len(queue[a]) + 1, r) PROVE Before(a, Len(queue[a]) + 1, r)'
    OBVIOUS
  <2>1. Len(queue[a]) \in 1..Len(queue[a]) /\ Len(queue'[a]) + 1 = Len(queue[a])  BY <1>1, <1>3, <1>12
  <2>2. PICK k \in 1..Len(queue[a]) : k = Len(queue[a])  BY <2>1
  <2>3. Before(a, k, r)'  BY <1>13, <2>2
  <2>4. Known(DeviceOf[a], r)' \/ \E j \in 1..(k - 1) : queue'[a][j].type = "sync" /\ queue'[a][j].id = r.id
    BY <2>3 DEF Before
  <2>5. PICK n : n = Len(queue'[a]) + 1  OBVIOUS
  <2>6. n = k  BY <2>1, <2>2, <2>5
  <2>7. Known(DeviceOf[a], r)' \/ \E j \in 1..(n - 1) : queue'[a][j].type = "sync" /\ queue'[a][j].id = r.id
    BY <2>4, <2>6
  <2> QED  BY <2>5, <2>7 DEF Before
<1>16. ASSUME NEW c \in Clients PROVE QueueTrue(c, r)' /\ HandlerTrue(c, r)'
  <2>1. QueueTrue(c, r)' /\ (Before(c, Len(queue[c]) + 1, r) => Before(c, Len(queue[c]) + 1, r)')
    BY <1>11, <1>14, <1>15
  <2>2. HandlerTrue(c, r)  BY DEF TrueOf
  <2>3. Known(DeviceOf[c], r) => Known(DeviceOf[c], r)'  BY <1>7
  <2>4. UNCHANGED top /\ base'[c] = base[c] /\ pc'[c] = pc[c] /\ h'[c] = h[c] /\ link' = link
    BY <1>5
  <2> QED  BY <2>1, <2>2, <2>3, <2>4, HandlerKeeps
<1> QED  BY <1>10, <1>16 DEF TrueOf

(* The queues and the browsers as they were, whatever a handler does.      *)
LEMMA QuietTrue ==
  ASSUME NEW r, TrueOf(r), UNCHANGED <<top, queue, lastSeq, asked, seen, base, link>>,
         \A c \in Clients :
           \/ pc'[c] \notin {"replay", "compact", "ack", "relay"} /\ h'[c].todo \subseteq h[c].todo
           \/ /\ pc'[c] = "replay" => pc[c] = "replay"
              /\ pc'[c] \in {"compact", "ack", "relay"} => pc[c] \in {"compact", "ack", "relay"}
              /\ h'[c].todo = h[c].todo /\ h'[c].upTo = h[c].upTo
              /\ h'[c].seq = h[c].seq /\ h'[c].id = h[c].id
  PROVE  TrueOf(r)'
<1>1. \A d : (Known(d, r)' <=> Known(d, r)) /\ Presented(d)' = Presented(d)
  BY DEF Known, Presented
<1>2. \A d \in Devices : DeviceTrue(d, r)'  BY <1>1 DEF TrueOf, DeviceTrue
<1>3. \A c, k : Before(c, k, r) => Before(c, k, r)'  BY <1>1 DEF Before
<1>4. ASSUME NEW c \in Clients PROVE QueueTrue(c, r)' /\ HandlerTrue(c, r)'
  <2>1. QueueTrue(c, r)'  BY <1>3 DEF TrueOf, QueueTrue
  <2>2. HandlerTrue(c, r)  BY DEF TrueOf
  <2>3. Before(c, Len(queue[c]) + 1, r) => Before(c, Len(queue[c]) + 1, r)'
    BY <1>1 DEF Before
  <2>4. HandlerTrue(c, r)'  BY <1>1, <2>2, <2>3, HandlerKeeps
  <2> QED  BY <2>1, <2>4
<1> QED  BY <1>2, <1>4 DEF TrueOf

(* A message that does not have the newest number, or has the newest       *)
(* snapshot, from a handler that ends or goes on as before.                *)
LEMMA SendingTrue ==
  ASSUME TypeOK, NEW r, TrueOf(r), NEW C, NEW m \in Msg, SendTo(C, m),
         UNCHANGED <<top, lastSeq, seen, base, link>>,
         \A d \in Devices : Presented(d)' \subseteq Presented(d),
         m.seq = top =>
           \/ m.type \in {"sync", "ack"} /\ m.id = r.id
           \/ m.type = "caught_up"
              /\ \A c \in C \cap Clients : c \in link => Before(c, Len(queue[c]) + 1, r),
         \A c \in Clients :
           \/ pc'[c] \notin {"replay", "compact", "ack", "relay"} /\ h'[c].todo \subseteq h[c].todo
           \/ /\ pc'[c] = "replay" => pc[c] = "replay"
              /\ pc'[c] \in {"compact", "ack", "relay"} => pc[c] \in {"compact", "ack", "relay"}
              /\ h'[c].todo = h[c].todo /\ h'[c].upTo = h[c].upTo
              /\ h'[c].seq = h[c].seq /\ h'[c].id = h[c].id
  PROVE  TrueOf(r)'
<1>1. \A d : Known(d, r) => Known(d, r)'  BY DEF Known
<1>2. \A d \in Devices : DeviceTrue(d, r)'  BY <1>1 DEF TrueOf, DeviceTrue
<1>3. ASSUME NEW c \in Clients PROVE QueueTrue(c, r)' /\ HandlerTrue(c, r)'
  <2>1. QueueTrue(c, r) /\ HandlerTrue(c, r)  BY DEF TrueOf
  <2>2. c \in C /\ c \in link /\ m.seq = top =>
          \/ m.type \in {"sync", "ack"} /\ m.id = r.id
          \/ m.type = "caught_up" /\ Before(c, Len(queue[c]) + 1, r)
    OBVIOUS
  <2>3. /\ QueueTrue(c, r)'
        /\ Before(c, Len(queue[c]) + 1, r) => Before(c, Len(queue[c]) + 1, r)'
    BY <2>1, <2>2, SendTrue
  <2>4. HandlerTrue(c, r)'  BY <1>1, <2>1, <2>3, HandlerKeeps
  <2> QED  BY <2>3, <2>4
<1> QED  BY <1>2, <1>3 DEF TrueOf

LEMMA ConnectTrue ==
  ASSUME TypeOK, NEW r, TrueOf(r), NEW a \in Clients, Connect(a) \/ Drop(a)
  PROVE  TrueOf(r)'
<1> USE RelayAssumption DEF TypeOK
<1>1. /\ queue' = [queue EXCEPT ![a] = <<>>] /\ UNCHANGED <<top, lastSeq, seen, base, h>>
      /\ \A d \in Devices : asked'[d] \subseteq asked[d]
      /\ \A c \in Clients : c # a => pc'[c] = pc[c] /\ (c \in link' => c \in link)
      /\ a \notin link' \/ pc'[a] = "read"
      /\ pc'[a] \in {"read", pc[a]}
  BY DEF Connect, Drop, Goto, db
<1>2. \A d : Known(d, r)' <=> Known(d, r)  BY <1>1 DEF Known
<1>3. \A d \in Devices : DeviceTrue(d, r)'  BY <1>1, <1>2 DEF TrueOf, DeviceTrue, Presented
<1>4. ASSUME NEW c \in Clients, c # a PROVE QueueTrue(c, r)' /\ HandlerTrue(c, r)'
  <2>1. queue'[c] = queue[c]  BY <1>1, <1>4
  <2>2. \A k : Before(c, k, r) => Before(c, k, r)'  BY <1>2, <2>1 DEF Before
  <2>3. QueueTrue(c, r) /\ HandlerTrue(c, r)  BY DEF TrueOf
  <2>4. QueueTrue(c, r)'  BY <1>1, <2>1, <2>2, <2>3 DEF QueueTrue
  <2>5. Before(c, Len(queue[c]) + 1, r) => Before(c, Len(queue[c]) + 1, r)'
    BY <1>2, <2>1 DEF Before
  <2>6. HandlerTrue(c, r)'  BY <1>1, <1>2, <1>4, <2>3, <2>5, HandlerKeeps
  <2> QED  BY <2>4, <2>6
<1>5. QueueTrue(a, r)'
  <2>1. Len(queue'[a]) = 0 /\ 1..0 = {}  BY <1>1
  <2> QED  BY <2>1 DEF QueueTrue
<1>6. HandlerTrue(a, r)'
  <2>1. HandlerTrue(a, r)  BY DEF TrueOf
  <2> QED  BY <1>1, <1>2, <2>1 DEF HandlerTrue
<1> QED  BY <1>3, <1>4, <1>5, <1>6 DEF TrueOf

LEMMA SubscribeTrue ==
  ASSUME TypeOK, NEW r, TrueOf(r), NEW a \in Clients, Subscribe(a)
  PROVE  TrueOf(r)'
<1> USE RelayAssumption DEF TypeOK
<1>1. PICK s \in Presented(DeviceOf[a]) :
        /\ base' = [base EXCEPT ![a] = s] /\ asked' = [asked EXCEPT ![DeviceOf[a]] = {s}]
  BY DEF Subscribe
<1>2. pc' = [pc EXCEPT ![a] = "hub"] /\ UNCHANGED <<top, queue, lastSeq, seen, link, h>>
  BY DEF Subscribe, Goto, db
<1>3. \A d : Known(d, r)' <=> Known(d, r)  BY <1>2 DEF Known
<1>4. ASSUME NEW d \in Devices PROVE DeviceTrue(d, r)'
  <2>1. Presented(d)' \subseteq Presented(d)  BY <1>1, <1>2 DEF Presented
  <2> QED  BY <1>2, <1>3, <2>1 DEF TrueOf, DeviceTrue
<1>5. \A c \in Clients : base'[c] = top => Known(DeviceOf[c], r)
  <2>1. s = top => Known(DeviceOf[a], r)  BY DEF TrueOf, DeviceTrue
  <2> QED  BY <1>1, <2>1 DEF TrueOf, HandlerTrue
<1>6. \A c, k : Before(c, k, r) => Before(c, k, r)'  BY <1>2, <1>3 DEF Before
<1>7. ASSUME NEW c \in Clients PROVE QueueTrue(c, r)' /\ HandlerTrue(c, r)'
  <2>1. QueueTrue(c, r) /\ HandlerTrue(c, r)  BY DEF TrueOf
  <2>2. QueueTrue(c, r)'  BY <1>2, <1>6, <2>1 DEF QueueTrue
  <2>3. Before(c, Len(queue[c]) + 1, r) => Before(c, Len(queue[c]) + 1, r)'
    BY <1>2, <1>3 DEF Before
  <2>4. pc'[c] = pc[c] \/ pc'[c] = "hub"  BY <1>2
  <2>5. HandlerTrue(c, r)'  BY <1>2, <1>3, <1>5, <2>1, <2>3, <2>4 DEF HandlerTrue
  <2> QED  BY <2>2, <2>5
<1> QED  BY <1>4, <1>7 DEF TrueOf

LEMMA QueryTrue ==
  ASSUME TypeInv, NEW r \in rows, r.seq = top, OneNewest, TrueOf(r), Assigned,
         NEW a \in Clients, Query(a)
  PROVE  TrueOf(r)'
<1> USE RelayAssumption DEF TypeInv, TypeOK
<1>1. PICK found : found = {q \in rows : q.seq > base[a]}  OBVIOUS
<1>2. PICK up : up = IF found = {} THEN base[a] ELSE MaxSeq(found)  OBVIOUS
<1>3. h' = [h EXCEPT ![a] = [h[a] EXCEPT !.todo = found, !.upTo = up]]
  BY <1>1, <1>2 DEF Query
<1>4. /\ h'[a].todo = found /\ h'[a].upTo = up /\ h'[a].seq = h[a].seq /\ h'[a].id = h[a].id
      /\ \A c \in Clients : c # a => h'[c] = h[c]
  <2>1. h[a] \in Locals  OBVIOUS
  <2> QED  BY <1>3, <2>1 DEF Locals
<1>5. pc' = [pc EXCEPT ![a] = "replay"] /\ UNCHANGED <<top, queue, lastSeq, asked, seen, link, base>>
  BY DEF Query, Goto, db, net
<1>6. \A q \in found : q.seq = top => q = r  BY <1>1 DEF OneNewest
<1>7. up = top => r \in found \/ Known(DeviceOf[a], r)
  <2>1. CASE found = {}  BY <1>2, <2>1 DEF TrueOf, HandlerTrue
  <2>2. CASE found # {}
    <3>1. found \in SUBSET Row /\ top \in Nat /\ \A q \in found : q.seq <= top  BY <1>1 DEF Bounded
    <3>2. \E q \in found : q.seq = MaxSeq(found)  BY <2>2, <3>1, MaxSeqIsMax
    <3> QED  BY <1>2, <1>6, <2>2, <3>2
  <2> QED  BY <2>1, <2>2
<1>8. \A d : (Known(d, r)' <=> Known(d, r)) /\ Presented(d)' = Presented(d)
  BY <1>5 DEF Known, Presented
<1>9. \A d \in Devices : DeviceTrue(d, r)'  BY <1>5, <1>8 DEF TrueOf, DeviceTrue
<1>10. \A c, k : Before(c, k, r) => Before(c, k, r)'  BY <1>5, <1>8 DEF Before
<1>11. ASSUME NEW c \in Clients PROVE QueueTrue(c, r)'
  BY <1>5, <1>10 DEF TrueOf, QueueTrue
<1>12. ASSUME NEW c \in Clients, c # a PROVE HandlerTrue(c, r)'
  <2>1. HandlerTrue(c, r)  BY DEF TrueOf
  <2>2. Before(c, Len(queue[c]) + 1, r) => Before(c, Len(queue[c]) + 1, r)'
    BY <1>5, <1>8 DEF Before
  <2>3. h'[c] = h[c] /\ pc'[c] = pc[c] /\ base'[c] = base[c]  BY <1>4, <1>5, <1>12
  <2> QED  BY <1>5, <1>8, <2>1, <2>2, <2>3, HandlerKeeps
<1>13. HandlerTrue(a, r)'
  <2>1. HandlerTrue(a, r)  BY DEF TrueOf
  <2>2. Known(DeviceOf[a], r) => Before(a, Len(queue[a]) + 1, r)'  BY <1>8 DEF Before
  <2>3. pc'[a] = "replay"  BY <1>5
  <2> QED  BY <1>4, <1>5, <1>6, <1>7, <1>8, <2>1, <2>2, <2>3 DEF HandlerTrue
<1> QED  BY <1>9, <1>11, <1>12, <1>13 DEF TrueOf

LEMMA ReplayTrue ==
  ASSUME TypeOK, NEW r, TrueOf(r), NEW a \in Clients, Replay(a)
  PROVE  TrueOf(r)'
<1> USE RelayAssumption DEF TypeOK
<1>1. PICK q \in h[a].todo :
        /\ SendTo({a}, Message("sync", q.id, q.seq))
        /\ h' = [h EXCEPT ![a].todo = @ \ {q}]
  BY DEF Replay
<1>2. PICK m : m = Message("sync", q.id, q.seq)  OBVIOUS
<1>3. h[a] \in Locals  OBVIOUS
<1>4. m \in Msg /\ m.type = "sync" /\ m.id = q.id /\ m.seq = q.seq
  BY <1>2, <1>3 DEF Message, Msg, Locals, Row
<1>5. h' = [h EXCEPT ![a] = [h[a] EXCEPT !.todo = h[a].todo \ {q}]]  BY <1>1
<1>6. /\ h'[a].todo = h[a].todo \ {q} /\ h'[a].upTo = h[a].upTo
      /\ h'[a].seq = h[a].seq /\ h'[a].id = h[a].id
      /\ \A c \in Clients : c # a => h'[c] = h[c]
  BY <1>3, <1>5 DEF Locals
<1>7. UNCHANGED <<top, lastSeq, asked, seen, link, base, pc>>  BY DEF Replay, db
<1>8. q.seq = top => q = r  BY DEF TrueOf, HandlerTrue
<1>9. \A d : (Known(d, r)' <=> Known(d, r)) /\ Presented(d)' = Presented(d)
  BY <1>7 DEF Known, Presented
<1>10. \A d \in Devices : DeviceTrue(d, r)'  BY <1>7, <1>9 DEF TrueOf, DeviceTrue
<1>11. ASSUME NEW c \in Clients
       PROVE  /\ QueueTrue(c, r)'
              /\ Before(c, Len(queue[c]) + 1, r) => Before(c, Len(queue[c]) + 1, r)'
              /\ c = a /\ c \in link /\ q = r => Before(c, Len(queue[c]) + 1, r)'
  <2>1. QueueTrue(c, r)  BY DEF TrueOf
  <2>2. SendTo({a}, m)  BY <1>1, <1>2
  <2> QED  BY <1>4, <1>7, <1>8, <2>1, <2>2, SendTrue
<1>12. ASSUME NEW c \in Clients, c # a PROVE HandlerTrue(c, r)'
  <2>1. HandlerTrue(c, r)  BY DEF TrueOf
  <2>2. h'[c] = h[c]  BY <1>6, <1>12
  <2> QED  BY <1>7, <1>9, <1>11, <2>1, <2>2, HandlerKeeps
<1>13. HandlerTrue(a, r)'
  <2>1. HandlerTrue(a, r)  BY DEF TrueOf
  <2>2. pc[a] = "replay" /\ h[a].upTo = top /\ a \in link =>
          r \in h'[a].todo \/ Before(a, Len(queue[a]) + 1, r)'
    BY <1>6, <1>11, <2>1 DEF HandlerTrue
  <2> QED  BY <1>6, <1>7, <1>9, <2>1, <2>2 DEF HandlerTrue
<1> QED  BY <1>10, <1>11, <1>12, <1>13 DEF TrueOf

LEMMA CaughtUpTrue ==
  ASSUME TypeOK, NEW r, TrueOf(r), NEW a \in Clients, CaughtUp(a)
  PROVE  TrueOf(r)'
<1> USE RelayAssumption DEF TypeOK
<1>1. PICK m : m = Message("caught_up", 0, h[a].upTo)  OBVIOUS
<1>2. h[a] \in Locals  OBVIOUS
<1>3. m \in Msg /\ m.type = "caught_up" /\ m.seq = h[a].upTo
  BY <1>1, <1>2 DEF Message, Msg, Locals
<1>4. /\ pc[a] = "replay" /\ h[a].todo = {} /\ SendTo({a}, m)
      /\ pc' = [pc EXCEPT ![a] = "read"] /\ h' = [h EXCEPT ![a] = NoLocals]
      /\ UNCHANGED <<top, lastSeq, asked, seen, link, base>>
  BY <1>1 DEF CaughtUp, Finish, db
<1>5. m.seq = top => \A c \in {a} \cap Clients : c \in link => Before(c, Len(queue[c]) + 1, r)
  BY <1>3, <1>4 DEF TrueOf, HandlerTrue
<1>6. \A d \in Devices : Presented(d)' \subseteq Presented(d)  BY <1>4 DEF Presented
<1>7. \A c \in Clients :
        \/ pc'[c] = "read" /\ h'[c].todo \subseteq h[c].todo
        \/ pc'[c] = pc[c] /\ h'[c] = h[c]
  BY <1>4 DEF NoLocals
<1> QED  BY <1>3, <1>4, <1>5, <1>6, <1>7, SendingTrue

(* What a handler refuses or cannot do is answered with number 0.          *)
LEMMA AnsweredTrue ==
  ASSUME TypeOK, NEW r, top # 0, TrueOf(r), NEW a \in Clients,
         PushDenied(a) \/ SubscribeDenied(a) \/ InsertFails(a) \/ QueryFails(a)
         \/ (InsertUnconfirmed(a) /\ top' = top)
  PROVE  TrueOf(r)'
<1> USE RelayAssumption DEF TypeOK
<1>1. PICK m \in Msg : m.seq = 0 /\ SendTo({a}, m)
  <2>1. \A t \in {"push_error", "error"} : Message(t, 0, 0) \in Msg /\ Message(t, 0, 0).seq = 0
    BY DEF Message, Msg
  <2> QED  BY <2>1 DEF PushDenied, SubscribeDenied, InsertFails, QueryFails, InsertUnconfirmed
<1>2. UNCHANGED <<top, lastSeq, seen, base, link>>
  BY DEF PushDenied, SubscribeDenied, InsertFails, QueryFails, InsertUnconfirmed, db
<1>3. \A d \in Devices : Presented(d)' \subseteq Presented(d)
  <2>1. CASE asked' = asked  BY <1>2, <2>1 DEF Presented
  <2>2. CASE SubscribeDenied(a)
    <3>1. PICK s \in Presented(DeviceOf[a]) : asked' = [asked EXCEPT ![DeviceOf[a]] = {s}]
      BY <2>2 DEF SubscribeDenied
    <3> QED  BY <1>2, <3>1 DEF Presented
  <2> QED  BY <2>1, <2>2 DEF PushDenied, InsertFails, QueryFails, InsertUnconfirmed
<1>4. \A c \in Clients :
        \/ pc'[c] = "read" /\ h'[c].todo \subseteq h[c].todo
        \/ pc'[c] = pc[c] /\ h'[c] = h[c]
  BY DEF PushDenied, SubscribeDenied, InsertFails, QueryFails, InsertUnconfirmed, Finish, NoLocals
<1> QED  BY <1>1, <1>2, <1>3, <1>4, SendingTrue

(* The ack and the relay of a push bring its own row.                      *)
LEMMA PushedTrue ==
  ASSUME TypeOK, NEW r, TrueOf(r), NEW a \in Clients, Ack(a) \/ AckNoMembers(a) \/ Relay(a)
  PROVE  TrueOf(r)'
<1> USE RelayAssumption DEF TypeOK
<1>1. h[a] \in Locals  OBVIOUS
<1>2. pc[a] \in {"ack", "relay"}  BY DEF Ack, AckNoMembers, Relay
<1>3. PICK C, m : /\ m \in {Message("ack", h[a].id, h[a].seq), Message("sync", h[a].id, h[a].seq)}
                  /\ SendTo(C, m)
  BY DEF Ack, AckNoMembers, Relay
<1>4. m \in Msg /\ m.type \in {"sync", "ack"} /\ m.id = h[a].id /\ m.seq = h[a].seq
  BY <1>1, <1>3 DEF Message, Msg, Locals
<1>5. m.seq = top => m.id = r.id  BY <1>2, <1>4 DEF TrueOf, HandlerTrue
<1>6. UNCHANGED <<top, lastSeq, asked, seen, base, link>>  BY DEF Ack, AckNoMembers, Relay, db
<1>7. \A d \in Devices : Presented(d)' \subseteq Presented(d)  BY <1>6 DEF Presented
<1>8. ASSUME NEW c \in Clients
      PROVE  \/ pc'[c] = "read" /\ h'[c].todo \subseteq h[c].todo
             \/ /\ pc'[c] = "replay" => pc[c] = "replay"
                /\ pc'[c] \in {"compact", "ack", "relay"} => pc[c] \in {"compact", "ack", "relay"}
                /\ h'[c].todo = h[c].todo /\ h'[c].upTo = h[c].upTo
                /\ h'[c].seq = h[c].seq /\ h'[c].id = h[c].id
  <2>1. CASE Ack(a)
    <3>1. h' = [h EXCEPT ![a] = [h[a] EXCEPT !.to = {u \in Users : role[u] # "none"}]]
      BY <2>1 DEF Ack
    <3>2. /\ h'[c].todo = h[c].todo /\ h'[c].upTo = h[c].upTo
          /\ h'[c].seq = h[c].seq /\ h'[c].id = h[c].id
      BY <1>1, <3>1 DEF Locals
    <3>3. pc' = [pc EXCEPT ![a] = "relay"]  BY <2>1 DEF Ack, Goto
    <3> QED  BY <1>2, <3>2, <3>3
  <2>2. CASE AckNoMembers(a)  BY <1>2, <2>2 DEF AckNoMembers, Goto
  <2>3. CASE Relay(a)  BY <2>3 DEF Relay, Finish, NoLocals
  <2> QED  BY <2>1, <2>2, <2>3
<1> QED  BY <1>3, <1>4, <1>5, <1>6, <1>7, <1>8, SendingTrue

(* A row inserted with an older number.                               *)
LEMMA InsertTrue ==
  ASSUME TypeOK, NEW r, TrueOf(r), NEW a \in Clients, Insert(a), top' = top,
         \A q \in rows' : q.seq = top => q = r
  PROVE  TrueOf(r)'
<1> USE RelayAssumption DEF TypeOK
<1>1. PICK new : new = NewRow(a)  OBVIOUS
<1>2. /\ h' = [h EXCEPT ![a] = [h[a] EXCEPT !.id = new.id, !.seq = new.seq]]
      /\ new \in rows' /\ pc' = [pc EXCEPT ![a] = "compact"] /\ pc[a] = "insert"
      /\ UNCHANGED <<queue, lastSeq, asked, seen, base, link>>
  BY <1>1 DEF Insert, AddRow, Goto, net
<1>3. \A c \in Clients : h[c] \in Locals  OBVIOUS
<1>4. /\ h'[a].seq = new.seq /\ h'[a].id = new.id
      /\ \A c \in Clients : h'[c].todo = h[c].todo /\ h'[c].upTo = h[c].upTo
      /\ \A c \in Clients : c # a => h'[c] = h[c]
  BY <1>2, <1>3 DEF Locals
<1>5. new.seq = top => new.id = r.id  BY <1>2
<1>6. \A d : (Known(d, r)' <=> Known(d, r)) /\ Presented(d)' = Presented(d)
  BY <1>2 DEF Known, Presented
<1>7. \A d \in Devices : DeviceTrue(d, r)'  BY <1>6 DEF TrueOf, DeviceTrue
<1>8. \A c, k : Before(c, k, r) => Before(c, k, r)'  BY <1>2, <1>6 DEF Before
<1>9. ASSUME NEW c \in Clients PROVE QueueTrue(c, r)' /\ HandlerTrue(c, r)'
  <2>1. QueueTrue(c, r)'  BY <1>2, <1>8 DEF TrueOf, QueueTrue
  <2>2. HandlerTrue(c, r)  BY DEF TrueOf
  <2>3. CASE c = a
    <3>1. pc'[a] = "compact" /\ h'[a].todo = h[a].todo /\ base'[a] = base[a]  BY <1>2, <1>4
    <3>2. base[a] = top => Known(DeviceOf[a], r)'  BY <1>6, <2>2, <2>3 DEF HandlerTrue
    <3>3. \A q \in h[a].todo : q.seq = top => q = r  BY <2>2, <2>3 DEF HandlerTrue
    <3>4. h'[a].seq = top => h'[a].id = r.id  BY <1>4, <1>5
    <3> QED  BY <2>1, <2>3, <3>1, <3>2, <3>3, <3>4 DEF HandlerTrue
  <2>4. CASE c # a
    <3>1. Before(c, Len(queue[c]) + 1, r) => Before(c, Len(queue[c]) + 1, r)'
      BY <1>2, <1>6 DEF Before
    <3>2. h'[c] = h[c] /\ pc'[c] = pc[c] /\ base'[c] = base[c] /\ link' = link
      BY <1>2, <1>4, <2>4
    <3>3. Known(DeviceOf[c], r) => Known(DeviceOf[c], r)'  BY <1>6
    <3> QED  BY <2>1, <2>2, <3>1, <3>2, <3>3, HandlerKeeps
  <2> QED  BY <2>3, <2>4
<1> QED  BY <1>7, <1>9 DEF TrueOf

(* As long as r is the newest.                                             *)
LEMMA TrueStep ==
  ASSUME SeqInv, TruthInv, NEW r \in rows, r.seq = top, [Next]_vars, top' = top,
         \A q \in rows' : q.seq = top => q = r
  PROVE  TrueOf(r)'
<1> USE RelayAssumption DEF SeqInv, TypeInv, TypeOK
<1>1. TrueOf(r) /\ OneNewest /\ r \in Row /\ top # 0  BY DEF TruthInv, OneWrites
<1>2. CASE UNCHANGED vars  BY <1>1, <1>2, QuietTrue DEF vars
<1>3. ASSUME NEW a \in Clients, Teardown(a) \/ Push(a) \/ Compact(a) \/ CompactFails(a) \/ HubSubscribe(a)
      PROVE  TrueOf(r)'
  <2>1. UNCHANGED <<top, queue, lastSeq, asked, seen, base, link, h>>
    BY <1>3 DEF Teardown, Push, Compact, CompactFails, HubSubscribe, db, net
  <2>2. \A c \in Clients : pc'[c] = pc[c] \/ pc'[c] \in {"closed", "store", "query"}
                           \/ (pc[c] = "compact" /\ pc'[c] = "ack")
    BY <1>3 DEF Teardown, Push, Compact, CompactFails, HubSubscribe, Goto
  <2> QED  BY <1>1, <2>1, <2>2, QuietTrue
<1>4. ASSUME NEW a \in Clients, StoreRead(a) PROVE TrueOf(r)'
  <2>1. h' = [h EXCEPT ![a] = [h[a] EXCEPT !.max = MaxSeq(rows)]]  BY <1>4 DEF StoreRead
  <2>2. \A c \in Clients : h[c] \in Locals  OBVIOUS
  <2>3. \A c \in Clients : h'[c].todo = h[c].todo /\ h'[c].upTo = h[c].upTo
                            /\ h'[c].seq = h[c].seq /\ h'[c].id = h[c].id
    BY <2>1, <2>2 DEF Locals
  <2>4. UNCHANGED <<top, queue, lastSeq, asked, seen, base, link>>  BY <1>4 DEF StoreRead, db, net
  <2>5. \A c \in Clients : pc'[c] = pc[c] \/ pc'[c] = "insert"  BY <1>4 DEF StoreRead, Goto
  <2> QED  BY <1>1, <2>3, <2>4, <2>5, QuietTrue
<1>5. ASSUME NEW a \in Clients, Unsubscribe(a) PROVE TrueOf(r)'
  <2>1. /\ UNCHANGED <<queue, lastSeq, seen, base, link, pc, h>>
        /\ \A d \in Devices : Presented(d)' \subseteq Presented(d)
    BY <1>5 DEF Unsubscribe, Presented
  <2>2. \A d : Known(d, r)' <=> Known(d, r)  BY <2>1 DEF Known
  <2>3. \A d \in Devices : DeviceTrue(d, r)'  BY <1>1, <2>1, <2>2 DEF TrueOf, DeviceTrue
  <2>4. \A c, k : Before(c, k, r)' <=> Before(c, k, r)  BY <2>1, <2>2 DEF Before
  <2>5. ASSUME NEW c \in Clients PROVE QueueTrue(c, r)' /\ HandlerTrue(c, r)'
    <3>1. Before(c, Len(queue[c]) + 1, r) => Before(c, Len(queue[c]) + 1, r)'
      BY <2>1, <2>2 DEF Before
    <3>2. QueueTrue(c, r) /\ HandlerTrue(c, r)  BY <1>1 DEF TrueOf
    <3>3. QueueTrue(c, r)'  BY <2>1, <2>4, <3>2 DEF QueueTrue
    <3> QED  BY <2>1, <2>2, <3>1, <3>2, <3>3, HandlerKeeps
  <2> QED  BY <2>3, <2>5 DEF TrueOf
<1>6. ASSUME NEW u \in Users, Purge(u) \/ \E s \in Roles : SetRole(u, s) PROVE TrueOf(r)'
  <2>1. UNCHANGED <<top, queue, lastSeq, asked, seen, base, link, pc, h>>
    BY <1>6 DEF Purge, SetRole, net
  <2> QED  BY <1>1, <2>1, QuietTrue
<1> QED
  BY <1>1, <1>2, <1>3, <1>4, <1>5, <1>6, ConnectTrue, InsertTrue, SubscribeTrue, QueryTrue,
     ReplayTrue, CaughtUpTrue, AnsweredTrue, PushedTrue, DeliverTrue
  DEF Next, Handler

(* A row with a new highest number: nobody knows of that number yet.       *)
LEMMA FreshTrue ==
  ASSUME SeqInv, NEW a \in Clients, Insert(a) \/ InsertUnconfirmed(a),
         NEW new, new = NewRow(a), top < new.seq
  PROVE  top' = new.seq /\ TrueOf(new)'
<1> USE RelayAssumption DEF SeqInv, TypeInv, TypeOK
<1>2. \A c \in Clients : h[c] \in Locals  OBVIOUS
<1>3. new \in Row /\ top < new.seq  BY <1>2 DEF NewRow, Row, Locals
<1>4. top' = new.seq /\ UNCHANGED <<base, lastSeq, asked>>
  BY <1>3 DEF Insert, InsertUnconfirmed, AddRow, net, Row
<1>5. top \in Nat /\ top' \in Nat /\ \A n \in Nat : n <= top => n # top'  BY <1>3, <1>4 DEF Row
<1>6. \A d \in Devices : DeviceTrue(d, new)'
  BY <1>4, <1>5 DEF DeviceTrue, Presented, Assigned
<1>7. ASSUME NEW c \in Clients PROVE QueueTrue(c, new)'
  <2>1. QueuesAssigned  BY DEF Assigned, QueuesAssigned
  <2>2. queue'[c] = queue[c] \/ queue'[c] = Append(queue[c], Message("push_error", 0, 0))
    BY DEF Insert, InsertUnconfirmed, SendTo, net
  <2>3. queue[c] \in Seq(Msg) /\ Message("push_error", 0, 0) \in Msg
        /\ Message("push_error", 0, 0).seq = 0
    BY DEF Message, Msg
  <2>4. \A k \in 1..Len(queue[c]) : queue[c][k].seq \in Nat /\ queue[c][k].seq <= top
    BY <2>1, <2>3, QueuedSeq DEF QueuesAssigned
  <2>5. PICK m \in Msg : m.seq = 0 /\ (queue'[c] = queue[c] \/ queue'[c] = Append(queue[c], m))
    BY <2>2, <2>3
  <2>6. \A k \in 1..Len(queue'[c]) : queue'[c][k].seq # top'
    <3>1. CASE queue'[c] = queue[c]  BY <1>5, <2>4, <3>1
    <3>2. CASE queue'[c] = Append(queue[c], m)
      <4>1. ASSUME NEW k \in 1..Len(queue'[c])
            PROVE  queue'[c][k] = m \/ (k \in 1..Len(queue[c]) /\ queue'[c][k] = queue[c][k])
        BY <2>3, <3>2
      <4>2. 0 # top' /\ \A k \in 1..Len(queue[c]) : queue[c][k].seq # top'  BY <1>5, <2>4
      <4> QED  BY <2>5, <4>1, <4>2
    <3> QED  BY <2>5, <3>1, <3>2
  <2> QED  BY <2>6 DEF QueueTrue
<1>8. ASSUME NEW c \in Clients PROVE HandlerTrue(c, new)'
  <2>1. /\ h[c].seq \in Nat /\ h[c].upTo \in Nat /\ base[c] \in Nat
        /\ \A q \in h[c].todo : q.seq \in Nat
    BY <1>2 DEF Locals, Row
  <2>2. base[c] # top' /\ h[c].upTo # top' /\ h[c].seq # top' /\ \A q \in h[c].todo : q.seq # top'
    BY <1>5, <2>1 DEF Assigned
  <2>3. CASE Insert(a)
    <3>1. h' = [h EXCEPT ![a] = [h[a] EXCEPT !.id = new.id, !.seq = new.seq]]
      BY <2>3 DEF Insert
    <3>2. /\ h'[c].todo = h[c].todo /\ h'[c].upTo = h[c].upTo
          /\ c # a => h'[c] = h[c]
          /\ c = a => h'[c].id = new.id
      BY <1>2, <3>1 DEF Locals
    <3> QED  BY <1>4, <2>2, <3>2 DEF HandlerTrue
  <2>4. CASE InsertUnconfirmed(a)
    <3>1. h' = [h EXCEPT ![a] = NoLocals] /\ pc' = [pc EXCEPT ![a] = "read"]
      BY <2>4 DEF InsertUnconfirmed, Finish
    <3>2. CASE c = a  BY <1>4, <2>2, <3>1, <3>2 DEF HandlerTrue, NoLocals
    <3>3. CASE c # a
      <4>1. h'[c] = h[c]  BY <3>1, <3>3
      <4> QED  BY <1>4, <2>2, <4>1 DEF HandlerTrue
    <3> QED  BY <3>2, <3>3
  <2> QED  BY <2>3, <2>4
<1> QED  BY <1>4, <1>6, <1>7, <1>8 DEF TrueOf

LEMMA TruthStep ==
  ASSUME OneUser, SeqInv, TruthInv, [Next]_vars, \A u \in Users : ~Purge(u)
  PROVE  TruthInv'
<1> USE RelayAssumption DEF SeqInv, TypeInv, TypeOK
<1>1. OneWrites /\ OneNewest  BY DEF TruthInv
<1>2. ASSUME NEW a \in Clients, Insert(a) \/ InsertUnconfirmed(a) PROVE TruthInv'
  <2>1. PICK new : new = NewRow(a)  OBVIOUS
  <2>2. h[a] \in Locals  OBVIOUS
  <2>3. /\ new.user = UserOf[a] /\ new.seq = h[a].max + 1 /\ new.seq \in Nat \ {0}
    BY <2>1, <2>2 DEF NewRow, Locals
  <2>4. /\ ~Conflict(a) /\ rows' = rows \cup {new}
        /\ top' = IF new.seq > top THEN new.seq ELSE top
    BY <1>2, <2>1 DEF Insert, InsertUnconfirmed, AddRow
  <2>5. OneWrites'
    BY <1>1, <2>3, <2>4 DEF OneWrites, OneUser
  <2>6. CASE new.seq > top
    <3>1. top' = new.seq /\ TrueOf(new)'  BY <1>2, <2>1, <2>3, <2>6, FreshTrue
    <3>2. \A q \in rows : q.seq # top'  BY <2>3, <2>6, <3>1 DEF Bounded, Row
    <3>3. \A q \in rows' : q.seq = top' => q = new  BY <2>4, <3>2
    <3>4. OneNewest'  BY <3>3 DEF OneNewest
    <3> QED  BY <2>5, <3>1, <3>3, <3>4 DEF TruthInv
  <2>7. CASE ~(new.seq > top)
    <3>1. top' = top /\ top > 0  BY <2>3, <2>4, <2>7
    <3>2. PICK r \in rows : r.seq = top  BY <3>1 DEF LatestKept
    <3>3. new.seq # top  BY <1>1, <2>3, <2>4, <3>2 DEF Conflict, OneWrites
    <3>4. \A q \in rows' : q.seq = top => q = r  BY <1>1, <2>4, <3>2, <3>3 DEF OneNewest
    <3>5. TrueOf(r)'  BY <3>1, <3>2, <3>4, TrueStep
    <3>6. OneNewest'  BY <3>1, <3>4 DEF OneNewest
    <3> QED  BY <2>5, <3>1, <3>4, <3>5, <3>6 DEF TruthInv
  <2> QED  BY <2>6, <2>7
<1>3. ASSUME rows' \subseteq rows, top' = top PROVE TruthInv'
  <2>1. OneWrites' /\ OneNewest'  BY <1>1, <1>3 DEF OneWrites, OneNewest
  <2>2. ASSUME NEW r \in rows', r.seq = top' PROVE TrueOf(r)'
    <3>1. r \in rows /\ r.seq = top /\ \A q \in rows' : q.seq = top => q = r
      BY <1>1, <1>3, <2>2 DEF OneNewest
    <3> QED  BY <1>3, <3>1, TrueStep
  <2> QED  BY <2>1, <2>2 DEF TruthInv
<1>4. CASE UNCHANGED vars  BY <1>3, <1>4 DEF vars
<1>5. ASSUME NEW a \in Clients,
             Connect(a) \/ Drop(a) \/ Teardown(a) \/ Push(a) \/ PushDenied(a)
             \/ Subscribe(a) \/ SubscribeDenied(a) \/ Unsubscribe(a) \/ Deliver(a)
      PROVE  rows' \subseteq rows /\ top' = top
  BY <1>5 DEF Connect, Drop, Teardown, Push, PushDenied, Subscribe,
              SubscribeDenied, Unsubscribe, Deliver, db, net
<1>6. ASSUME NEW a \in Clients,
             StoreRead(a) \/ InsertFails(a) \/ Compact(a) \/ CompactFails(a)
             \/ Ack(a) \/ AckNoMembers(a) \/ Relay(a) \/ HubSubscribe(a)
             \/ Query(a) \/ QueryFails(a) \/ Replay(a) \/ CaughtUp(a)
      PROVE  rows' \subseteq rows /\ top' = top
  BY <1>6 DEF StoreRead, InsertFails, Compact, CompactFails, Ack, AckNoMembers,
              Relay, HubSubscribe, Query, QueryFails, Replay, CaughtUp, db, net
<1>7. ASSUME NEW u \in Users, NEW s \in Roles, SetRole(u, s)
      PROVE  rows' \subseteq rows /\ top' = top
  BY <1>7 DEF SetRole, net
<1> QED  BY <1>2, <1>3, <1>4, <1>5, <1>6, <1>7 DEF Next, Handler

(* Once purged, the document stays empty: the user's rows refer to users.  *)
LEMMA PurgedStep ==
  ASSUME TypeInv, [Next]_vars, Purged
  PROVE  Purged'
<1> USE RelayAssumption DEF TypeInv, TypeOK
<1>1. \A a \in Clients : ~Insert(a) /\ ~InsertUnconfirmed(a)
  BY DEF Purged, Insert, InsertUnconfirmed, Conflict
<1>2. CASE UNCHANGED vars  BY <1>2 DEF vars, Purged
<1>3. ASSUME NEW a \in Clients,
             Connect(a) \/ Drop(a) \/ Teardown(a) \/ Push(a) \/ PushDenied(a)
             \/ Subscribe(a) \/ SubscribeDenied(a) \/ Unsubscribe(a) \/ Deliver(a)
      PROVE  rows' \subseteq rows /\ account' \subseteq account
  BY <1>3 DEF Connect, Drop, Teardown, Push, PushDenied, Subscribe,
              SubscribeDenied, Unsubscribe, Deliver, db, net
<1>4. ASSUME NEW a \in Clients,
             StoreRead(a) \/ InsertFails(a) \/ Compact(a) \/ CompactFails(a)
             \/ Ack(a) \/ AckNoMembers(a) \/ Relay(a) \/ HubSubscribe(a)
             \/ Query(a) \/ QueryFails(a) \/ Replay(a) \/ CaughtUp(a)
      PROVE  rows' \subseteq rows /\ account' \subseteq account
  BY <1>4 DEF StoreRead, InsertFails, Compact, CompactFails, Ack, AckNoMembers,
              Relay, HubSubscribe, Query, QueryFails, Replay, CaughtUp, db, net
<1>5. ASSUME NEW u \in Users, Purge(u) \/ \E s \in Roles : SetRole(u, s)
      PROVE  rows' \subseteq rows /\ account' \subseteq account
  BY <1>5 DEF Purge, SetRole, net
<1>6. CASE rows' \subseteq rows /\ account' \subseteq account  BY <1>6 DEF Purged
<1> QED  BY <1>1, <1>2, <1>3, <1>4, <1>5, <1>6 DEF Next, Handler

TruthOrPurged == TypeInv /\ (Purged \/ (SeqInv /\ TruthInv))

LEMMA TruthOrPurgedStep == ASSUME OneUser, TruthOrPurged, [Next]_vars PROVE TruthOrPurged'
<1>1. TypeInv'  BY TypeStep DEF TruthOrPurged
<1>2. CASE Purged  BY <1>1, <1>2, PurgedStep DEF TruthOrPurged
<1>3. CASE SeqInv /\ TruthInv
  <2>1. CASE \A u \in Users : ~Purge(u)
    <3>1. LatestKept' /\ Assigned'  BY <1>3, <2>1, SeqStep
    <3>2. TruthInv'  BY <1>3, <2>1, TruthStep
    <3> QED  BY <1>1, <3>1, <3>2 DEF TruthOrPurged, SeqInv
  <2>2. ASSUME NEW u \in Users, Purge(u) PROVE TruthOrPurged'
    <3>1. PICK c \in Clients : UserOf[c] = u
      <4>1. link \subseteq Clients  BY DEF TruthOrPurged, TypeInv, TypeOK
      <4> QED  BY <2>2, <4>1 DEF Purge
    <3>2. rows' = {r \in rows : r.user # u} /\ account' = account \ {u}  BY <2>2 DEF Purge
    <3>3. rows' = {}  BY <1>3, <3>1, <3>2 DEF TruthInv, OneWrites
    <3>4. \A o \in Clients : UserOf[o] = u  BY <3>1 DEF OneUser
    <3> QED  BY <1>1, <3>2, <3>3, <3>4 DEF TruthOrPurged, Purged
  <2> QED  BY <2>1, <2>2
<1> QED  BY <1>2, <1>3 DEF TruthOrPurged

(* A device that would present the current number, or a later one, has the *)
(* current snapshot, whatever fails, reconnects or is told in between: for *)
(* one user, whose unique constraint keeps two pushes from one number (two *)
(* users' may share it: db.go, StoreVaultMessage).                         *)
THEOREM UpToDateIsTrueAlways == OneUser => (Spec => []UpToDateIsTrue)
<1> SUFFICES ASSUME OneUser PROVE Spec => []UpToDateIsTrue  OBVIOUS
<1>1. Init => TruthOrPurged
  <2>1. Init => TypeInv /\ SeqInv  BY TypeInit, SeqInit DEF SeqInv
  <2>2. Init => rows = {}  BY DEF Init
  <2> QED  BY <2>1, <2>2 DEF TruthOrPurged, TruthInv, OneWrites, OneNewest
<1>2. TruthOrPurged /\ [Next]_vars => TruthOrPurged'  BY TruthOrPurgedStep
<1>3. TruthOrPurged => UpToDateIsTrue
  <2> SUFFICES ASSUME TruthOrPurged, NEW d \in Devices, NEW r \in rows, r.seq = top, r.device # d,
                      NEW n \in Presented(d), n >= top
               PROVE  r.id \in seen[d]
    BY DEF UpToDateIsTrue
  <2>1. SeqInv /\ TruthInv  BY DEF TruthOrPurged, Purged
  <2>2. n \in Nat /\ top \in Nat /\ n <= top
    BY <2>1 DEF SeqInv, TypeInv, TypeOK, Assigned, Presented
  <2>3. n = top  BY <2>2
  <2> QED  BY <2>1, <2>3 DEF TruthInv, TrueOf, DeviceTrue, Known
<1> QED  BY <1>1, <1>2, <1>3, PTL DEF Spec
=============================================================================
