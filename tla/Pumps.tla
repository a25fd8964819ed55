-------------------------------- MODULE Pumps ---------------------------------
(***************************************************************************)
(* What the server has for a browser, on its way out (sync/client.go): the *)
(* channel enqueue, QueuePump's own queue (fifo), the channel Send and     *)
(* WritePump; the goroutines that put messages in with the hub's lock held *)
(* (sync/hub.go), and the end of the connection, which waits for that lock.*)
(*                                                                         *)
(* One connection is modelled in full, and of the others what they do to   *)
(* it: broadcast, and register or leave.  A message is its place in the    *)
(* order in which enqueue accepted them.                                   *)
(***************************************************************************)
EXTENDS Naturals, Sequences

CONSTANTS
  Posters,      \* goroutines of other connections
  ChanSize,     \* capacity of enqueue and of Send (256)
  MaxQueueSize, \* maxQueueSize (10000)
  MaxPosts      \* bound: messages

ASSUME PumpsAssumption ==
  ChanSize \in Nat \ {0} /\ MaxQueueSize \in Nat \ {0} /\ MaxPosts \in Nat

VARIABLES
  enqueue, fifo, sendCh,  \* enqueue, QueuePump's queue, Send
  frame,      \* the message WritePump writes, <<>> or of length one
  got,        \* what the browser has received
  accepted,   \* messages enqueue has accepted
  dropped,    \* those QueuePump dropped
  posts,      \* messages begun
  pumping,    \* QueuePump runs
  writer,     \* WritePump: "idle", "write", "ping", "gone"
  reader,     \* ReadPump: "read", "handle", "close", "gone"
  wire,       \* the connection is open
  done,       \* done is closed
  posting,    \* posters that hold the hub's read lock
  other,      \* another connection waits for the hub's write lock
  inHub       \* the connection is registered

flow == <<enqueue, fifo, sendCh, frame, got, accepted, dropped>>
routines == <<pumping, writer, reader, wire, done>>
hub == <<posting, other, inHub>>
pumpVars == <<flow, posts, routines, hub>>

PumpsInit ==
  /\ enqueue = <<>> /\ fifo = <<>> /\ sendCh = <<>> /\ frame = <<>> /\ got = <<>>
  /\ accepted = 0 /\ dropped = {} /\ posts = 0
  /\ pumping = TRUE /\ writer = "idle" /\ reader = "read" /\ wire = TRUE /\ done = FALSE
  /\ posting = {} /\ other = FALSE /\ inHub = TRUE

-----------------------------------------------------------------------------
(* Putting messages in.                                                    *)

(* Variant: done does not release who waits for room.                      *)
PutIn_NoDone ==
  /\ Len(enqueue) < ChanSize /\ enqueue' = Append(enqueue, accepted + 1)
  /\ accepted' = accepted + 1

(* Enqueue: a message is accepted once there is room, or forgotten once    *)
(* the connection is at its end; if both are so, either.                   *)
PutIn ==
  \/ /\ Len(enqueue) < ChanSize /\ enqueue' = Append(enqueue, accepted + 1)
     /\ accepted' = accepted + 1
  \/ /\ done /\ UNCHANGED <<enqueue, accepted>>

Unwritten == UNCHANGED <<fifo, sendCh, frame, got, dropped>>

(* A broadcast takes the read lock, which a waiting writer holds up.       *)
RLock(p) ==
  /\ posts < MaxPosts /\ posts' = posts + 1
  /\ p \notin posting /\ ~other /\ reader # "close"
  /\ posting' = posting \cup {p}
  /\ UNCHANGED <<flow, routines, other, inHub>>

(* It puts its message into every subscriber's queue and unlocks.         *)
Broadcast(p) ==
  /\ p \in posting /\ posting' = posting \ {p}
  /\ IF inHub THEN PutIn ELSE UNCHANGED <<enqueue, accepted>>
  /\ Unwritten /\ UNCHANGED <<posts, routines, other, inHub>>

(* Another connection asks for the write lock, and gets it.                *)
OtherWaits ==
  /\ ~other /\ other' = TRUE
  /\ UNCHANGED <<flow, posts, routines, posting, inHub>>

OtherLocks ==
  /\ other /\ posting = {} /\ other' = FALSE
  /\ UNCHANGED <<flow, posts, routines, posting, inHub>>

-----------------------------------------------------------------------------
(* QueuePump.                                                              *)

(* Variant: with something to send, nothing is taken in.                   *)
TakeIn_WhenIdle ==
  /\ pumping /\ enqueue # <<>> /\ fifo = <<>> /\ enqueue' = Tail(enqueue)
  /\ fifo' = <<Head(enqueue)>>
  /\ UNCHANGED <<sendCh, frame, got, accepted, dropped, posts, routines, hub>>

(* A message is taken in, or dropped at the bound.                         *)
TakeIn ==
  /\ pumping /\ enqueue # <<>> /\ enqueue' = Tail(enqueue)
  /\ IF Len(fifo) < MaxQueueSize
       THEN fifo' = Append(fifo, Head(enqueue)) /\ UNCHANGED dropped
       ELSE dropped' = dropped \cup {Head(enqueue)} /\ UNCHANGED fifo
  /\ UNCHANGED <<sendCh, frame, got, accepted, posts, routines, hub>>

(* Variant: the message taken in last is the first to be sent.             *)
HandOn_Newest ==
  /\ pumping /\ fifo # <<>> /\ Len(sendCh) < ChanSize
  /\ sendCh' = Append(sendCh, fifo[Len(fifo)]) /\ fifo' = SubSeq(fifo, 1, Len(fifo) - 1)
  /\ UNCHANGED <<enqueue, frame, got, accepted, dropped, posts, routines, hub>>

HandOn ==
  /\ pumping /\ fifo # <<>> /\ Len(sendCh) < ChanSize
  /\ sendCh' = Append(sendCh, Head(fifo)) /\ fifo' = Tail(fifo)
  /\ UNCHANGED <<enqueue, frame, got, accepted, dropped, posts, routines, hub>>

(* It ends with done, and closes Send.                                     *)
QueueEnds ==
  /\ pumping /\ done /\ pumping' = FALSE
  /\ UNCHANGED <<flow, posts, writer, reader, wire, done, hub>>

-----------------------------------------------------------------------------
(* WritePump.                                                              *)

WriteNext ==
  /\ writer = "idle" /\ sendCh # <<>>
  /\ writer' = "write" /\ frame' = <<Head(sendCh)>> /\ sendCh' = Tail(sendCh)
  /\ UNCHANGED <<enqueue, fifo, got, accepted, dropped, posts, pumping, reader, wire, done, hub>>

Written ==
  /\ writer = "write" /\ wire
  /\ writer' = "idle" /\ frame' = <<>> /\ got' = got \o frame
  /\ UNCHANGED <<enqueue, fifo, sendCh, accepted, dropped, posts, pumping, reader, wire, done, hub>>

(* A write fails, or is not done in writeWait, which closes the connection.*)
WriteFails ==
  /\ writer = "write" /\ writer' = "gone" /\ wire' = FALSE
  /\ UNCHANGED <<flow, posts, pumping, reader, done, hub>>

Ping ==
  /\ writer = "idle" /\ writer' = "ping"
  /\ UNCHANGED <<flow, posts, pumping, reader, wire, done, hub>>

(* Only ReadPump, when it reads, sees the pong.                            *)
Pong ==
  /\ writer = "ping" /\ wire /\ reader = "read" /\ writer' = "idle"
  /\ UNCHANGED <<flow, posts, pumping, reader, wire, done, hub>>

(* No pong in writeWait: WritePump ends, and with it all that is sent; the *)
(* library may close the connection or leave it open.                      *)
PingFails ==
  /\ writer = "ping" /\ writer' = "gone" /\ wire' \in {wire, FALSE}
  /\ UNCHANGED <<flow, posts, pumping, reader, done, hub>>

(* Send is closed and empty, or the request's context has ended.           *)
WriteEnds ==
  /\ writer = "idle" /\ ((~pumping /\ sendCh = <<>>) \/ reader = "gone")
  /\ writer' = "gone"
  /\ UNCHANGED <<flow, posts, pumping, reader, wire, done, hub>>

-----------------------------------------------------------------------------
(* ReadPump and the browser.                                               *)

(* A message comes ...                                                     *)
Read ==
  /\ reader = "read" /\ wire /\ reader' = "handle"
  /\ posts < MaxPosts /\ posts' = posts + 1
  /\ UNCHANGED <<flow, pumping, writer, wire, done, hub>>

(* ... and its handler puts the answer in the queue (sendJSON); what it   *)
(* broadcasts is a poster's.                                               *)
AnswerIt ==
  /\ reader = "handle" /\ PutIn /\ reader' = "read"
  /\ Unwritten /\ UNCHANGED <<posts, pumping, writer, wire, done, hub>>

(* The connection is closed by then, or the browser floods it with pings.  *)
ReadEnds ==
  /\ reader = "read" /\ reader' = "close" /\ done' = TRUE
  /\ UNCHANGED <<flow, posts, pumping, writer, wire, hub>>

(* Unregister, once nobody broadcasts, and the connection is closed.       *)
Unregister ==
  /\ reader = "close" /\ posting = {}
  /\ inHub' = FALSE /\ reader' = "gone" /\ wire' = FALSE
  /\ UNCHANGED <<flow, posts, pumping, writer, done, posting, other>>

Cut ==
  /\ wire /\ wire' = FALSE
  /\ UNCHANGED <<flow, posts, pumping, writer, reader, done, hub>>

(* A browser that hears nothing closes (Link's DeadIsNoticed).             *)
MuteCut == writer = "gone" /\ Cut

PumpsNext ==
  \/ \E p \in Posters : RLock(p) \/ Broadcast(p)
  \/ OtherWaits \/ OtherLocks
  \/ TakeIn \/ HandOn \/ QueueEnds
  \/ WriteNext \/ Written \/ WriteFails \/ Ping \/ Pong \/ PingFails \/ WriteEnds
  \/ Read \/ AnswerIt \/ ReadEnds \/ Unregister \/ Cut

ReadError == ~wire /\ ReadEnds
Queueing == TakeIn \/ HandOn \/ QueueEnds
Writing == Written \/ WriteFails

PumpsSpec ==
  /\ PumpsInit /\ [][PumpsNext]_pumpVars
  /\ \A p \in Posters : WF_pumpVars(Broadcast(p))
  /\ WF_pumpVars(OtherLocks) /\ WF_pumpVars(Queueing) /\ WF_pumpVars(Writing)
  /\ WF_pumpVars(AnswerIt) /\ WF_pumpVars(ReadError) /\ WF_pumpVars(Unregister)
  /\ WF_pumpVars(MuteCut)

-----------------------------------------------------------------------------
PumpsTypeOK ==
  /\ Len(enqueue) <= ChanSize /\ Len(sendCh) <= ChanSize /\ Len(fifo) <= MaxQueueSize
  /\ Len(frame) <= 1 /\ posting \subseteq Posters
  /\ writer \in {"idle", "write", "ping", "gone"} /\ reader \in {"read", "handle", "close", "gone"}

(* A browser receives the messages in the order in which they were         *)
(* accepted, and but for those dropped at the bound none is left out: the  *)
(* channel that RelayServer takes for granted.                             *)
InOrder ==
  LET kept == (1..accepted) \ dropped
  IN  \A i \in DOMAIN got :
        /\ got[i] \in kept /\ \A j \in DOMAIN got : i < j => got[i] < got[j]
        /\ \A k \in kept : k <= got[i] => \E j \in DOMAIN got : got[j] = k

(* However slow, deaf or dead the connection, who broadcasts to it comes   *)
(* to the end, and so does who waits for the hub's lock; and a connection  *)
(* nothing is written to any more leaves the hub, so that the browser has  *)
(* all sent again to its next one.                                         *)
HubGoesOn ==
  /\ \A p \in Posters : (p \in posting) ~> (p \notin posting)
  /\ other ~> ~other
  /\ (writer = "gone") ~> ~inHub
=============================================================================
