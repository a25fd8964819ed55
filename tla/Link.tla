-------------------------------- MODULE Link ----------------------------------
(***************************************************************************)
(* The connection of a browser (lib/sync-client.ts): the heartbeat and the *)
(* probes that find it dead, the reconnection, and the operations that     *)
(* wait for a confirmation.                                                *)
(***************************************************************************)
EXTENDS Naturals

CONSTANTS
  Asks,       \* operations under way
  Twins,      \* those of them that wait for the same type of confirmation
  MaxPings,   \* bound: probes
  MaxDrops    \* bound: times the network fails

ASSUME LinkAssumption == Twins \subseteq Asks /\ MaxPings \in Nat /\ MaxDrops \in Nat

VARIABLES
  socket,    \* "connecting", "open", "closing", "closed"
  network,   \* messages get through
  pong,      \* a message of the server is on its way
  beating,   \* the interval of the heartbeat runs
  watch,     \* heartbeatTimeout: "none", "beat", "probe"
  strays,    \* how many timers heartbeatTimeout no longer holds
  retry,     \* reconnectTimer
  wanted,    \* ~intentionalClose
  asks,      \* each operation: "idle", "waiting", "done", "failed"
  holder,    \* confirmResolvers: operations an answer of their type ends
  asked,     \* requests whose answer is to come
  budget     \* probes and network failures left

linkVars == <<socket, network, pong, beating, watch, strays, retry, wanted, asks, holder, asked, budget>>

link == <<socket, network, pong, beating, watch, strays, retry, wanted>>

waits == <<asks, holder, asked>>

LinkInit ==
  /\ socket = "closed" /\ network = TRUE /\ pong = FALSE /\ beating = FALSE /\ watch = "none"
  /\ strays = 0 /\ retry = TRUE /\ wanted = TRUE
  /\ asks = [a \in Asks |-> "idle"] /\ holder = {} /\ asked = {}
  /\ budget = [probe |-> MaxPings, drop |-> MaxDrops]

-----------------------------------------------------------------------------
(* The socket.                                                             *)

(* scheduleReconnect's timer: connect.                                     *)
Reconnect ==
  /\ retry /\ retry' = FALSE /\ socket' = "connecting" /\ wanted' = TRUE
  /\ UNCHANGED <<network, pong, beating, watch, strays, waits, budget>>

(* Variant: the heartbeat is not started.                                  *)
Open_Silent ==
  /\ socket = "connecting" /\ network
  /\ socket' = "open" /\ watch' = "none"
  /\ UNCHANGED <<network, pong, beating, strays, retry, wanted, waits, budget>>

(* onopen: connect is sent and startHeartbeat called.                      *)
Open ==
  /\ socket = "connecting" /\ network
  /\ socket' = "open" /\ beating' = TRUE /\ watch' = "none"
  /\ UNCHANGED <<network, pong, strays, retry, wanted, waits, budget>>

(* onclose, after a close of ours, the server's or a failure to connect.   *)
OnClose ==
  /\ socket \in {"closing", "open"} \/ (socket = "connecting" /\ ~network)
  /\ socket' = "closed" /\ beating' = FALSE /\ watch' = "none" /\ pong' = FALSE
  /\ retry' = wanted /\ asked' = {}
  /\ UNCHANGED <<network, strays, wanted, asks, holder, budget>>

(* An operation's close (disconnect, auth_failed).                         *)
Disconnect ==
  /\ wanted /\ wanted' = FALSE /\ beating' = FALSE /\ watch' = "none" /\ retry' = FALSE
  /\ socket' = IF socket = "closed" THEN "closed" ELSE "closing"
  /\ UNCHANGED <<network, pong, strays, waits, budget>>

(* Another login makes the connection again.                               *)
Connect ==
  /\ ~wanted /\ socket = "closed" /\ retry' = TRUE /\ wanted' = TRUE
  /\ UNCHANGED <<socket, network, pong, beating, watch, strays, waits, budget>>

NetworkFails ==
  /\ network /\ budget.drop > 0 /\ budget' = [budget EXCEPT !.drop = @ - 1]
  /\ network' = FALSE /\ pong' = FALSE /\ asked' = {}
  /\ UNCHANGED <<socket, beating, watch, strays, retry, wanted, asks, holder>>

NetworkReturns ==
  /\ ~network /\ network' = TRUE
  /\ UNCHANGED <<socket, pong, beating, watch, strays, retry, wanted, waits, budget>>

-----------------------------------------------------------------------------
(* The heartbeat.                                                          *)

(* The interval's ping.  Its 25 s leave time for the timer of the ping     *)
(* before, but not for a probe's: the new timer takes its place, and it    *)
(* runs on.                                                                *)
Beat ==
  /\ beating /\ socket = "open" /\ watch # "beat"
  /\ watch' = "beat" /\ strays' = IF watch = "probe" THEN strays + 1 ELSE strays
  /\ pong' = (pong \/ network)
  /\ UNCHANGED <<socket, network, beating, retry, wanted, waits, budget>>

(* A change of the network or of the tab's visibility.                     *)
Probe ==
  /\ socket = "open" /\ budget.probe > 0 /\ budget' = [budget EXCEPT !.probe = @ - 1]
  /\ watch' = "probe" /\ pong' = (pong \/ network)
  /\ UNCHANGED <<socket, network, beating, strays, retry, wanted, waits>>

(* Any message clears heartbeatTimeout, and no other timer.                *)
Heard == watch' = "none" /\ UNCHANGED strays

Message ==
  /\ pong /\ socket \in {"open", "closing"} /\ pong' = FALSE /\ Heard
  /\ UNCHANGED <<socket, network, beating, retry, wanted, waits, budget>>

(* A timer closes the socket there is by now.                              *)
TimerFires ==
  /\ watch # "none" /\ watch' = "none"
  /\ socket' = "closing"
  /\ UNCHANGED <<network, pong, beating, strays, retry, wanted, waits, budget>>

StrayFires ==
  /\ strays > 0 /\ strays' = strays - 1
  /\ socket' = IF socket = "closed" THEN "closed" ELSE "closing"
  /\ UNCHANGED <<network, pong, beating, watch, retry, wanted, waits, budget>>

-----------------------------------------------------------------------------
(* Operations that wait (awaitConfirmation, lookupUser).                   *)

Alike(a) == IF a \in Twins THEN Twins ELSE {a}

(* The resolver of a like operation under way is replaced.                 *)
Ask(a) ==
  /\ asks[a] = "idle"
  /\ IF socket = "open"
       THEN /\ asks' = [asks EXCEPT ![a] = "waiting"] /\ holder' = (holder \ Alike(a)) \cup {a}
            /\ asked' = IF network THEN asked \cup {a} ELSE asked
       ELSE asks' = [asks EXCEPT ![a] = "failed"] /\ UNCHANGED <<holder, asked>>
  /\ UNCHANGED <<link, budget>>

Ends(who, how) == asks' = [a \in Asks |-> IF a \in who THEN how ELSE asks[a]] /\ holder' = holder \ who

(* The confirmation of a, or another user's act announced by its type.     *)
Confirmed(a) ==
  /\ a \in asked /\ socket = "open" /\ asked' = asked \ {a}
  /\ Ends(holder \cap Alike(a), "done") /\ Heard
  /\ UNCHANGED <<socket, network, pong, beating, retry, wanted, budget>>

(* An error names no operation: it rejects every one there is.             *)
Refused(a) ==
  /\ a \in asked /\ socket = "open" /\ asked' = asked \ {a}
  /\ Ends(holder, "failed") /\ Heard
  /\ UNCHANGED <<socket, network, pong, beating, retry, wanted, budget>>

(* Variant: an operation whose resolver was replaced is not rejected.      *)
AskTimesOut_Held(a) ==
  /\ asks[a] = "waiting" /\ a \in holder /\ Ends({a}, "failed")
  /\ UNCHANGED <<link, asked, budget>>

(* Its own timer rejects it, and drops the resolver of its type.           *)
AskTimesOut(a) ==
  /\ asks[a] = "waiting"
  /\ asks' = [asks EXCEPT ![a] = "failed"] /\ holder' = holder \ Alike(a)
  /\ UNCHANGED <<link, asked, budget>>

(* The dialog is used again.                                               *)
Again(a) ==
  /\ asks[a] = "done" /\ a \notin asked /\ asks' = [asks EXCEPT ![a] = "idle"]
  /\ UNCHANGED <<link, holder, asked, budget>>

LinkNext ==
  \/ Reconnect \/ Open \/ OnClose \/ Disconnect \/ Connect \/ NetworkFails \/ NetworkReturns
  \/ Beat \/ Probe \/ Message \/ TimerFires \/ StrayFires
  \/ \E a \in Asks : Ask(a) \/ Confirmed(a) \/ Refused(a) \/ AskTimesOut(a) \/ Again(a)

Closing == socket = "closing" /\ OnClose

LinkSpec ==
  /\ LinkInit /\ [][LinkNext]_linkVars
  /\ WF_linkVars(Beat) /\ WF_linkVars(TimerFires) /\ WF_linkVars(Closing) /\ WF_linkVars(Reconnect)
  /\ \A a \in Asks : WF_linkVars(AskTimesOut(a))

-----------------------------------------------------------------------------
LinkTypeOK ==
  /\ socket \in {"connecting", "open", "closing", "closed"} /\ watch \in {"none", "beat", "probe"}
  /\ strays \in 0..MaxPings /\ holder \subseteq {a \in Asks : asks[a] = "waiting"}
  /\ asked \subseteq Asks

(* Nothing waits for ever on a connection: one that is dead is noticed,    *)
(* and every operation ends, whoever replaced its resolver.                *)
DeadIsNoticed ==
  /\ (socket = "open" /\ ~network) ~> (socket # "open" \/ network)
  /\ \A a \in Asks : (asks[a] = "waiting") ~> (asks[a] # "waiting")
=============================================================================
