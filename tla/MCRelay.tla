------------------------------- MODULE MCRelay -------------------------------
(* Instances of RelayServer: three connections, of three devices of one    *)
(* user, of two users, or of two users one of whom reconnects while the    *)
(* server still holds the old connection.                                  *)
EXTENDS RelayServer, TLC

CONSTANTS u1, u2, d1, d2, d3, c1, c2, c3

OneUser == [c \in Clients |-> u1]
TwoUsers == [c \in Clients |-> IF c = c1 THEN u1 ELSE u2]
WithViewer == [u \in Users |-> IF u = u1 THEN "editor" ELSE "viewer"]
OneEditor == [u \in Users |-> "editor"]
ThreeDevices == [c \in Clients |-> IF c = c1 THEN d1 ELSE IF c = c2 THEN d2 ELSE d3]
Reconnecting == [c \in Clients |-> IF c = c1 THEN d1 ELSE d2]
=============================================================================
