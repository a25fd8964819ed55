----------------------------- MODULE MCMembership -----------------------------
(* Instances of VaultMembership: a vault of three users, the founder with   *)
(* two connections and the editor with one, or the founder's two alone.     *)
EXTENDS VaultMembership, TLC

CONSTANTS u1, u2, u3, c1, c2, c3

TwoUsers == [c \in Clients |-> IF c = c3 THEN u2 ELSE u1]
Shared == [u \in Users |-> IF u = u1 THEN "owner" ELSE IF u = u2 THEN "editor" ELSE "viewer"]
=============================================================================
