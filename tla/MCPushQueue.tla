----------------------------- MODULE MCPushQueue -----------------------------
(* Instances of PushQueue: document a, which belongs to the vault book.    *)
EXTENDS PushQueue, TLC

CONSTANTS a, book

OneVault == [d \in Docs |-> book]
=============================================================================
