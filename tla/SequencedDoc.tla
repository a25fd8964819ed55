----------------------------- MODULE SequencedDoc -----------------------------
(***************************************************************************)
(* What the relay promises about sequence numbers, whatever its handlers   *)
(* do: the document's number goes up one at a time and never back, and a   *)
(* device records only numbers that have been assigned.  A device ahead of *)
(* the server would be sent nothing until the server caught up with it.    *)
(***************************************************************************)
EXTENDS Naturals

CONSTANT Devices

VARIABLES latest,   \* the document's current sequence number
          lastSeq   \* the number each device has recorded

Init == latest = 0 /\ lastSeq = [d \in Devices |-> 0]

Publish == latest' = latest + 1 /\ UNCHANGED lastSeq

Observe(d) ==
  /\ \E s \in 0..latest : lastSeq' = [lastSeq EXCEPT ![d] = s]
  /\ UNCHANGED latest

Next == Publish \/ \E d \in Devices : Observe(d)

Spec == Init /\ [][Next]_<<latest, lastSeq>>

=============================================================================
