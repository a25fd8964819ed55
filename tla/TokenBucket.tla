----------------------------- MODULE TokenBucket ------------------------------
(***************************************************************************)
(* The rate limiter of a connection (rateAllow in sync/client.go) and the  *)
(* time a browser is told to wait.  The clock counts ticks, `Second` to a  *)
(* second; the refill is truncated to whole tokens at every message, the   *)
(* fraction that has grown is lost.                                        *)
(***************************************************************************)
EXTENDS Naturals

CONSTANTS
  PerSec, Burst,  \* RateConfig
  Second,         \* ticks in a second
  MinRetry,       \* the least a browser is told to wait (100 ms)
  MaxTime         \* bound: the clock

(* The time to wait, rounded down, for one token.                          *)
Hint == Second \div PerSec

(* Variant: no least time.                                                 *)
Retry_Hint == Hint

Retry == IF Hint < MinRetry THEN MinRetry ELSE Hint

(* As for 30 a second and 100 ms, and any PerSec above 10.                 *)
ASSUME BucketAssumption ==
  /\ PerSec \in Nat \ {0} /\ Burst \in Nat \ {0} /\ Second \in Nat \ {0}
  /\ MinRetry \in Nat /\ MaxTime \in Nat
  /\ MinRetry * PerSec >= Second

VARIABLES
  now,       \* the clock
  tokens, lastTick,
  taken,     \* messages let through
  refused    \* the last message was not, and the browser waits

bucketVars == <<now, tokens, lastTick, taken, refused>>

BucketInit == now = 0 /\ tokens = Burst /\ lastTick = 0 /\ taken = 0 /\ refused = FALSE

Refilled ==
  LET grown == tokens + ((now - lastTick) * PerSec) \div Second
  IN  IF grown > Burst THEN Burst ELSE grown

Pass ==
  /\ now < MaxTime /\ now' = now + 1
  /\ UNCHANGED <<tokens, lastTick, taken, refused>>

(* Variant: the time of the last message is kept from a refusal only.      *)
Allow_KeepTick ==
  /\ Refilled > 0
  /\ tokens' = Refilled - 1 /\ taken' = taken + 1 /\ refused' = FALSE
  /\ UNCHANGED <<now, lastTick>>

Allow ==
  /\ Refilled > 0
  /\ tokens' = Refilled - 1 /\ lastTick' = now /\ taken' = taken + 1 /\ refused' = FALSE
  /\ UNCHANGED now

Limit ==
  /\ Refilled = 0
  /\ tokens' = 0 /\ lastTick' = now /\ refused' = TRUE
  /\ UNCHANGED <<now, taken>>

BucketNext == Pass \/ Allow \/ Limit

BucketSpec == BucketInit /\ [][BucketNext]_bucketVars

-----------------------------------------------------------------------------
BucketTypeOK ==
  /\ tokens \in 0..Burst /\ now \in 0..MaxTime /\ lastTick \in 0..now
  /\ taken \in Nat /\ refused \in BOOLEAN

(* Whatever the times of its messages, a browser gets no more through than *)
(* its burst and PerSec for every second ...                               *)
RateHolds == taken <= Burst + (now * PerSec) \div Second

(* ... and if it waits as long as it was told it is not refused again: the *)
(* limiter keeps to both sides of its bargain.                             *)
LimiterKeepsWord ==
  /\ RateHolds
  /\ refused /\ now >= lastTick + Retry => Refilled > 0
=============================================================================
