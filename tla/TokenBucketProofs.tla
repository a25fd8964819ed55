-------------------------- MODULE TokenBucketProofs ---------------------------
(***************************************************************************)
(* The rate limiter keeps to its bargain for every rate, burst and least   *)
(* wait that BucketAssumption allows, however the messages are timed.      *)
(***************************************************************************)
EXTENDS TokenBucket, TLAPS

(* Truncating twice grants no more than truncating once: what is refilled  *)
(* at two messages is no more than what the time between them is worth.    *)
LEMMA Truncated ==
  ASSUME NEW x \in Nat, NEW y \in Nat, NEW s \in Nat \ {0}
  PROVE  (x \div s) + (y \div s) <= (x + y) \div s
<1> DEFINE p == x \div s
           q == y \div s
           r == (x + y) \div s
<1>1. p \in Nat /\ p * s <= x
  OBVIOUS
<1>2. q \in Nat /\ q * s <= y
  OBVIOUS
<1>3. r \in Nat /\ x + y < (r + 1) * s
  OBVIOUS
<1> HIDE DEF p, q, r
<1>4. (p + q) * s < (r + 1) * s
  <2>1. (p + q) * s = p * s + q * s
    BY <1>1, <1>2
  <2>2. p * s \in Nat /\ q * s \in Nat /\ (r + 1) * s \in Nat
    BY <1>1, <1>2, <1>3
  <2> QED BY <2>1, <2>2, <1>1, <1>2, <1>3
<1>5. p + q <= r
  <2> SUFFICES ASSUME p + q >= r + 1 PROVE FALSE
    BY <1>1, <1>2, <1>3
  <2>1. (p + q) * s >= (r + 1) * s
    BY <1>1, <1>2, <1>3
  <2> QED BY <2>1, <1>1, <1>2, <1>3, <1>4
<1> QED BY <1>5 DEF p, q, r

(* A longer wait is worth no less: who has waited for as long as one token *)
(* takes is granted one.                                                   *)
LEMMA Granted ==
  ASSUME NEW x \in Nat, NEW s \in Nat \ {0}, x >= s
  PROVE  x \div s >= 1
OBVIOUS

LEMMA ProductGrows ==
  ASSUME NEW m \in Nat, NEW n \in Nat, NEW k \in Nat, m <= n
  PROVE  m * k <= n * k
OBVIOUS

-----------------------------------------------------------------------------
(* What has been let through and what is left is the burst and the refills,*)
(* each of which fits into the time between two messages.                  *)
Earned == taken + tokens <= Burst + (lastTick * PerSec) \div Second

IInv == BucketTypeOK /\ Earned

(* A refill keeps the tokens within the burst and within what was earned.  *)
LEMMA RefillBounds ==
  ASSUME IInv
  PROVE  /\ Refilled \in 0..Burst
         /\ taken + Refilled <= Burst + (now * PerSec) \div Second
<1> DEFINE old == lastTick * PerSec
           new == (now - lastTick) * PerSec
<1>1. /\ PerSec \in Nat \ {0} /\ Burst \in Nat \ {0} /\ Second \in Nat \ {0}
      /\ now \in Nat /\ lastTick \in Nat /\ lastTick <= now
      /\ tokens \in 0..Burst /\ taken \in Nat
  BY BucketAssumption DEF IInv, BucketTypeOK
<1>2. now - lastTick \in Nat
  BY <1>1
<1>3. old \in Nat /\ new \in Nat
  BY <1>1, <1>2
<1>4. now * PerSec = old + new
  BY <1>1
<1>5. taken + tokens <= Burst + (old \div Second)
  BY DEF IInv, Earned
<1>6. old \div Second \in Nat /\ new \div Second \in Nat
  BY <1>1, <1>3
<1>7. (old + new) \div Second \in Nat
  BY <1>1, <1>3
<1>8. (old \div Second) + (new \div Second) <= (old + new) \div Second
  BY <1>1, <1>3, Truncated
<1>9. Refilled = IF tokens + (new \div Second) > Burst THEN Burst ELSE tokens + (new \div Second)
  BY DEF Refilled
<1> HIDE DEF old, new
<1> QED BY <1>1, <1>4, <1>5, <1>6, <1>7, <1>8, <1>9

LEMMA TimeEarns ==
  ASSUME IInv
  PROVE  (lastTick * PerSec) \div Second <= (now * PerSec) \div Second
<1>1. /\ PerSec \in Nat /\ Second \in Nat \ {0}
      /\ now \in Nat /\ lastTick \in Nat /\ now - lastTick \in Nat
  BY BucketAssumption DEF IInv, BucketTypeOK
<1> DEFINE old == lastTick * PerSec
           new == (now - lastTick) * PerSec
<1>2. old \in Nat /\ new \in Nat /\ now * PerSec = old + new
  BY <1>1
<1>3. new \div Second \in Nat /\ old \div Second \in Nat /\ (old + new) \div Second \in Nat
  BY <1>1, <1>2
<1>4. (old \div Second) + (new \div Second) <= (old + new) \div Second
  BY <1>1, <1>2, Truncated
<1> HIDE DEF old, new
<1> SUFFICES old \div Second <= (now * PerSec) \div Second
  BY DEF old
<1> QED BY <1>2, <1>3, <1>4

-----------------------------------------------------------------------------
LEMMA InitIInv == BucketInit => IInv
<1> SUFFICES ASSUME BucketInit PROVE IInv
  OBVIOUS
<1>1. BucketTypeOK
  <2>1. refused \in BOOLEAN
    BY Zenon DEF BucketInit
  <2>2. tokens \in 0..Burst /\ now \in 0..MaxTime /\ lastTick \in 0..now /\ taken \in Nat
    BY BucketAssumption DEF BucketInit
  <2> QED BY <2>1, <2>2 DEF BucketTypeOK
<1>2. Earned
  <2>1. lastTick * PerSec = 0 /\ 0 \div Second = 0
    BY BucketAssumption DEF BucketInit
  <2> QED BY <2>1, BucketAssumption DEF BucketInit, Earned
<1> QED BY <1>1, <1>2 DEF IInv

LEMMA NextIInv == IInv /\ [BucketNext]_bucketVars => IInv'
<1> SUFFICES ASSUME IInv, [BucketNext]_bucketVars PROVE IInv'
  OBVIOUS
<1> USE BucketAssumption
<1>1. CASE Pass
  BY <1>1 DEF Pass, IInv, BucketTypeOK, Earned
<1>2. CASE Allow
  <2>1. Refilled \in 1..Burst /\ taken + Refilled <= Burst + (now * PerSec) \div Second
    BY <1>2, RefillBounds DEF Allow
  <2>2. BucketTypeOK'
    <3>1. refused' \in BOOLEAN
      BY <1>2, Zenon DEF Allow
    <3>2. (tokens \in 0..Burst /\ now \in 0..MaxTime /\ lastTick \in 0..now /\ taken \in Nat)'
      BY <1>2, <2>1 DEF Allow, IInv, BucketTypeOK
    <3> QED BY <3>1, <3>2 DEF BucketTypeOK
  <2>3. Earned'
    <3>1. taken' + tokens' = taken + Refilled
      BY <1>2, <2>1 DEF Allow, IInv, BucketTypeOK
    <3> QED BY <1>2, <2>1, <3>1 DEF Allow, Earned
  <2> QED BY <2>2, <2>3 DEF IInv
<1>3. CASE Limit
  <2>1. BucketTypeOK'
    BY <1>3 DEF Limit, IInv, BucketTypeOK
  <2>2. taken + 0 <= Burst + (now * PerSec) \div Second
    BY <1>3, RefillBounds DEF Limit
  <2>3. Earned'
    BY <1>3, <2>2 DEF Limit, Earned
  <2> QED BY <2>1, <2>3 DEF IInv
<1>4. CASE UNCHANGED bucketVars
  BY <1>4 DEF bucketVars, IInv, BucketTypeOK, Earned
<1> QED BY <1>1, <1>2, <1>3, <1>4 DEF BucketNext

(* What has been let through is bounded by what time has earned.           *)
LEMMA IInvRateHolds == IInv => RateHolds
<1> SUFFICES ASSUME IInv PROVE RateHolds
  OBVIOUS
<1>1. taken \in Nat /\ Refilled \in Nat
  BY RefillBounds, BucketAssumption DEF IInv, BucketTypeOK
<1>2. taken + Refilled <= Burst + (now * PerSec) \div Second
  BY RefillBounds
<1>3. (now * PerSec) \div Second \in Nat
  BY BucketAssumption DEF IInv, BucketTypeOK
<1> QED BY <1>1, <1>2, <1>3, BucketAssumption DEF RateHolds

(* Who has waited as long as told has at least the one token the least     *)
(* wait is worth.                                                          *)
LEMMA IInvWait ==
  ASSUME IInv, now >= lastTick + Retry
  PROVE  Refilled > 0
<1>1. /\ PerSec \in Nat \ {0} /\ Burst \in Nat \ {0} /\ Second \in Nat \ {0} /\ MinRetry \in Nat
      /\ MinRetry * PerSec >= Second
      /\ now \in Nat /\ lastTick \in Nat /\ tokens \in Nat
  BY BucketAssumption DEF IInv, BucketTypeOK
<1>2. Retry \in Nat /\ Retry >= MinRetry
  <2>1. Hint \in Nat
    BY <1>1 DEF Hint
  <2> QED BY <1>1, <2>1 DEF Retry
<1>3. now - lastTick \in Nat /\ MinRetry <= now - lastTick
  BY <1>1, <1>2
<1>4. MinRetry * PerSec <= (now - lastTick) * PerSec
  BY <1>1, <1>3, ProductGrows
<1> DEFINE new == (now - lastTick) * PerSec
<1>5. new \in Nat /\ new >= Second
  BY <1>1, <1>3, <1>4
<1>6. new \div Second \in Nat /\ new \div Second >= 1
  BY <1>1, <1>5, Granted
<1>7. Refilled = IF tokens + (new \div Second) > Burst THEN Burst ELSE tokens + (new \div Second)
  BY DEF Refilled
<1> HIDE DEF new
<1> QED BY <1>1, <1>6, <1>7

(* Whatever the times of the messages and for every configuration the      *)
(* assumption allows, no more goes through than burst and rate, and who    *)
(* waits as long as it was told is not refused again (rateAllow).          *)
THEOREM LimiterKeepsWordAlways == BucketSpec => []LimiterKeepsWord
<1>1. IInv => LimiterKeepsWord
  BY IInvRateHolds, IInvWait DEF LimiterKeepsWord
<1> QED BY InitIInv, NextIInv, <1>1, PTL DEF BucketSpec
=============================================================================
