----------------------------- MODULE ServicesProofs -----------------------------
(***************************************************************************)
(* Proofs about what works behind the page and the server's end of a       *)
(* connection.                                                             *)
(***************************************************************************)
EXTENDS MCServices, TokenBucketProofs, FiniteSetTheorems, SequenceTheorems, TLAPS

-----------------------------------------------------------------------------
(* Blobs.                                                                  *)

KeySet == 1..bookKey
Stage == [of : Pics, key : 0..bookKey, at : {"process", "blob", "flag"},
          way : {"paste", "import", "left"}]
Upload == [of : Pics, key : KeySet, flush : BOOLEAN, answer : {"none", "ok", "failed"}]
FlushSet == [todo : SUBSET Pics, busy : BOOLEAN]

BlobTypes ==
  /\ odds \in 0..MaxOdds /\ bookKey \in 1..(odds + 1)
  /\ local \in [Pics -> 0..bookKey] /\ remote \in [Pics -> 0..bookKey]
  /\ unsent \subseteq Pics /\ links \subseteq Pics /\ pasted \subseteq Pics
  /\ storing \subseteq Stage /\ uploads \subseteq Upload /\ flush \in FlushSet

(* What is flagged, about to be flagged or listed by a flush is stored; an *)
(* upload that was answered has arrived.                                   *)
Stored == {c \in Pics : local[c] # 0}
Arrived == {c \in Pics : remote[c] # 0}
BlobInv ==
  /\ BlobTypes
  /\ unsent \subseteq Stored /\ flush.todo \subseteq Stored
  /\ \A s \in storing : /\ s.at # "process" => s.key # 0
                        /\ s.at = "flag" => s.of \in Stored
  /\ \A u \in uploads : u.answer = "ok" => u.of \in Arrived
  /\ links \subseteq Arrived \cup unsent

LEMMA BlobsStart == BlobsInit => BlobInv
<1> SUFFICES ASSUME BlobsInit PROVE BlobInv  OBVIOUS
<1>1. BlobTypes  BY BlobsAssumption DEF BlobsInit, BlobTypes, FlushSet, Idle
<1>2. links \subseteq Arrived  BY BlobsAssumption DEF BlobsInit, Arrived
<1> QED  BY <1>1, <1>2 DEF BlobsInit, BlobInv, Idle

LEMMA BlobStep == ASSUME BlobInv, [BlobsNext]_blobVars PROVE BlobInv'
<1> USE BlobsAssumption
<1>t. BlobTypes  BY DEF BlobInv
<1>0. CASE UNCHANGED blobVars
  BY <1>0 DEF blobVars, BlobInv, BlobTypes, KeySet, Stage, Upload, Stored, Arrived
<1>1. ASSUME NEW c \in Pics, Paste(c) \/ Import(c) PROVE BlobInv'
  <2>1. PICK way \in {"paste", "import"} :
          storing' = storing \cup {[of |-> c, key |-> 0, at |-> "process", way |-> way]}
    BY <1>1 DEF Paste, Import
  <2>2. [of |-> c, key |-> 0, at |-> "process", way |-> way] \in Stage
    BY <1>t DEF BlobTypes, Stage
  <2>3. pasted' \subseteq Pics
        /\ UNCHANGED <<bookKey, local, unsent, remote, links, uploads, flush, odds>>
    BY <1>1, <1>t DEF Paste, Import, BlobTypes
  <2>4. BlobTypes'  BY <1>t, <2>1, <2>2, <2>3 DEF BlobTypes, KeySet, Stage, Upload
  <2> QED  BY <2>1, <2>3, <2>4 DEF BlobInv, Stored, Arrived
<1>2. ASSUME NEW s \in storing, ProcessAsset(s) PROVE BlobInv'
  <2> DEFINE t == [s EXCEPT !.at = "blob", !.key = bookKey]
  <2>1. t \in Stage /\ t.at = "blob" /\ t.key = bookKey /\ t.of = s.of
    <3>1. s \in Stage /\ bookKey \in 0..bookKey  BY <1>t DEF BlobTypes
    <3> QED  BY <3>1 DEF Stage
  <2>2. storing' = (storing \ {s}) \cup {t}
        /\ UNCHANGED <<bookKey, local, unsent, remote, links, pasted, uploads, flush, odds>>
    BY <1>2 DEF ProcessAsset
  <2> HIDE DEF t
  <2>3. BlobTypes'  BY <1>t, <2>1, <2>2 DEF BlobTypes, KeySet, Stage, Upload
  <2>4. t.key # 0  BY <1>t, <2>1 DEF BlobTypes
  <2> QED  BY <2>1, <2>2, <2>3, <2>4 DEF BlobInv, Stored, Arrived
<1>3. ASSUME NEW s \in storing, Refuse(s) PROVE BlobInv'
  <2>1. storing' = storing \ {s} /\ pasted' \subseteq pasted /\ odds' = odds + 1 /\ odds < MaxOdds
        /\ UNCHANGED <<bookKey, local, unsent, remote, links, uploads, flush>>
    BY <1>3 DEF Refuse, Odd
  <2>2. BlobTypes'  BY <1>t, <2>1 DEF BlobTypes, KeySet, Stage, Upload
  <2> QED  BY <2>1, <2>2 DEF BlobInv, Stored, Arrived
<1>4. ASSUME NEW s \in storing, PutBlob(s) PROVE BlobInv'
  <2> DEFINE t == [s EXCEPT !.at = "flag"]
  <2>1. s \in Stage /\ s.key # 0  BY <1>t, <1>4 DEF PutBlob, BlobInv, BlobTypes
  <2>2. t \in Stage /\ t.at = "flag" /\ t.key = s.key /\ t.of = s.of
    BY <2>1 DEF Stage
  <2>3. storing' = (storing \ {s}) \cup {t} /\ local' = [local EXCEPT ![s.of] = s.key]
        /\ UNCHANGED <<bookKey, unsent, remote, links, pasted, uploads, flush, odds>>
    BY <1>4 DEF PutBlob
  <2> HIDE DEF t
  <2>4. local' \in [Pics -> 0..bookKey]  BY <1>t, <2>1, <2>3 DEF BlobTypes, Stage
  <2>5. BlobTypes'  BY <1>t, <2>2, <2>3, <2>4 DEF BlobTypes, KeySet, Stage, Upload
  <2>6. s.of \in Pics  BY <2>1 DEF Stage
  <2>7. Stored' = Stored \cup {s.of}  BY <1>t, <2>1, <2>3, <2>6 DEF Stored, BlobTypes
  <2> QED  BY <2>1, <2>2, <2>3, <2>5, <2>7 DEF BlobInv, Arrived
<1>5. ASSUME NEW s \in storing, PutFlag(s) PROVE BlobInv'
  <2> DEFINE u == [of |-> s.of, key |-> s.key, flush |-> FALSE, answer |-> "none"]
  <2>1. s \in Stage /\ s.key # 0 /\ s.of \in Stored
    BY <1>t, <1>5 DEF PutFlag, BlobInv, BlobTypes
  <2>2. s.key \in KeySet /\ s.of \in Pics  BY <1>t, <2>1 DEF Stage, KeySet, BlobTypes
  <2>3. u \in Upload /\ u.answer = "none"  BY <2>2 DEF Upload
  <2>4. /\ unsent' = unsent \cup {s.of} /\ storing' = storing \ {s}
        /\ links' \subseteq links \cup {s.of} /\ pasted' \subseteq pasted
        /\ uploads' = uploads \cup {u}
        /\ UNCHANGED <<bookKey, local, remote, flush, odds>>
    BY <1>5 DEF PutFlag
  <2> HIDE DEF u
  <2>5. BlobTypes'  BY <1>t, <2>2, <2>3, <2>4 DEF BlobTypes, KeySet, Stage, Upload
  <2> QED  BY <2>1, <2>3, <2>4, <2>5 DEF BlobInv, Stored, Arrived
<1>6. ASSUME NEW u \in uploads, Arrive(u) PROVE BlobInv'
  <2> DEFINE w == [u EXCEPT !.answer = "ok"]
  <2>1. u \in Upload /\ u.of \in Pics /\ u.key \in KeySet /\ u.key # 0
    BY <1>t DEF BlobTypes, Upload, KeySet
  <2>2. w \in Upload /\ w.of = u.of  BY <2>1 DEF Upload
  <2>3. /\ remote' = IF remote[u.of] = 0 THEN [remote EXCEPT ![u.of] = u.key] ELSE remote
        /\ uploads' = (uploads \ {u}) \cup {w}
        /\ UNCHANGED <<bookKey, local, unsent, links, pasted, storing, flush, odds>>
    BY <1>6 DEF Arrive
  <2> HIDE DEF w
  <2>4. remote' \in [Pics -> 0..bookKey]  BY <1>t, <2>1, <2>3 DEF BlobTypes, KeySet
  <2>5. BlobTypes'  BY <1>t, <2>2, <2>3, <2>4 DEF BlobTypes, KeySet, Stage, Upload
  <2>6. Arrived' = Arrived \cup {u.of}  BY <1>t, <2>1, <2>3 DEF Arrived, BlobTypes
  <2> QED  BY <2>2, <2>3, <2>5, <2>6 DEF BlobInv, Stored
<1>7. ASSUME NEW u \in uploads, Fail(u) PROVE BlobInv'
  <2> DEFINE w == [u EXCEPT !.answer = "failed"]
  <2>1. w \in Upload /\ w.answer = "failed"  BY <1>t DEF BlobTypes, Upload
  <2>2. /\ uploads' = (uploads \ {u}) \cup {w} /\ odds' = odds + 1 /\ odds < MaxOdds
        /\ UNCHANGED <<bookKey, local, unsent, remote, links, pasted, storing, flush>>
    BY <1>7 DEF Fail, Odd
  <2> HIDE DEF w
  <2>3. BlobTypes'  BY <1>t, <2>1, <2>2 DEF BlobTypes, KeySet, Stage, Upload
  <2> QED  BY <2>1, <2>2, <2>3 DEF BlobInv, Stored, Arrived
<1>8. ASSUME NEW u \in uploads, Answer(u) PROVE BlobInv'
  <2>1. /\ uploads' = uploads \ {u}
        /\ unsent' = IF u.answer = "ok" THEN unsent \ {u.of} ELSE unsent
        /\ UNCHANGED <<bookKey, local, remote, links, pasted, storing, odds>>
    BY <1>8 DEF Answer
  <2>2. flush' \in FlushSet /\ flush'.todo = flush.todo
    BY <1>8, <1>t DEF Answer, BlobTypes, FlushSet
  <2>3. BlobTypes'  BY <1>t, <2>1, <2>2 DEF BlobTypes, KeySet, Stage, Upload
  <2> QED  BY <2>1, <2>2, <2>3 DEF BlobInv, Stored, Arrived
<1>9. CASE Flush
  <2>1. flush' = [todo |-> unsent, busy |-> FALSE]
        /\ UNCHANGED <<bookKey, local, unsent, remote, links, pasted, storing, uploads, odds>>
    BY <1>9 DEF Flush
  <2>2. flush' \in FlushSet /\ flush'.todo = unsent  BY <1>t, <2>1 DEF BlobTypes, FlushSet
  <2>3. BlobTypes'  BY <1>t, <2>1, <2>2 DEF BlobTypes, KeySet, Stage, Upload
  <2> QED  BY <2>1, <2>2, <2>3 DEF BlobInv, Stored, Arrived
<1>10. ASSUME NEW c \in Pics, FlushNext(c) PROVE BlobInv'
  <2> DEFINE u == [of |-> c, key |-> local[c], flush |-> TRUE, answer |-> "none"]
  <2>1. local[c] \in KeySet
    BY <1>t, <1>10 DEF FlushNext, BlobInv, Stored, BlobTypes, KeySet
  <2>2. u \in Upload /\ u.answer = "none"  BY <2>1 DEF Upload
  <2>3. /\ flush' = [todo |-> flush.todo \ {c}, busy |-> TRUE] /\ uploads' = uploads \cup {u}
        /\ UNCHANGED <<bookKey, local, unsent, remote, links, pasted, storing, odds>>
    BY <1>10 DEF FlushNext
  <2> HIDE DEF u
  <2>4. flush' \in FlushSet /\ flush'.todo \subseteq flush.todo
    BY <1>t, <2>3 DEF BlobTypes, FlushSet
  <2>5. BlobTypes'  BY <1>t, <2>2, <2>3, <2>4 DEF BlobTypes, KeySet, Stage, Upload
  <2> QED  BY <2>2, <2>3, <2>4, <2>5 DEF BlobInv, Stored, Arrived
<1>11. ASSUME NEW c \in Pics, Load(c) PROVE BlobInv'
  <2>1. local' = [local EXCEPT ![c] = remote[c]] /\ remote[c] # 0
        /\ UNCHANGED <<bookKey, unsent, remote, links, pasted, storing, uploads, flush, odds>>
    BY <1>11 DEF Load
  <2>2. BlobTypes'  BY <1>t, <2>1 DEF BlobTypes, KeySet, Stage, Upload
  <2>3. Stored \subseteq Stored'  BY <1>t, <2>1 DEF Stored, BlobTypes
  <2> QED  BY <2>1, <2>2, <2>3 DEF BlobInv, Arrived
<1>12. CASE LeaveRecipe
  <2>1. /\ storing' = {IF s.way = "paste" THEN [s EXCEPT !.way = "left"] ELSE s : s \in storing}
        /\ odds' = odds + 1 /\ odds < MaxOdds
        /\ UNCHANGED <<bookKey, local, unsent, remote, links, pasted, uploads, flush>>
    BY <1>12 DEF LeaveRecipe, Odd
  <2>2. ASSUME NEW t \in storing'
        PROVE  t \in Stage /\ (t.at # "process" => t.key # 0) /\ (t.at = "flag" => t.of \in Stored)
    <3>1. PICK s \in storing : t = IF s.way = "paste" THEN [s EXCEPT !.way = "left"] ELSE s
      BY <2>1
    <3>2. s \in Stage /\ (s.at # "process" => s.key # 0) /\ (s.at = "flag" => s.of \in Stored)
      BY <1>t DEF BlobInv, BlobTypes
    <3>3. t \in Stage /\ t.at = s.at /\ t.key = s.key /\ t.of = s.of
      BY <3>1, <3>2 DEF Stage
    <3> QED  BY <3>2, <3>3
  <2>3. storing' \subseteq Stage'  BY <2>1, <2>2 DEF Stage
  <2>4. BlobTypes'  BY <1>t, <2>1, <2>3 DEF BlobTypes, KeySet, Stage, Upload
  <2> QED  BY <2>1, <2>2, <2>4 DEF BlobInv, Stored, Arrived
<1>13. CASE RotateKey
  <2>1. bookKey' = bookKey + 1 /\ odds' = odds + 1 /\ odds < MaxOdds
        /\ UNCHANGED <<local, unsent, remote, links, pasted, storing, uploads, flush>>
    BY <1>13 DEF RotateKey, Odd
  <2>2. bookKey \in Nat /\ KeySet \subseteq KeySet' /\ 0..bookKey \subseteq 0..bookKey'
        /\ odds' \in 0..MaxOdds /\ bookKey' \in 1..(odds' + 1)
    BY <1>t, <2>1 DEF BlobTypes, KeySet
  <2>3. Stage \subseteq Stage' /\ Upload \subseteq Upload'  BY <2>2 DEF Stage, Upload
  <2>4. local' \in [Pics -> 0..bookKey'] /\ remote' \in [Pics -> 0..bookKey']
    BY <1>t, <2>1, <2>2 DEF BlobTypes
  <2>5. BlobTypes'  BY <1>t, <2>1, <2>2, <2>3, <2>4 DEF BlobTypes
  <2> QED  BY <2>1, <2>5 DEF BlobInv, Stored, Arrived
<1>14. CASE ReloadPage
  <2>1. storing' = {} /\ flush' = Idle /\ uploads' = {} /\ odds' = odds + 1 /\ odds < MaxOdds
        /\ UNCHANGED <<bookKey, local, unsent, remote, links, pasted>>
    BY <1>14 DEF ReloadPage, Odd
  <2>2. flush' \in FlushSet /\ flush'.todo = {}  BY <2>1 DEF Idle, FlushSet
  <2>3. BlobTypes'  BY <1>t, <2>1, <2>2 DEF BlobTypes, KeySet, Stage, Upload
  <2> QED  BY <2>1, <2>2, <2>3 DEF BlobInv, Stored, Arrived
<1> QED
  BY <1>0, <1>1, <1>2, <1>3, <1>4, <1>5, <1>6, <1>7, <1>8, <1>9, <1>10, <1>11,
     <1>12, <1>13, <1>14 DEF BlobsNext, Stores, Sends, Flushes

LEMMA BlobsKeep == BlobsSpec => []BlobInv
<1>1. BlobInv /\ [BlobsNext]_blobVars => BlobInv'  BY BlobStep
<1> QED  BY BlobsStart, <1>1, PTL DEF BlobsSpec

(* Blobs keeps its types: nothing is stored under a key the book never had.*)
THEOREM BlobsTypeCorrect == BlobsSpec => []BlobsTypeOK
<1>1. BlobInv => BlobsTypeOK
  BY BlobsAssumption DEF BlobInv, BlobTypes, BlobsTypeOK, FlushSet
<1> QED  BY BlobsKeep, <1>1, PTL

(* blob-client.ts:59 "dirty flag ensures retry on reconnect": a picture a  *)
(* recipe refers to is on the server, or stored here and flagged, through  *)
(* failures, reloads and key rotations in the middle of anything.          *)
THEOREM LinkedIsKeptAlways == BlobsSpec => []LinkedIsKept
<1>1. BlobInv => LinkedIsKept  BY DEF BlobInv, LinkedIsKept, Stored, Arrived
<1> QED  BY BlobsKeep, <1>1, PTL

-----------------------------------------------------------------------------
(* Pumps: every message accepted and not dropped is once on its way, from  *)
(* the browser back to the channel, in the order in which it was accepted. *)

Line == got \o (frame \o (sendCh \o (fifo \o enqueue)))
Ascends(s) == \A i, j \in DOMAIN s : i < j => s[i] < s[j]
Holds(s, S) == \A k \in Nat : k \in S <=> \E i \in DOMAIN s : s[i] = k

PipeTypes ==
  /\ enqueue \in Seq(Nat) /\ fifo \in Seq(Nat) /\ sendCh \in Seq(Nat) /\ frame \in Seq(Nat) /\ got \in Seq(Nat)
  /\ accepted \in Nat

FlowInv ==
  /\ PipeTypes /\ PumpsTypeOK
  /\ writer \in {"idle", "ping"} => frame = <<>>
  /\ dropped \subseteq 1..accepted
  /\ Ascends(Line) /\ Holds(Line, (1..accepted) \ dropped)

Grouped(a, b, c) == (a \o b) \o c = a \o (b \o c)

LEMMA Regrouped == \A a, b, c \in Seq(Nat) : Grouped(a, b, c)
BY DEF Grouped

(* Two channels in a row: what goes from the one to the other keeps its    *)
(* place.                                                                  *)
LEMMA Passed ==
  \A a, b, c \in Seq(Nat) : b # <<>> => Append(a, Head(b)) \o (Tail(b) \o c) = a \o (b \o c)
<1> SUFFICES ASSUME NEW a \in Seq(Nat), NEW b \in Seq(Nat), NEW c \in Seq(Nat), b # <<>>
             PROVE  Append(a, Head(b)) \o (Tail(b) \o c) = a \o (b \o c)
  OBVIOUS
<1>1. Head(b) \in Nat /\ Tail(b) \in Seq(Nat) /\ Append(a, Head(b)) \in Seq(Nat)  OBVIOUS
<1>2. PICK n : n = <<Head(b)>>  OBVIOUS
<1>3. n \in Seq(Nat) /\ Append(a, Head(b)) = a \o n  BY <1>1, <1>2
<1>4. n \o Tail(b) = b
  <2>1. n \o Tail(b) \in Seq(Nat) /\ Len(n \o Tail(b)) = Len(b)  BY <1>1, <1>2
  <2>2. \A i \in 1..Len(b) : (n \o Tail(b))[i] = b[i]  BY <1>1, <1>2
  <2> QED  BY <2>1, <2>2, SeqEqual
<1>5. PICK t : t = Tail(b)  OBVIOUS
<1>6. (a \o n) \o (t \o c) = a \o (n \o (t \o c)) /\ n \o (t \o c) = (n \o t) \o c
  <2>1. t \in Seq(Nat)  BY <1>1, <1>5
  <2>2. PICK u : u = t \o c  OBVIOUS
  <2>3. n \in Seq(Nat) /\ u \in Seq(Nat)  BY <1>3, <2>1, <2>2
  <2>4. Grouped(a, n, u) /\ Grouped(n, t, c)  BY <2>1, <2>3, Regrouped, Zenon
  <2> QED  BY <2>2, <2>4 DEF Grouped
<1> QED  BY <1>1, <1>3, <1>4, <1>5, <1>6

(* A message more at the end, and one less from the middle.                *)
LEMMA Lengthened ==
  ASSUME NEW s \in Seq(Nat), NEW n \in Nat, NEW S \in SUBSET (1..n), Ascends(s), Holds(s, S)
  PROVE  LET t == Append(s, n + 1)
         IN  t \in Seq(Nat) /\ Ascends(t) /\ Holds(t, S \cup {n + 1})
<1>1. PICK t : t = Append(s, n + 1)  OBVIOUS
<1>2. /\ t \in Seq(Nat) /\ Len(t) = Len(s) + 1 /\ t[Len(s) + 1] = n + 1
      /\ \A i \in DOMAIN s : i \in 1..Len(s) /\ i \in DOMAIN t /\ t[i] = s[i]
      /\ \A i \in DOMAIN t : i \in DOMAIN s \/ i = Len(s) + 1
  BY <1>1
<1>3. \A i \in DOMAIN s : s[i] \in S /\ s[i] \in Nat /\ s[i] < n + 1
  <2>1. \A i \in DOMAIN s : s[i] \in Nat  OBVIOUS
  <2> QED  BY <2>1 DEF Holds
<1>4. Ascends(t)
  <2> SUFFICES ASSUME NEW i \in DOMAIN t, NEW j \in DOMAIN t, i < j PROVE t[i] < t[j]  BY DEF Ascends
  <2>1. i \in DOMAIN s  BY <1>2
  <2>2. CASE j \in DOMAIN s  BY <1>2, <2>1, <2>2 DEF Ascends
  <2>3. CASE j = Len(s) + 1  BY <1>2, <1>3, <2>1, <2>3
  <2> QED  BY <1>2, <2>2, <2>3
<1>5. Holds(t, S \cup {n + 1})
  <2> SUFFICES ASSUME NEW k \in Nat PROVE k \in S \cup {n + 1} <=> \E i \in DOMAIN t : t[i] = k
    BY DEF Holds
  <2>1. k \in S <=> \E i \in DOMAIN s : s[i] = k  BY DEF Holds
  <2>2. Len(s) + 1 \in DOMAIN t  BY <1>2
  <2> QED  BY <1>2, <2>1, <2>2
<1> QED  BY <1>1, <1>2, <1>4, <1>5

LEMMA Shortened ==
  ASSUME NEW a \in Seq(Nat), NEW b \in Seq(Nat), b # <<>>, NEW S, Ascends(a \o b), Holds(a \o b, S)
  PROVE  Ascends(a \o Tail(b)) /\ Holds(a \o Tail(b), S \ {Head(b)}) /\ Head(b) \in S
<1>1. PICK s : s = a \o b  OBVIOUS
<1>2. PICK t : t = a \o Tail(b)  OBVIOUS
<1>3. PICK m \in Nat : m = Len(a) + 1  OBVIOUS
<1>4. /\ s \in Seq(Nat) /\ t \in Seq(Nat) /\ Len(s) = Len(a) + Len(b) /\ Len(t) = Len(s) - 1 /\ Len(b) > 0
      /\ m \in DOMAIN s /\ s[m] = Head(b)
  BY <1>1, <1>2, <1>3
<1>5. \A i \in 1..Len(t) : t[i] = IF i < m THEN s[i] ELSE s[i + 1]
  <2>1. PICK e : e = Tail(b)  OBVIOUS
  <2>2. e \in Seq(Nat) /\ Len(e) = Len(b) - 1 /\ \A i \in 1..Len(e) : e[i] = b[i + 1]  BY <1>4, <2>1
  <2>3. ASSUME NEW i \in 1..Len(t) PROVE t[i] = IF i < m THEN s[i] ELSE s[i + 1]
    <3>1. CASE i < m  BY <1>1, <1>2, <1>3, <1>4, <2>1, <2>2, <3>1
    <3>2. CASE i >= m
      <4>0. /\ i \in 1..(Len(a) + Len(e)) /\ ~(i <= Len(a)) /\ i - Len(a) \in 1..Len(e)
        BY <1>3, <1>4, <2>2, <3>2
      <4>1. t[i] = e[i - Len(a)] /\ i - Len(a) \in 1..Len(e)
        BY <1>2, <2>1, <2>2, <4>0, ConcatProperties
      <4>2. s[i + 1] = b[i + 1 - Len(a)]  BY <1>1, <1>3, <1>4, <3>2
      <4>3. (i - Len(a)) + 1 = i + 1 - Len(a)  BY <1>4
      <4>4. e[i - Len(a)] = b[(i - Len(a)) + 1]  BY <2>2, <4>1
      <4>5. ~(i < m)  BY <1>3, <3>2
      <4> QED  BY <4>1, <4>2, <4>3, <4>4, <4>5
    <3> QED  BY <1>3, <3>1, <3>2
  <2> QED  BY <2>3
<1>6. Ascends(s) /\ Holds(s, S) /\ DOMAIN s = 1..Len(s) /\ DOMAIN t = 1..Len(t)  BY <1>1, <1>4
<1>10. /\ Len(s) \in Nat /\ Len(t) \in Nat /\ \A i \in 1..Len(s) : s[i] \in Nat
       /\ m \in 1..Len(s) /\ Len(t) = Len(s) - 1
  <2>1. \A i \in 1..Len(s) : s[i] \in Nat  BY <1>4, ElementOfSeq
  <2>2. Len(s) \in Nat /\ Len(t) \in Nat /\ m \in 1..Len(s)  BY <1>3, <1>4
  <2> QED  BY <1>4, <2>1, <2>2
<1>11. \A i \in 1..Len(t) : \E p \in 1..Len(s) : t[i] = s[p] /\ p = IF i < m THEN i ELSE i + 1
  <2> SUFFICES ASSUME NEW i \in 1..Len(t)
               PROVE  \E p \in 1..Len(s) : t[i] = s[p] /\ p = IF i < m THEN i ELSE i + 1
    OBVIOUS
  <2>1. CASE i < m
    <3>1. i \in 1..Len(s)  BY <1>10, <2>1
    <3> QED  BY <1>5, <2>1, <3>1
  <2>2. CASE i >= m
    <3>1. i + 1 \in 1..Len(s) /\ ~(i < m)  BY <1>10, <2>2
    <3> QED  BY <1>5, <3>1
  <2> QED  BY <1>3, <2>1, <2>2
<1>7. Ascends(t)
  <2> SUFFICES ASSUME NEW i \in 1..Len(t), NEW j \in 1..Len(t), i < j PROVE t[i] < t[j]
    BY <1>6 DEF Ascends
  <2>1. PICK p \in 1..Len(s) : t[i] = s[p] /\ p = IF i < m THEN i ELSE i + 1  BY <1>11
  <2>2. PICK q \in 1..Len(s) : t[j] = s[q] /\ q = IF j < m THEN j ELSE j + 1  BY <1>11
  <2>3. p < q  BY <1>3, <2>1, <2>2
  <2> QED  BY <1>6, <2>1, <2>2, <2>3 DEF Ascends
<1>8. Holds(t, S \ {s[m]})
  <2> SUFFICES ASSUME NEW k \in Nat PROVE k \in S \ {s[m]} <=> \E i \in 1..Len(t) : t[i] = k
    BY <1>6 DEF Holds
  <2>1. k \in S <=> \E i \in 1..Len(s) : s[i] = k  BY <1>6 DEF Holds
  <2>2. ASSUME NEW p \in 1..Len(s), p # m PROVE s[p] # s[m]
    <3>1. m \in 1..Len(s) /\ (p < m \/ m < p)  BY <1>3, <1>4, <2>2
    <3>2. s[p] \in Nat /\ s[m] \in Nat  BY <1>10, <3>1
    <3>3. s[p] < s[m] \/ s[m] < s[p]  BY <1>6, <3>1 DEF Ascends
    <3> QED  BY <3>2, <3>3
  <2>3. ASSUME NEW i \in 1..Len(t) PROVE \E p \in 1..Len(s) : t[i] = s[p] /\ p # m
    <3>1. PICK p \in 1..Len(s) : t[i] = s[p] /\ p = IF i < m THEN i ELSE i + 1  BY <1>11
    <3> QED  BY <1>3, <3>1
  <2>4. ASSUME NEW p \in 1..Len(s), p # m PROVE \E i \in 1..Len(t) : t[i] = s[p]
    <3>1. CASE p < m
      <4>1. p \in 1..Len(t)  BY <1>10, <3>1
      <4> QED  BY <1>5, <3>1, <4>1
    <3>2. CASE p > m
      <4>1. p - 1 \in 1..Len(t) /\ ~(p - 1 < m) /\ (p - 1) + 1 = p  BY <1>3, <1>4, <3>2
      <4> QED  BY <1>5, <4>1
    <3> QED  BY <1>3, <2>4, <3>1, <3>2
  <2> QED  BY <2>1, <2>2, <2>3, <2>4
<1>9. s[m] \in S  BY <1>6, <1>10 DEF Holds
<1> QED  BY <1>1, <1>2, <1>4, <1>7, <1>8, <1>9

LEMMA LineTyped == ASSUME PipeTypes PROVE Line \in Seq(Nat)
BY DEF PipeTypes, Line

(* The steps that move no message ...                                      *)
LEMMA FlowStays ==
  ASSUME FlowInv, UNCHANGED flow, PumpsTypeOK', writer' \in {"idle", "ping"} => frame = <<>>
  PROVE  FlowInv'
<1>1. UNCHANGED <<enqueue, fifo, sendCh, frame, got, accepted, dropped>>  BY DEF flow
<1>2. Line' = Line  BY <1>1 DEF Line
<1> QED  BY <1>1, <1>2 DEF FlowInv, PipeTypes

(* ... those that put one in ...                                           *)
LEMMA PutInKeeps ==
  ASSUME FlowInv, PutIn \/ UNCHANGED <<enqueue, accepted>>, Unwritten, UNCHANGED writer,
         posting' \subseteq Posters, reader' \in {"read", "handle", "close", "gone"}
  PROVE  FlowInv'
<1>1. UNCHANGED <<fifo, sendCh, frame, got, dropped, writer>>  BY DEF Unwritten
<1>2. CASE UNCHANGED <<enqueue, accepted>>
  <2>1. UNCHANGED flow  BY <1>1, <1>2 DEF flow
  <2>2. PumpsTypeOK'  BY <1>1, <1>2 DEF FlowInv, PumpsTypeOK
  <2> QED  BY <1>1, <2>1, <2>2, FlowStays DEF FlowInv
<1>3. CASE Len(enqueue) < ChanSize /\ enqueue' = Append(enqueue, accepted + 1) /\ accepted' = accepted + 1
  <2>1. PipeTypes'  BY <1>1, <1>3 DEF FlowInv, PipeTypes
  <2>2. PumpsTypeOK'
    <3>1. Len(enqueue') <= ChanSize  BY <1>3, PumpsAssumption DEF FlowInv, PipeTypes
    <3> QED  BY <1>1, <3>1 DEF FlowInv, PumpsTypeOK
  <2>3. Line' = Append(Line, accepted + 1)
    <3>1. \A a, b \in Seq(Nat) : \A k \in Nat : a \o Append(b, k) = Append(a \o b, k)  OBVIOUS
    <3>2. accepted + 1 \in Nat  BY DEF FlowInv, PipeTypes
    <3>3. fifo \o Append(enqueue, accepted + 1) = Append(fifo \o enqueue, accepted + 1)
      BY <3>1, <3>2 DEF FlowInv, PipeTypes
    <3>4. sendCh \o Append(fifo \o enqueue, accepted + 1) = Append(sendCh \o (fifo \o enqueue), accepted + 1)
      <4>1. fifo \o enqueue \in Seq(Nat) /\ sendCh \in Seq(Nat)  BY DEF FlowInv, PipeTypes
      <4> QED  BY <3>1, <3>2, <4>1
    <3>5. frame \o Append(sendCh \o (fifo \o enqueue), accepted + 1)
            = Append(frame \o (sendCh \o (fifo \o enqueue)), accepted + 1)
      <4>1. sendCh \o (fifo \o enqueue) \in Seq(Nat) /\ frame \in Seq(Nat)  BY DEF FlowInv, PipeTypes
      <4> QED  BY <3>1, <3>2, <4>1
    <3>6. got \o Append(frame \o (sendCh \o (fifo \o enqueue)), accepted + 1)
            = Append(got \o (frame \o (sendCh \o (fifo \o enqueue))), accepted + 1)
      <4>1. frame \o (sendCh \o (fifo \o enqueue)) \in Seq(Nat) /\ got \in Seq(Nat)  BY DEF FlowInv, PipeTypes
      <4> QED  BY <3>1, <3>2, <4>1
    <3> QED  BY <1>1, <1>3, <3>3, <3>4, <3>5, <3>6 DEF Line
  <2>4. PICK S \in SUBSET (1..accepted) : S = (1..accepted) \ dropped  OBVIOUS
  <2>5. Ascends(Line') /\ Holds(Line', S \cup {accepted + 1})
    <3>1. Line \in Seq(Nat) /\ accepted \in Nat /\ Ascends(Line) /\ Holds(Line, S)
      BY <2>4, LineTyped DEF FlowInv, PipeTypes
    <3> QED  BY <2>3, <3>1, Lengthened
  <2>6. S \cup {accepted + 1} = (1..accepted') \ dropped' /\ dropped' \subseteq 1..accepted'
    BY <1>1, <1>3, <2>4 DEF FlowInv, PipeTypes
  <2> QED  BY <1>1, <2>1, <2>2, <2>5, <2>6 DEF FlowInv
<1> QED  BY <1>2, <1>3 DEF PutIn

(* ... and those that pass one on.                                         *)
LEMMA LineStays ==
  ASSUME FlowInv, UNCHANGED <<accepted, dropped>>, PipeTypes', PumpsTypeOK', Line' = Line,
         writer' \in {"idle", "ping"} => frame' = <<>>
  PROVE  FlowInv'
BY DEF FlowInv

LEMMA TakeInKeeps == ASSUME FlowInv, TakeIn PROVE FlowInv'
<1>1. /\ enqueue # <<>> /\ enqueue' = Tail(enqueue)
      /\ UNCHANGED <<sendCh, frame, got, accepted, posts, routines, hub>>
  BY DEF TakeIn
<1>2. UNCHANGED <<writer, reader, posting>>  BY <1>1 DEF routines, hub
<1>3. /\ enqueue \in Seq(Nat) /\ fifo \in Seq(Nat) /\ Head(enqueue) \in Nat /\ Tail(enqueue) \in Seq(Nat)
      /\ Len(Tail(enqueue)) = Len(enqueue) - 1 /\ Len(enqueue) \in Nat /\ Len(fifo) \in Nat
  BY <1>1 DEF FlowInv, PipeTypes
<1>4. CASE Len(fifo) < MaxQueueSize
  <2>1. fifo' = Append(fifo, Head(enqueue)) /\ UNCHANGED dropped  BY <1>4 DEF TakeIn
  <2>2. PipeTypes'  BY <1>1, <1>3, <2>1 DEF FlowInv, PipeTypes
  <2>3. PumpsTypeOK'
    <3>1. Len(enqueue') <= ChanSize /\ Len(fifo') <= MaxQueueSize
      BY <1>1, <1>3, <1>4, <2>1, PumpsAssumption DEF FlowInv, PumpsTypeOK
    <3> QED  BY <1>1, <1>2, <3>1 DEF FlowInv, PumpsTypeOK
  <2>4. fifo' \o enqueue' = fifo \o enqueue
    <3>1. <<>> \in Seq(Nat) /\ \A a \in Seq(Nat) : a \o <<>> = a  OBVIOUS
    <3>2. Append(fifo, Head(enqueue)) \o (Tail(enqueue) \o <<>>) = fifo \o (enqueue \o <<>>)
      BY <1>1, <1>3, <3>1, Passed
    <3> QED  BY <1>1, <1>3, <2>1, <3>1, <3>2
  <2>5. Line' = Line  BY <1>1, <2>4 DEF Line
  <2> QED  BY <1>1, <1>2, <2>1, <2>2, <2>3, <2>5, LineStays DEF FlowInv
<1>5. CASE Len(fifo) >= MaxQueueSize
  <2>1. dropped' = dropped \cup {Head(enqueue)} /\ UNCHANGED fifo
    BY <1>3, <1>5, PumpsAssumption DEF TakeIn
  <2>2. PipeTypes'  BY <1>1, <1>3, <2>1 DEF FlowInv, PipeTypes
  <2>3. PumpsTypeOK'
    <3>1. Len(enqueue') <= ChanSize  BY <1>1, <1>3, PumpsAssumption DEF FlowInv, PumpsTypeOK
    <3> QED  BY <1>1, <1>2, <2>1, <3>1 DEF FlowInv, PumpsTypeOK
  <2>4. PICK ahead : ahead = got \o (frame \o (sendCh \o fifo))  OBVIOUS
  <2>5. \A e \in Seq(Nat) : got \o (frame \o (sendCh \o (fifo \o e))) = ahead \o e
    <3> SUFFICES ASSUME NEW e \in Seq(Nat) PROVE got \o (frame \o (sendCh \o (fifo \o e))) = ahead \o e
      OBVIOUS
    <3>1. PICK a \in Seq(Nat), b \in Seq(Nat), c \in Seq(Nat), d \in Seq(Nat) :
            a = got /\ b = frame /\ c = sendCh /\ d = fifo
      BY DEF FlowInv, PipeTypes
    <3>2. PICK g : g = c \o d  OBVIOUS
    <3>3. g \in Seq(Nat)  BY <3>2
    <3>4. PICK h : h = b \o g  OBVIOUS
    <3>5. h \in Seq(Nat)  BY <3>3, <3>4
    <3>6. Grouped(c, d, e) /\ Grouped(b, g, e) /\ Grouped(a, h, e)  BY <3>3, <3>5, Regrouped, Zenon
    <3> QED  BY <2>4, <3>1, <3>2, <3>4, <3>6 DEF Grouped
  <2>6. Line = ahead \o enqueue /\ Line' = ahead \o Tail(enqueue)  BY <1>1, <1>3, <2>1, <2>5 DEF Line
  <2>7. ahead \in Seq(Nat)  BY <2>4 DEF FlowInv, PipeTypes
  <2>8. PICK S : S = (1..accepted) \ dropped  OBVIOUS
  <2>9. Ascends(Line') /\ Holds(Line', S \ {Head(enqueue)}) /\ Head(enqueue) \in S
    <3>1. Ascends(ahead \o enqueue) /\ Holds(ahead \o enqueue, S)  BY <2>6, <2>8 DEF FlowInv
    <3> QED  BY <1>1, <1>3, <2>6, <2>7, <3>1, Shortened
  <2>10. S \ {Head(enqueue)} = (1..accepted') \ dropped' /\ dropped' \subseteq 1..accepted'
    BY <1>1, <2>1, <2>8, <2>9 DEF FlowInv
  <2> QED  BY <1>1, <1>2, <2>2, <2>3, <2>9, <2>10 DEF FlowInv
<1> QED  BY <1>3, <1>4, <1>5, PumpsAssumption

LEMMA HandOnKeeps == ASSUME FlowInv, HandOn PROVE FlowInv'
<1>1. /\ fifo # <<>> /\ Len(sendCh) < ChanSize /\ sendCh' = Append(sendCh, Head(fifo)) /\ fifo' = Tail(fifo)
      /\ UNCHANGED <<enqueue, frame, got, accepted, dropped, writer, reader, posting>>
  BY DEF HandOn, routines, hub
<1>2. /\ sendCh \in Seq(Nat) /\ fifo \in Seq(Nat) /\ enqueue \in Seq(Nat)
      /\ Head(fifo) \in Nat /\ Tail(fifo) \in Seq(Nat) /\ Len(Tail(fifo)) = Len(fifo) - 1
      /\ Len(sendCh) \in Nat /\ Len(fifo) \in Nat
  BY <1>1 DEF FlowInv, PipeTypes
<1>3. PipeTypes'  BY <1>1, <1>2 DEF FlowInv, PipeTypes
<1>4. PumpsTypeOK'
  <2>1. Len(sendCh') <= ChanSize /\ Len(fifo') <= MaxQueueSize
    BY <1>1, <1>2, PumpsAssumption DEF FlowInv, PumpsTypeOK
  <2> QED  BY <1>1, <2>1 DEF FlowInv, PumpsTypeOK
<1>5. sendCh' \o (fifo' \o enqueue') = sendCh \o (fifo \o enqueue)
  <2>1. PICK a \in Seq(Nat), b \in Seq(Nat), c \in Seq(Nat) : a = sendCh /\ b = fifo /\ c = enqueue
    BY <1>2
  <2>2. Append(a, Head(b)) \o (Tail(b) \o c) = a \o (b \o c)
    <3>1. b # <<>>  BY <1>1, <2>1
    <3> QED  BY <3>1, Passed
  <2> QED  BY <1>1, <2>1, <2>2
<1>6. Line' = Line  BY <1>1, <1>5 DEF Line
<1> QED  BY <1>1, <1>3, <1>4, <1>6, LineStays DEF FlowInv

LEMMA WriteNextKeeps == ASSUME FlowInv, WriteNext PROVE FlowInv'
<1>1. /\ writer = "idle" /\ sendCh # <<>> /\ writer' = "write" /\ frame' = <<Head(sendCh)>>
      /\ sendCh' = Tail(sendCh)
      /\ UNCHANGED <<enqueue, fifo, got, accepted, dropped, reader, posting>>
  BY DEF WriteNext, hub
<1>2. frame = <<>>  BY <1>1 DEF FlowInv
<1>3. /\ sendCh \in Seq(Nat) /\ frame \in Seq(Nat) /\ fifo \o enqueue \in Seq(Nat)
      /\ Head(sendCh) \in Nat /\ Tail(sendCh) \in Seq(Nat) /\ Len(Tail(sendCh)) = Len(sendCh) - 1
      /\ Len(sendCh) \in Nat
  BY <1>1 DEF FlowInv, PipeTypes
<1>4. frame' = Append(frame, Head(sendCh)) /\ frame' \in Seq(Nat) /\ Len(frame') = 1  BY <1>1, <1>2, <1>3
<1>5. PipeTypes'  BY <1>1, <1>3, <1>4 DEF FlowInv, PipeTypes
<1>6. PumpsTypeOK'
  <2>1. Len(sendCh') <= ChanSize /\ Len(frame') <= 1
    BY <1>1, <1>3, <1>4, PumpsAssumption DEF FlowInv, PumpsTypeOK
  <2> QED  BY <1>1, <2>1 DEF FlowInv, PumpsTypeOK
<1>7. frame' \o (sendCh' \o (fifo' \o enqueue')) = frame \o (sendCh \o (fifo \o enqueue))
  <2>1. PICK a \in Seq(Nat), b \in Seq(Nat), c \in Seq(Nat) :
          a = frame /\ b = sendCh /\ c = fifo \o enqueue
    BY <1>3
  <2>2. Append(a, Head(b)) \o (Tail(b) \o c) = a \o (b \o c)
    <3>1. b # <<>>  BY <1>1, <2>1
    <3> QED  BY <3>1, Passed
  <2> QED  BY <1>1, <1>4, <2>1, <2>2
<1>8. Line' = Line  BY <1>1, <1>7 DEF Line
<1> QED  BY <1>1, <1>5, <1>6, <1>8, LineStays

LEMMA WrittenKeeps == ASSUME FlowInv, Written PROVE FlowInv'
<1>1. /\ writer' = "idle" /\ frame' = <<>> /\ got' = got \o frame
      /\ UNCHANGED <<enqueue, fifo, sendCh, accepted, dropped, reader, posting>>
  BY DEF Written, hub
<1>2. frame' \in Seq(Nat) /\ got' \in Seq(Nat) /\ Len(frame') = 0  BY <1>1 DEF FlowInv, PipeTypes
<1>3. PipeTypes'  BY <1>1, <1>2 DEF FlowInv, PipeTypes
<1>4. PumpsTypeOK'  BY <1>1, <1>2 DEF FlowInv, PumpsTypeOK
<1>5. Line' = Line
  <2>1. PICK behind : behind = sendCh \o (fifo \o enqueue)  OBVIOUS
  <2>2. behind \in Seq(Nat) /\ got \in Seq(Nat) /\ frame \in Seq(Nat)  BY <2>1 DEF FlowInv, PipeTypes
  <2>3. <<>> \o behind = behind  BY <2>2
  <2>4. (got \o frame) \o behind = got \o (frame \o behind)  BY <2>2, Regrouped DEF Grouped
  <2> QED  BY <1>1, <2>1, <2>3, <2>4 DEF Line
<1> QED  BY <1>1, <1>3, <1>4, <1>5, LineStays

LEMMA FlowStep == ASSUME FlowInv, [PumpsNext]_pumpVars PROVE FlowInv'
<1> USE DEF routines, hub
<1>1. CASE UNCHANGED pumpVars
  <2>1. UNCHANGED <<flow, writer, reader, posting>>  BY <1>1 DEF pumpVars
  <2>2. PumpsTypeOK'  BY <2>1 DEF FlowInv, PumpsTypeOK, flow
  <2> QED  BY <2>1, <2>2, FlowStays DEF FlowInv
<1>2. ASSUME UNCHANGED flow, UNCHANGED <<reader, posting>> \/ UNCHANGED <<writer, posting>>
                               \/ UNCHANGED <<writer, reader>>,
             reader' \in {"read", "handle", "close", "gone"}, posting' \subseteq Posters,
             writer' \in {"idle", "write", "ping", "gone"},
             writer' \in {"idle", "ping"} => writer \in {"idle", "ping"}
      PROVE  FlowInv'
  <2>1. PumpsTypeOK'  BY <1>2 DEF FlowInv, PumpsTypeOK, flow
  <2> QED  BY <1>2, <2>1, FlowStays DEF FlowInv
<1>3. /\ writer \in {"idle", "write", "ping", "gone"} /\ reader \in {"read", "handle", "close", "gone"}
      /\ posting \subseteq Posters
  BY DEF FlowInv, PumpsTypeOK
<1>4. ASSUME NEW p \in Posters, RLock(p) PROVE FlowInv'  BY <1>2, <1>3, <1>4 DEF RLock
<1>5. ASSUME NEW p \in Posters, Broadcast(p) PROVE FlowInv'
  BY <1>3, <1>5, PutInKeeps DEF Broadcast
<1>6. CASE OtherWaits \/ OtherLocks  BY <1>2, <1>3, <1>6 DEF OtherWaits, OtherLocks
<1>7. CASE TakeIn  BY <1>7, TakeInKeeps
<1>8. CASE HandOn  BY <1>8, HandOnKeeps
<1>9. CASE QueueEnds  BY <1>2, <1>3, <1>9 DEF QueueEnds
<1>10. CASE WriteNext  BY <1>10, WriteNextKeeps
<1>11. CASE Written  BY <1>11, WrittenKeeps
<1>12. CASE WriteFails \/ Ping  BY <1>2, <1>3, <1>12 DEF WriteFails, Ping
<1>13. CASE Pong \/ PingFails \/ WriteEnds  BY <1>2, <1>3, <1>13 DEF Pong, PingFails, WriteEnds
<1>14. CASE Read  BY <1>2, <1>3, <1>14 DEF Read
<1>15. CASE AnswerIt  BY <1>3, <1>15, PutInKeeps DEF AnswerIt
<1>16. CASE ReadEnds \/ Cut  BY <1>2, <1>3, <1>16 DEF ReadEnds, Cut
<1>17. CASE Unregister  BY <1>2, <1>3, <1>17 DEF Unregister
<1> QED  BY <1>1, <1>4, <1>5, <1>6, <1>7, <1>8, <1>9, <1>10, <1>11, <1>12, <1>13, <1>14, <1>15, <1>16,
           <1>17 DEF PumpsNext

LEMMA FlowStart == PumpsInit => FlowInv
<1> SUFFICES ASSUME PumpsInit PROVE FlowInv  OBVIOUS
<1>1. PipeTypes /\ dropped = {} /\ accepted = 0 /\ frame = <<>>  BY DEF PumpsInit, PipeTypes
<1>2. Line = <<>>  BY DEF PumpsInit, Line
<1>3. DOMAIN Line = {}  BY <1>2
<1>4. PumpsTypeOK  BY PumpsAssumption DEF PumpsInit, PumpsTypeOK
<1> QED  BY <1>1, <1>3, <1>4 DEF FlowInv, Ascends, Holds

LEMMA FlowKeeps == PumpsSpec => []FlowInv
<1>1. FlowInv /\ [PumpsNext]_pumpVars => FlowInv'  BY FlowStep
<1> QED  BY FlowStart, <1>1, PTL DEF PumpsSpec

(* sync/client.go: a browser receives the messages in the order in which   *)
(* they were accepted, and none before its turn, however many goroutines   *)
(* put them in and whatever the pumps and the bounds do.                   *)
THEOREM InOrderAlways == PumpsSpec => []InOrder
<1>1. FlowInv => InOrder
  <2> SUFFICES ASSUME FlowInv PROVE InOrder  OBVIOUS
  <2>1. PICK behind : behind = frame \o (sendCh \o (fifo \o enqueue))  OBVIOUS
  <2>2. behind \in Seq(Nat) /\ got \in Seq(Nat)  BY <2>1 DEF FlowInv, PipeTypes
  <2>3. PICK line : line = got \o behind  OBVIOUS
  <2>4. Ascends(line) /\ Holds(line, (1..accepted) \ dropped)  BY <2>1, <2>3 DEF FlowInv, Line
  <2>5. /\ DOMAIN got = 1..Len(got) /\ DOMAIN line = 1..Len(line) /\ Len(line) >= Len(got)
        /\ Len(line) \in Nat /\ Len(got) \in Nat
        /\ \A i \in 1..Len(line) : line[i] \in Nat
        /\ \A i \in 1..Len(got) : got[i] = line[i] /\ i \in 1..Len(line)
    BY <2>2, <2>3
  <2> SUFFICES ASSUME NEW i \in 1..Len(got)
               PROVE  /\ got[i] \in (1..accepted) \ dropped
                      /\ \A j \in 1..Len(got) : i < j => got[i] < got[j]
                      /\ \A k \in (1..accepted) \ dropped : k <= got[i] => \E j \in 1..Len(got) : got[j] = k
    BY <2>5 DEF InOrder
  <2>6. got[i] = line[i] /\ line[i] \in Nat /\ i \in DOMAIN line  BY <2>5
  <2>7. got[i] \in (1..accepted) \ dropped  BY <2>4, <2>6 DEF Holds
  <2>8. \A j \in 1..Len(got) : i < j => got[i] < got[j]  BY <2>4, <2>5, <2>6 DEF Ascends
  <2>9. ASSUME NEW k \in (1..accepted) \ dropped, k <= got[i] PROVE \E j \in 1..Len(got) : got[j] = k
    <3>1. k \in Nat  OBVIOUS
    <3>2. PICK j \in 1..Len(line) : line[j] = k  BY <2>4, <2>5, <3>1 DEF Holds
    <3>3. ~(i < j)  BY <2>4, <2>5, <2>6, <2>9, <3>1, <3>2 DEF Ascends
    <3>4. j \in 1..Len(got)  BY <2>5, <3>3
    <3> QED  BY <2>5, <3>2, <3>4
  <2> QED  BY <2>7, <2>8, <2>9
<1> QED  BY FlowKeeps, <1>1, PTL

(* The queues keep to their sizes.                                         *)
THEOREM PumpsTypeCorrect == PumpsSpec => []PumpsTypeOK
<1>1. FlowInv => PumpsTypeOK  BY DEF FlowInv
<1> QED  BY FlowKeeps, <1>1, PTL

-----------------------------------------------------------------------------
(* Link: a probe pays for the timer that is left over.                     *)

LinkInv ==
  /\ LinkTypeOK
  /\ asks \in [Asks -> {"idle", "waiting", "done", "failed"}]
  /\ budget \in [probe : 0..MaxPings, drop : 0..MaxDrops]
  /\ strays + budget.probe + (IF watch = "probe" THEN 1 ELSE 0) <= MaxPings

LEMMA LinkStep == ASSUME LinkInv, [LinkNext]_linkVars PROVE LinkInv'
<1>1. /\ socket \in {"connecting", "open", "closing", "closed"} /\ watch \in {"none", "beat", "probe"}
      /\ strays \in 0..MaxPings /\ budget.probe \in 0..MaxPings /\ budget.drop \in 0..MaxDrops /\ MaxPings \in Nat
      /\ MaxDrops \in Nat
  BY LinkAssumption DEF LinkInv, LinkTypeOK
<1>2. \A a \in Asks : Alike(a) \in SUBSET Asks /\ a \in Alike(a)  BY LinkAssumption DEF Alike
<1>3. ASSUME UNCHANGED <<asks, holder, asked>>, budget' = budget, strays' = strays,
             socket' \in {"connecting", "open", "closing", "closed"}, watch' \in {watch, "none"}
      PROVE  LinkInv'
  BY <1>1, <1>3 DEF LinkInv, LinkTypeOK
<1>4. CASE UNCHANGED linkVars  BY <1>1, <1>3, <1>4 DEF linkVars
<1>5. CASE Reconnect \/ Open \/ Disconnect \/ Connect \/ NetworkReturns \/ Message \/ TimerFires
  BY <1>1, <1>3, <1>5 DEF Reconnect, Open, Disconnect, Connect, NetworkReturns, Message, TimerFires,
                          Heard, waits
<1>6. CASE OnClose  BY <1>1, <1>6 DEF OnClose, LinkInv, LinkTypeOK
<1>7. CASE NetworkFails
  <2>1. budget' = [budget EXCEPT !.drop = budget.drop - 1] /\ budget.drop > 0  BY <1>7 DEF NetworkFails
  <2>2. budget' \in [probe : 0..MaxPings, drop : 0..MaxDrops] /\ budget'.probe = budget.probe
    BY <1>1, <2>1 DEF LinkInv
  <2> QED  BY <1>1, <1>7, <2>2 DEF NetworkFails, LinkInv, LinkTypeOK
<1>8. CASE Beat
  <2>1. strays' = (IF watch = "probe" THEN strays + 1 ELSE strays) /\ watch' = "beat"  BY <1>8 DEF Beat
  <2>2. strays' + budget.probe <= MaxPings  BY <1>1, <2>1 DEF LinkInv
  <2>3. strays' \in 0..MaxPings  BY <1>1, <2>1, <2>2
  <2> QED  BY <1>1, <1>8, <2>1, <2>2, <2>3 DEF Beat, waits, LinkInv, LinkTypeOK
<1>9. CASE Probe
  <2>1. budget' = [budget EXCEPT !.probe = budget.probe - 1] /\ budget.probe > 0 /\ watch' = "probe"
    BY <1>9 DEF Probe
  <2>2. budget' \in [probe : 0..MaxPings, drop : 0..MaxDrops] /\ budget'.probe = budget.probe - 1
    BY <1>1, <2>1 DEF LinkInv
  <2> QED  BY <1>1, <1>9, <2>1, <2>2 DEF Probe, waits, LinkInv, LinkTypeOK
<1>10. CASE StrayFires
  BY <1>1, <1>10 DEF StrayFires, waits, LinkInv, LinkTypeOK
<1>11. ASSUME NEW a \in Asks, Ask(a) PROVE LinkInv'
  <2>1. UNCHANGED <<socket, watch, strays, budget>>  BY <1>11 DEF Ask, link
  <2>2. asks' \in [Asks -> {"idle", "waiting", "done", "failed"}]
    BY <1>11 DEF Ask, LinkInv
  <2>3. \A b \in Asks : b # a => asks'[b] = asks[b]  BY <1>11 DEF Ask, LinkInv
  <2>4. a \notin holder  BY <1>11 DEF Ask, LinkInv, LinkTypeOK
  <2>5. holder' \subseteq {b \in Asks : asks'[b] = "waiting"} /\ asked' \subseteq Asks
    BY <1>11, <2>3, <2>4 DEF Ask, LinkInv, LinkTypeOK
  <2> QED  BY <1>1, <2>1, <2>2, <2>5 DEF LinkInv, LinkTypeOK
<1>12. ASSUME NEW a \in Asks, NEW who \in SUBSET Asks, NEW how \in {"done", "failed"}, Ends(who, how),
              asked' = asked \ {a}, Heard, UNCHANGED <<socket, budget>>
       PROVE  LinkInv'
  BY <1>1, <1>12 DEF Ends, Heard, LinkInv, LinkTypeOK
<1>13. ASSUME NEW a \in Asks, Confirmed(a) \/ Refused(a) PROVE LinkInv'
  <2>1. holder \in SUBSET Asks /\ holder \cap Alike(a) \in SUBSET Asks  BY DEF LinkInv, LinkTypeOK
  <2>2. UNCHANGED <<socket, budget>> /\ asked' = asked \ {a} /\ Heard
    BY <1>13 DEF Confirmed, Refused
  <2>3. Ends(holder \cap Alike(a), "done") \/ Ends(holder, "failed")  BY <1>13 DEF Confirmed, Refused
  <2>4. CASE Ends(holder \cap Alike(a), "done")  BY <1>12, <2>1, <2>2, <2>4
  <2>5. CASE Ends(holder, "failed")  BY <1>12, <2>1, <2>2, <2>5
  <2> QED  BY <2>3, <2>4, <2>5
<1>14. ASSUME NEW a \in Asks, AskTimesOut(a) \/ Again(a) PROVE LinkInv'
  <2>1. UNCHANGED <<socket, watch, strays, budget, asked>>  BY <1>14 DEF AskTimesOut, Again, link
  <2>2. asks' \in [Asks -> {"idle", "waiting", "done", "failed"}] /\ \A b \in Asks : b # a => asks'[b] = asks[b]
    BY <1>14 DEF AskTimesOut, Again, LinkInv
  <2>3. a \notin holder' /\ holder' \subseteq holder
    BY <1>2, <1>14 DEF AskTimesOut, Again, LinkInv, LinkTypeOK
  <2>4. holder' \subseteq {b \in Asks : asks'[b] = "waiting"}  BY <2>2, <2>3 DEF LinkInv, LinkTypeOK
  <2> QED  BY <1>1, <2>1, <2>2, <2>4 DEF LinkInv, LinkTypeOK
<1> QED  BY <1>4, <1>5, <1>6, <1>7, <1>8, <1>9, <1>10, <1>11, <1>13, <1>14 DEF LinkNext

LEMMA LinkStart == LinkInit => LinkInv
BY LinkAssumption DEF LinkInit, LinkInv, LinkTypeOK

(* sync-client.ts: a timer that heartbeatTimeout no longer holds was a     *)
(* probe's, so there are no more of them than probes; and a resolver is    *)
(* only kept for an operation that waits.                                  *)
THEOREM LinkTypeCorrect == LinkSpec => []LinkTypeOK
<1>1. LinkInit => LinkInv  BY LinkStart
<1>2. LinkInv /\ [LinkNext]_linkVars => LinkInv'  BY LinkStep
<1>3. LinkInv => LinkTypeOK  BY DEF LinkInv
<1> QED  BY <1>1, <1>2, <1>3, PTL DEF LinkSpec

-----------------------------------------------------------------------------
(* Cursors.                                                                *)

MailSet == [of : Pages \cup {"none"}, field : Fields, active : BOOLEAN]
CursorsInv == CursorsTypeOK /\ mail \in Seq(MailSet)

(* What is announced is addressed, and nothing is added that is not said.  *)
LEMMA AnnouncedMail ==
  ASSUME mail \in Seq(MailSet)
  PROVE  \A sel \in Pages \cup {"none"}, says \in Seq(MailSet) :
           /\ Announced(sel, says) \in Seq(MailSet)
           /\ Len(Announced(sel, says)) \in Nat /\ Len(Announced(sel, says)) <= Len(mail) + Len(says)
<1> TAKE sel \in Pages \cup {"none"}, says \in Seq(MailSet)
<1>0. Len(mail) \in Nat /\ Len(says) \in Nat  OBVIOUS
<1>1. CASE sel = "none"  BY <1>0, <1>1 DEF Announced
<1>2. CASE sel # "none"
  <2>1. PICK t : t = [i \in DOMAIN says |-> [says[i] EXCEPT !.of = sel]]  OBVIOUS
  <2>2. DOMAIN says = 1..Len(says) /\ Len(says) \in Nat /\ \A i \in 1..Len(says) : says[i] \in MailSet
    OBVIOUS
  <2>3. \A i \in 1..Len(says) : [says[i] EXCEPT !.of = sel] \in MailSet  BY <2>2 DEF MailSet
  <2>4. t \in [1..Len(says) -> MailSet]  BY <2>1, <2>2, <2>3
  <2>5. t \in Seq(MailSet) /\ Len(t) = Len(says)  BY <2>2, <2>4
  <2>6. Announced(sel, says) = mail \o t  BY <1>2, <2>1 DEF Announced
  <2>7. mail \o t \in Seq(MailSet) /\ Len(mail \o t) = Len(mail) + Len(t)  BY <2>5
  <2> QED  BY <1>0, <2>5, <2>6, <2>7
<1> QED  BY <1>1, <1>2

LEMMA SaysMail ==
  \A f \in Fields, b \in BOOLEAN : Says(f, b) \in Seq(MailSet) /\ Len(Says(f, b)) = 1
<1> TAKE f \in Fields, b \in BOOLEAN
<1>1. [of |-> "none", field |-> f, active |-> b] \in MailSet  BY DEF MailSet
<1> QED  BY <1>1 DEF Says

LEMMA OneMore ==
  ASSUME mail \in Seq(MailSet)
  PROVE  \A sel \in Pages \cup {"none"}, f \in Fields :
           /\ Announced(sel, Says(f, TRUE)) \in Seq(MailSet)
           /\ Len(Announced(sel, Says(f, TRUE))) <= Len(mail) + 1
           /\ Len(Announced(sel, Says(f, TRUE))) \in Nat
<1> TAKE sel \in Pages \cup {"none"}, f \in Fields
<1>1. TRUE \in BOOLEAN  OBVIOUS
<1>2. Says(f, TRUE) \in Seq(MailSet) /\ Len(Says(f, TRUE)) = 1  BY <1>1, SaysMail, Zenon
<1>3. /\ Announced(sel, Says(f, TRUE)) \in Seq(MailSet) /\ Len(Announced(sel, Says(f, TRUE))) \in Nat
      /\ Len(Announced(sel, Says(f, TRUE))) <= Len(mail) + Len(Says(f, TRUE))
  BY <1>2, AnnouncedMail, Zenon
<1> QED  BY <1>2, <1>3

LEMMA CursorsStep == ASSUME CursorsInv, [CursorsNext]_cursorVars PROVE CursorsInv'
<1>1. /\ at.sel \in Pages \cup {"none"} /\ at.page \in Pages \cup {"none"}
      /\ watcher.sel \in Pages \cup {"none"} /\ watcher.page \in Pages \cup {"none"}
      /\ focus \in Fields \cup {"none"} /\ fallback \in Fields \cup {"none"}
      /\ staged \in [Pages -> Fields \cup {"none"}] /\ mail \in Seq(MailSet) /\ Len(mail) <= MaxMail
      /\ MaxMail \in Nat /\ Len(mail) \in Nat
      /\ "instructions" \in Fields /\ "notes" \in Fields /\ "none" \notin Fields
  BY CursorsAssumption DEF CursorsInv, CursorsTypeOK, Fields
<1>2. CASE UNCHANGED cursorVars  BY <1>2 DEF cursorVars, CursorsInv, CursorsTypeOK
<1>3. ASSUME NEW f \in Fields \cup {"none"}, Focus(f) PROVE CursorsInv'
  <2>1. PICK says : says = (IF focus = "none" THEN <<>> ELSE Says(focus, FALSE))
                             \o (IF f = "none" THEN <<>> ELSE Says(f, TRUE))
    OBVIOUS
  <2>2. PICK s, t : /\ s = (IF focus = "none" THEN <<>> ELSE Says(focus, FALSE))
                    /\ t = (IF f = "none" THEN <<>> ELSE Says(f, TRUE))
    OBVIOUS
  <2>3. s \in Seq(MailSet) /\ Len(s) <= 1
    <3>1. CASE focus = "none"  BY <2>2, <3>1
    <3>2. CASE focus # "none"
      <4>1. focus \in Fields /\ FALSE \in BOOLEAN  BY <1>1, <3>2
      <4>2. Says(focus, FALSE) \in Seq(MailSet) /\ Len(Says(focus, FALSE)) = 1  BY <4>1, SaysMail, Zenon
      <4>3. s = Says(focus, FALSE)  BY <2>2, <3>2, Zenon
      <4>4. s \in Seq(MailSet) /\ Len(s) = 1  BY <4>2, <4>3, Zenon
      <4> QED  BY <4>4
    <3> QED  BY <3>1, <3>2
  <2>4. t \in Seq(MailSet) /\ Len(t) <= 1
    <3>1. CASE f = "none"  BY <2>2, <3>1
    <3>2. CASE f # "none"
      <4>1. f \in Fields /\ TRUE \in BOOLEAN  BY <3>2
      <4>2. Says(f, TRUE) \in Seq(MailSet) /\ Len(Says(f, TRUE)) = 1  BY <4>1, SaysMail, Zenon
      <4>3. t = Says(f, TRUE)  BY <2>2, <3>2, Zenon
      <4>4. t \in Seq(MailSet) /\ Len(t) = 1  BY <4>2, <4>3, Zenon
      <4> QED  BY <4>4
    <3> QED  BY <3>1, <3>2
  <2>5. says \in Seq(MailSet) /\ Len(says) <= 2 /\ Len(says) \in Nat
    <3>1. says = s \o t  BY <2>1, <2>2
    <3>2. s \o t \in Seq(MailSet) /\ Len(s \o t) = Len(s) + Len(t) /\ Len(s) \in Nat /\ Len(t) \in Nat
      BY <2>3, <2>4
    <3> QED  BY <2>3, <2>4, <3>1, <3>2
  <2>6. mail' = Announced(at.sel, says) /\ Len(mail) + 2 <= MaxMail  BY <1>3, <2>1 DEF Focus
  <2>7. mail' \in Seq(MailSet) /\ Len(mail') <= Len(mail) + Len(says) /\ Len(mail') \in Nat
    <3>1. at.sel \in Pages \cup {"none"} /\ mail \in Seq(MailSet) /\ says \in Seq(MailSet)  BY <1>1, <2>5
    <3> QED  BY <2>6, <3>1, AnnouncedMail, Zenon
  <2>8. Len(mail') <= MaxMail  BY <1>1, <2>5, <2>6, <2>7
  <2> QED  BY <1>1, <1>3, <2>7, <2>8 DEF Focus, CursorsInv, CursorsTypeOK
<1>4. ASSUME NEW typing \in BOOLEAN, MoveCursor(typing) PROVE CursorsInv'
  <2>1. staged' \in [Pages -> Fields \cup {"none"}] /\ fallback' \in Fields \cup {"none"}
    BY <1>1, <1>4 DEF MoveCursor
  <2> QED  BY <1>4, <2>1 DEF MoveCursor, CursorsInv, CursorsTypeOK
<1>5. CASE FallbackFires
  <2>1. mail' = Announced(at.sel, Says(fallback, TRUE)) /\ Len(mail) < MaxMail /\ fallback \in Fields
    BY <1>1, <1>5 DEF FallbackFires
  <2>2. mail' \in Seq(MailSet) /\ Len(mail') <= Len(mail) + 1 /\ Len(mail') \in Nat
    BY <1>1, <2>1, OneMore, Zenon
  <2>3. Len(mail) < MaxMail  BY <2>1
  <2>4. Len(mail') <= MaxMail  BY <1>1, <2>2, <2>3
  <2> QED  BY <1>5, <2>2, <2>4 DEF FallbackFires, CursorsInv, CursorsTypeOK
<1>6. ASSUME NEW r \in Pages, Push(r) PROVE CursorsInv'
  <2>1. mail' = Announced(r, Says(staged[r], TRUE)) /\ Len(mail) < MaxMail /\ staged[r] \in Fields
    BY <1>1, <1>6 DEF Push
  <2>2. mail' \in Seq(MailSet) /\ Len(mail') <= Len(mail) + 1 /\ Len(mail') \in Nat
    <3>1. r \in Pages \cup {"none"} /\ mail \in Seq(MailSet)  BY <1>1
    <3> QED  BY <2>1, <3>1, OneMore, Zenon
  <2>3. Len(mail) < MaxMail  BY <2>1
  <2>4. Len(mail') <= MaxMail  BY <1>1, <2>2, <2>3
  <2>5. staged' \in [Pages -> Fields \cup {"none"}]  BY <1>1, <1>6 DEF Push
  <2> QED  BY <1>6, <2>2, <2>4, <2>5 DEF Push, CursorsInv, CursorsTypeOK
<1>7. ASSUME NEW r \in Pages \cup {"none"}, SelectPage(r) PROVE CursorsInv'
  BY <1>7 DEF SelectPage, CursorsInv, CursorsTypeOK
<1>8. CASE OpenPage
  <2>1. PICK says : says = Says("instructions", FALSE) \o Says("notes", FALSE)  OBVIOUS
  <2>2. says \in Seq(MailSet) /\ Len(says) = 2
    <3>1. /\ Says("instructions", FALSE) \in Seq(MailSet) /\ Len(Says("instructions", FALSE)) = 1
          /\ Says("notes", FALSE) \in Seq(MailSet) /\ Len(Says("notes", FALSE)) = 1
      <4>1. "instructions" \in Fields /\ "notes" \in Fields /\ FALSE \in BOOLEAN  BY <1>1
      <4> QED  BY <4>1, SaysMail, Zenon
    <3>2. PICK s \in Seq(MailSet), t \in Seq(MailSet) :
            s = Says("instructions", FALSE) /\ t = Says("notes", FALSE)
      BY <3>1
    <3>3. s \o t \in Seq(MailSet) /\ Len(s \o t) = Len(s) + Len(t)  OBVIOUS
    <3>4. says = s \o t  BY <2>1, <3>2, Zenon
    <3>5. Len(s) = 1 /\ Len(t) = 1  BY <3>1, <3>2, Zenon
    <3> QED  BY <3>3, <3>4, <3>5
  <2>3. mail' = Announced(at.sel, says) /\ Len(mail) + 2 <= MaxMail  BY <1>8, <2>1 DEF OpenPage
  <2>4. mail' \in Seq(MailSet) /\ Len(mail') <= Len(mail) + 2 /\ Len(mail') \in Nat
    <3>1. at.sel \in Pages \cup {"none"} /\ mail \in Seq(MailSet) /\ says \in Seq(MailSet)  BY <1>1, <2>2
    <3>2. mail' \in Seq(MailSet) /\ Len(mail') <= Len(mail) + Len(says) /\ Len(mail') \in Nat
      BY <2>3, <3>1, AnnouncedMail, Zenon
    <3> QED  BY <2>2, <3>2
  <2>5. Len(mail') <= MaxMail  BY <1>1, <2>3, <2>4
  <2>6. at' \in [sel : Pages \cup {"none"}, page : Pages \cup {"none"}]
    BY <1>8 DEF OpenPage, CursorsInv, CursorsTypeOK
  <2> QED  BY <1>8, <2>4, <2>5, <2>6 DEF OpenPage, CursorsInv, CursorsTypeOK
<1>9. CASE Deliver
  <2>1. mail # <<>> /\ mail' = Tail(mail) /\ UNCHANGED <<at, focus, staged, fallback, watcher, moves>>
    BY <1>9 DEF Deliver
  <2>2. Head(mail) \in MailSet /\ mail' \in Seq(MailSet) /\ Len(mail') = Len(mail) - 1  BY <1>1, <2>1
  <2>3. PICK m \in MailSet : m = Head(mail)  BY <2>2
  <2>4. m.field \in Fields  BY DEF MailSet
  <2>5. shown' \subseteq Fields /\ fading' \in BOOLEAN
    <3>1. shown \subseteq Fields /\ fading \in BOOLEAN  BY DEF CursorsInv, CursorsTypeOK
    <3>2. \/ shown' = shown \ {m.field} /\ fading' = fading
          \/ shown' = {m.field} /\ fading' = TRUE
          \/ shown' = shown /\ fading' = fading
      BY <1>9, <2>3 DEF Deliver, HandlePresence
    <3> QED  BY <2>4, <3>1, <3>2
  <2>6. Len(mail') <= MaxMail  BY <1>1, <2>2
  <2> QED  BY <2>1, <2>2, <2>5, <2>6 DEF CursorsInv, CursorsTypeOK
<1>10. CASE Fade  BY <1>10 DEF Fade, CursorsInv, CursorsTypeOK
<1>11. CASE WatcherOpens  BY <1>11 DEF WatcherOpens, CursorsInv, CursorsTypeOK
<1>12. ASSUME NEW r \in Pages \cup {"none"}, WatcherSelects(r) PROVE CursorsInv'
  BY <1>12 DEF WatcherSelects, CursorsInv, CursorsTypeOK
<1> QED  BY <1>2, <1>3, <1>4, <1>5, <1>6, <1>7, <1>8, <1>9, <1>10, <1>11, <1>12 DEF CursorsNext

LEMMA CursorsStart == CursorsInit => CursorsInv
<1> SUFFICES ASSUME CursorsInit PROVE CursorsInv  OBVIOUS
<1>1. mail \in Seq(MailSet) /\ Len(mail) = 0  BY DEF CursorsInit
<1>2. Len(mail) <= MaxMail  BY <1>1, CursorsAssumption
<1> QED  BY <1>1, <1>2 DEF CursorsInit, CursorsInv, CursorsTypeOK

(* presence.ts: a cursor is in one of the two fields, whatever is said of  *)
(* it and whenever that arrives.                                           *)
THEOREM CursorsTypeCorrect == CursorsSpec => []CursorsTypeOK
<1>1. CursorsInit => CursorsInv  BY CursorsStart
<1>2. CursorsInv /\ [CursorsNext]_cursorVars => CursorsInv'  BY CursorsStep
<1>3. CursorsInv => CursorsTypeOK  BY DEF CursorsInv
<1> QED  BY <1>1, <1>2, <1>3, PTL DEF CursorsSpec

-----------------------------------------------------------------------------
(* Embeddings: the queue and its set of keys agree.                        *)

TextSet == [of : Items, n : 0..MaxTexts]
JobSet == [at : {"none", "extract", "embed", "put", "yield"}, todo : Seq(Items),
           texts : Seq(TextSet), gen : Nat]
QueueSet == [seq : Seq(Items), keys : SUBSET Items, job : JobSet, complete : BOOLEAN]

Lists(s, keys) == s \in Seq(Items) /\ Range(s) = keys /\ IsInjective(s)
Works(job) ==
  /\ job \in JobSet
  /\ job.at = "extract" => job.todo # <<>>
  /\ job.at \in {"embed", "put"} => job.texts # <<>>
QueueHolds(q) == q \in QueueSet /\ Lists(q.seq, q.keys) /\ Works(q.job)

EmbeddingsInv ==
  /\ content \in [Items -> 0..MaxTexts] /\ hash \in [Items -> 0..MaxTexts] /\ vec \in [Items -> 0..MaxTexts]
  /\ worker \in {"none", "loading", "ready"} /\ steps \in 0..MaxSteps /\ gen \in 0..steps
  /\ timers \subseteq Items /\ missed \subseteq Items /\ paused \in BOOLEAN
  /\ QueueHolds(queue)

(* A sequence, cut after n of its elements.                                *)
LEMMA Halves ==
  \A s \in Seq(Items) : \A n \in 1..Len(s) :
    IsInjective(s) =>
      /\ SubSeq(s, 1, n) \in Seq(Items) /\ SubSeq(s, 1, n) # <<>>
      /\ Lists(SubSeq(s, n + 1, Len(s)), Range(s) \ Range(SubSeq(s, 1, n)))
<1> TAKE s \in Seq(Items)
<1> TAKE n \in 1..Len(s)
<1> HAVE IsInjective(s)
<1>1. Len(s) \in Nat /\ n \in Nat /\ n >= 1 /\ n <= Len(s) /\ \A i \in 1..Len(s) : s[i] \in Items
  OBVIOUS
<1>2. DOMAIN s = 1..Len(s)  OBVIOUS
<1>3. PICK a, b : a = SubSeq(s, 1, n) /\ b = SubSeq(s, n + 1, Len(s))  OBVIOUS
<1>4. a \in Seq(Items) /\ Len(a) = n /\ \A i \in 1..n : a[i] = s[i]
  BY <1>1, <1>3
<1>5. b \in Seq(Items) /\ Len(b) = Len(s) - n /\ \A i \in 1..(Len(s) - n) : b[i] = s[n + i]
  BY <1>1, <1>3
<1>6. DOMAIN a = 1..n /\ DOMAIN b = 1..(Len(s) - n)  BY <1>4, <1>5
<1>7. a # <<>>  BY <1>1, <1>4
<1>8. IsInjective(b)
  <2> SUFFICES ASSUME NEW i \in DOMAIN b, NEW j \in DOMAIN b, b[i] = b[j] PROVE i = j  BY DEF IsInjective
  <2>1. i \in 1..(Len(s) - n) /\ j \in 1..(Len(s) - n)  BY <1>6
  <2>2. n + i \in 1..Len(s) /\ n + j \in 1..Len(s)  BY <1>1, <2>1
  <2>3. s[n + i] = s[n + j]  BY <1>5, <2>1
  <2>4. n + i = n + j  BY <1>2, <2>2, <2>3 DEF IsInjective
  <2> QED  BY <1>1, <2>1, <2>4
<1>9. ASSUME NEW x PROVE x \in Range(b) <=> x \in Range(s) /\ x \notin Range(a)
  <2>1. ASSUME x \in Range(b) PROVE x \in Range(s) /\ x \notin Range(a)
    <3>1. PICK i \in 1..(Len(s) - n) : x = b[i]  BY <1>6, <2>1 DEF Range
    <3>2. n + i \in 1..Len(s) /\ x = s[n + i]  BY <1>1, <1>5, <3>1
    <3>3. ASSUME x \in Range(a) PROVE FALSE
      <4>1. PICK j \in 1..n : x = s[j]  BY <1>4, <1>6, <3>3 DEF Range
      <4>2. j \in 1..Len(s)  BY <1>1
      <4>3. n + i = j  BY <1>2, <3>2, <4>1, <4>2 DEF IsInjective
      <4> QED  BY <1>1, <3>1, <4>3
    <3> QED  BY <1>2, <3>2, <3>3 DEF Range
  <2>2. ASSUME x \in Range(s), x \notin Range(a) PROVE x \in Range(b)
    <3>1. PICK i \in 1..Len(s) : x = s[i]  BY <1>2, <2>2 DEF Range
    <3>2. ASSUME i <= n PROVE FALSE
      <4>1. i \in 1..n /\ x = a[i]  BY <1>1, <1>4, <3>1, <3>2
      <4> QED  BY <1>6, <2>2, <4>1 DEF Range
    <3>3. i - n \in 1..(Len(s) - n) /\ n + (i - n) = i  BY <1>1, <3>1, <3>2
    <3>4. x = b[i - n]  BY <1>5, <3>1, <3>3
    <3> QED  BY <1>6, <3>3, <3>4 DEF Range
  <2> QED  BY <2>1, <2>2
<1>10. Range(b) = Range(s) \ Range(a)  BY <1>9
<1> QED  BY <1>3, <1>4, <1>5, <1>7, <1>8, <1>10 DEF Lists

(* Sequences of different recipes, one after the other.                    *)
LEMMA Joined ==
  \A a, b \in Seq(Items) :
    IsInjective(a) /\ IsInjective(b) /\ Range(a) \cap Range(b) = {}
      => Lists(a \o b, Range(a) \cup Range(b))
<1> TAKE a, b \in Seq(Items)
<1> HAVE IsInjective(a) /\ IsInjective(b) /\ Range(a) \cap Range(b) = {}
<1> PICK c : c = a \o b  OBVIOUS
<1>1. Len(a) \in Nat /\ Len(b) \in Nat /\ DOMAIN a = 1..Len(a) /\ DOMAIN b = 1..Len(b)  OBVIOUS
<1>2. c \in Seq(Items) /\ Len(c) = Len(a) + Len(b) /\ DOMAIN c = 1..(Len(a) + Len(b))  OBVIOUS
<1>3. \A i \in 1..Len(a) : c[i] = a[i]  OBVIOUS
<1>4. \A i \in 1..Len(b) : c[Len(a) + i] = b[i]  BY <1>1
<1>5. ASSUME NEW i \in DOMAIN c
      PROVE  \/ i \in DOMAIN a /\ c[i] = a[i]
             \/ i - Len(a) \in DOMAIN b /\ c[i] = b[i - Len(a)]
  <2>1. CASE i <= Len(a)  BY <1>1, <1>2, <1>3, <2>1
  <2>2. CASE i > Len(a)
    <3>1. i - Len(a) \in 1..Len(b) /\ Len(a) + (i - Len(a)) = i  BY <1>1, <1>2, <2>2
    <3> QED  BY <1>1, <1>4, <3>1
  <2> QED  BY <1>1, <1>2, <2>1, <2>2
<1>6. Range(c) = Range(a) \cup Range(b)
  <2>1. Range(c) \subseteq Range(a) \cup Range(b)  BY <1>5 DEF Range
  <2>2. Range(a) \subseteq Range(c)
    <3> SUFFICES ASSUME NEW i \in DOMAIN a PROVE a[i] \in Range(c)  BY DEF Range
    <3>1. i \in DOMAIN c /\ c[i] = a[i]  BY <1>1, <1>2, <1>3
    <3> QED  BY <3>1 DEF Range
  <2>3. Range(b) \subseteq Range(c)
    <3> SUFFICES ASSUME NEW i \in DOMAIN b PROVE b[i] \in Range(c)  BY DEF Range
    <3>1. Len(a) + i \in DOMAIN c /\ c[Len(a) + i] = b[i]  BY <1>1, <1>2, <1>4
    <3> QED  BY <3>1 DEF Range
  <2> QED  BY <2>1, <2>2, <2>3
<1>7. IsInjective(c)
  <2> SUFFICES ASSUME NEW i \in DOMAIN c, NEW j \in DOMAIN c, c[i] = c[j] PROVE i = j  BY DEF IsInjective
  <2>1. CASE i \in DOMAIN a /\ c[i] = a[i] /\ j \in DOMAIN a /\ c[j] = a[j]
    BY <2>1 DEF IsInjective
  <2>2. CASE i - Len(a) \in DOMAIN b /\ c[i] = b[i - Len(a)] /\ j - Len(a) \in DOMAIN b /\ c[j] = b[j - Len(a)]
    <3>1. i - Len(a) = j - Len(a)  BY <2>2 DEF IsInjective
    <3> QED  BY <1>1, <1>2, <3>1
  <2>3. CASE i \in DOMAIN a /\ c[i] = a[i] /\ j - Len(a) \in DOMAIN b /\ c[j] = b[j - Len(a)]
    BY <2>3 DEF Range
  <2>4. CASE i - Len(a) \in DOMAIN b /\ c[i] = b[i - Len(a)] /\ j \in DOMAIN a /\ c[j] = a[j]
    BY <2>4 DEF Range
  <2> QED  BY <1>5, <2>1, <2>2, <2>3, <2>4
<1> QED  BY <1>2, <1>6, <1>7 DEF Lists

(* One more recipe, in front or behind.                                    *)
LEMMA Queues ==
  \A s \in Seq(Items), x \in Items :
    IsInjective(s) /\ x \notin Range(s)
      => Lists(<<x>> \o s, Range(s) \cup {x}) /\ Lists(Append(s, x), Range(s) \cup {x})
<1> TAKE s \in Seq(Items), x \in Items
<1> HAVE IsInjective(s) /\ x \notin Range(s)
<1> PICK t : t = <<x>>  OBVIOUS
<1>1. t \in Seq(Items) /\ DOMAIN t = {1} /\ t[1] = x  OBVIOUS
<1>2. Range(t) = {x} /\ IsInjective(t)  BY <1>1 DEF Range, IsInjective
<1>3. Range(t) \cap Range(s) = {} /\ Range(s) \cap Range(t) = {}  BY <1>2
<1>4. Lists(t \o s, Range(t) \cup Range(s)) /\ Lists(s \o t, Range(s) \cup Range(t))
  BY <1>1, <1>2, <1>3, Joined, Zenon
<1>5. Append(s, x) = s \o t  BY <1>1
<1>6. Range(t) \cup Range(s) = Range(s) \cup {x} /\ Range(s) \cup Range(t) = Range(s) \cup {x}  BY <1>2
<1> QED  BY <1>4, <1>5, <1>6

(* The catalog's recipes, in whatever order.                               *)
LEMMA Listed == ASSUME NEW S, IsFiniteSet(S), S \subseteq Items PROVE Lists(SetToSeq(S), S)
<1>1. PICK n \in Nat : ExistsBijection(1..n, S)  BY FS_NatBijection
<1>2. Cardinality(S) = n  BY <1>1, FS_CountingElements
<1>3. \E f \in [1..n -> S] : IsInjective(f)
  BY <1>1 DEF ExistsBijection, Bijection, Injection
<1>4. PICK f : f = SetToSeq(S)  OBVIOUS
<1>5. f \in [1..n -> S] /\ IsInjective(f)  BY <1>2, <1>3, <1>4 DEF SetToSeq
<1>6. DOMAIN f = 1..n /\ Range(f) \subseteq S  BY <1>5 DEF Range
<1>7. f \in Bijection(1..n, Range(f))
  BY <1>5, <1>6 DEF Bijection, Injection, Surjection, Range
<1>8. Cardinality(Range(f)) = n  BY <1>7, FS_CountingElements DEF ExistsBijection
<1>9. Range(f) = S  BY <1>2, <1>6, <1>8, FS_Subset
<1>10. f \in Seq(Items)  BY <1>5
<1> QED  BY <1>4, <1>5, <1>9, <1>10 DEF Lists

(* The parts of a queue that a step leaves alone.                          *)
LEMMA QueueParts ==
  \A q : QueueHolds(q) =>
    /\ q \in QueueSet /\ q.seq \in Seq(Items) /\ q.keys \subseteq Items /\ q.job \in JobSet
    /\ q.complete \in BOOLEAN /\ Range(q.seq) = q.keys /\ IsInjective(q.seq)
BY DEF QueueHolds, QueueSet, Lists

LEMMA NoJobWorks == Works(NoJob) /\ Works([NoJob EXCEPT !.at = "yield"])
<1>1. <<>> \in Seq(Items) /\ <<>> \in Seq(TextSet)  OBVIOUS
<1>2. NoJob \in JobSet  BY <1>1 DEF NoJob, JobSet
<1>3. [NoJob EXCEPT !.at = "yield"] \in JobSet  BY <1>2 DEF JobSet
<1> QED  BY <1>2, <1>3 DEF NoJob, Works

(* Another job, the queue as it was.                                       *)
LEMMA JobChanges ==
  \A q, job : QueueHolds(q) /\ Works(job) => QueueHolds([q EXCEPT !.job = job])
<1> SUFFICES ASSUME NEW q, NEW job, QueueHolds(q), Works(job) PROVE QueueHolds([q EXCEPT !.job = job])
  OBVIOUS
<1>1. q \in QueueSet /\ job \in JobSet  BY DEF QueueHolds, Works
<1>2. PICK p : p = [q EXCEPT !.job = job]  OBVIOUS
<1>3. p \in QueueSet /\ p.job = job /\ p.seq = q.seq /\ p.keys = q.keys  BY <1>1, <1>2 DEF QueueSet
<1> QED  BY <1>2, <1>3 DEF QueueHolds

(* What the loop takes is a batch, which is not empty.                     *)
LEMMA BatchHolds ==
  \A q : QueueHolds(q) /\ q.seq # <<>>
           => QueueHolds(Batch(q, SubSeq(q.seq, BatchSize + 1, Len(q.seq))))
<1> SUFFICES ASSUME NEW q, QueueHolds(q), q.seq # <<>>
             PROVE  QueueHolds(Batch(q, SubSeq(q.seq, BatchSize + 1, Len(q.seq))))
  OBVIOUS
<1>1. /\ q \in QueueSet /\ q.seq \in Seq(Items) /\ q.keys \subseteq Items /\ q.job \in JobSet
      /\ Range(q.seq) = q.keys /\ IsInjective(q.seq)
  BY QueueParts
<1>2. PICK s \in Seq(Items) : s = q.seq  BY <1>1
<1>3. Len(s) \in Nat /\ Len(s) >= 1 /\ BatchSize \in Nat /\ BatchSize >= 1
  BY <1>2, EmbeddingsAssumption
<1>4. PICK rest : rest = SubSeq(s, BatchSize + 1, Len(s))  OBVIOUS
<1>5. PICK n \in 1..Len(s) : rest = SubSeq(s, n + 1, Len(s)) /\ Len(s) - Len(rest) = n
  <2>1. CASE BatchSize <= Len(s)
    <3>1. Len(rest) = Len(s) - BatchSize  BY <1>3, <1>4, <2>1
    <3>2. BatchSize \in 1..Len(s) /\ Len(s) - Len(rest) = BatchSize  BY <1>3, <2>1, <3>1
    <3> QED  BY <1>4, <3>2
  <2>2. CASE BatchSize > Len(s)
    <3>1. rest = <<>>  BY <1>3, <1>4, <2>2
    <3>2. SubSeq(s, Len(s) + 1, Len(s)) = <<>>  BY <1>3
    <3>3. Len(s) \in 1..Len(s) /\ Len(s) - Len(rest) = Len(s)  BY <1>3, <3>1
    <3> QED  BY <3>1, <3>2, <3>3
  <2> QED  BY <1>3, <2>1, <2>2
<1>6. PICK todo : todo = SubSeq(s, 1, n)  OBVIOUS
<1>7. /\ todo \in Seq(Items) /\ todo # <<>> /\ Lists(rest, Range(s) \ Range(todo))
  BY <1>1, <1>2, <1>5, <1>6, Halves, Zenon
<1>8. PICK job : job = [NoJob EXCEPT !.at = "extract", !.todo = todo]  OBVIOUS
<1>9. Works(job)
  <2>1. NoJob \in JobSet  BY NoJobWorks DEF Works
  <2>2. job \in JobSet /\ job.at = "extract" /\ job.todo = todo  BY <1>7, <1>8, <2>1 DEF JobSet
  <2> QED  BY <1>7, <2>2 DEF Works
<1>10. PICK p : p = [q EXCEPT !.job = job, !.seq = rest, !.keys = @ \ Range(todo)]  OBVIOUS
<1>11. /\ rest \in Seq(Items) /\ q.keys \ Range(todo) \subseteq Items /\ job \in JobSet
  BY <1>1, <1>7, <1>9 DEF Lists, Works
<1>12. p \in QueueSet /\ p.seq = rest /\ p.keys = q.keys \ Range(todo) /\ p.job = job
  BY <1>1, <1>10, <1>11 DEF QueueSet
<1>13. QueueHolds(p)  BY <1>1, <1>2, <1>7, <1>9, <1>12 DEF QueueHolds
<1>14. Batch(q, rest) = p  BY <1>2, <1>5, <1>6, <1>8, <1>10 DEF Batch
<1> QED  BY <1>2, <1>4, <1>13, <1>14

LEMMA LoopHolds == \A q, hidden : QueueHolds(q) => QueueHolds(Loop(q, hidden))
<1> SUFFICES ASSUME NEW q, NEW hidden, QueueHolds(q) PROVE QueueHolds(Loop(q, hidden))  OBVIOUS
<1>1. CASE q.seq # <<>> /\ ~hidden
  <2>1. Loop(q, hidden) = Batch(q, SubSeq(q.seq, BatchSize + 1, Len(q.seq)))  BY <1>1, Zenon DEF Loop
  <2>2. QueueHolds(Batch(q, SubSeq(q.seq, BatchSize + 1, Len(q.seq))))  BY <1>1, BatchHolds, Zenon
  <2> QED  BY <2>1, <2>2, Zenon
<1>2. CASE ~(q.seq # <<>> /\ ~hidden)
  <2>1. q \in QueueSet /\ q.complete \in BOOLEAN  BY QueueParts
  <2>2. PICK p : p = [q EXCEPT !.complete = @ \/ q.seq = <<>>, !.job = NoJob]  OBVIOUS
  <2>3. Works(NoJob) /\ NoJob \in JobSet  BY NoJobWorks DEF Works
  <2>4. p \in QueueSet /\ p.seq = q.seq /\ p.keys = q.keys /\ p.job = NoJob
    BY <2>1, <2>2, <2>3 DEF QueueSet
  <2>5. QueueHolds(p)  BY <2>3, <2>4 DEF QueueHolds
  <2>6. Loop(q, hidden) = p  BY <1>2, <2>2, Zenon DEF Loop
  <2> QED  BY <2>5, <2>6
<1> QED  BY <1>1, <1>2, Zenon

LEMMA ProcessHolds == \A q, hidden : QueueHolds(q) => QueueHolds(Process(q, hidden))
BY LoopHolds, Zenon DEF Process

LEMMA EnqueueHolds ==
  \A q, x, high : QueueHolds(q) /\ x \in Items => QueueHolds(Enqueue(q, x, high))
<1> SUFFICES ASSUME NEW q, NEW x \in Items, NEW high, QueueHolds(q) PROVE QueueHolds(Enqueue(q, x, high))
  OBVIOUS
<1>1. CASE x \in q.keys  BY <1>1, Zenon DEF Enqueue
<1>2. CASE x \notin q.keys
  <2>1. /\ q \in QueueSet /\ q.seq \in Seq(Items) /\ q.keys \subseteq Items
        /\ Range(q.seq) = q.keys /\ IsInjective(q.seq)
    BY QueueParts
  <2>2. PICK s : s = IF high THEN <<x>> \o q.seq ELSE Append(q.seq, x)  OBVIOUS
  <2>3. Lists(<<x>> \o q.seq, q.keys \cup {x}) /\ Lists(Append(q.seq, x), q.keys \cup {x})
    <3>1. x \notin Range(q.seq)  BY <1>2, <2>1
    <3>2. /\ Lists(<<x>> \o q.seq, Range(q.seq) \cup {x})
          /\ Lists(Append(q.seq, x), Range(q.seq) \cup {x})
      BY <2>1, <3>1, Queues, Zenon
    <3> QED  BY <2>1, <3>2, Zenon
  <2>4. Lists(s, q.keys \cup {x})  BY <2>2, <2>3, Zenon
  <2>5. PICK p : p = [q EXCEPT !.keys = @ \cup {x}, !.complete = FALSE,
                               !.seq = IF high THEN <<x>> \o @ ELSE Append(@, x)]
    OBVIOUS
  <2>6. p = [q EXCEPT !.keys = q.keys \cup {x}, !.complete = FALSE, !.seq = s]  BY <2>2, <2>5, Zenon
  <2>7. s \in Seq(Items) /\ q.keys \cup {x} \subseteq Items  BY <2>1, <2>4 DEF Lists
  <2>8. p \in QueueSet /\ p.seq = s /\ p.keys = q.keys \cup {x} /\ p.job = q.job
    BY <2>1, <2>6, <2>7 DEF QueueSet
  <2>9. QueueHolds(p)  BY <2>4, <2>8 DEF QueueHolds
  <2>10. Enqueue(q, x, high) = Process(p, paused)  BY <1>2, <2>5, Zenon DEF Enqueue
  <2> QED  BY <2>9, <2>10, ProcessHolds, Zenon
<1> QED  BY <1>1, <1>2, Zenon

(* What initVectorSearch leaves in the queue.                              *)
LEMMA StartedHolds ==
  \A h, q : QueueHolds(q) /\ Started(h, q) => QueueHolds(queue')
<1> SUFFICES ASSUME NEW h, NEW q, QueueHolds(q), Started(h, q) PROVE QueueHolds(queue')  OBVIOUS
<1>1. /\ q \in QueueSet /\ q.seq \in Seq(Items) /\ q.keys \subseteq Items /\ q.complete \in BOOLEAN
      /\ Range(q.seq) = q.keys /\ IsInjective(q.seq)
  BY QueueParts
<1>2. PICK S : S = {x \in Items : content[x] # 0} \ q.keys  OBVIOUS
<1>3. S \subseteq Items /\ S \cap q.keys = {}  BY <1>2
<1>4. IsFiniteSet(S)  BY <1>3, EmbeddingsAssumption, FS_Subset
<1>5. PICK new : new = SetToSeq(S)  OBVIOUS
<1>6. Lists(new, S)  BY <1>3, <1>4, <1>5, Listed
<1>7. new \in Seq(Items) /\ Range(new) = S /\ IsInjective(new)  BY <1>6 DEF Lists
<1>8. PICK t : t = q.seq \o new  OBVIOUS
<1>9. Lists(t, q.keys \cup S)
  <2>1. Range(q.seq) \cap Range(new) = {}  BY <1>1, <1>3, <1>7
  <2>2. Lists(q.seq \o new, Range(q.seq) \cup Range(new))  BY <1>1, <1>7, <2>1, Joined, Zenon
  <2> QED  BY <1>1, <1>7, <1>8, <2>2, Zenon
<1>10. queue' = [q EXCEPT !.seq = @ \o new, !.keys = @ \cup Range(new), !.complete = @ /\ new = <<>>]
  BY <1>2, <1>5, Zenon DEF Started
<1>11. t \in Seq(Items) /\ q.keys \cup S \subseteq Items  BY <1>1, <1>3, <1>9 DEF Lists
<1>12. queue' = [q EXCEPT !.seq = t, !.keys = q.keys \cup S, !.complete = q.complete /\ new = <<>>]
  BY <1>7, <1>8, <1>10, Zenon
<1>13. queue' \in QueueSet /\ queue'.seq = t /\ queue'.keys = q.keys \cup S /\ queue'.job = q.job
  BY <1>1, <1>11, <1>12 DEF QueueSet
<1> QED  BY <1>9, <1>13 DEF QueueHolds

LEMMA ExtractKeeps == ASSUME EmbeddingsInv, Extract PROVE QueueHolds(queue')
<1>1. /\ QueueHolds(queue) /\ queue.job \in JobSet /\ queue.job.todo # <<>>
      /\ content \in [Items -> 0..MaxTexts] /\ gen \in Nat
  BY DEF EmbeddingsInv, QueueHolds, Works, Extract
<1>2. PICK job \in JobSet : job = queue.job  BY <1>1
<1>3. PICK todo \in Seq(Items) : todo = job.todo  BY DEF JobSet
<1>4. PICK texts \in Seq(TextSet) : texts = job.texts  BY DEF JobSet
<1>5. todo # <<>>  BY <1>1, <1>2, <1>3
<1>6. Head(todo) \in Items /\ Tail(todo) \in Seq(Items) /\ Len(todo) \in Nat /\ Len(Tail(todo)) = Len(todo) - 1
  BY <1>5
<1>7. PICK x \in Items : x = Head(todo)  BY <1>6
<1>8. PICK more : more = IF content[x] \in {0, hash[x]} THEN texts
                         ELSE Append(texts, [of |-> x, n |-> content[x]])
  OBVIOUS
<1>9. more \in Seq(TextSet)
  <2>1. content[x] \in 0..MaxTexts  BY <1>1
  <2>2. [of |-> x, n |-> content[x]] \in TextSet  BY <2>1 DEF TextSet
  <2> QED  BY <1>8, <2>2
<1>10. PICK next : next = IF Len(todo) > 1 THEN "extract" ELSE IF more = <<>> THEN "yield" ELSE "embed"
  OBVIOUS
<1>11. PICK new : new = [at |-> next, todo |-> Tail(todo), texts |-> more, gen |-> gen]  OBVIOUS
<1>12. Works(new)
  <2>1. new \in JobSet  BY <1>1, <1>6, <1>9, <1>10, <1>11 DEF JobSet
  <2>2. next = "extract" => Len(todo) > 1  BY <1>10
  <2>3. next = "extract" => Tail(todo) # <<>>
    <3>1. next = "extract" => Len(Tail(todo)) # 0  BY <1>6, <2>2
    <3>2. Len(<<>>) = 0  OBVIOUS
    <3> QED  BY <3>1, <3>2, Zenon
  <2>4. next \in {"embed", "put"} => more # <<>>  BY <1>10
  <2> QED  BY <1>11, <2>1, <2>3, <2>4 DEF Works
<1>13. queue' = [queue EXCEPT !.job = new]
  BY <1>2, <1>3, <1>4, <1>7, <1>8, <1>10, <1>11, Zenon DEF Extract
<1> QED  BY <1>1, <1>12, <1>13, JobChanges, Zenon

LEMMA EmbedKeeps == ASSUME EmbeddingsInv, Embed PROVE EmbeddingsInv'
<1>1. /\ QueueHolds(queue) /\ queue.job \in JobSet /\ queue.job.texts # <<>>
      /\ vec \in [Items -> 0..MaxTexts]
  BY DEF EmbeddingsInv, QueueHolds, Works, Embed
<1>2. PICK job \in JobSet : job = queue.job  BY <1>1
<1>3. PICK texts \in Seq(TextSet) : texts = job.texts  BY DEF JobSet
<1>4. Range(texts) \subseteq TextSet  BY DEF Range
<1>5. vec' \in [Items -> 0..MaxTexts]
  <2>1. vec' = [x \in Items |-> LET new == {t \in Range(texts) : t.of = x}
                                IN  IF new = {} THEN vec[x] ELSE (CHOOSE t \in new : TRUE).n]
    BY <1>2, <1>3 DEF Embed
  <2>2. ASSUME NEW x \in Items, NEW new \in SUBSET TextSet
        PROVE  (IF new = {} THEN vec[x] ELSE (CHOOSE t \in new : TRUE).n) \in 0..MaxTexts
    <3>1. CASE new = {}  BY <1>1, <3>1
    <3>2. CASE new # {}
      <4>1. (CHOOSE t \in new : TRUE) \in TextSet  BY <3>2
      <4>2. PICK u \in TextSet : u = (CHOOSE t \in new : TRUE)  BY <4>1
      <4>3. u.n \in 0..MaxTexts  BY DEF TextSet
      <4> QED  BY <3>2, <4>2, <4>3
    <3> QED  BY <3>1, <3>2
  <2>3. \A x \in Items : {t \in Range(texts) : t.of = x} \in SUBSET TextSet  BY <1>4
  <2> QED  BY <2>1, <2>2, <2>3
<1>6. PICK new : new = [job EXCEPT !.at = "put"]  OBVIOUS
<1>7. Works(new)
  <2>1. new \in JobSet /\ new.at = "put" /\ new.texts = job.texts  BY <1>6 DEF JobSet
  <2> QED  BY <1>1, <1>2, <2>1 DEF Works
<1>8. queue' = [queue EXCEPT !.job = new]
  <2>1. queue \in QueueSet  BY <1>1 DEF QueueHolds
  <2> QED  BY <1>2, <1>6, <2>1 DEF Embed, QueueSet
<1>9. QueueHolds(queue')  BY <1>1, <1>7, <1>8, JobChanges, Zenon
<1>10. UNCHANGED <<content, hash, worker, gen, timers, paused, missed, steps>>  BY DEF Embed
<1> QED  BY <1>5, <1>9, <1>10 DEF EmbeddingsInv

LEMMA PutKeeps == ASSUME EmbeddingsInv, Put PROVE EmbeddingsInv'
<1>1. /\ QueueHolds(queue) /\ queue \in QueueSet /\ queue.job \in JobSet /\ queue.job.texts # <<>>
      /\ hash \in [Items -> 0..MaxTexts] /\ missed \subseteq Items /\ queue.job.at = "put"
  BY DEF EmbeddingsInv, QueueHolds, Works, Put
<1>2. PICK job \in JobSet : job = queue.job  BY <1>1
<1>3. PICK texts \in Seq(TextSet) : texts = job.texts  BY DEF JobSet
<1>4. texts # <<>> /\ Head(texts) \in TextSet /\ Tail(texts) \in Seq(TextSet) /\ Len(texts) \in Nat
      /\ Len(Tail(texts)) = Len(texts) - 1 /\ Len(texts) >= 1
  BY <1>1, <1>2, <1>3
<1>5. PICK t \in TextSet : t = Head(texts)  BY <1>4
<1>6. t.of \in Items /\ t.n \in 0..MaxTexts  BY DEF TextSet
<1>7. hash' = [hash EXCEPT ![t.of] = t.n] /\ missed' \in {missed, missed \cup {t.of}}
  BY <1>2, <1>3, <1>5 DEF Put
<1>8. hash' \in [Items -> 0..MaxTexts] /\ missed' \subseteq Items  BY <1>1, <1>6, <1>7
<1>9. QueueHolds(queue')
  <2>1. CASE Len(texts) = 1
    <3>1. queue' = [queue EXCEPT !.job = [NoJob EXCEPT !.at = "yield"]]  BY <1>2, <1>3, <2>1 DEF Put
    <3> QED  BY <1>1, <3>1, NoJobWorks, JobChanges, Zenon
  <2>2. CASE Len(texts) # 1
    <3>1. PICK new : new = [job EXCEPT !.texts = Tail(texts)]  OBVIOUS
    <3>2. new \in JobSet /\ new.at = "put" /\ new.texts = Tail(texts)
      BY <1>1, <1>2, <1>4, <3>1 DEF JobSet
    <3>3. Tail(texts) # <<>>
      <4>1. Len(Tail(texts)) # 0  BY <1>4, <2>2
      <4>2. Len(<<>>) = 0  OBVIOUS
      <4> QED  BY <4>1, <4>2, Zenon
    <3>4. Works(new)  BY <3>2, <3>3 DEF Works
    <3>5. queue' = [queue EXCEPT !.job.texts = Tail(@)]  BY <1>2, <1>3, <2>2 DEF Put
    <3>6. queue' = [queue EXCEPT !.job = new]
      BY <1>1, <1>2, <1>3, <3>1, <3>5 DEF QueueSet
    <3> QED  BY <1>1, <3>4, <3>6, JobChanges, Zenon
  <2> QED  BY <2>1, <2>2
<1>10. UNCHANGED <<content, vec, worker, gen, timers, paused, steps>>  BY DEF Put
<1> QED  BY <1>8, <1>9, <1>10 DEF EmbeddingsInv

LEMMA EmbeddingsStep == ASSUME EmbeddingsInv, [EmbeddingsNext]_embeddingVars PROVE EmbeddingsInv'
<1>1. /\ content \in [Items -> 0..MaxTexts] /\ hash \in [Items -> 0..MaxTexts] /\ vec \in [Items -> 0..MaxTexts]
      /\ worker \in {"none", "loading", "ready"} /\ steps \in 0..MaxSteps /\ gen \in 0..steps
      /\ timers \subseteq Items /\ missed \subseteq Items /\ paused \in BOOLEAN
      /\ QueueHolds(queue) /\ MaxSteps \in Nat /\ MaxTexts \in Nat /\ MaxTexts # 0
  BY EmbeddingsAssumption DEF EmbeddingsInv
<1>2. Once => steps' \in 0..MaxSteps /\ steps' = steps + 1 /\ gen \in 0..steps' /\ gen + 1 \in 0..steps'
  BY <1>1 DEF Once
<1>3. QueueHolds([seq |-> <<>>, keys |-> {}, job |-> NoJob, complete |-> FALSE])
  <2>1. Works(NoJob) /\ NoJob \in JobSet  BY NoJobWorks DEF Works
  <2>2. PICK s : s = <<>>  OBVIOUS
  <2>3. s \in Seq(Items) /\ DOMAIN s = {}  BY <2>2
  <2>4. Lists(s, {})  BY <2>3 DEF Lists, Range, IsInjective
  <2>5. PICK q : q = [seq |-> s, keys |-> {}, job |-> NoJob, complete |-> FALSE]  OBVIOUS
  <2>6. q \in QueueSet /\ q.seq = s /\ q.keys = {} /\ q.job = NoJob  BY <2>1, <2>3, <2>5 DEF QueueSet
  <2> QED  BY <2>1, <2>2, <2>4, <2>5, <2>6 DEF QueueHolds
<1>4. CASE UNCHANGED embeddingVars  BY <1>4 DEF embeddingVars, EmbeddingsInv
<1>5. CASE Start
  <2>1. Started(hash, queue)  BY <1>5 DEF Start
  <2>2. QueueHolds(queue')  BY <1>1, <2>1, StartedHolds, Zenon
  <2> QED  BY <1>1, <1>5, <2>2 DEF Start, Started, EmbeddingsInv
<1>6. CASE ModelLoaded
  <2>1. queue' = Loop(queue, paused) \/ queue' = queue  BY <1>6 DEF ModelLoaded
  <2>2. QueueHolds(queue')  BY <1>1, <2>1, LoopHolds, Zenon
  <2> QED  BY <1>1, <1>6, <2>2 DEF ModelLoaded, EmbeddingsInv
<1>7. CASE Extract
  <2>1. QueueHolds(queue')  BY <1>7, ExtractKeeps
  <2> QED  BY <1>1, <1>7, <2>1 DEF Extract, EmbeddingsInv
<1>8. CASE Embed  BY <1>8, EmbedKeeps
<1>9. CASE Put  BY <1>9, PutKeeps
<1>10. CASE Yield
  <2>1. queue' = Loop(queue, paused)  BY <1>10 DEF Yield
  <2>2. QueueHolds(queue')  BY <1>1, <2>1, LoopHolds, Zenon
  <2> QED  BY <1>1, <1>10, <2>2 DEF Yield, EmbeddingsInv
<1>11. CASE Hide  BY <1>1, <1>2, <1>11 DEF Hide, EmbeddingsInv
<1>12. CASE Show
  <2>1. queue' = Process(queue, FALSE)  BY <1>12 DEF Show
  <2>2. QueueHolds(queue')  BY <1>1, <2>1, ProcessHolds, Zenon
  <2> QED  BY <1>1, <1>12, <2>2 DEF Show, EmbeddingsInv
<1>13. CASE EmbedFails
  <2>1. /\ queue' = [queue EXCEPT !.job = [NoJob EXCEPT !.at = "yield"]]
        /\ missed' = missed \cup {queue.job.texts[i].of : i \in DOMAIN queue.job.texts}
    BY <1>13 DEF EmbedFails
  <2>2. QueueHolds(queue')  BY <1>1, <2>1, NoJobWorks, JobChanges, Zenon
  <2>3. queue.job \in JobSet  BY <1>1 DEF QueueHolds, Works
  <2>4. PICK texts \in Seq(TextSet) : texts = queue.job.texts  BY <2>3 DEF JobSet
  <2>5. \A i \in DOMAIN texts : texts[i].of \in Items
    <3> SUFFICES ASSUME NEW i \in DOMAIN texts PROVE texts[i].of \in Items  OBVIOUS
    <3>1. texts[i] \in TextSet  OBVIOUS
    <3> QED  BY <3>1 DEF TextSet
  <2>6. missed' \subseteq Items  BY <1>1, <2>1, <2>4, <2>5
  <2> QED  BY <1>1, <1>2, <1>13, <2>2, <2>6 DEF EmbedFails, EmbeddingsInv
<1>14. CASE Rebuild
  <2>1. PICK q : q = [queue EXCEPT !.seq = <<>>, !.keys = {}, !.complete = FALSE]  OBVIOUS
  <2>2. QueueHolds(q)
    <3>1. queue \in QueueSet /\ Works(queue.job)  BY <1>1 DEF QueueHolds
    <3>2. PICK s : s = <<>>  OBVIOUS
    <3>3. s \in Seq(Items) /\ DOMAIN s = {}  BY <3>2
    <3>4. Lists(s, {})  BY <3>3 DEF Lists, Range, IsInjective
    <3>5. q \in QueueSet /\ q.seq = s /\ q.keys = {} /\ q.job = queue.job
      BY <2>1, <3>1, <3>2, <3>3 DEF QueueSet
    <3> QED  BY <3>1, <3>4, <3>5 DEF QueueHolds
  <2>3. PICK h : h = [x \in Items |-> 0]  OBVIOUS
  <2>4. h \in [Items -> 0..MaxTexts]  BY <1>1, <2>3
  <2>5. hash' = h /\ Started(h, q)  BY <1>14, <2>1, <2>3 DEF Rebuild, Started
  <2>6. QueueHolds(queue')  BY <2>2, <2>5, StartedHolds, Zenon
  <2>7. vec' = h /\ worker' = "loading" /\ missed' = {}  BY <2>5 DEF Started
  <2> QED  BY <1>1, <1>2, <1>14, <2>4, <2>5, <2>6, <2>7 DEF Rebuild, EmbeddingsInv
<1>15. CASE Reload
  <2>1. QueueHolds(queue')  BY <1>3, <1>15 DEF Reload
  <2>2. vec' \in [Items -> 0..MaxTexts]  BY <1>1, <1>15 DEF Reload
  <2>3. steps' \in 0..MaxSteps /\ gen' \in 0..steps'  BY <1>1, <1>2, <1>15 DEF Reload
  <2>4. worker' = "none" /\ timers' = {} /\ missed' = {} /\ paused' = FALSE /\ UNCHANGED <<content, hash>>
    BY <1>15 DEF Reload
  <2> QED  BY <1>1, <2>1, <2>2, <2>3, <2>4 DEF EmbeddingsInv
<1>16. ASSUME NEW x \in Items, Timeout(x) PROVE EmbeddingsInv'
  <2>1. queue' = Enqueue(queue, x, FALSE)  BY <1>16 DEF Timeout
  <2>2. QueueHolds(queue')  BY <1>1, <2>1, EnqueueHolds, Zenon
  <2> QED  BY <1>1, <1>16, <2>2 DEF Timeout, Hinted, EmbeddingsInv
<1>17. ASSUME NEW x \in Items, Change(x) \/ Retitle(x) PROVE EmbeddingsInv'
  <2>1. content[x] + 1 \in 0..MaxTexts  BY <1>1, <1>17 DEF Change, Retitle
  <2>2. content' \in [Items -> 0..MaxTexts]  BY <1>1, <1>17, <2>1 DEF Change, Retitle
  <2> QED  BY <1>1, <1>17, <2>2 DEF Change, Retitle, EmbeddingsInv
<1>18. ASSUME NEW x \in Items, DeleteItem(x) PROVE EmbeddingsInv'
  BY <1>1, <1>18 DEF DeleteItem, EmbeddingsInv
<1>19. ASSUME NEW x \in Items, NEW high \in BOOLEAN, AskFor(x, high) PROVE EmbeddingsInv'
  <2>1. queue' = Enqueue(queue, x, high)  BY <1>19 DEF AskFor
  <2>2. QueueHolds(queue')  BY <1>1, <2>1, EnqueueHolds, Zenon
  <2> QED  BY <1>1, <1>2, <1>19, <2>2 DEF AskFor, Hinted, EmbeddingsInv
<1> QED
  BY <1>4, <1>5, <1>6, <1>7, <1>8, <1>9, <1>10, <1>11, <1>12, <1>13, <1>14, <1>15, <1>16, <1>17, <1>18,
     <1>19 DEF EmbeddingsNext, Work

LEMMA EmbeddingsStart == EmbeddingsInit => EmbeddingsInv
<1> SUFFICES ASSUME EmbeddingsInit PROVE EmbeddingsInv  OBVIOUS
<1>1. MaxTexts \in Nat /\ MaxTexts # 0 /\ MaxSteps \in Nat  BY EmbeddingsAssumption
<1>2. /\ content \in [Items -> 0..MaxTexts] /\ hash \in [Items -> 0..MaxTexts]
      /\ vec \in [Items -> 0..MaxTexts]
  BY <1>1 DEF EmbeddingsInit
<1>3. PICK s : s = <<>>  OBVIOUS
<1>4. s \in Seq(Items) /\ DOMAIN s = {}  BY <1>3
<1>5. Lists(s, {})  BY <1>4 DEF Lists, Range, IsInjective
<1>6. Works(NoJob) /\ NoJob \in JobSet  BY NoJobWorks DEF Works
<1>7. queue = [seq |-> s, keys |-> {}, job |-> NoJob, complete |-> FALSE]  BY <1>3 DEF EmbeddingsInit
<1>8. queue \in QueueSet /\ queue.seq = s /\ queue.keys = {} /\ queue.job = NoJob
  BY <1>4, <1>6, <1>7 DEF QueueSet
<1>9. QueueHolds(queue)  BY <1>5, <1>6, <1>8 DEF QueueHolds
<1>10. /\ worker = "none" /\ gen = 0 /\ timers = {} /\ paused = FALSE /\ missed = {} /\ steps = 0
  BY DEF EmbeddingsInit
<1>11. steps \in 0..MaxSteps /\ gen \in 0..steps  BY <1>1, <1>10
<1> QED  BY <1>2, <1>9, <1>10, <1>11 DEF EmbeddingsInv

LEMMA EmbeddingsTyped == EmbeddingsInv => EmbeddingsTypeOK
<1> SUFFICES ASSUME EmbeddingsInv PROVE EmbeddingsTypeOK  OBVIOUS
<1>1. gen \in 0..MaxSteps  BY EmbeddingsAssumption DEF EmbeddingsInv
<1>2. Range(queue.seq) = queue.keys /\ IsInjective(queue.seq)
  BY DEF EmbeddingsInv, QueueHolds, Lists
<1> QED  BY <1>1, <1>2 DEF EmbeddingsInv, EmbeddingsTypeOK

(* vector-search.ts: the queue and the set of what is queued agree, and no *)
(* recipe is queued twice, whatever is asked for, hidden or terminated     *)
(* while a batch is embedded.                                              *)
THEOREM EmbeddingsTypeCorrect == EmbeddingsSpec => []EmbeddingsTypeOK
<1>1. EmbeddingsInit => EmbeddingsInv  BY EmbeddingsStart
<1>2. EmbeddingsInv /\ [EmbeddingsNext]_embeddingVars => EmbeddingsInv'  BY EmbeddingsStep
<1>3. EmbeddingsInv => EmbeddingsTypeOK  BY EmbeddingsTyped
<1> QED  BY <1>1, <1>2, <1>3, PTL DEF EmbeddingsSpec

-----------------------------------------------------------------------------
(* All of them, side by side.                                              *)

ServicesInv == EmbeddingsInv /\ BlobInv /\ LinkInv /\ CursorsInv /\ FlowInv /\ IInv

LEMMA ServicesStep == ASSUME ServicesInv, [ServicesNext]_servicesVars PROVE ServicesInv'
<1>1. EmbeddingsInv /\ BlobInv /\ LinkInv /\ CursorsInv /\ FlowInv /\ IInv  BY DEF ServicesInv
<1>2. [EmbeddingsNext]_embeddingVars  BY DEF ServicesNext, servicesVars
<1>3. [BlobsNext]_blobVars  BY DEF ServicesNext, servicesVars
<1>4. [LinkNext]_linkVars  BY DEF ServicesNext, servicesVars
<1>5. [CursorsNext]_cursorVars  BY DEF ServicesNext, servicesVars
<1>6. [PumpsNext]_pumpVars  BY DEF ServicesNext, servicesVars
<1>7. [BucketNext]_bucketVars  BY DEF ServicesNext, servicesVars
<1>8. EmbeddingsInv'  BY <1>1, <1>2, EmbeddingsStep
<1>9. BlobInv'  BY <1>1, <1>3, BlobStep
<1>10. LinkInv'  BY <1>1, <1>4, LinkStep
<1>11. CursorsInv'  BY <1>1, <1>5, CursorsStep
<1>12. FlowInv'  BY <1>1, <1>6, FlowStep
<1>13. IInv'  BY <1>1, <1>7, NextIInv
<1> QED  BY <1>8, <1>9, <1>10, <1>11, <1>12, <1>13 DEF ServicesInv

(* The invariant the run of the services checks: every part keeps its      *)
(* types, whatever it does and for every value of its constants.           *)
THEOREM ServicesTypeCorrect == ServicesSpec => []ServicesTypeOK
<1>1. ServicesInit => ServicesInv
  BY EmbeddingsStart, BlobsStart, LinkStart, CursorsStart, FlowStart, InitIInv DEF ServicesInit, ServicesInv
<1>2. ServicesInv /\ [ServicesNext]_servicesVars => ServicesInv'  BY ServicesStep
<1>3. ServicesInv => ServicesTypeOK
  <2>1. BlobInv => BlobsTypeOK
    BY BlobsAssumption DEF BlobInv, BlobTypes, BlobsTypeOK, FlushSet
  <2>2. LinkInv => LinkTypeOK  BY DEF LinkInv
  <2>3. CursorsInv => CursorsTypeOK  BY DEF CursorsInv
  <2>4. FlowInv => PumpsTypeOK  BY DEF FlowInv
  <2>5. IInv => BucketTypeOK  BY DEF IInv
  <2> QED  BY <2>1, <2>2, <2>3, <2>4, <2>5, EmbeddingsTyped DEF ServicesInv, ServicesTypeOK
<1> QED  BY <1>1, <1>2, <1>3, PTL DEF ServicesSpec
=============================================================================
