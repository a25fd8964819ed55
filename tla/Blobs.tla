-------------------------------- MODULE Blobs --------------------------------
(***************************************************************************)
(* The pictures of a book in one browser (lib/blob-client.ts): pasted into *)
(* the editor (views/detail/asset-handling.ts, lib/asset-processing.ts),   *)
(* imported or copied from another book, stored encrypted in IndexedDB     *)
(* with a flag until the server has them, and loaded.                      *)
(*                                                                         *)
(* A picture is its checksum; encrypted, it is the generation of the key.  *)
(***************************************************************************)
EXTENDS Naturals

CONSTANTS
  Pics,     \* checksums
  Shared,   \* pictures in the recipes to begin with, stored by someone else
  MaxOdds   \* bound: failed or lost requests, reloads, rotations, recipes left

ASSUME BlobsAssumption == Shared \subseteq Pics /\ MaxOdds \in Nat

VARIABLES
  bookKey,  \* the key of the book
  local,    \* blob: the key a picture is stored under; 0: not stored
  unsent,   \* blobDirty:
  remote,   \* the same on the server
  links,    \* pictures the recipes refer to
  pasted,   \* placeholders in the editor's text
  storing,  \* storeBlob calls and what comes before: [of, key, at, way]
  uploads,  \* requests: [of, key, flush, answer]
  flush,    \* flushDirtyBlobs: the keys left, with one under way or not
  odds

blobVars == <<bookKey, local, unsent, remote, links, pasted, storing, uploads,
              flush, odds>>

Idle == [todo |-> {}, busy |-> FALSE]
Odd == odds < MaxOdds /\ odds' = odds + 1

BlobsInit ==
  /\ bookKey = 1 /\ local = [c \in Pics |-> 0] /\ unsent = {}
  /\ remote = [c \in Pics |-> IF c \in Shared THEN 1 ELSE 0] /\ links = Shared
  /\ pasted = {} /\ storing = {} /\ uploads = {} /\ flush = Idle
  /\ odds = 0

-----------------------------------------------------------------------------
(* Storing.                                                                *)

(* A picture is stored once under a key; to store it again, or twice at a  *)
(* time, writes the same.                                                  *)
Fresh(c) == (\A s \in storing : s.of # c) /\ (local[c] # bookKey \/ c \notin links)

(* handleAssetFiles puts a placeholder where the picture is to be; an      *)
(* import or a copy has no such thing.                                     *)
Paste(c) ==
  /\ Fresh(c)
  /\ pasted' = pasted \cup {c}
  /\ storing' = storing \cup {[of |-> c, key |-> 0, at |-> "process", way |-> "paste"]}
  /\ UNCHANGED <<bookKey, local, unsent, remote, links, uploads, flush, odds>>

Import(c) ==
  /\ Fresh(c)
  /\ storing' = storing \cup {[of |-> c, key |-> 0, at |-> "process", way |-> "import"]}
  /\ UNCHANGED <<bookKey, local, unsent, remote, links, pasted, uploads, flush, odds>>

(* processAsset, and the encryption under the book's key of this moment.   *)
ProcessAsset(s) ==
  /\ s \in storing /\ s.at = "process"
  /\ storing' = (storing \ {s}) \cup {[s EXCEPT !.at = "blob", !.key = bookKey]}
  /\ UNCHANGED <<bookKey, local, unsent, remote, links, pasted, uploads, flush, odds>>

(* AssetError: not a picture, too large.  The placeholder is taken out.    *)
Refuse(s) ==
  /\ s \in storing /\ s.at = "process" /\ Odd
  /\ storing' = storing \ {s}
  /\ pasted' = IF s.way = "paste" THEN pasted \ {s.of} ELSE pasted
  /\ UNCHANGED <<bookKey, local, unsent, remote, links, uploads, flush>>

(* The blob and its metadata are written, then the flag: IndexedDB keeps   *)
(* the order of the three writes.                                          *)
PutBlob(s) ==
  /\ s \in storing /\ s.at = "blob"
  /\ local' = [local EXCEPT ![s.of] = s.key]
  /\ storing' = (storing \ {s}) \cup {[s EXCEPT !.at = "flag"]}
  /\ UNCHANGED <<bookKey, unsent, remote, links, pasted, uploads, flush, odds>>

(* storeBlob returns: the link takes the placeholder's place, and the      *)
(* upload goes on in the background.                                       *)
PutFlag(s) ==
  /\ s \in storing /\ s.at = "flag"
  /\ unsent' = unsent \cup {s.of} /\ storing' = storing \ {s}
  /\ links' = IF s.way = "left" THEN links ELSE links \cup {s.of}
  /\ pasted' = IF s.way = "paste" THEN pasted \ {s.of} ELSE pasted
  /\ uploads' = uploads \cup {[of |-> s.of, key |-> s.key, flush |-> FALSE, answer |-> "none"]}
  /\ UNCHANGED <<bookKey, local, remote, flush, odds>>

-----------------------------------------------------------------------------
(* Sending.                                                                *)

(* The server keeps the first version of a checksum it is given.           *)
Arrive(u) ==
  /\ u \in uploads /\ u.answer = "none"
  /\ remote' = IF remote[u.of] = 0 THEN [remote EXCEPT ![u.of] = u.key] ELSE remote
  /\ uploads' = (uploads \ {u}) \cup {[u EXCEPT !.answer = "ok"]}
  /\ UNCHANGED <<bookKey, local, unsent, links, pasted, storing, flush, odds>>

(* The network fails, before or after the server has it; a viewer, or a    *)
(* body over 10 MB, is refused.                                            *)
Fail(u) ==
  /\ u \in uploads /\ u.answer # "failed" /\ Odd
  /\ uploads' = (uploads \ {u}) \cup {[u EXCEPT !.answer = "failed"]}
  /\ UNCHANGED <<bookKey, local, unsent, remote, links, pasted, storing, flush>>

(* Variant: the flag goes whatever the answer is.                          *)
Answer_Any(u) ==
  /\ u \in uploads /\ u.answer # "none"
  /\ uploads' = uploads \ {u} /\ unsent' = unsent \ {u.of}
  /\ flush' = IF u.flush THEN [flush EXCEPT !.busy = FALSE] ELSE flush
  /\ UNCHANGED <<bookKey, local, remote, links, pasted, storing, odds>>

(* Only a success deletes the flag; a flush goes on with the next blob.    *)
Answer(u) ==
  /\ u \in uploads /\ u.answer # "none"
  /\ uploads' = uploads \ {u}
  /\ unsent' = IF u.answer = "ok" THEN unsent \ {u.of} ELSE unsent
  /\ flush' = IF u.flush THEN [flush EXCEPT !.busy = FALSE] ELSE flush
  /\ UNCHANGED <<bookKey, local, remote, links, pasted, storing, odds>>

(* A vault list has arrived: the flags are listed ...                      *)
Flush ==
  /\ flush = Idle /\ unsent # {}
  /\ flush' = [todo |-> unsent, busy |-> FALSE]
  /\ UNCHANGED <<bookKey, local, unsent, remote, links, pasted, storing, uploads, odds>>

(* Variant: one blob a vault list.                                         *)
FlushNext_One(c) ==
  /\ c \in flush.todo /\ ~flush.busy
  /\ flush' = [todo |-> {}, busy |-> TRUE]
  /\ uploads' = uploads \cup {[of |-> c, key |-> local[c], flush |-> TRUE, answer |-> "none"]}
  /\ UNCHANGED <<bookKey, local, unsent, remote, links, pasted, storing, odds>>

(* ... and their blobs sent one after the other.                           *)
FlushNext(c) ==
  /\ c \in flush.todo /\ ~flush.busy
  /\ flush' = [todo |-> flush.todo \ {c}, busy |-> TRUE]
  /\ uploads' = uploads \cup {[of |-> c, key |-> local[c], flush |-> TRUE, answer |-> "none"]}
  /\ UNCHANGED <<bookKey, local, unsent, remote, links, pasted, storing, odds>>

-----------------------------------------------------------------------------
(* loadBlobUrl, loadBlobDecrypted: what IndexedDB has not got is fetched   *)
(* and kept; it is shown if the book's key opens it.                       *)
Load(c) ==
  /\ c \in links /\ local[c] = 0 /\ remote[c] # 0
  /\ local' = [local EXCEPT ![c] = remote[c]]
  /\ UNCHANGED <<bookKey, unsent, remote, links, pasted, storing, uploads, flush, odds>>

(* The recipe is left: the editor's view is destroyed, and what it was     *)
(* about to insert goes nowhere.                                           *)
LeaveRecipe ==
  /\ pasted # {} /\ Odd
  /\ storing' = {IF s.way = "paste" THEN [s EXCEPT !.way = "left"] ELSE s : s \in storing}
  /\ UNCHANGED <<bookKey, local, unsent, remote, links, pasted, uploads, flush>>

(* The book's key is rotated; blobs are not encrypted anew.                *)
RotateKey ==
  /\ Odd /\ bookKey' = bookKey + 1
  /\ UNCHANGED <<local, unsent, remote, links, pasted, storing, uploads, flush>>

(* The page is loaded again, in the middle of anything.                    *)
ReloadPage ==
  /\ Odd
  /\ storing' = {} /\ flush' = Idle /\ uploads' = {}
  /\ UNCHANGED <<bookKey, local, unsent, remote, links, pasted>>

Stores(c) == \E s \in storing : s.of = c /\ (ProcessAsset(s) \/ PutBlob(s) \/ PutFlag(s))
Sends(c, flushed) == \E u \in uploads : u.of = c /\ u.flush = flushed /\ (Arrive(u) \/ Answer(u))
Flushes == \E c \in Pics : FlushNext(c)

BlobsNext ==
  \/ \E c \in Pics : Stores(c) \/ Load(c) \/ Paste(c) \/ Import(c)
  \/ \E c \in Pics, flushed \in BOOLEAN : Sends(c, flushed)
  \/ Flushes \/ Flush \/ LeaveRecipe \/ RotateKey \/ ReloadPage
  \/ \E s \in storing : Refuse(s)
  \/ \E u \in uploads : Fail(u)

BlobsSpec ==
  /\ BlobsInit /\ [][BlobsNext]_blobVars
  /\ WF_blobVars(Flushes)
  /\ \A c \in Pics, flushed \in BOOLEAN : WF_blobVars(Sends(c, flushed))

-----------------------------------------------------------------------------
BlobsTypeOK ==
  /\ bookKey \in 1..(MaxOdds + 1) /\ odds \in 0..MaxOdds
  /\ local \in [Pics -> 0..bookKey] /\ remote \in [Pics -> 0..bookKey]
  /\ unsent \subseteq Pics /\ links \subseteq Pics /\ pasted \subseteq Pics
  /\ flush.todo \subseteq Pics

(* A picture a recipe refers to is on the server, or its flag will bring   *)
(* it there, whatever was lost in between (blob-client.ts:59 "dirty flag   *)
(* ensures retry on reconnect").                                           *)
LinkedIsKept == \A c \in links : remote[c] # 0 \/ (c \in unsent /\ local[c] # 0)

(* A flush sends every blob that was flagged when the vault list came,     *)
(* unless something fails in the meantime.                                 *)
FlushReaches ==
  \A c \in Pics, n \in 0..MaxOdds :
    (c \in flush.todo /\ odds = n) ~> (remote[c] # 0 \/ odds # n)
=============================================================================
