----------------------------- MODULE MCServices -------------------------------
(* What works behind the page, part by part as in MCPage: the embedding of    *)
(* recipes, pictures, the connection and the other user's cursors; and the    *)
(* server's end of the connection, its queues and its rate limiter.           *)
EXTENDS Embeddings, Blobs, Link, Cursors, Pumps, TokenBucket, TLC

CONSTANTS i1, i2, i3

VARIABLE part

servicesVars == <<part, embeddingVars, blobVars, linkVars, cursorVars,
                  pumpVars, bucketVars>>

ServicesInit ==
  /\ part \in {"embeddings", "blobs", "link", "cursors", "pumps", "bucket"}
  /\ EmbeddingsInit /\ BlobsInit /\ LinkInit /\ CursorsInit
  /\ PumpsInit /\ BucketInit

ServicesNext ==
  /\ UNCHANGED part
  /\ \/ part = "embeddings" /\ EmbeddingsNext
     \/ part # "embeddings" /\ UNCHANGED embeddingVars
  /\ \/ part = "blobs" /\ BlobsNext
     \/ part # "blobs" /\ UNCHANGED blobVars
  /\ \/ part = "link" /\ LinkNext
     \/ part # "link" /\ UNCHANGED linkVars
  /\ \/ part = "cursors" /\ CursorsNext
     \/ part # "cursors" /\ UNCHANGED cursorVars
  /\ \/ part = "pumps" /\ PumpsNext
     \/ part # "pumps" /\ UNCHANGED pumpVars
  /\ \/ part = "bucket" /\ BucketNext
     \/ part # "bucket" /\ UNCHANGED bucketVars

(* Each part with the fairness of its own specification.                     *)
ServicesSpec ==
  /\ ServicesInit /\ [][ServicesNext]_servicesVars
  /\ WF_cursorVars(part = "cursors" /\ Fade) /\ WF_cursorVars(part = "cursors" /\ Deliver)
  /\ WF_embeddingVars(part = "embeddings" /\ Work) /\ WF_embeddingVars(part = "embeddings" /\ Show)
  /\ \A i \in Items : WF_embeddingVars(part = "embeddings" /\ Timeout(i))
  /\ WF_blobVars(part = "blobs" /\ Flushes)
  /\ \A c \in Pics, flushed \in BOOLEAN : WF_blobVars(part = "blobs" /\ Sends(c, flushed))
  /\ WF_linkVars(part = "link" /\ Beat) /\ WF_linkVars(part = "link" /\ TimerFires)
  /\ WF_linkVars(part = "link" /\ Closing) /\ WF_linkVars(part = "link" /\ Reconnect)
  /\ \A a \in Asks : WF_linkVars(part = "link" /\ AskTimesOut(a))
  /\ \A p \in Posters : WF_pumpVars(part = "pumps" /\ Broadcast(p))
  /\ WF_pumpVars(part = "pumps" /\ OtherLocks) /\ WF_pumpVars(part = "pumps" /\ Queueing)
  /\ WF_pumpVars(part = "pumps" /\ Writing) /\ WF_pumpVars(part = "pumps" /\ AnswerIt)
  /\ WF_pumpVars(part = "pumps" /\ ReadError) /\ WF_pumpVars(part = "pumps" /\ Unregister)
  /\ WF_pumpVars(part = "pumps" /\ MuteCut)

(* The types of every part.                                                  *)
ServicesTypeOK ==
  /\ EmbeddingsTypeOK /\ BlobsTypeOK /\ LinkTypeOK /\ CursorsTypeOK
  /\ PumpsTypeOK /\ BucketTypeOK
===============================================================================
