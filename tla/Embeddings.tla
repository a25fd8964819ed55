------------------------------ MODULE Embeddings ------------------------------
(***************************************************************************)
(* Background indexing for the search by meaning: the queue of             *)
(* lib/vector-search.ts, its database (lib/embedding-store.ts) and its     *)
(* worker (workers/embedding-worker.ts).                                   *)
(*                                                                         *)
(* A text, its hash and its vector are the number of the text; 0 is none.  *)
(* What a function does between two awaits is one action.                  *)
(***************************************************************************)
EXTENDS Naturals, Sequences, FiniteSets, SequencesExt

CONSTANTS
  Items,       \* recipes
  BatchSize,   \* recipes embedded at a time
  MaxTexts,    \* bound: texts a recipe has had
  MaxSteps     \* bound: what the user does but for changes, and failed batches

ASSUME EmbeddingsAssumption ==
  /\ IsFiniteSet(Items) /\ BatchSize \in Nat \ {0}
  /\ MaxTexts \in Nat \ {0} /\ MaxSteps \in Nat

VARIABLES
  content,   \* the recipe's text; 0: not in its catalog
  hash,      \* the text whose vector IndexedDB holds
  vec,       \* the text whose vector the worker holds
  worker,    \* "none", "loading", "ready"
  gen,       \* workers terminated
  queue,     \* the queue with its set of keys, the batch, and indexingComplete
  timers,    \* invalidateTimers
  paused,    \* the tab is hidden
  missed,    \* history: changes nobody told of, batches failed, vectors of an old worker
  steps

embeddingVars == <<content, hash, vec, worker, gen, queue, timers, paused, missed, steps>>

NoJob == [at |-> "none", todo |-> <<>>, texts |-> <<>>, gen |-> 0]

EmbeddingsInit ==
  /\ content = [x \in Items |-> 1] /\ hash = [x \in Items |-> 0] /\ vec = hash
  /\ worker = "none" /\ gen = 0 /\ timers = {} /\ paused = FALSE /\ missed = {} /\ steps = 0
  /\ queue = [seq |-> <<>>, keys |-> {}, job |-> NoJob, complete |-> FALSE]

Once == steps < MaxSteps /\ steps' = steps + 1

(* A batch whose worker a rebuild has terminated is awaited for ever.      *)
Stuck == queue.job.at = "embed" /\ queue.job.gen # gen

-----------------------------------------------------------------------------
(* The queue.                                                              *)

(* Variant: the keys stay in the set until the batch is embedded.          *)
Batch_KeepKeys(q, rest) ==
  [q EXCEPT !.job = [NoJob EXCEPT !.at = "extract", !.todo = SubSeq(q.seq, 1, Len(q.seq) - Len(rest))],
            !.seq = rest]

(* The next recipes leave the queue and the set, to be extracted.          *)
Batch(q, rest) ==
  LET todo == SubSeq(q.seq, 1, Len(q.seq) - Len(rest))
  IN  [q EXCEPT !.job = [NoJob EXCEPT !.at = "extract", !.todo = todo],
                !.seq = rest, !.keys = @ \ Range(todo)]

(* Variant: processing is not reset when the loop ends.                    *)
Loop_StaysBusy(q, hidden) ==
  IF q.seq # <<>> /\ ~hidden
    THEN Batch(q, SubSeq(q.seq, BatchSize + 1, Len(q.seq)))
    ELSE [q EXCEPT !.complete = @ \/ q.seq = <<>>, !.job.at = "busy"]

(* The loop of processQueue, and what follows it.                          *)
Loop(q, hidden) ==
  IF q.seq # <<>> /\ ~hidden
    THEN Batch(q, SubSeq(q.seq, BatchSize + 1, Len(q.seq)))
    ELSE [q EXCEPT !.complete = @ \/ q.seq = <<>>, !.job = NoJob]

(* processQueue returns at once while it runs, loads or is hidden.         *)
Process(q, hidden) ==
  IF worker = "ready" /\ ~hidden /\ q.job.at = "none" THEN Loop(q, hidden) ELSE q

(* enqueueRecipe: "high" to the front, unless it is queued already.        *)
Enqueue(q, x, high) ==
  IF x \in q.keys THEN q
  ELSE Process([q EXCEPT !.keys = @ \cup {x}, !.complete = FALSE,
                         !.seq = IF high THEN <<x>> \o @ ELSE Append(@, x)], paused)

(* initVectorSearch: the stored vectors go to the new worker, every recipe *)
(* of an open catalog into the queue.                                      *)
Started(h, q) ==
  /\ worker' = "loading" /\ vec' = h
  /\ LET new == SetToSeq({x \in Items : content[x] # 0} \ q.keys)
     IN  queue' = [q EXCEPT !.seq = @ \o new, !.keys = @ \cup Range(new),
                            !.complete = @ /\ new = <<>>]
  /\ missed' = {}

Start ==
  /\ worker = "none" /\ Started(hash, queue)
  /\ UNCHANGED <<content, hash, gen, timers, paused, steps>>

ModelLoaded ==
  /\ worker = "loading" /\ worker' = "ready"
  /\ queue' = IF ~paused /\ queue.job.at = "none" THEN Loop(queue, paused) ELSE queue
  /\ UNCHANGED <<content, hash, vec, gen, timers, paused, missed, steps>>

(* visibilitychange                                                        *)
Hide ==
  /\ worker # "none" /\ ~paused /\ paused' = TRUE /\ Once
  /\ UNCHANGED <<content, hash, vec, worker, gen, queue, timers, missed>>

Show ==
  /\ paused /\ paused' = FALSE
  /\ queue' = Process(queue, FALSE)
  /\ UNCHANGED <<content, hash, vec, worker, gen, timers, missed, steps>>

-----------------------------------------------------------------------------
(* The recipes change.                                                     *)

(* A change of a recipe's document, here or elsewhere (invalidateRecipe).  *)
Change(x) ==
  /\ worker # "none" /\ content[x] \in 1..(MaxTexts - 1)
  /\ content' = [content EXCEPT ![x] = @ + 1] /\ timers' = timers \cup {x}
  /\ UNCHANGED <<hash, vec, worker, gen, queue, paused, missed, steps>>

(* A change of the title or the tags: nothing invalidates the recipe.      *)
Retitle(x) ==
  /\ worker # "none" /\ content[x] \in 1..(MaxTexts - 1)
  /\ content' = [content EXCEPT ![x] = @ + 1] /\ missed' = missed \cup {x}
  /\ UNCHANGED <<hash, vec, worker, gen, queue, timers, paused, steps>>

(* Being queued helps unless the hash says there is nothing to do.         *)
Hinted(x) == IF hash[x] = content[x] THEN missed ELSE missed \ {x}

Timeout(x) ==
  /\ x \in timers /\ timers' = timers \ {x}
  /\ queue' = Enqueue(queue, x, FALSE) /\ missed' = Hinted(x)
  /\ UNCHANGED <<content, hash, vec, worker, gen, paused, steps>>

(* A recipe is selected; the catalog has caught up (rebuildBookIndex).     *)
AskFor(x, high) ==
  /\ worker # "none" /\ content[x] # 0 /\ x \notin queue.keys /\ Once
  /\ queue' = Enqueue(queue, x, high) /\ missed' = Hinted(x)
  /\ UNCHANGED <<content, hash, vec, worker, gen, timers, paused>>

(* A recipe leaves its catalog.  Nothing removes its vector.               *)
DeleteItem(x) ==
  /\ content[x] # 0 /\ content' = [content EXCEPT ![x] = 0]
  /\ UNCHANGED <<hash, vec, worker, gen, queue, timers, paused, missed, steps>>

-----------------------------------------------------------------------------
(* processQueue works off its batch.                                       *)

(* extractRecipeText and the comparison of hashes, for the next recipe.    *)
Extract ==
  /\ queue.job.at = "extract"
  /\ LET job == queue.job
         x == Head(job.todo)
         texts == IF content[x] \in {0, hash[x]} THEN job.texts
                  ELSE Append(job.texts, [of |-> x, n |-> content[x]])
         at == IF Len(job.todo) > 1 THEN "extract" ELSE IF texts = <<>> THEN "yield" ELSE "embed"
     IN  queue' = [queue EXCEPT !.job = [at |-> at, todo |-> Tail(job.todo), texts |-> texts, gen |-> gen]]
  /\ UNCHANGED <<content, hash, vec, worker, gen, timers, paused, missed, steps>>

(* embedBatch in the worker, and its answer.                               *)
Embed ==
  /\ queue.job.at = "embed" /\ ~Stuck /\ worker = "ready"
  /\ vec' = [x \in Items |-> LET new == {t \in Range(queue.job.texts) : t.of = x}
                             IN  IF new = {} THEN vec[x] ELSE (CHOOSE t \in new : TRUE).n]
  /\ queue' = [queue EXCEPT !.job.at = "put"]
  /\ UNCHANGED <<content, hash, worker, gen, timers, paused, missed, steps>>

(* The worker answers "error": the batch is not tried again.               *)
EmbedFails ==
  /\ queue.job.at = "embed" /\ ~Stuck /\ Once
  /\ missed' = missed \cup {queue.job.texts[i].of : i \in DOMAIN queue.job.texts}
  /\ queue' = [queue EXCEPT !.job = [NoJob EXCEPT !.at = "yield"]]
  /\ UNCHANGED <<content, hash, vec, worker, gen, timers, paused>>

(* putEmbedding, a vector at a time, into the database open by now: the    *)
(* vector of a worker terminated since is one the new worker has not got.  *)
Put ==
  /\ queue.job.at = "put"
  /\ LET t == Head(queue.job.texts)
     IN  /\ hash' = [hash EXCEPT ![t.of] = t.n]
         /\ missed' = IF queue.job.gen = gen THEN missed ELSE missed \cup {t.of}
         /\ queue' = IF Len(queue.job.texts) = 1 THEN [queue EXCEPT !.job = [NoJob EXCEPT !.at = "yield"]]
                     ELSE [queue EXCEPT !.job.texts = Tail(@)]
  /\ UNCHANGED <<content, vec, worker, gen, timers, paused, steps>>

Yield ==
  /\ queue.job.at = "yield"
  /\ queue' = Loop(queue, paused)
  /\ UNCHANGED <<content, hash, vec, worker, gen, timers, paused, missed, steps>>

(* "Rebuild": clearAll, then initVectorSearch.  The worker is terminated   *)
(* whatever it is asked, and its answer awaited all the same.              *)
Rebuild ==
  /\ worker # "none" /\ Once
  /\ hash' = [x \in Items |-> 0] /\ gen' = gen + 1 /\ timers' = {}
  /\ Started(hash', [queue EXCEPT !.seq = <<>>, !.keys = {}, !.complete = FALSE])
  /\ UNCHANGED <<content, paused>>

(* The page is loaded again: only IndexedDB is left.                       *)
Reload ==
  /\ Once
  /\ worker' = "none" /\ vec' = [x \in Items |-> 0] /\ gen' = 0
  /\ queue' = [seq |-> <<>>, keys |-> {}, job |-> NoJob, complete |-> FALSE]
  /\ timers' = {} /\ paused' = FALSE /\ missed' = {}
  /\ UNCHANGED <<content, hash>>

Work == Start \/ ModelLoaded \/ Extract \/ Embed \/ Put \/ Yield

EmbeddingsNext ==
  \/ Work \/ Hide \/ Show \/ EmbedFails \/ Rebuild \/ Reload
  \/ \E x \in Items : Timeout(x) \/ Change(x) \/ Retitle(x) \/ DeleteItem(x) \/ \E high \in BOOLEAN : AskFor(x, high)

EmbeddingsSpec ==
  /\ EmbeddingsInit /\ [][EmbeddingsNext]_embeddingVars
  /\ WF_embeddingVars(Work) /\ WF_embeddingVars(Show)
  /\ \A x \in Items : WF_embeddingVars(Timeout(x))

-----------------------------------------------------------------------------
EmbeddingsTypeOK ==
  /\ content \in [Items -> 0..MaxTexts] /\ hash \in [Items -> 0..MaxTexts] /\ vec \in [Items -> 0..MaxTexts]
  /\ worker \in {"none", "loading", "ready"} /\ gen \in 0..MaxSteps /\ steps \in 0..MaxSteps
  /\ timers \subseteq Items /\ missed \subseteq Items /\ paused \in BOOLEAN
  /\ Range(queue.seq) = queue.keys /\ IsInjective(queue.seq)

(* The index catches up with the text the recipe has, unless a batch       *)
(* failed, nothing was told, or a rebuild has terminated the worker the    *)
(* batch in progress waits for.                                            *)
IndexCatchesUp ==
  \A x \in Items, n \in 1..MaxTexts :
    (content[x] = n /\ worker # "none")
      ~> (content[x] # n \/ (hash[x] = n /\ vec[x] = n) \/ x \in missed \/ Stuck)
=============================================================================
