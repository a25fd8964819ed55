----------------------------- MODULE MCReconnect -----------------------------
(***************************************************************************)
(* PushQueue through a lost connection or a reload, and a flush of two     *)
(* documents.  Document a belongs to the vault, b and c to nobody else.    *)
(* What has been edited, pushed and acknowledged before the page loads     *)
(* again stays as it is, so that a behaviour is about a or about the pair. *)
(***************************************************************************)
EXTENDS PushQueue, TLC

CONSTANTS a, b, c, book

OneShared == [d \in Docs |-> IF d = a THEN book ELSE Personal]

(* The page loads when the documents D are on the server, and the user has *)
(* the given access to the vault; n connections were lost before.          *)
Loaded(D, role, n) ==
  /\ ver = [d \in Docs |-> IF d \in D THEN MaxEdits ELSE 0]
  /\ saved = ver /\ srv = ver
  /\ heads = [d \in Docs |-> 0] /\ errs = heads
  /\ dirty = {} /\ pendDb = {} /\ books = Known
  /\ dirtySet = {} /\ timers = {} /\ flush = Idle
  /\ ratePaused = FALSE /\ backoff = FALSE
  /\ deferred = {} /\ failed = {} /\ pend = {} /\ ready = FALSE
  /\ jobs = {} /\ imports = {} /\ acks = {} /\ poll = {} /\ ask = {}
  /\ listing = {} /\ refresh = FALSE
  /\ conn = "closed" /\ up = <<>> /\ down = <<>>
  /\ access = [v \in Vaults |-> role]
  /\ drops = n /\ refusals = 0

(* Everything may happen to a; or b and c are edited, by a viewer of the   *)
(* vault whose connection, once made, holds.                               *)
MCInit == Loaded({b, c}, "write", 0) \/ Loaded({a}, "read", MaxDrops)

MCSpec == MCInit /\ [][Next]_vars
=============================================================================
