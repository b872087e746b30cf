------------------------------- MODULE Embedding -------------------------------
(***************************************************************************)
(* Texts to vectors, beside the capture:                                   *)
(*   process/embedding_queue.ts   the polling loop                         *)
(*   process/embeddings/local.ts  the daemon's side of hpm-embed           *)
(*   embed/src/main.rs            hpm-embed: one request at a time         *)
(* The worker's answer and its arrival are one step: a message that is on  *)
(* its way is an answer the worker gives later.  The engine's `pending`    *)
(* map is `asked`: an entry is of the batch that is awaited ("now") or is  *)
(* left over from one that failed ("old").                                 *)
(***************************************************************************)
EXTENDS CaptureStore, SequencesExt

CONSTANTS
  BatchSize,
  Poison,    \* rows whose text the model fails on, whenever it is asked
  MaxAsked   \* bound: unread requests at the worker with which a round begins

ASSUME EmbeddingAssumption ==
  /\ BatchSize \in Nat \ {0}
  /\ MaxAsked \in Nat

VARIABLES
  worker,        \* hpm-embed: "none", "loading", "ready", "failed", "down"
  toEmbed,       \* requests it has not read
  shutdownSent,
  loop,          \* the loop: "off", "segment", "chunk", "sleep", "done"
  embedRunning,  \* the queue's `running` flag
  batch,         \* the rows drainKind awaits, {} when it awaits none
  answered,      \* those whose promise is resolved
  asked,         \* the pending map: row -> "none", "now" or "old"
  timers         \* the timeouts that are set: <<row, "now" or "old">>

embedVars == <<worker, toEmbed, shutdownSent, loop, embedRunning, batch, answered, asked,
               timers>>
engineVars == <<asked, timers>>

EmbedInit ==
  /\ worker = "none"
  /\ toEmbed = <<>>
  /\ shutdownSent = FALSE
  /\ loop = "off"
  /\ embedRunning = FALSE
  /\ batch = {}
  /\ answered = {}
  /\ asked = [r \in Rows |-> "none"]
  /\ timers = {}

\* EmbeddingQueue.start: without vector tables or a binary there is no worker.
StartEmbedding ==
  \/ /\ vecEnabled
     /\ worker' = "loading"
     /\ embedRunning' = TRUE
     /\ loop' = "segment"
     /\ UNCHANGED <<toEmbed, shutdownSent, batch, answered, engineVars>>
  \/ UNCHANGED embedVars

AfterDrain(kind) == IF kind = "segment" /\ embedRunning THEN "chunk" ELSE "sleep"

Awaiting == batch # {}

\* Mutant: screenshots are drained first, and segments after them.
Drain_ChunksFirst(kind) ==
  LET turn == IF kind = "segment" THEN "chunk" ELSE "segment"
  IN  /\ Alive
      /\ loop = kind /\ ~Awaiting
      /\ IF Unembedded(turn) = {} \/ worker = "down"
         THEN /\ loop' = IF Unembedded(turn) = {} THEN AfterDrain(kind) ELSE "sleep"
              /\ UNCHANGED <<toEmbed, batch, answered, engineVars>>
         ELSE \E b \in Batches(turn, BatchSize) :
                /\ batch' = b
                /\ answered' = {}
                /\ asked' = [r \in Rows |-> IF r \in b THEN "now" ELSE asked[r]]
                /\ timers' = timers \cup (b \X {"now"})
                /\ toEmbed' = toEmbed \o SetToSeq(b)
                /\ UNCHANGED loop
      /\ UNCHANGED <<worker, shutdownSent, embedRunning>>

\* drainKind asks for a batch; without a worker embed() throws.
Drain(kind) ==
  /\ Alive
  /\ loop = kind /\ ~Awaiting
  /\ IF Unembedded(kind) = {} \/ worker = "down"
     THEN /\ loop' = IF Unembedded(kind) = {} THEN AfterDrain(kind) ELSE "sleep"
          /\ UNCHANGED <<toEmbed, batch, answered, engineVars>>
     ELSE \E b \in Batches(kind, BatchSize) :
            /\ batch' = b
            /\ answered' = {}
            /\ asked' = [r \in Rows |-> IF r \in b THEN "now" ELSE asked[r]]
            /\ timers' = timers \cup (b \X {"now"})
            /\ toEmbed' = toEmbed \o SetToSeq(b)
            /\ UNCHANGED loop
  /\ UNCHANGED <<worker, shutdownSent, embedRunning>>

\* Promise.all of the batch: one rejected promise rejects it, nothing of the
\* batch is stored, and what is still unanswered stays registered.
BatchFails(entries, set) ==
  /\ batch' = {} /\ answered' = {}
  /\ loop' = "sleep"
  /\ asked' = [r \in Rows |-> IF entries[r] = "now" THEN "old" ELSE entries[r]]
  /\ timers' = {<<t[1], "old">> : t \in set}

BatchGoesOn(entries, set) == asked' = entries /\ timers' = set /\ UNCHANGED <<batch, loop>>

\* handleMessage: an answer for row r, a vector or an error, finds an entry or
\* none; only an entry of this batch settles a promise that is awaited.
Answer(r, ok) ==
  LET entries == [asked EXCEPT ![r] = "none"]
      set == timers \ {<<r, asked[r]>>}
  IN  IF asked[r] = "now" /\ ~ok THEN BatchFails(entries, set)
      ELSE /\ BatchGoesOn(entries, set)
           /\ answered' = IF asked[r] = "now" THEN answered \cup {r} ELSE answered

\* The worker answers the next request; without a model it can only refuse.
AnswerEmbed ==
  /\ worker \in {"ready", "failed"}
  /\ toEmbed # <<>>
  /\ LET r == Head(toEmbed)
     IN  IF r \in Poison \/ worker = "failed" THEN Answer(r, FALSE) /\ UNCHANGED faults
         ELSE \/ Answer(r, TRUE) /\ UNCHANGED faults
              \/ Answer(r, FALSE) /\ Fault("embedFails")
  /\ toEmbed' = Tail(toEmbed)
  /\ UNCHANGED <<worker, shutdownSent, embedRunning>>

LoadModel ==
  /\ worker = "loading"
  /\ worker' \in {"ready", "failed"}
  /\ UNCHANGED <<toEmbed, shutdownSent, loop, embedRunning, batch, answered, engineVars>>

\* No answer comes in time: the model is loading, for as long as that takes, or
\* the answer came when a timer of an earlier batch had deleted the entry.
Overdue(t) == worker = "loading" \/ ~Contains(toEmbed, t[1])

\* A timeout deletes the entry of its row, whichever batch that is of.
EmbedTimeout(t) ==
  /\ Alive
  /\ t \in timers
  /\ IF Overdue(t) THEN UNCHANGED faults ELSE Fault("embedSlow")
  /\ LET entries == [asked EXCEPT ![t[1]] = "none"]
     IN  IF t[2] = "now" THEN BatchFails(entries, timers \ {t})
         ELSE BatchGoesOn(entries, timers \ {t}) /\ UNCHANGED answered
  /\ UNCHANGED <<worker, toEmbed, shutdownSent, embedRunning>>

\* All promises are resolved: drainKind stores the vectors, one transaction each.
StoreBatch ==
  /\ Alive
  /\ Awaiting /\ answered = batch
  /\ IF storeOpen
     THEN \/ /\ indexed' = indexed \cup batch
             /\ loop' = AfterDrain(loop)
             /\ UNCHANGED faults
          \/ /\ Fault("vectorFails")
             /\ \E done \in SUBSET batch : done # batch /\ indexed' = indexed \cup done
             /\ loop' = "sleep"
     ELSE loop' = "sleep" /\ UNCHANGED <<indexed, faults>>
  /\ batch' = {} /\ answered' = {}
  /\ UNCHANGED <<worker, toEmbed, shutdownSent, embedRunning, engineVars>>

\* The sleep between two rounds ends, or stop() wakes it.
LoopTurns ==
  /\ Alive
  /\ loop = "sleep"
  /\ embedRunning => Len(toEmbed) <= MaxAsked
  /\ loop' = IF embedRunning THEN "segment" ELSE "done"
  /\ UNCHANGED <<worker, toEmbed, shutdownSent, embedRunning, batch, answered, engineVars>>

\* The worker ends and the close handler rejects everything (rejectAll).
WorkerGone ==
  /\ worker' = "down"
  /\ toEmbed' = <<>>
  /\ asked' = [r \in Rows |-> "none"]
  /\ timers' = {}
  /\ IF answered # batch
     THEN batch' = {} /\ answered' = {} /\ loop' = "sleep"
     ELSE UNCHANGED <<batch, answered, loop>>
  /\ UNCHANGED <<shutdownSent, embedRunning>>

\* It reads a shutdown, or the end of its input, after everything before it.
EmbedEnds ==
  /\ worker \in {"ready", "failed"}
  /\ toEmbed = <<>> /\ (shutdownSent \/ ~Alive)
  /\ WorkerGone

EmbedDies ==
  /\ worker \in {"loading", "ready", "failed"}
  /\ Fault("embedDies")
  /\ WorkerGone
=============================================================================
