----------------------------- MODULE CaptureStore -----------------------------
(***************************************************************************)
(* What the components of one capture daemon share: the process itself, by *)
(* the place its orchestrator has reached, and the index (store/db.ts) as  *)
(* screen capture, transcription and the embedding queue use it.           *)
(***************************************************************************)
EXTENDS Naturals, Sequences, FiniteSetsExt

CONSTANTS
  MaxFrames,    \* bound: screen images per run of the daemon
  MaxSegments,  \* bound: transcript segments
  Faults,       \* the faults the environment may produce
  MaxFaults     \* bound on their number

FaultKind == {
  "startFails",   \* the OCR or transcription engine is not there
  "helperDies",   \* hpm-sck or hpm-wlcap ends by itself
  "frameFails",   \* a screenshot, OCR, blobs.write or store.insert throws
  "embedDies",    \* hpm-embed ends by itself
  "embedFails",   \* the request of one row is answered by an error
  "embedSlow",    \* an answer takes longer than EMBED_TIMEOUT_MS
  "vectorFails",  \* store.insertEmbedding throws
  "daemonDies" }

ASSUME CaptureAssumption ==
  /\ MaxFrames \in Nat
  /\ MaxSegments \in Nat
  /\ Faults \subseteq FaultKind
  /\ MaxFaults \in Nat

VARIABLES
  orch,        \* where cmdCapture and its orchestrator are
  schema,      \* PRAGMA user_version
  vecEnabled,  \* are there vector tables?
  rows,        \* rows with a text: <<"chunk", n>> and <<"segment", n>>
  indexed,     \* rows with a vector and an embedding_meta of this model
  storeOpen,
  faults

storeVars == <<schema, vecEnabled, rows, indexed, storeOpen>>

Frames == 1..MaxFrames
Rows == ({"chunk"} \X Frames) \cup ({"segment"} \X (1..MaxSegments))

\* The daemon's process is there and runs its event loop.
Alive == orch # "exited"

Fault(kind) == kind \in Faults /\ faults < MaxFaults /\ faults' = faults + 1

\* A new index, or one that an earlier version of hpm or a build without
\* sqlite-vec has left behind, with segments that have no vector yet.
StoreInit ==
  /\ schema \in 0..3
  /\ vecEnabled = FALSE
  /\ rows \in {{"segment"} \X (1..n) : n \in 0..MaxSegments}
  /\ schema < 2 => rows = {}
  /\ indexed = {}
  /\ storeOpen = TRUE
  /\ faults = 0

\* migrate: one transaction per version; the vector tables need sqlite-vec.
MigrateTo(version) ==
  /\ schema < version
  /\ schema' = schema + 1
  /\ UNCHANGED vecEnabled

MigrateVectors ==
  /\ schema >= 2
  /\ \/ vecEnabled' = FALSE /\ UNCHANGED schema
     \/ vecEnabled' = TRUE /\ schema' = 3

\* pendingEmbeddings: LIMIT without ORDER BY.
Unembedded(kind) == {r \in rows : r[1] = kind /\ r \notin indexed}
Batches(kind, size) ==
  LET waiting == Unembedded(kind)
  IN  kSubset(Min({size, Cardinality(waiting)}), waiting)
=============================================================================
