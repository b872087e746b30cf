------------------------------- MODULE Lifecycle -------------------------------
(***************************************************************************)
(* A capture daemon from its start to the end of its process: cmdCapture   *)
(* (cli.ts) and the orchestrator (core/orchestrator.ts), which starts and  *)
(* stops screen capture, transcription and the embedding queue in order.   *)
(* The audio runners, the transcription queue's own stop and the blob      *)
(* sweep are AudioPipeline's and BlobSweep's; here transcription is a      *)
(* source of segments that the stop ends.                                  *)
(***************************************************************************)
EXTENDS ScreenCapture, Embedding, TLC

VARIABLES
  transcribing  \* has the transcription queue been started, and not stopped?

vars == <<orch, storeVars, faults, helperVars, screenVars, embedVars, transcribing>>

Starting == {"opening", "ocr", "asr", "embed", "sources"}
Stopping == {"runners", "bus", "transcription", "loop", "engine", "close"}

Init ==
  /\ StoreInit
  /\ ScreenInit
  /\ EmbedInit
  /\ orch = "opening"
  /\ transcribing = FALSE

othersOfOrch == <<helperVars, screenVars, embedVars, transcribing>>

-----------------------------------------------------------------------------
(* cmdCapture and start(). *)

\* makeOrchestrator opens the index and brings it up to date.
OpenStore ==
  /\ orch = "opening"
  /\ \/ MigrateTo(2) /\ UNCHANGED orch
     \/ MigrateVectors /\ orch' = "ocr"
  /\ UNCHANGED <<rows, indexed, storeOpen, faults, othersOfOrch>>

\* An engine that is not ready, or a transcription worker that does not start,
\* is an exception out of start().
EnginesReady ==
  /\ orch \in {"ocr", "asr"}
  /\ \/ /\ orch' = IF orch = "ocr" THEN "asr" ELSE "embed"
        /\ transcribing' = (orch = "asr")
        /\ UNCHANGED faults
     \/ /\ Fault("startFails")
        /\ orch' = "failed"
        /\ transcribing' \in {FALSE, orch = "asr"}
  /\ UNCHANGED <<storeVars, helperVars, screenVars, embedVars>>

StartQueue ==
  /\ orch = "embed"
  /\ orch' = "sources"
  /\ StartEmbedding
  /\ UNCHANGED <<storeVars, faults, helperVars, screenVars, transcribing>>

StartSources ==
  /\ orch = "sources"
  /\ orch' = "up"
  /\ StartScreen
  /\ UNCHANGED <<storeVars, faults, embedVars, transcribing>>

\* A segment is transcribed and inserted.
SegmentArrives(n) ==
  /\ Alive
  /\ transcribing /\ storeOpen
  /\ <<"segment", n>> \notin rows /\ (n > 1 => <<"segment", n - 1>> \in rows)
  /\ rows' = rows \cup {<<"segment", n>>}
  /\ UNCHANGED <<orch, schema, vecEnabled, indexed, storeOpen, faults, othersOfOrch>>

-----------------------------------------------------------------------------
(* stop(): each step awaits the one before. *)

\* A signal or a stop request.
Stop ==
  /\ orch = "up"
  /\ orch' = "runners"
  /\ screenRunning' = FALSE
  /\ UNCHANGED <<storeVars, faults, helperVars, runner, lastAccepted, fate, embedVars,
                 transcribing>>

\* Only the bus the orchestrator made is stopped: hpm-wlcap is left to itself.
StopBus ==
  /\ orch = "runners" /\ runner = "done"
  /\ IF backend = "sck"
     THEN orch' = "bus" /\ BusStop
     ELSE orch' = "transcription" /\ UNCHANGED helperVars
  /\ UNCHANGED <<storeVars, faults, screenVars, embedVars, transcribing>>

\* The close event, or the kill after 5 s.
BusStopped ==
  /\ orch = "bus"
  /\ orch' = "transcription"
  /\ IF busProc THEN BusKill ELSE UNCHANGED helperVars
  /\ UNCHANGED <<storeVars, faults, screenVars, embedVars, transcribing>>

StopTranscription ==
  /\ orch = "transcription"
  /\ orch' = "loop"
  /\ transcribing' = FALSE
  /\ embedRunning' = FALSE
  /\ UNCHANGED <<storeVars, faults, helperVars, screenVars, worker, toEmbed, shutdownSent, loop,
                 batch, answered, engineVars>>

\* EmbeddingQueue.stop awaits the loop, then engine.stop asks for a shutdown, ...
StopEngine ==
  /\ orch = "loop"
  /\ loop \in {"off", "done"}
  /\ orch' = "engine"
  /\ shutdownSent' = (worker # "none")
  /\ UNCHANGED <<storeVars, faults, helperVars, screenVars, worker, toEmbed, loop, embedRunning,
                 batch, answered, engineVars, transcribing>>

\* Mutant: a worker that does not end by itself is not killed.
EngineStopped_NotKilled ==
  /\ orch = "engine"
  /\ orch' = "close"
  /\ UNCHANGED <<storeVars, faults, helperVars, screenVars, embedVars, transcribing>>

\* ... and kills the worker after 10 s.
EngineStopped ==
  /\ orch = "engine"
  /\ orch' = "close"
  /\ IF worker \in {"none", "down"} THEN UNCHANGED embedVars ELSE WorkerGone
  /\ UNCHANGED <<storeVars, faults, helperVars, screenVars, transcribing>>

\* closeStore, at the end of stop() or, when start() has failed, all of it.
CloseStore ==
  /\ orch \in {"close", "failed"}
  /\ orch' = "closed"
  /\ storeOpen' = FALSE
  /\ UNCHANGED <<schema, vecEnabled, rows, indexed, faults, othersOfOrch>>

Exit ==
  /\ orch = "closed"
  /\ orch' = "exited"
  /\ UNCHANGED <<storeVars, faults, othersOfOrch>>

\* kill -9, after `hpm stop` has waited for 120 s or at any other moment.
DaemonDies ==
  /\ Alive
  /\ Fault("daemonDies")
  /\ orch' = "exited"
  /\ UNCHANGED <<storeVars, othersOfOrch>>

-----------------------------------------------------------------------------
RestOfHelper == <<orch, storeVars, screenVars, embedVars, transcribing>>
RestOfScreen == <<orch, schema, vecEnabled, indexed, storeOpen, embedVars, transcribing>>
RestOfEmbed == <<orch, schema, vecEnabled, rows, storeOpen, helperVars, screenVars, transcribing>>

HelperStep ==
  /\ \/ HelperSteps /\ UNCHANGED faults
     \/ HelperDies
  /\ UNCHANGED RestOfHelper

ScreenStep ==
  /\ \/ (ScreenStarted \/ ReadMessage \/ TakeScreenshot \/ RunnerEnds) /\ UNCHANGED <<rows, faults>>
     \/ BusClosed /\ UNCHANGED <<runner, screenRunning, lastAccepted, fate, rows, faults>>
     \/ \E n \in Frames : WriteImage(n) /\ UNCHANGED <<rows, faults>>
     \/ \E n \in Frames : InsertImage(n) /\ UNCHANGED faults
     \/ \E n \in Frames : FrameFails(n) /\ UNCHANGED rows
  /\ UNCHANGED RestOfScreen

LoopStep ==
  /\ \/ \E kind \in {"segment", "chunk"} : Drain(kind) /\ UNCHANGED <<indexed, faults>>
     \/ StoreBatch
     \/ LoopTurns /\ UNCHANGED <<indexed, faults>>
  /\ UNCHANGED RestOfEmbed

WorkerStep ==
  /\ \/ AnswerEmbed
     \/ EmbedEnds /\ UNCHANGED faults
  /\ UNCHANGED <<indexed, RestOfEmbed>>

OverdueTimeout ==
  /\ \E t \in timers : Overdue(t) /\ EmbedTimeout(t)
  /\ UNCHANGED <<indexed, RestOfEmbed>>

EmbedFault ==
  /\ \/ EmbedDies
     \/ \E t \in timers : ~Overdue(t) /\ EmbedTimeout(t)
  /\ UNCHANGED <<indexed, RestOfEmbed>>

ModelLoads == LoadModel /\ UNCHANGED <<indexed, faults, RestOfEmbed>>

StartSteps == OpenStore \/ EnginesReady \/ StartQueue \/ StartSources
StopSteps ==
  \/ StopBus \/ BusStopped
  \/ StopTranscription
  \/ StopEngine \/ EngineStopped
  \/ CloseStore \/ Exit

Next ==
  \/ StartSteps
  \/ Stop
  \/ StopSteps
  \/ DaemonDies
  \/ HelperStep
  \/ ScreenStep
  \/ LoopStep
  \/ WorkerStep
  \/ OverdueTimeout
  \/ EmbedFault
  \/ ModelLoads
  \/ \E n \in 1..MaxSegments : SegmentArrives(n)

Spec == Init /\ [][Next]_vars

\* The steps a daemon and its helper make only finitely often.
OneTimeStep ==
  \/ StartSteps
  \/ StopSteps
  \/ ScreenStep
  \/ (TakeStart \/ HelperEnds) /\ UNCHANGED <<faults, RestOfHelper>>

\* The event loop runs what is ready, its timers fire, and a process reads its
\* input.  Nothing is assumed of the person or the portal that answers a
\* capture request, or of the network the model is loaded from.
FairSpec ==
  /\ Spec
  /\ WF_vars(OneTimeStep)
  /\ WF_vars(LoopStep)
  /\ WF_vars(WorkerStep)
  /\ WF_vars(OverdueTimeout)

-----------------------------------------------------------------------------
(* Properties. *)

\* stop() runs the pipeline dry in order: the runners, transcription, the
\* embedding loop; nothing of an earlier stage is written in a later one
\* (orchestrator.ts, 222-247; screen.ts, 275-276; embedding_queue.ts, 52-61).
Stage ==
  CASE orch \in Starting \cup {"up", "runners"} -> 0
    [] orch \in {"bus", "transcription", "failed"} -> 1
    [] orch = "loop" -> 2
    [] OTHER -> 3

Pipeline == INSTANCE SemanticIndex WITH
              Screenshots <- {"chunk"} \X Frames,
              Segments <- {"segment"} \X (1..MaxSegments),
              captured <- rows, embedded <- indexed, stage <- Stage
ImplementsIndex == Pipeline!Spec

\* An ordered stop leaves no hpm-embed and no hpm-sck behind, whatever they
\* are busy with.
ChildrenStopped ==
  orch = "closed" => /\ worker \in {"none", "down"}
                     /\ backend = "sck" => helper \in {"none", "down"}

\* A stop comes to its end, unless the capture request that start() has made
\* is never answered.  (A helper starts once, so whenever the answer is there
\* the stop must still end.)
StopCompletes == orch \in Stopping ~> (orch = "exited" \/ helper = "starting")

\* However the daemon ends, half-started, killed or stopped, its children end
\* too, by the end of their input: only one that is still busy starting stays.
ChildrenEnd ==
  orch = "exited" ~>
    helper \in {"none", "down", "starting"} /\ worker \in {"none", "down", "loading"}

\* A screenshot the model fails on never keeps a segment out of the index:
\* while the worker has its model, every segment is embedded.
SegmentsUnblocked ==
  \A r \in {"segment"} \X (1..MaxSegments) :
    (orch = "up" /\ r \in rows /\ worker = "ready") ~>
      (r \in indexed \/ orch # "up" \/ worker # "ready")
=============================================================================
