---------------------------- MODULE LifecycleProofs ----------------------------
(***************************************************************************)
(* Theorems about a capture daemon's life, with proofs for TLAPS: for any  *)
(* number of images, segments and faults, any batch size, every backend    *)
(* and every text the model may fail on, an ordered stop leaves no child   *)
(* behind, and the daemon implements SemanticIndex.                        *)
(***************************************************************************)
EXTENDS Lifecycle, FiniteSetTheorems, SequenceTheorems, TLAPS

-----------------------------------------------------------------------------
(* The children and the stop. *)

Ended == {"none", "down"}
BeforeQueue == {"opening", "ocr", "asr", "embed", "failed"}
BusIsStopped == {"transcription", "loop", "engine", "close", "closed"}

\* Children are started once, at their place in start(), and an ended one stays
\* ended; what has been stopped in order is ended from there on.
HelperInv ==
  /\ orch \in BeforeQueue \cup {"sources"} => helper = "none"
  /\ ~busProc => helper \in Ended
  /\ orch \in BusIsStopped /\ backend = "sck" => helper \in Ended

WorkerInv ==
  /\ orch \in BeforeQueue => worker = "none"
  /\ orch \in {"close", "closed"} => worker \in Ended

ChildInv == HelperInv /\ WorkerInv

-----------------------------------------------------------------------------
\* start() keeps the invariant.
LEMMA StartKeepsChildInv ==
  ASSUME ChildInv, StartSteps
  PROVE  ChildInv'
<1> USE DEF ChildInv, HelperInv, WorkerInv, Ended, BeforeQueue, BusIsStopped
<1>1. CASE OpenStore
  BY <1>1 DEF OpenStore, othersOfOrch, helperVars, embedVars
<1>2. CASE EnginesReady
  BY <1>2 DEF EnginesReady, helperVars, embedVars
<1>3. CASE StartQueue
  BY <1>3 DEF StartQueue, helperVars
<1>4. CASE StartSources
  BY <1>4 DEF StartSources, StartScreen, BusStart, helperVars, embedVars
<1> QED  BY <1>1, <1>2, <1>3, <1>4 DEF StartSteps

\* So does stop().
LEMMA StopKeepsChildInv ==
  ASSUME ChildInv, StopSteps
  PROVE  ChildInv'
<1> USE DEF ChildInv, HelperInv, WorkerInv, Ended, BeforeQueue, BusIsStopped
<1>1. CASE StopBus
  BY <1>1 DEF StopBus, BusStop, helperVars, embedVars
<1>2. CASE BusStopped
  BY <1>2 DEF BusStopped, BusKill, helperVars, embedVars
<1>3. CASE StopTranscription
  BY <1>3 DEF StopTranscription, helperVars
<1>4. CASE StopEngine
  BY <1>4 DEF StopEngine, helperVars
<1>5. CASE EngineStopped
  BY <1>5 DEF EngineStopped, WorkerGone, helperVars, embedVars
<1>6. CASE CloseStore
  BY <1>6 DEF CloseStore, othersOfOrch, helperVars, embedVars
<1>7. CASE Exit
  BY <1>7 DEF Exit, othersOfOrch, helperVars, embedVars
<1> QED  BY <1>1, <1>2, <1>3, <1>4, <1>5, <1>6, <1>7 DEF StopSteps

\* The helpers and the screen runner.
LEMMA ScreenKeepsChildInv ==
  ASSUME ChildInv, HelperStep \/ ScreenStep
  PROVE  ChildInv'
<1> USE DEF ChildInv, HelperInv, WorkerInv, Ended, BeforeQueue, BusIsStopped
<1>1. CASE HelperStep
  <2>1. UNCHANGED <<orch, worker>>
    BY <1>1 DEF HelperStep, RestOfHelper, embedVars
  <2>2. UNCHANGED <<busProc, backend>> /\ helper \notin Ended
    BY <1>1 DEF HelperStep, HelperSteps, HelperDies, TakeStart, NextRequest, CaptureAnswered,
                SendFrame, HelperEnds
  <2> QED  BY <2>1, <2>2
<1>2. CASE ScreenStep
  <2>1. UNCHANGED <<orch, worker>>
    BY <1>2 DEF ScreenStep, RestOfScreen, embedVars
  <2>2. UNCHANGED <<helper, backend>> /\ (busProc' = busProc \/ helper = "down")
    BY <1>2 DEF ScreenStep, ScreenStarted, ReadMessage, TakeScreenshot, RunnerEnds, BusClosed,
                WriteImage, InsertImage, FrameFails, helperVars
  <2> QED  BY <2>1, <2>2
<1> QED  BY <1>1, <1>2

\* hpm-embed and the queue's loop.
LEMMA EmbeddingKeepsChildInv ==
  ASSUME ChildInv, LoopStep \/ WorkerStep \/ OverdueTimeout \/ EmbedFault \/ ModelLoads
  PROVE  ChildInv'
<1>1. UNCHANGED <<orch, helper, busProc, backend>>
  BY DEF LoopStep, WorkerStep, OverdueTimeout, EmbedFault, ModelLoads, RestOfEmbed, helperVars
<1>2. worker' = worker \/ worker' = "down" \/ worker = "loading"
  BY DEF LoopStep, Drain, StoreBatch, LoopTurns, WorkerStep, AnswerEmbed, EmbedEnds, WorkerGone,
         OverdueTimeout, EmbedTimeout, EmbedFault, EmbedDies, ModelLoads, LoadModel
<1>3. worker = "none" => worker' = "none"
  BY DEF LoopStep, Drain, StoreBatch, LoopTurns, WorkerStep, AnswerEmbed, EmbedEnds, WorkerGone,
         OverdueTimeout, EmbedTimeout, EmbedFault, EmbedDies, ModelLoads, LoadModel
<1> QED  BY <1>1, <1>2, <1>3 DEF ChildInv, HelperInv, WorkerInv, Ended, BeforeQueue, BusIsStopped

\* An ordered stop leaves no hpm-embed and no hpm-sck behind (ChildrenStopped),
\* whenever it comes and whatever the two are busy with, also when a fault has
\* ended one of them before.
THEOREM NoChildIsLeft == FairSpec => []ChildrenStopped
<1>1. Init => ChildInv
  BY DEF Init, ScreenInit, HelperInit, EmbedInit, ChildInv, HelperInv, WorkerInv, Ended,
         BusIsStopped
<1>2. ChildInv /\ [Next]_vars => ChildInv'
  <2> SUFFICES ASSUME ChildInv, [Next]_vars  PROVE ChildInv'
    OBVIOUS
  <2>1. CASE StartSteps
    BY <2>1, StartKeepsChildInv
  <2>2. CASE StopSteps
    BY <2>2, StopKeepsChildInv
  <2>3. CASE HelperStep \/ ScreenStep
    BY <2>3, ScreenKeepsChildInv
  <2>4. CASE LoopStep \/ WorkerStep \/ OverdueTimeout \/ EmbedFault \/ ModelLoads
    BY <2>4, EmbeddingKeepsChildInv
  <2>5. CASE Stop \/ DaemonDies
    BY <2>5 DEF Stop, DaemonDies, othersOfOrch, helperVars, embedVars, ChildInv, HelperInv,
                WorkerInv, Ended, BeforeQueue, BusIsStopped
  <2>6. CASE \E n \in 1..MaxSegments : SegmentArrives(n)
    BY <2>6 DEF SegmentArrives, othersOfOrch, helperVars, embedVars, ChildInv, HelperInv,
                WorkerInv
  <2>7. CASE UNCHANGED vars
    BY <2>7 DEF vars, helperVars, embedVars, ChildInv, HelperInv, WorkerInv
  <2> QED  BY <2>1, <2>2, <2>3, <2>4, <2>5, <2>6, <2>7 DEF Next
<1>3. ChildInv => ChildrenStopped
  BY DEF ChildInv, HelperInv, WorkerInv, ChildrenStopped, BusIsStopped, Ended
<1> QED  BY <1>1, <1>2, <1>3, PTL DEF FairSpec, Spec

-----------------------------------------------------------------------------
(* The pipeline into the index runs dry in order. *)

\* The runner only has images in hand between its start and its end, and it
\* ends before the stop goes on.
RunnerInv ==
  /\ runner \in {"starting", "capturing", "draining"} => orch \in {"up", "runners", "exited"}
  /\ runner \notin {"capturing", "draining"} => InHand = {}

\* The places of the orchestrator.
PlaceInv == orch \in Starting \cup {"up", "failed", "closed", "exited"} \cup Stopping

\* Segments come until transcription is stopped.
TranscriptionInv ==
  /\ transcribing => orch \in {"embed", "sources", "up", "runners", "bus", "transcription",
                               "failed", "closed", "exited"}
  /\ orch = "closed" => ~storeOpen

\* The loop has a batch only while it drains, and neither runs before
\* EmbeddingQueue.start nor after its stop.
LoopInv ==
  /\ orch \in {"opening", "ocr", "asr", "embed", "failed"} => loop = "off"
  /\ orch \in {"engine", "close"} => loop \in {"off", "done"}
  /\ batch # {} => loop \in {"segment", "chunk"}

\* Whatever is registered for the batch that is awaited is a row of it without
\* an answer; hence nothing can end a batch that is over.
EngineInv ==
  /\ asked \in [Rows -> {"none", "now", "old"}]
  /\ timers \subseteq Rows \X {"now", "old"}
  /\ toEmbed \in Seq(Rows)
  /\ answered \subseteq batch
  /\ \A r \in Rows : asked[r] = "now" => r \in batch \ answered
  /\ \A r \in Rows : <<r, "now">> \in timers => r \in batch \ answered

\* A batch is of rows without a vector, and no other step gives them one.
RowsInv ==
  /\ rows \subseteq Rows
  /\ batch \subseteq rows \ indexed

PipelineInv == PlaceInv /\ RunnerInv /\ TranscriptionInv /\ LoopInv /\ EngineInv /\ RowsInv

-----------------------------------------------------------------------------
\* There are finitely many rows, by the bounds on images and segments.
LEMMA RowsFinite == IsFiniteSet(Rows)
<1>1. IsFiniteSet(1..MaxFrames) /\ IsFiniteSet(1..MaxSegments)
  BY CaptureAssumption, FS_Interval
<1>2. IsFiniteSet({"chunk"}) /\ IsFiniteSet({"segment"})
  BY FS_Singleton
<1>3. IsFiniteSet({"chunk"} \X (1..MaxFrames)) /\ IsFiniteSet({"segment"} \X (1..MaxSegments))
  BY <1>1, <1>2, FS_Product
<1> QED  BY <1>3, FS_Union DEF Rows, Frames

\* The requests of a batch are written one by one.
LEMMA BatchAsSequence ==
  ASSUME NEW b \in SUBSET Rows
  PROVE  SetToSeq(b) \in Seq(Rows)
<1> DEFINE n == Cardinality(b)
<1>1. IsFiniteSet(b)
  BY RowsFinite, FS_Subset
<1>2. n \in Nat /\ ExistsBijection(1..n, b)
  BY <1>1, FS_CardinalityType
<1>3. \E f \in [1..n -> b] : IsInjective(f)
  BY <1>2 DEF ExistsBijection, Bijection, Injection
<1>4. SetToSeq(b) \in [1..n -> b]
  BY <1>3 DEF SetToSeq
<1>5. SetToSeq(b) \in Seq(b)
  BY <1>2, <1>4
<1> QED  BY <1>5

-----------------------------------------------------------------------------
(* The invariant is inductive. *)

\* A daemon begins with nothing in hand.
LEMMA InitPipeline ==
  ASSUME Init
  PROVE  PipelineInv
<1> USE DEF Init, StoreInit, ScreenInit, HelperInit, EmbedInit
<1>1. PlaceInv /\ RunnerInv
  BY DEF PlaceInv, Starting, RunnerInv, InHand
<1>2. TranscriptionInv /\ LoopInv
  BY DEF TranscriptionInv, LoopInv
<1>3. EngineInv
  BY DEF EngineInv
<1>4. rows \subseteq Rows
  BY CaptureAssumption DEF Rows
<1>5. RowsInv
  BY <1>4 DEF RowsInv
<1> QED  BY <1>1, <1>2, <1>3, <1>5 DEF PipelineInv

\* The orchestrator's own steps, but for the end of hpm-embed.
LEMMA OrchestratorKeepsPipelineInv ==
  ASSUME PipelineInv,
         StartSteps \/ Stop \/ DaemonDies \/ StopBus \/ BusStopped \/ StopTranscription
           \/ StopEngine \/ CloseStore \/ Exit
  PROVE  PipelineInv'
<1> USE DEF StartSteps, OpenStore, MigrateTo, MigrateVectors, EnginesReady, StartQueue,
            StartEmbedding, StartSources, StartScreen, BusStart, Stop, DaemonDies, Alive,
            StopBus, BusStop, BusStopped, BusKill, StopTranscription, StopEngine, CloseStore,
            Exit, othersOfOrch, storeVars, helperVars, screenVars, embedVars, engineVars
<1>1. PlaceInv' /\ RunnerInv'
  <2>1. UNCHANGED InHand
    BY DEF InHand
  <2>2. PlaceInv'
    BY DEF PipelineInv, PlaceInv, Starting, Stopping
  <2> QED  BY <2>1, <2>2 DEF PipelineInv, RunnerInv
<1>2. TranscriptionInv'
  <2>1. CASE EnginesReady
    <3>1. orch' \in {"asr", "embed", "failed"} /\ (orch' = "asr" => ~transcribing')
      BY <2>1
    <3> QED  BY <3>1 DEF TranscriptionInv
  <2>2. CASE ~EnginesReady
    <3>1. UNCHANGED transcribing \/ (StopTranscription /\ ~transcribing')
      BY <2>2
    <3>2. orch' = "closed" => ~storeOpen'
      BY <2>2 DEF PipelineInv, TranscriptionInv
    <3>3. transcribing' => orch' \in {"embed", "sources", "up", "runners", "bus",
                                     "transcription", "failed", "closed", "exited"}
      BY <2>2, <3>1 DEF PipelineInv, TranscriptionInv
    <3> QED  BY <3>2, <3>3 DEF TranscriptionInv
  <2> QED  BY <2>1, <2>2
<1>3. LoopInv'
  BY DEF PipelineInv, LoopInv
<1>4. UNCHANGED <<asked, timers, toEmbed, answered, batch, rows, indexed>>
  OBVIOUS
<1>5. EngineInv' /\ RowsInv'
  BY <1>4 DEF PipelineInv, EngineInv, RowsInv
<1> QED  BY <1>1, <1>2, <1>3, <1>5 DEF PipelineInv

\* The helpers, the screen runner and the segments.
LEMMA CaptureKeepsPipelineInv ==
  ASSUME PipelineInv,
         HelperStep \/ ScreenStep \/ \E n \in 1..MaxSegments : SegmentArrives(n)
  PROVE  PipelineInv'
<1>1. UNCHANGED <<orch, storeOpen, transcribing, loop, batch, answered, asked, timers, toEmbed,
                  indexed>>
  BY DEF HelperStep, RestOfHelper, ScreenStep, RestOfScreen, SegmentArrives, othersOfOrch,
         storeVars, embedVars, engineVars
<1>2. PlaceInv' /\ TranscriptionInv' /\ LoopInv' /\ EngineInv'
  BY <1>1 DEF PipelineInv, PlaceInv, TranscriptionInv, LoopInv, EngineInv
<1>3. rows \subseteq rows' /\ rows' \subseteq Rows
  <2>1. CASE HelperStep
    BY <2>1 DEF HelperStep, RestOfHelper, storeVars, PipelineInv, RowsInv
  <2>2. CASE ScreenStep
    BY <2>2 DEF ScreenStep, InsertImage, Rows, PipelineInv, RowsInv
  <2>3. CASE \E n \in 1..MaxSegments : SegmentArrives(n)
    BY <2>3 DEF SegmentArrives, Rows, PipelineInv, RowsInv
  <2> QED  BY <2>1, <2>2, <2>3
<1>4. RowsInv'
  BY <1>1, <1>3 DEF PipelineInv, RowsInv
<1>5. RunnerInv'
  <2>1. CASE UNCHANGED <<runner, fate>>
    <3>1. UNCHANGED InHand
      BY <2>1 DEF InHand
    <3> QED  BY <1>1, <2>1, <3>1 DEF PipelineInv, RunnerInv
  <2>2. CASE ScreenStarted
    <3>1. UNCHANGED InHand
      BY <2>2 DEF ScreenStarted, InHand
    <3> QED  BY <1>1, <2>2, <3>1 DEF ScreenStarted, PipelineInv, RunnerInv
  <2>3. CASE ReadMessage \/ TakeScreenshot
    BY <1>1, <2>1, <2>3 DEF ReadMessage, OnFrame, TakeScreenshot, PipelineInv, RunnerInv
  <2>4. CASE RunnerEnds
    <3>1. UNCHANGED InHand
      BY <2>4 DEF RunnerEnds, InHand
    <3> QED  BY <1>1, <2>4, <3>1 DEF RunnerEnds, PipelineInv, RunnerInv
  <2>5. ASSUME NEW n \in Frames, WriteImage(n) \/ InsertImage(n) \/ FrameFails(n)
        PROVE  RunnerInv'
    <3>1. InHand # {} /\ UNCHANGED runner
      BY <2>5 DEF WriteImage, InsertImage, FrameFails
    <3> QED  BY <1>1, <3>1 DEF PipelineInv, RunnerInv
  <2>6. CASE HelperStep
    BY <2>1, <2>6 DEF HelperStep, RestOfHelper, screenVars
  <2>7. CASE ScreenStep
    BY <2>1, <2>2, <2>3, <2>4, <2>5, <2>7 DEF ScreenStep
  <2>8. CASE \E n \in 1..MaxSegments : SegmentArrives(n)
    BY <2>1, <2>8 DEF SegmentArrives, othersOfOrch, screenVars
  <2> QED  BY <2>6, <2>7, <2>8
<1> QED  BY <1>2, <1>4, <1>5 DEF PipelineInv

\* A batch that is awaited can fail: nothing that is left of it is "now".
LEMMA FailureKeepsInv ==
  ASSUME PipelineInv, batch # {},
         NEW entries \in [Rows -> {"none", "now", "old"}],
         NEW set \in SUBSET (Rows \X {"now", "old"}),
         BatchFails(entries, set),
         toEmbed' \in Seq(Rows), UNCHANGED <<orch, rows, indexed>>
  PROVE  LoopInv' /\ EngineInv' /\ RowsInv'
<1>1. batch' = {} /\ answered' = {} /\ loop' = "sleep"
  BY DEF BatchFails
<1>2. LoopInv' /\ RowsInv'
  BY <1>1 DEF PipelineInv, LoopInv, RowsInv
<1>3. asked' = [r \in Rows |-> IF entries[r] = "now" THEN "old" ELSE entries[r]]
  BY DEF BatchFails
<1>4. asked' \in [Rows -> {"none", "now", "old"}] /\ \A r \in Rows : asked'[r] # "now"
  BY <1>3
<1>5. timers' = {<<t[1], "old">> : t \in set}
  BY DEF BatchFails
<1>6. timers' \subseteq Rows \X {"now", "old"} /\ \A r \in Rows : <<r, "now">> \notin timers'
  BY <1>5
<1>7. EngineInv'
  BY <1>1, <1>4, <1>6 DEF EngineInv
<1> QED  BY <1>2, <1>7

\* An answer, a vector or an error.
LEMMA AnswerKeepsInv ==
  ASSUME PipelineInv, NEW r \in Rows, NEW ok \in BOOLEAN, Answer(r, ok),
         toEmbed' \in Seq(Rows), UNCHANGED <<orch, rows, indexed>>
  PROVE  LoopInv' /\ EngineInv' /\ RowsInv'
<1> DEFINE entries == [asked EXCEPT ![r] = "none"]
           set == timers \ {<<r, asked[r]>>}
<1>1. entries \in [Rows -> {"none", "now", "old"}] /\ set \in SUBSET (Rows \X {"now", "old"})
  BY DEF PipelineInv, EngineInv
<1>2. CASE asked[r] = "now" /\ ~ok
  <2>1. batch # {} /\ BatchFails(entries, set)
    BY <1>2 DEF Answer, PipelineInv, EngineInv
  <2> QED  BY <1>1, <2>1, FailureKeepsInv
<1>3. CASE ~(asked[r] = "now" /\ ~ok)
  <2>1. /\ BatchGoesOn(entries, set)
        /\ answered' = IF asked[r] = "now" THEN answered \cup {r} ELSE answered
    BY <1>3 DEF Answer
  <2>2. UNCHANGED <<batch, loop>> /\ asked' = entries /\ timers' = set
    BY <2>1 DEF BatchGoesOn
  <2>3. LoopInv' /\ RowsInv'
    BY <2>2 DEF PipelineInv, LoopInv, RowsInv
  <2>4. EngineInv'
    BY <1>1, <2>1, <2>2 DEF PipelineInv, EngineInv
  <2> QED  BY <2>3, <2>4
<1> QED  BY <1>2, <1>3

\* A timeout, of the batch that is awaited or of one that failed before.
LEMMA TimeoutKeepsInv ==
  ASSUME PipelineInv, NEW t, EmbedTimeout(t), UNCHANGED <<orch, rows, indexed>>
  PROVE  LoopInv' /\ EngineInv' /\ RowsInv'
<1> DEFINE entries == [asked EXCEPT ![t[1]] = "none"]
           set == timers \ {t}
<1>1. t \in timers /\ toEmbed' = toEmbed
  BY DEF EmbedTimeout
<1>2. PICK r \in Rows, age \in {"now", "old"} : t = <<r, age>>
  BY <1>1 DEF PipelineInv, EngineInv
<1>3. entries \in [Rows -> {"none", "now", "old"}] /\ set \in SUBSET (Rows \X {"now", "old"})
  BY DEF PipelineInv, EngineInv
<1>4. toEmbed' \in Seq(Rows)
  BY <1>1 DEF PipelineInv, EngineInv
<1>5. CASE age = "now"
  <2>1. batch # {} /\ BatchFails(entries, set)
    BY <1>1, <1>2, <1>5 DEF EmbedTimeout, PipelineInv, EngineInv
  <2> QED  BY <1>3, <1>4, <2>1, FailureKeepsInv
<1>6. CASE age = "old"
  <2>1. BatchGoesOn(entries, set) /\ UNCHANGED answered
    BY <1>2, <1>6 DEF EmbedTimeout
  <2>2. UNCHANGED <<batch, loop>> /\ asked' = entries /\ timers' = set
    BY <2>1 DEF BatchGoesOn
  <2>3. LoopInv' /\ RowsInv'
    BY <2>2 DEF PipelineInv, LoopInv, RowsInv
  <2>4. EngineInv'
    BY <1>3, <1>4, <2>1, <2>2 DEF PipelineInv, EngineInv
  <2> QED  BY <2>3, <2>4
<1> QED  BY <1>2, <1>5, <1>6

\* The worker's end rejects what is awaited, and forgets everything.
LEMMA WorkerGoneKeepsInv ==
  ASSUME PipelineInv, WorkerGone, UNCHANGED <<rows, indexed>>,
         UNCHANGED orch \/ (orch = "engine" /\ orch' = "close")
  PROVE  LoopInv' /\ EngineInv' /\ RowsInv'
<1>1. asked' = [r \in Rows |-> "none"] /\ timers' = {} /\ toEmbed' = <<>>
  BY DEF WorkerGone
<1>2. \/ batch # {} /\ batch' = {} /\ answered' = {} /\ loop' = "sleep"
      \/ UNCHANGED <<batch, answered, loop>>
  BY DEF WorkerGone, PipelineInv, EngineInv
<1>3. LoopInv' /\ RowsInv'
  BY <1>2 DEF PipelineInv, LoopInv, RowsInv
<1>4. EngineInv'
  BY <1>1, <1>2 DEF PipelineInv, EngineInv
<1> QED  BY <1>3, <1>4

\* drainKind asks for a batch of rows that have no vector.
LEMMA DrainKeepsInv ==
  ASSUME PipelineInv, NEW kind \in {"segment", "chunk"}, Drain(kind),
         UNCHANGED <<orch, rows, indexed>>
  PROVE  LoopInv' /\ EngineInv' /\ RowsInv'
<1>1. loop = kind /\ batch = {} /\ answered = {}
  BY DEF Drain, Awaiting, PipelineInv, EngineInv
<1>2. orch \notin {"opening", "ocr", "asr", "embed", "failed", "engine", "close"}
  BY <1>1 DEF PipelineInv, LoopInv
<1>3. CASE Unembedded(kind) = {} \/ worker = "down"
  <2>1. UNCHANGED <<toEmbed, batch, answered, asked, timers>>
    BY <1>3 DEF Drain, engineVars
  <2> QED  BY <1>1, <1>2, <2>1 DEF PipelineInv, LoopInv, EngineInv, RowsInv
<1>4. CASE ~(Unembedded(kind) = {} \/ worker = "down")
  <2>1. PICK b \in Batches(kind, BatchSize) :
          /\ batch' = b
          /\ answered' = {}
          /\ asked' = [r \in Rows |-> IF r \in b THEN "now" ELSE asked[r]]
          /\ timers' = timers \cup (b \X {"now"})
          /\ toEmbed' = toEmbed \o SetToSeq(b)
          /\ UNCHANGED loop
    BY <1>4 DEF Drain
  <2>2. b \subseteq rows \ indexed
    BY DEF Batches, kSubset, Unembedded
  <2>3. b \in SUBSET Rows
    BY <2>2 DEF PipelineInv, RowsInv
  <2>4. toEmbed' \in Seq(Rows)
    BY <2>1, <2>3, BatchAsSequence, ConcatProperties DEF PipelineInv, EngineInv
  <2>5. LoopInv' /\ RowsInv'
    BY <1>1, <1>2, <2>1, <2>2 DEF PipelineInv, LoopInv, RowsInv
  <2>6. EngineInv'
    BY <1>1, <2>1, <2>3, <2>4 DEF PipelineInv, EngineInv
  <2> QED  BY <2>5, <2>6
<1> QED  BY <1>3, <1>4

\* The embedding loop, hpm-embed and the end of it in stop().
LEMMA EmbeddingKeepsPipelineInv ==
  ASSUME PipelineInv,
         LoopStep \/ WorkerStep \/ OverdueTimeout \/ EmbedFault \/ ModelLoads \/ EngineStopped
  PROVE  PipelineInv'
<1>1. UNCHANGED <<runner, fate, storeOpen, transcribing, rows>>
  BY DEF LoopStep, WorkerStep, OverdueTimeout, EmbedFault, ModelLoads, EngineStopped,
         RestOfEmbed, storeVars, screenVars
<1>2. UNCHANGED orch \/ EngineStopped
  BY DEF LoopStep, WorkerStep, OverdueTimeout, EmbedFault, ModelLoads, RestOfEmbed
<1>3. PlaceInv' /\ RunnerInv' /\ TranscriptionInv'
  <2>1. UNCHANGED InHand
    BY <1>1 DEF InHand
  <2>2. RunnerInv'
    BY <1>1, <1>2, <2>1 DEF EngineStopped, PipelineInv, RunnerInv
  <2>3. TranscriptionInv'
    BY <1>1, <1>2 DEF EngineStopped, PipelineInv, TranscriptionInv
  <2>4. PlaceInv'
    BY <1>2 DEF EngineStopped, PipelineInv, PlaceInv, Starting, Stopping
  <2> QED  BY <2>2, <2>3, <2>4
<1>4. LoopInv' /\ EngineInv' /\ RowsInv'
  <2>1. CASE LoopStep
    <3>1. UNCHANGED <<orch, rows>>
      BY <2>1 DEF LoopStep, RestOfEmbed
    <3>2. ASSUME NEW kind \in {"segment", "chunk"}, Drain(kind), UNCHANGED indexed
          PROVE  LoopInv' /\ EngineInv' /\ RowsInv'
      BY <3>1, <3>2, DrainKeepsInv
    <3>3. CASE StoreBatch
      <4>1. /\ batch # {} /\ answered = batch /\ batch' = {} /\ answered' = {}
            /\ UNCHANGED <<asked, timers, toEmbed>>
        BY <3>3 DEF StoreBatch, Awaiting, engineVars
      <4>2. LoopInv' /\ EngineInv' /\ RowsInv'
        BY <3>1, <4>1 DEF PipelineInv, LoopInv, EngineInv, RowsInv
      <4> QED  BY <4>2
    <3>4. CASE LoopTurns /\ UNCHANGED indexed
      BY <3>1, <3>4 DEF LoopTurns, engineVars, PipelineInv, LoopInv, EngineInv, RowsInv
    <3> QED  BY <2>1, <3>2, <3>3, <3>4 DEF LoopStep
  <2>2. CASE WorkerStep
    <3>1. UNCHANGED <<orch, rows, indexed>>
      BY <2>2 DEF WorkerStep, RestOfEmbed
    <3>2. CASE AnswerEmbed
      <4>1. Head(toEmbed) \in Rows /\ toEmbed' \in Seq(Rows)
        BY <3>2, HeadTailProperties DEF AnswerEmbed, PipelineInv, EngineInv
      <4>2. \E ok \in BOOLEAN : Answer(Head(toEmbed), ok)
        BY <3>2 DEF AnswerEmbed
      <4> QED  BY <3>1, <4>1, <4>2, AnswerKeepsInv
    <3>3. CASE EmbedEnds
      BY <3>1, <3>3, WorkerGoneKeepsInv DEF EmbedEnds
    <3> QED  BY <2>2, <3>2, <3>3 DEF WorkerStep
  <2>3. CASE OverdueTimeout \/ EmbedFault
    <3>1. UNCHANGED <<orch, rows, indexed>>
      BY <2>3 DEF OverdueTimeout, EmbedFault, RestOfEmbed
    <3>2. CASE \E t \in timers : EmbedTimeout(t)
      BY <3>1, <3>2, TimeoutKeepsInv
    <3>3. CASE EmbedDies
      BY <3>1, <3>3, WorkerGoneKeepsInv DEF EmbedDies
    <3> QED  BY <2>3, <3>2, <3>3 DEF OverdueTimeout, EmbedFault
  <2>4. CASE ModelLoads
    BY <2>4 DEF ModelLoads, LoadModel, RestOfEmbed, engineVars, PipelineInv, LoopInv, EngineInv,
                RowsInv
  <2>5. CASE EngineStopped
    <3>1. orch = "engine" /\ orch' = "close" /\ UNCHANGED <<rows, indexed>>
      BY <2>5 DEF EngineStopped, storeVars
    <3>2. CASE WorkerGone
      BY <3>1, <3>2, WorkerGoneKeepsInv
    <3>3. CASE UNCHANGED embedVars
      BY <3>1, <3>3 DEF embedVars, PipelineInv, LoopInv, EngineInv, RowsInv
    <3> QED  BY <2>5, <3>2, <3>3 DEF EngineStopped
  <2> QED  BY <2>1, <2>2, <2>3, <2>4, <2>5
<1> QED  BY <1>3, <1>4 DEF PipelineInv

\* Where the daemon is, and what it still has in hand, is as PipelineInv says.
LEMMA PipelineInvHolds == Spec => []PipelineInv
<1>1. Init => PipelineInv
  BY InitPipeline
<1>2. PipelineInv /\ [Next]_vars => PipelineInv'
  <2> SUFFICES ASSUME PipelineInv, [Next]_vars  PROVE PipelineInv'
    OBVIOUS
  <2>1. CASE UNCHANGED vars
    <3>1. UNCHANGED InHand
      BY <2>1 DEF vars, screenVars, InHand
    <3>2. UNCHANGED <<orch, storeOpen, rows, indexed, runner, loop, batch, answered, asked, timers,
                      toEmbed, transcribing>>
      BY <2>1 DEF vars, storeVars, screenVars, embedVars
    <3> QED  BY <3>1, <3>2 DEF PipelineInv, PlaceInv, RunnerInv, TranscriptionInv, LoopInv,
                              EngineInv, RowsInv
  <2>2. CASE Next
    BY <2>2, OrchestratorKeepsPipelineInv, CaptureKeepsPipelineInv, EmbeddingKeepsPipelineInv
       DEF Next, StopSteps
  <2> QED  BY <2>1, <2>2
<1> QED  BY <1>1, <1>2, PTL DEF Spec

-----------------------------------------------------------------------------
(* Every step is one of SemanticIndex, or none. *)

\* The segments of earlier daemons are there from the start.
LEMMA InitRefines ==
  ASSUME Init
  PROVE  Pipeline!Init
<1>1. rows \in SUBSET ({"segment"} \X (1..MaxSegments))
  BY CaptureAssumption DEF Init, StoreInit
<1>2. indexed = {} /\ Stage = 0
  BY DEF Init, StoreInit, Stage, Starting
<1> QED  BY <1>1, <1>2 DEF Pipeline!Init

\* The orchestrator closes one stage after the other.
LEMMA OrchestratorRefines ==
  ASSUME StartSteps \/ Stop \/ StopSteps \/ DaemonDies
  PROVE  Pipeline!RunDry \/ UNCHANGED <<rows, indexed, Stage>>
<1>1. UNCHANGED <<rows, indexed>>
  BY DEF StartSteps, OpenStore, EnginesReady, StartQueue, StartSources, Stop, StopSteps, StopBus,
         BusStopped, StopTranscription, StopEngine, EngineStopped, CloseStore, Exit, DaemonDies,
         storeVars
<1>2. Stage' = Stage \/ Stage' \in (Stage + 1)..3
  <2>1. CASE StartSteps \/ Stop
    <3>1. /\ orch \in Starting \cup {"up"}
          /\ orch' \in Starting \cup {"up", "runners", "failed"}
      BY <2>1 DEF StartSteps, OpenStore, EnginesReady, StartQueue, StartSources, Stop, Starting
    <3> QED  BY <3>1 DEF Stage, Starting
  <2>2. CASE StopSteps
    BY <2>2 DEF StopSteps, StopBus, BusStopped, StopTranscription, StopEngine, EngineStopped,
                CloseStore, Exit, Stage, Starting
  <2>3. CASE DaemonDies
    BY <2>3 DEF DaemonDies, Stage, Starting
  <2> QED  BY <2>1, <2>2, <2>3
<1> QED  BY <1>1, <1>2 DEF Pipeline!RunDry

\* A screenshot is stored before the runners are stopped, a segment before
\* transcription is.
LEMMA CaptureRefines ==
  ASSUME PipelineInv,
         HelperStep \/ ScreenStep \/ \E n \in 1..MaxSegments : SegmentArrives(n)
  PROVE  Pipeline!Capture \/ UNCHANGED <<rows, indexed, Stage>>
<1>1. UNCHANGED <<orch, indexed, Stage>>
  BY DEF HelperStep, RestOfHelper, ScreenStep, RestOfScreen, SegmentArrives, othersOfOrch,
         storeVars, Stage
<1>2. ASSUME NEW n \in Frames, InsertImage(n)
      PROVE  Pipeline!Capture \/ UNCHANGED <<rows, indexed, Stage>>
  <2>1. Stage = 0
    BY <1>2 DEF InsertImage, Alive, PipelineInv, RunnerInv, Stage
  <2>2. rows' = rows \/ rows' = rows \cup {<<"chunk", n>>}
    BY <1>2 DEF InsertImage
  <2>3. /\ <<"chunk", n>> \in {"chunk"} \X Frames
        /\ <<"chunk", n>> \notin {"segment"} \X (1..MaxSegments)
    OBVIOUS
  <2> QED  BY <1>1, <2>1, <2>2, <2>3 DEF Pipeline!Capture
<1>3. ASSUME NEW n \in 1..MaxSegments, SegmentArrives(n)
      PROVE  Pipeline!Capture
  <2>1. Stage \in {0, 1}
    BY <1>3 DEF SegmentArrives, Alive, PipelineInv, TranscriptionInv, Stage, Starting
  <2>2. <<"segment", n>> \notin rows /\ rows' = rows \cup {<<"segment", n>>}
    BY <1>3 DEF SegmentArrives
  <2>3. /\ <<"segment", n>> \in {"segment"} \X (1..MaxSegments)
        /\ <<"segment", n>> \notin {"chunk"} \X Frames
    OBVIOUS
  <2> QED  BY <1>1, <2>1, <2>2, <2>3 DEF Pipeline!Capture
<1>4. CASE HelperStep
  BY <1>1, <1>4 DEF HelperStep, RestOfHelper, storeVars
<1>5. CASE ScreenStep
  BY <1>1, <1>2, <1>5 DEF ScreenStep
<1> QED  BY <1>3, <1>4, <1>5

\* The vectors of a batch are stored while the loop runs, and so before the
\* engine is stopped; what the worker does adds none.
LEMMA EmbeddingRefines ==
  ASSUME PipelineInv,
         LoopStep \/ WorkerStep \/ OverdueTimeout \/ EmbedFault \/ ModelLoads
  PROVE  Pipeline!Embed \/ UNCHANGED <<rows, indexed, Stage>>
<1>1. UNCHANGED <<orch, rows, Stage>>
  BY DEF LoopStep, WorkerStep, OverdueTimeout, EmbedFault, ModelLoads, RestOfEmbed, Stage
<1>2. CASE StoreBatch
  <2>1. Stage \in {0, 1, 2} \/ ~storeOpen
    BY <1>2 DEF StoreBatch, Awaiting, Alive, PipelineInv, PlaceInv, LoopInv,
                TranscriptionInv, Stage, Starting, Stopping
  <2>2. indexed' = indexed \/ (storeOpen /\ \E done \in SUBSET batch : indexed' = indexed \cup done)
    BY <1>2 DEF StoreBatch
  <2>3. batch \subseteq rows \ indexed
    BY DEF PipelineInv, RowsInv
  <2> QED  BY <1>1, <2>1, <2>2, <2>3 DEF Pipeline!Embed
<1>3. CASE ~StoreBatch
  BY <1>1, <1>3 DEF LoopStep, WorkerStep, OverdueTimeout, EmbedFault, ModelLoads
<1> QED  BY <1>2, <1>3

\* A capture daemon implements SemanticIndex (ImplementsIndex): whatever its
\* backend and its faults, also when it dies in the middle, screenshots end
\* before segments, these before vectors, and nothing is written after them.
THEOREM PipelineRunsDry == FairSpec => ImplementsIndex
<1>1. Init => Pipeline!Init
  BY InitRefines
<1>2. PipelineInv /\ [Next]_vars => [Pipeline!Next]_Pipeline!pipelineVars
  <2> SUFFICES ASSUME PipelineInv, [Next]_vars  PROVE [Pipeline!Next]_Pipeline!pipelineVars
    OBVIOUS
  <2>1. CASE UNCHANGED vars
    <3>1. UNCHANGED <<rows, indexed, Stage>>
      BY <2>1 DEF vars, storeVars, Stage
    <3> QED  BY <3>1 DEF Pipeline!pipelineVars
  <2>2. CASE Next
    <3>1. Pipeline!Next \/ UNCHANGED <<rows, indexed, Stage>>
      BY <2>2, OrchestratorRefines, CaptureRefines, EmbeddingRefines DEF Next, Pipeline!Next
    <3> QED  BY <3>1 DEF Pipeline!pipelineVars
  <2> QED  BY <2>1, <2>2
<1> QED  BY <1>1, <1>2, PipelineInvHolds, PTL DEF FairSpec, Spec, ImplementsIndex, Pipeline!Spec
=============================================================================
