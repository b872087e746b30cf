---------------------------- MODULE AudioPipeline ----------------------------
(***************************************************************************)
(* Audio from the capture streams to the index, in one daemon:             *)
(*   capture/audio.ts      startStream, startSckSystemStream and the       *)
(*                         consumer that cuts PCM into chunks and frames   *)
(*   transcription_queue.ts, transcription/parakeet.ts                     *)
(*                         the daemon's side of the ASR worker             *)
(*   asr/src/main.rs       the worker itself (AsrWorker)                   *)
(*   store/db.ts           chunk rows and transcript segments              *)
(*   core/orchestrator.ts  stop()                                          *)
(* A unit of audio is half an ASR frame.  appendPcm runs synchronously, so *)
(* one Read step per unit has the interleavings of reads of any size.      *)
(***************************************************************************)
EXTENDS AsrWorker

CONSTANTS
  SckSources,   \* sources fed by the ScreenCaptureKit bus instead of a child process
  EchoSources,  \* sources whose frames may be dropped as an echo: the microphone
  ChunkUnits,   \* chunk_ms
  MaxUnits,     \* bound: units of audio a source delivers
  MaxReplays,   \* bound: how often replay playback starts
  Resolving,    \* streams that are still looking for their device in the first state
  Faults,       \* the faults the environment may produce, see FaultKind
  MaxFaults     \* bound on their number

FaultKind == {
  "insertFails",    \* store.insert throws in the stream of a child process
  "sckInsertFails", \* store.insert throws in a bus stream
  "blobFails",      \* encoding or blobs.write or finalizeAudioChunk throws
  "resolveFails",   \* no device, no binary, spawn throws, sck.start rejects
  "childExit",      \* ffmpeg or hpm-wasapi ends by itself
  "workerCrash",    \* hpm-asr dies
  "slowWorker" }    \* a flush takes 120 s, or a shutdown 10 s (not counted)

ASSUME PipelineAssumption ==
  /\ SckSources \subseteq Sources
  /\ EchoSources \subseteq Sources
  /\ ChunkUnits \in Nat \ {0}
  /\ MaxUnits \in Nat
  /\ MaxReplays \in Nat
  /\ Resolving \subseteq Sources
  /\ Faults \subseteq FaultKind
  /\ MaxFaults \in Nat
  /\ NoChunk \notin Nat /\ NoChunk \notin Sources \X Nat

VARIABLES
  phase,      \* where the async function behind runner.done is
  running,    \* the runner's `running` flag
  child,      \* the capture process: "none", "up" or "down"
  samples,    \* samplesSeen
  current,    \* number of the open chunk, or NoChunk
  asrPending, \* length of the frame being filled
  finalizeQueue,
  flushes,    \* Parakeet's map of unanswered flushes
  proc,       \* Parakeet's this.proc # undefined
  suppressedSources,
  replaying,  \* is a replay suppressing transcription?
  replays,    \* how often it has
  rows,       \* chunk rows: "open", or "final" once finalizeAudioChunk has run
  segments,   \* transcript_segments, in insertion order
  lost,       \* segments whose insert failed
  muted,      \* per source, the times of the frames suppressed by a replay
  orch,       \* orchestrator.stop(): where it is
  storeOpen,
  faults,
  timedOut    \* has a timer of the daemon given up on the worker?

streamVars == <<phase, running, child, samples, current, asrPending, finalizeQueue>>
queueVars == <<flushes, proc, suppressedSources>>
storeVars == <<rows, segments, lost, storeOpen>>
faultVars == <<faults, timedOut>>
vars == <<workerVars, streamVars, queueVars, storeVars, replaying, replays, muted, orch,
          faultVars>>

Chunk(s, n) == <<s, n>>
Chunks == Sources \X (0..MaxUnits)
ChunkStart(c) == c[2] * ChunkUnits
SegmentRecord == [chunk : Chunks, start : Nat, end : Nat]
FlushIds == (Sources \cup {"all"}) \X {"boundary", "last", "final", "suppress", "stop"} \X Nat

TypeOK ==
  /\ phase \in [Sources -> 
                {"resolving", "reading", "late", "draining", "flushing", "exiting", "done"}]
  /\ running \in [Sources -> BOOLEAN]
  /\ child \in [Sources -> {"none", "up", "down"}]
  /\ samples \in [Sources -> 0..MaxUnits]
  /\ current \in [Sources -> Nat \cup {NoChunk}]
  /\ asrPending \in [Sources -> 0..(FrameUnits - 1)]
  /\ finalizeQueue \in [Sources -> Seq(Chunks)]
  /\ flushes \subseteq FlushIds
  /\ proc \in BOOLEAN
  /\ suppressedSources \subseteq Sources
  /\ replaying \in BOOLEAN
  /\ replays \in 0..MaxReplays
  /\ DOMAIN rows \subseteq Chunks
  /\ \A c \in DOMAIN rows : rows[c] \in {"open", "final"}
  /\ segments \in Seq(SegmentRecord)
  /\ lost \subseteq SegmentRecord
  /\ muted \in [Sources -> SUBSET (0..MaxUnits)]
  /\ orch \in {"up", "runners", "flush", "shutdown", "close", "closed"}
  /\ storeOpen \in BOOLEAN
  /\ faults \in 0..MaxFaults
  /\ timedOut \in BOOLEAN

Fault(kind) ==
  kind \in Faults /\ faults < MaxFaults /\ faults' = faults + 1 /\ UNCHANGED timedOut
Timeout == "slowWorker" \in Faults /\ timedOut' = TRUE
Undisturbed == faults = 0 /\ ~timedOut

Init ==
  /\ WorkerInit
  /\ phase = [s \in Sources |-> IF s \in Resolving THEN "resolving" ELSE "reading"]
  /\ running = [s \in Sources |-> TRUE]
  /\ child = [s \in Sources |->
                IF s \in Resolving \cup SckSources THEN "none" ELSE "up"]
  /\ samples = [s \in Sources |-> 0]
  /\ current = [s \in Sources |-> NoChunk]
  /\ asrPending = [s \in Sources |-> 0]
  /\ finalizeQueue = [s \in Sources |-> <<>>]
  /\ flushes = {}
  /\ proc = TRUE
  /\ suppressedSources = {}
  /\ replaying = FALSE
  /\ replays = 0
  /\ rows = <<>>
  /\ segments = <<>>
  /\ lost = {}
  /\ muted = [s \in Sources |-> {}]
  /\ orch = "up"
  /\ storeOpen = TRUE
  /\ faults = 0
  /\ timedOut = FALSE

-----------------------------------------------------------------------------
(* The daemon's side of the worker: TranscriptionQueue and Parakeet. *)

FlushesIn(requests) ==
  {requests[i].id : i \in {j \in DOMAIN requests : requests[j].type = "flush"}}

\* Parakeet.submitPcm, flush and stop write to the worker if there is one, and
\* a flush stays registered until it is answered.
Send(requests) ==
  /\ inbox' = IF proc /\ worker = "up" THEN inbox \o requests ELSE inbox
  /\ flushes' = IF proc THEN flushes \cup FlushesIn(requests) ELSE flushes

\* Mutant: the time of a frame is the time it is submitted.
FrameAt_OfEnd(s) == samples[s] + 1

\* Time of the first unit of the frame that is due (asrPendingAt).
FrameAt(s) == samples[s] + 1 - FrameUnits
\* Mutant: off by one.
FrameDue_Late(s) == asrPending[s] = FrameUnits

FrameDue(s) == asrPending[s] + 1 = FrameUnits

\* shouldSubmitAsrFrame: a microphone frame no louder than what the speakers play
\* is an echo. The loudness of both is an input.
Sounds(s) == {"speech", "quiet"} \cup (IF s \in EchoSources THEN {"echo"} ELSE {})
Submits(s, sound) == FrameDue(s) /\ sound # "echo"

\* Mutant: suppression starts without a flush.
Submission_NoFlush(s, c, sound) ==
  IF ~Submits(s, sound) \/ replaying THEN <<>>
  ELSE <<AudioRequest(s, c, FrameAt(s), sound = "speech")>>

\* TranscriptionQueue.submitPcm: what it sends for the frame that is due.
Submission(s, c, sound) ==
  IF ~Submits(s, sound) \/ (replaying /\ s \in suppressedSources) THEN <<>>
  ELSE IF replaying THEN <<FlushRequest(<<s, "suppress", samples[s]>>, s)>>
  ELSE <<AudioRequest(s, c, FrameAt(s), sound = "speech")>>

Suppress(s, sound) ==
  /\ suppressedSources' = IF ~Submits(s, sound) THEN suppressedSources
                          ELSE IF replaying THEN suppressedSources \cup {s} ELSE {}
  /\ muted' = IF Submits(s, sound) /\ replaying
              THEN [muted EXCEPT ![s] = @ \cup {FrameAt(s)}] ELSE muted

\* handleSegment: the insert needs an open store and the row of the chunk.
HandleSegment(g) ==
  IF storeOpen /\ g.chunk \in DOMAIN rows
  THEN segments' = Append(segments, g) /\ UNCHANGED lost
  ELSE lost' = lost \cup {g} /\ UNCHANGED segments

\* handleMessage, for the next line on the worker's stdout.
Deliver ==
  /\ outbox # <<>>
  /\ outbox' = Tail(outbox)
  /\ IF Head(outbox).type = "segment"
     THEN HandleSegment(Head(outbox).segment) /\ UNCHANGED flushes
     ELSE flushes' = flushes \ {Head(outbox).id} /\ UNCHANGED <<segments, lost>>
  /\ UNCHANGED <<inbox, vad, model, worker, streamVars, proc, suppressedSources, rows,
                 storeOpen, replaying, replays, muted, orch, faultVars>>

\* proc.on('close'): stdout has been read to its end; every flush is rejected.
WorkerClose ==
  /\ worker = "down" /\ outbox = <<>> /\ proc
  /\ proc' = FALSE
  /\ flushes' = {}
  /\ UNCHANGED <<workerVars, streamVars, suppressedSources, storeVars, replaying, replays,
                 muted, orch, faultVars>>

\* The 120 s of a flush are over.
FlushTimeout ==
  /\ Timeout
  /\ \E id \in flushes : flushes' = flushes \ {id}
  /\ UNCHANGED <<workerVars, streamVars, proc, suppressedSources, storeVars, replaying,
                 replays, muted, orch, faults>>

KillWorker ==
  /\ worker' = "down"
  /\ inbox' = <<>>
  /\ vad' = [s \in Sources |-> IdleVad]

WorkerCrash ==
  /\ worker = "up"
  /\ Fault("workerCrash")
  /\ KillWorker
  /\ UNCHANGED <<outbox, model, streamVars, queueVars, storeVars, replaying, replays, muted, orch>>

-----------------------------------------------------------------------------
(* The capture streams. *)

engineVars == <<outbox, vad, model, worker, proc>>
replayVars == <<replaying, replays>>

Num(s) == IF current[s] = NoChunk THEN samples[s] \div ChunkUnits ELSE current[s]
Full(s) == samples[s] + 1 = (Num(s) + 1) * ChunkUnits

\* Mutant: a full chunk is rotated without flushing the ASR frames before it.
Boundary_Missing(s) == <<>>

\* flushAsrBoundary, when the unit that is read fills the chunk.
Boundary(s) ==
  IF Full(s) THEN <<FlushRequest(<<s, "boundary", samples[s]>>, s)>> ELSE <<>>

\* resolvePcmSource and Bun.spawn, or sck.start. A stop() that came first found no
\* process to kill; the child process is started all the same.
Resolve(s) ==
  /\ phase[s] = "resolving"
  /\ phase' = [phase EXCEPT ![s] =
                 IF running[s] THEN "reading" ELSE IF s \in SckSources THEN "done" ELSE "late"]
  /\ child' = [child EXCEPT ![s] = IF s \in SckSources THEN @ ELSE "up"]
  /\ UNCHANGED <<workerVars, running, samples, current, asrPending, finalizeQueue, queueVars,
                 storeVars, replayVars, muted, orch, faultVars>>

ResolveFails(s) ==
  /\ phase[s] = "resolving"
  /\ Fault("resolveFails")
  /\ phase' = [phase EXCEPT ![s] = "done"]
  /\ UNCHANGED <<workerVars, running, child, samples, current, asrPending, finalizeQueue,
                 queueVars, storeVars, replayVars, muted, orch>>

\* The next unit of a read: ensureChunk, the chunk's row with its first unit,
\* feedAsr, and the rotation once the chunk is full. A read that was pending
\* when stop() came is still appended.
HasAudio(s) ==
  /\ phase[s] = "reading"
  /\ samples[s] < MaxUnits

\* store.insert
WithRow(new) ==
  [c \in DOMAIN rows \cup {new} |-> IF c \in DOMAIN rows THEN rows[c] ELSE "open"]

\* Mutant: the row waits until the chunk is full.
InsertRow_Deferred(s) ==
  rows' = IF Full(s) THEN WithRow(Chunk(s, Num(s))) ELSE rows

InsertRow(s) ==
  rows' = IF current[s] = NoChunk THEN WithRow(Chunk(s, Num(s))) ELSE rows

Rotate(s) ==
  /\ current' = [current EXCEPT ![s] = IF Full(s) THEN NoChunk ELSE Num(s)]
  /\ finalizeQueue' = [finalizeQueue EXCEPT ![s] =
                         IF Full(s) THEN Append(@, Chunk(s, Num(s))) ELSE @]

Read(s, sound) ==
  /\ HasAudio(s)
  /\ InsertRow(s)
  /\ Send(Submission(s, Chunk(s, Num(s)), sound) \o Boundary(s))
  /\ Suppress(s, sound)
  /\ asrPending' = [asrPending EXCEPT ![s] = IF FrameDue(s) \/ Full(s) THEN 0 ELSE @ + 1]
  /\ samples' = [samples EXCEPT ![s] = @ + 1]
  /\ Rotate(s)
  /\ UNCHANGED <<phase, running, child, engineVars, segments, lost, storeOpen, replayVars,
                 orch, faultVars>>

\* store.insert throws, with the chunk already marked as inserted, and the rest
\* of the read, n units, is not fed to the worker. The bus subscriber of an SCK
\* stream reports it and appends what comes next, to a chunk that has no row.
InsertFailsSck(s) ==
  /\ s \in SckSources
  /\ HasAudio(s) /\ current[s] = NoChunk
  /\ Fault("sckInsertFails")
  /\ current' = [current EXCEPT ![s] = Num(s)]
  /\ \E n \in 1..(ChunkUnits - 1) :
       /\ samples[s] + n <= MaxUnits
       /\ samples' = [samples EXCEPT ![s] = @ + n]
  /\ UNCHANGED <<workerVars, phase, running, child, asrPending, finalizeQueue, queueVars,
                 storeVars, replayVars, muted, orch>>

\* The `finally` of startStream and the end of startSckSystemStream: flush the
\* boundary, rotate, and wait for the chunks queued so far. From here stop()
\* has no process to kill.
Finalize(s, open) ==
  /\ phase' = [phase EXCEPT ![s] = "draining"]
  /\ running' = [running EXCEPT ![s] = FALSE]
  /\ asrPending' = [asrPending EXCEPT ![s] = 0]
  /\ current' = [current EXCEPT ![s] = NoChunk]
  /\ finalizeQueue' = [finalizeQueue EXCEPT ![s] =
                         IF open = NoChunk THEN @ ELSE Append(@, Chunk(s, open))]
  /\ Send(<<FlushRequest(<<s, "last", samples[s]>>, s)>>)

\* In a child-process stream the exception ends the read loop; the process
\* stays, with nobody reading its output.
InsertFails(s) ==
  /\ s \notin SckSources
  /\ HasAudio(s) /\ current[s] = NoChunk
  /\ Fault("insertFails")
  /\ samples' = [samples EXCEPT ![s] = @ + 1]
  /\ Finalize(s, Num(s))
  /\ UNCHANGED <<child, engineVars, suppressedSources, storeVars, replayVars, muted, orch>>

LoopExit(s) ==
  /\ \/ phase[s] = "late"
     \/ phase[s] = "reading" /\ (~running[s] \/ child[s] = "down")
  /\ Finalize(s, current[s])
  /\ UNCHANGED <<child, samples, engineVars, suppressedSources, storeVars, replayVars, muted,
                 orch, faultVars>>

\* finalizeChunk, one chunk of a source after the other. A failure is reported
\* and the row stays as it was inserted.
FinalizeChunk(s) ==
  /\ finalizeQueue[s] # <<>>
  /\ finalizeQueue' = [finalizeQueue EXCEPT ![s] = Tail(@)]
  /\ LET c == Head(finalizeQueue[s])
     IN  rows' = IF c \in DOMAIN rows THEN [rows EXCEPT ![c] = "final"] ELSE rows
  /\ UNCHANGED <<workerVars, phase, running, child, samples, current, asrPending, queueVars,
                 segments, lost, storeOpen, replayVars, muted, orch, faultVars>>

BlobFails(s) ==
  /\ finalizeQueue[s] # <<>>
  /\ Fault("blobFails")
  /\ finalizeQueue' = [finalizeQueue EXCEPT ![s] = Tail(@)]
  /\ UNCHANGED <<workerVars, phase, running, child, samples, current, asrPending, queueVars,
                 storeVars, replayVars, muted, orch>>

FinalFlushId(s) == <<s, "final", 0>>

\* await finalizeQueue; transcription.flush(source)
FinalFlush(s) ==
  /\ phase[s] = "draining" /\ finalizeQueue[s] = <<>>
  /\ phase' = [phase EXCEPT ![s] = "flushing"]
  /\ Send(<<FlushRequest(FinalFlushId(s), s)>>)
  /\ UNCHANGED <<running, child, samples, current, asrPending, finalizeQueue, engineVars,
                 suppressedSources, storeVars, replayVars, muted, orch, faultVars>>

\* The flush is answered, rejected or was not needed.
FinalFlushed(s) ==
  /\ phase[s] = "flushing" /\ FinalFlushId(s) \notin flushes
  /\ phase' = [phase EXCEPT ![s] = IF s \in SckSources THEN "done" ELSE "exiting"]
  /\ UNCHANGED <<workerVars, running, child, samples, current, asrPending, finalizeQueue,
                 queueVars, storeVars, replayVars, muted, orch, faultVars>>

\* await proc.exited
Exited(s) ==
  /\ phase[s] = "exiting" /\ child[s] = "down"
  /\ phase' = [phase EXCEPT ![s] = "done"]
  /\ UNCHANGED <<workerVars, running, child, samples, current, asrPending, finalizeQueue,
                 queueVars, storeVars, replayVars, muted, orch, faultVars>>

ChildExit(s) ==
  /\ child[s] = "up"
  /\ Fault("childExit")
  /\ child' = [child EXCEPT ![s] = "down"]
  /\ UNCHANGED <<workerVars, phase, running, samples, current, asrPending, finalizeQueue,
                 queueVars, storeVars, replayVars, muted, orch>>

ReplayStarts ==
  /\ ~replaying /\ replays < MaxReplays /\ orch = "up"
  /\ replaying' = TRUE
  /\ replays' = replays + 1
  /\ UNCHANGED <<workerVars, streamVars, queueVars, storeVars, muted, orch, faultVars>>

ReplayEnds ==
  /\ replaying
  /\ replaying' = FALSE
  /\ UNCHANGED <<workerVars, streamVars, queueVars, storeVars, replays, muted, orch, faultVars>>

-----------------------------------------------------------------------------
(* Orchestrator.stop *)

StopFlushId == <<"all", "stop", 0>>

\* Mutant: the capture processes are left running.
Stop_NoKill ==
  /\ orch = "up"
  /\ orch' = "runners"
  /\ running' = [s \in Sources |-> FALSE]
  /\ UNCHANGED <<child, workerVars, phase, samples, current, asrPending, finalizeQueue,
                 queueVars, storeVars, replayVars, muted, faultVars>>

\* Every runner is told to stop. A stream kills its child process if it has one
\* and still reads it.
Stop ==
  /\ orch = "up"
  /\ orch' = "runners"
  /\ running' = [s \in Sources |-> FALSE]
  /\ child' = [s \in Sources |->
                 IF phase[s] = "reading" /\ child[s] = "up" THEN "down" ELSE child[s]]
  /\ UNCHANGED <<workerVars, phase, samples, current, asrPending, finalizeQueue, queueVars,
                 storeVars, replayVars, muted, faultVars>>

\* Mutant: stop does not wait for the runners.
RunnersDone_NotAwaited ==
  /\ orch = "runners"
  /\ orch' = "flush"
  /\ Send(<<FlushRequest(StopFlushId, "all")>>)
  /\ UNCHANGED <<streamVars, engineVars, suppressedSources, storeVars, replayVars, muted, faultVars>>

\* All runners are done; TranscriptionQueue.stop flushes the worker, ...
RunnersDone ==
  /\ orch = "runners"
  /\ \A s \in Sources : phase[s] = "done"
  /\ orch' = "flush"
  /\ Send(<<FlushRequest(StopFlushId, "all")>>)
  /\ UNCHANGED <<streamVars, engineVars, suppressedSources, storeVars, replayVars, muted, faultVars>>

\* ... stops it, ...
StopFlushed ==
  /\ orch = "flush" /\ StopFlushId \notin flushes
  /\ orch' = IF proc THEN "shutdown" ELSE "close"
  /\ Send(<<ShutdownRequest>>)
  /\ UNCHANGED <<streamVars, engineVars, suppressedSources, storeVars, replayVars, muted, faultVars>>

\* ... and waits until it has closed, or kills it after 10 s.
WorkerClosed ==
  /\ orch = "shutdown" /\ ~proc
  /\ orch' = "close"
  /\ UNCHANGED <<workerVars, streamVars, queueVars, storeVars, replayVars, muted, faultVars>>

ShutdownTimeout ==
  /\ orch = "shutdown" /\ proc
  /\ Timeout
  /\ KillWorker
  /\ orch' = "close"
  /\ UNCHANGED <<outbox, model, streamVars, queueVars, storeVars, replayVars, muted, faults>>

CloseStore ==
  /\ orch = "close"
  /\ orch' = "closed"
  /\ storeOpen' = FALSE
  /\ UNCHANGED <<workerVars, streamVars, queueVars, rows, segments, lost, replayVars, muted,
                 faultVars>>

Worker ==
  /\ WorkerNext
  /\ UNCHANGED <<streamVars, queueVars, storeVars, replayVars, muted, orch, faultVars>>

\* What the processes do by themselves.
Stream(s) ==
  \/ Resolve(s) \/ LoopExit(s) \/ FinalizeChunk(s) \/ FinalFlush(s) \/ FinalFlushed(s)
  \/ Exited(s)
Stopping == RunnersDone \/ StopFlushed \/ WorkerClosed \/ CloseStore
Engine == Worker \/ Deliver \/ WorkerClose

\* What they are confronted with.
Environment ==
  \/ \E s \in Sources :
       \/ \E sound \in Sounds(s) : Read(s, sound)
       \/ InsertFails(s) \/ InsertFailsSck(s) \/ BlobFails(s) \/ ResolveFails(s) \/ ChildExit(s)
  \/ ReplayStarts \/ ReplayEnds
  \/ FlushTimeout \/ WorkerCrash \/ ShutdownTimeout

\* The daemon has stopped.
Stopped == orch = "closed" /\ UNCHANGED vars

Next == (\E s \in Sources : Stream(s)) \/ Stop \/ Stopping \/ Engine \/ Environment \/ Stopped

Spec == Init /\ [][Next]_vars

\* The event loop resumes every promise that is settled, reads what arrives and
\* fires the timers. Nothing is assumed of the worker, which may hang.
FairSpec ==
  /\ Spec
  /\ \A s \in Sources : WF_vars(Stream(s))
  /\ WF_vars(Stopping)
  /\ WF_vars(Deliver)
  /\ WF_vars(WorkerClose)
  /\ WF_vars(FlushTimeout)
  /\ WF_vars(ShutdownTimeout)

-----------------------------------------------------------------------------
(* Properties. *)

\* The pipeline implements the promise of Transcript about the index: chunks and
\* segments appear in order and in their place, rows only become final, and the
\* store is never written after stop() has closed it.
Index == INSTANCE Transcript
ImplementsTranscript == Index!Spec

\* What is said lands once, in order, in the chunk it was said in: the stored
\* segments of a source follow one another without overlap, and each lies
\* within its chunk, however the chunks rotate and the worker is flushed.
TranscriptOrdered ==
  /\ \A i \in DOMAIN segments :
       LET g == segments[i]
       IN  /\ ChunkStart(g.chunk) <= g.start /\ g.start < g.end
           /\ g.end <= ChunkStart(g.chunk) + ChunkUnits
  /\ \A i, j \in DOMAIN segments :
       (i < j /\ segments[i].chunk[1] = segments[j].chunk[1])
         => segments[i].end <= segments[j].start

\* The TUI may play a recording while the microphone listens: no stored segment
\* covers a moment at which a replay was suppressing transcription.
SegmentsSkipReplay ==
  \A i \in DOMAIN segments : \A t \in muted[segments[i].chunk[1]] :
    ~(segments[i].start <= t /\ t < segments[i].end)

\* take(false) throws a short segment away. That must not happen to speech that
\* only a chunk rotation cut short: when a frame of a new chunk reaches the
\* worker, the flush sent at the rotation has already taken the old segment.
RotationKeepsSpeech ==
  (NextRequest("audio") /\ model = "ready")
    => ~ChunkChanges(vad[Head(inbox).source], Head(inbox))

\* Without faults no segment finds its chunk's row missing or the store closed.
NothingLost == Undisturbed => lost = {}

\* No promise is forgotten: as long as the worker runs, every flush the daemon
\* waits for is still to be read by it or already answered on its stdout.
FlushesAnswered ==
  (worker = "up")
    => flushes \subseteq FlushesIn(inbox)
         \cup {outbox[i].id : i \in {j \in DOMAIN outbox : outbox[j].type = "flushed"}}

\* stop() completes: the orchestrator closes the store after it was told to
\* stop, even if the worker hangs, crashes or never answers.
StopCompletes == (orch = "runners") ~> (orch = "closed")
=============================================================================
