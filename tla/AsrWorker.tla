------------------------------ MODULE AsrWorker ------------------------------
(***************************************************************************)
(* The hpm-asr process (asr/src/main.rs): it reads requests from stdin one *)
(* at a time, keeps a SourceVad per source, transcribes the segments they  *)
(* yield and writes messages to stdout.  The model is loaded by a thread;  *)
(* audio that arrives before it is ready is dropped.                       *)
(***************************************************************************)
EXTENDS SourceVad

CONSTANTS Sources  \* "mic" and "system"

ASSUME SourcesAssumption == "all" \notin Sources

VARIABLES
  inbox,    \* requests written to stdin and not yet read
  outbox,   \* messages written to stdout and not yet read by the daemon
  vad,      \* the SourceVad of every source
  model,    \* "loading", "ready" or "failed"
  worker    \* "up", or "down" once the process has ended

workerVars == <<inbox, outbox, vad, model, worker>>

AudioRequest(s, c, t, speech) ==
  [type |-> "audio", source |-> s, chunk |-> c, at |-> t, speech |-> speech]
FlushRequest(id, s) == [type |-> "flush", id |-> id, source |-> s]
ShutdownRequest == [type |-> "shutdown"]

FinalMessage(segment) == [type |-> "segment", segment |-> segment]
FlushedMessage(id) == [type |-> "flushed", id |-> id]

WorkerInit ==
  /\ inbox = <<>>
  /\ outbox = <<>>
  /\ vad = [s \in Sources |-> IdleVad]
  /\ model \in {"loading", "ready"}
  /\ worker = "up"

\* transcribe_segment emits a segment_final, or nothing: no text came out, the
\* segment is below the RMS gate, or the engine failed (an `error` message,
\* which only reaches the log).
Transcribe(cut) ==
  LET heard(n) == {at \in [1..n -> DOMAIN cut] : \A i, j \in 1..n : i < j => at[i] < at[j]}
  IN  UNION {{[i \in 1..n |-> FinalMessage(cut[at[i]])] : at \in heard(n)} : n \in 0..Len(cut)}

NextRequest(type) == worker = "up" /\ inbox # <<>> /\ Head(inbox).type = type
RequestDone == inbox' = Tail(inbox)

LoadModel ==
  /\ worker = "up"
  /\ model = "loading"
  /\ model' \in {"ready", "failed"}
  /\ UNCHANGED <<inbox, outbox, vad, worker>>

HandleAudio ==
  /\ NextRequest("audio")
  /\ RequestDone
  /\ IF model # "ready" THEN UNCHANGED <<vad, outbox>>
     ELSE LET f == Head(inbox)
              pushed == Push(vad[f.source], f)
          IN  /\ vad' = [vad EXCEPT ![f.source] = pushed.vad]
              /\ \E text \in Transcribe(pushed.out) : outbox' = outbox \o text
  /\ UNCHANGED <<model, worker>>

\* The sources a flush or a shutdown is about.
Concerned(req) ==
  IF req.type = "shutdown" \/ req.source = "all" THEN Sources ELSE {req.source}

AtFlush == NextRequest("flush") \/ NextRequest("shutdown")
Pending == {s \in Concerned(Head(inbox)) : vad[s].len > 0}

\* Flush and Shutdown: transcribe the open segment of one source after the
\* other, in any order, ...
FlushSource(s) ==
  /\ AtFlush
  /\ s \in Pending
  /\ LET flushed == Flush(vad[s])
     IN  /\ vad' = [vad EXCEPT ![s] = flushed.vad]
         /\ \E text \in Transcribe(flushed.out) : outbox' = outbox \o text
  /\ UNCHANGED <<inbox, model, worker>>

\* Mutant: a flush that is done is not answered.
AnswerFlush_Silent ==
  /\ NextRequest("flush")
  /\ Pending = {}
  /\ RequestDone
  /\ UNCHANGED <<outbox, vad, model, worker>>

\* ... and then answer the flush, ...
AnswerFlush ==
  /\ NextRequest("flush")
  /\ Pending = {}
  /\ RequestDone
  /\ outbox' = Append(outbox, FlushedMessage(Head(inbox).id))
  /\ UNCHANGED <<vad, model, worker>>

\* ... or leave the request loop and exit.
AnswerShutdown ==
  /\ NextRequest("shutdown")
  /\ Pending = {}
  /\ RequestDone
  /\ worker' = "down"
  /\ UNCHANGED <<outbox, vad, model>>

WorkerNext ==
  \/ LoadModel
  \/ HandleAudio
  \/ \E s \in Sources : FlushSource(s)
  \/ AnswerFlush
  \/ AnswerShutdown
=============================================================================
