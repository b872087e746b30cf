------------------------------ MODULE SourceVad ------------------------------
(***************************************************************************)
(* SourceVad of asr/src/main.rs: how the ASR worker cuts one source's      *)
(* frames into segments.  Time and length are counted in the same unit, a  *)
(* fixed number of samples; whether a frame is speech (RMS gate and VAD)   *)
(* is an input.                                                            *)
(***************************************************************************)
EXTENDS Naturals, Sequences

CONSTANTS
  FrameUnits,     \* length of an ASR frame (ASR_FRAME_MS)
  MinSegment,     \* min_segment_ms
  TargetSegment,  \* target_segment_ms (max_segment_ms is never below it)
  SilenceLimit,   \* silence_ms
  NoChunk         \* chunk_id = None

ASSUME VadAssumption ==
  /\ FrameUnits \in Nat \ {0}
  /\ MinSegment \in Nat
  /\ TargetSegment \in Nat \ {0}
  /\ SilenceLimit \in Nat \ {0}

\* An open segment: the chunk it began in, its interval, the audio it holds
\* and the silence at its end. It is empty when len = 0.
IdleVad == [chunk |-> NoChunk, start |-> 0, end |-> 0, len |-> 0, quiet |-> 0]

Segment(v) == [chunk |-> v.chunk, start |-> v.start, end |-> v.end]

\* take: the open segment, unless it is empty, or too short and not forced.
Take(v, force) ==
  [vad |-> IdleVad,
   out |-> IF v.len = 0 \/ (~force /\ v.len < MinSegment) THEN <<>> ELSE <<Segment(v)>>]

\* flush: whatever there is.
Flush(v) == Take(v, TRUE)

\* The frame joins the open segment or, if it is speech, opens one.
Extend(v, f) ==
  IF v.len = 0 /\ ~f.speech THEN v
  ELSE [chunk |-> IF v.len = 0 THEN f.chunk ELSE v.chunk,
        start |-> IF v.len = 0 THEN f.at ELSE v.start,
        end   |-> f.at + FrameUnits,
        len   |-> v.len + FrameUnits,
        quiet |-> IF f.speech THEN 0 ELSE v.quiet + FrameUnits]

\* A speech frame ends the segment at its target length, a quiet one after
\* enough silence.
Complete(v, f) ==
  IF f.speech THEN v.len >= TargetSegment ELSE v.len > 0 /\ v.quiet >= SilenceLimit

\* A frame of another chunk than the open segment's ends that segment first.
ChunkChanges(v, f) == v.chunk # NoChunk /\ v.chunk # f.chunk

Push(v, f) ==
  LET left  == IF ChunkChanges(v, f) THEN Take(v, FALSE) ELSE [vad |-> v, out |-> <<>>]
      grown == Extend(left.vad, f)
      cut   == IF Complete(grown, f) THEN Take(grown, FALSE) ELSE [vad |-> grown, out |-> <<>>]
  IN  [vad |-> cut.vad, out |-> left.out \o cut.out]
=============================================================================
