-------------------------- MODULE AudioPipelineProofs --------------------------
(***************************************************************************)
(* Theorems about the audio pipeline, with proofs for TLAPS: for any       *)
(* sources, any lengths of frames, chunks and segments, any amount of      *)
(* audio, replays and faults.                                              *)
(***************************************************************************)
EXTENDS AudioPipeline, SequenceTheorems, TLAPS

-----------------------------------------------------------------------------
(* The inductive invariant, part by part. *)

AudioRequests ==
  [type : {"audio"}, source : Sources, chunk : Chunks, at : Nat, speech : BOOLEAN]
FlushRequests == [type : {"flush"}, id : FlushIds, source : Sources \cup {"all"}]
Requests == AudioRequests \cup FlushRequests \cup {ShutdownRequest}
SegmentMessages == [type : {"segment"}, segment : SegmentRecord]
Messages == SegmentMessages \cup [type : {"flushed"}, id : FlushIds]
Vads == [chunk : Chunks \cup {NoChunk}, start : Nat, end : Nat, len : Nat, quiet : Nat]

\* The types of the daemon's variables and of what it shares with hpm-asr.
TypeInv ==
  /\ TypeOK
  /\ inbox \in Seq(Requests)
  /\ outbox \in Seq(Messages)
  /\ vad \in [Sources -> Vads]
  /\ worker \in {"up", "down"}

\* The end of the last frame of s that was due.
Heard(s) == samples[s] - asrPending[s]

\* What is read next, and the frame that is being filled, lie in the chunk that is
\* open or due; a chunk is due at its first unit.
ChunkInv ==
  \A s \in Sources :
    /\ Num(s) * ChunkUnits <= Heard(s)
    /\ samples[s] < Num(s) * ChunkUnits + ChunkUnits
    /\ current[s] = NoChunk => asrPending[s] = 0
    /\ current[s] = NoChunk /\ phase[s] \in {"resolving", "reading"}
         => samples[s] = Num(s) * ChunkUnits

Inside(g) ==
  /\ ChunkStart(g.chunk) <= g.start
  /\ g.start < g.end
  /\ g.end <= ChunkStart(g.chunk) + ChunkUnits

Open(s) == vad[s].len > 0

\* The places of inbox, outbox and segments that hold what source s said, and the
\* flushes of s in the inbox.
Audio(s) == {i \in DOMAIN inbox : inbox[i].type = "audio" /\ inbox[i].source = s}
Flushes(s) == {i \in DOMAIN inbox : inbox[i].type = "flush" /\ inbox[i].source = s}
Spoken(s) == {i \in DOMAIN outbox :
                outbox[i].type = "segment" /\ outbox[i].segment.chunk[1] = s}
Stored(s) == {i \in DOMAIN segments : segments[i].chunk[1] = s}

\* Frames and segments lie in the chunk of their source that they name, wherever
\* they are.
InsideInv ==
  /\ \A s \in Sources :
       /\ \A i \in Audio(s) : LET f == inbox[i]
                              IN  /\ f.chunk[1] = s /\ ChunkStart(f.chunk) <= f.at
                                  /\ f.at + FrameUnits <= ChunkStart(f.chunk) + ChunkUnits
       /\ IF Open(s) THEN vad[s].chunk[1] = s /\ vad[s].chunk # NoChunk /\ Inside(vad[s])
                     ELSE vad[s] = IdleVad
       /\ \A i \in Spoken(s) : Inside(outbox[i].segment)
  /\ \A i \in DOMAIN segments : Inside(segments[i])

\* The way of a source's audio is a line: what is stored comes before what is in
\* the outbox, that before the open segment, that before the frames in the inbox,
\* and those before what is heard next.
OrderInv ==
  \A s \in Sources :
    /\ \A i \in Audio(s) :
         /\ inbox[i].at + FrameUnits <= Heard(s)
         /\ \A j \in Audio(s) : i < j => inbox[i].at + FrameUnits <= inbox[j].at
         /\ Open(s) => vad[s].end <= inbox[i].at
    /\ Open(s) => vad[s].end <= Heard(s)
    /\ \A i \in Spoken(s) : LET g == outbox[i].segment
         IN  /\ \A j \in Spoken(s) : i < j => g.end <= outbox[j].segment.start
             /\ Open(s) => g.end <= vad[s].start
             /\ \A j \in Audio(s) : g.end <= inbox[j].at
             /\ g.end <= Heard(s)
    /\ \A i \in Stored(s) : LET g == segments[i]
         IN  /\ \A j \in Stored(s) : i < j => g.end <= segments[j].start
             /\ \A j \in Spoken(s) : g.end <= outbox[j].segment.start
             /\ Open(s) => g.end <= vad[s].start
             /\ \A j \in Audio(s) : g.end <= inbox[j].at
             /\ g.end <= Heard(s)

\* Between two frames of different chunks there is a flush of their source, as
\* there is after the last frame of a chunk that is over.
RotationInv ==
  worker = "up" =>
    \A s \in Sources :
      /\ \A i \in Audio(s) :
           /\ \A j \in Audio(s) :
                i < j /\ inbox[i].chunk # inbox[j].chunk
                  => \E k \in Flushes(s) : i < k /\ k < j
           /\ Open(s) /\ vad[s].chunk # inbox[i].chunk => \E k \in Flushes(s) : k < i
           /\ inbox[i].chunk # Chunk(s, Num(s)) => \E k \in Flushes(s) : i < k
      /\ Open(s) /\ vad[s].chunk # Chunk(s, Num(s)) => Flushes(s) # {}

\* No segment covers a frame that a replay has suppressed, ...
SkipInv ==
  \A s \in Sources : \A t \in muted[s] :
    /\ t + FrameUnits <= Heard(s)
    /\ \A i \in Spoken(s) : LET g == outbox[i].segment IN g.end <= t \/ t < g.start
    /\ \A i \in Stored(s) : segments[i].end <= t \/ t < segments[i].start

\* ... because a flush of its source stands where that frame would, between what
\* was said before and what is said after, unless it has been read already.
MutedInv ==
  worker = "up" =>
    \A s \in Sources :
      /\ \A t \in muted[s] :
           /\ \A i \in Audio(s) :
                /\ t + FrameUnits <= inbox[i].at \/ inbox[i].at + FrameUnits <= t
                /\ inbox[i].at <= t =>
                     \E k \in Flushes(s) : i < k /\ \A j \in Audio(s) : t < inbox[j].at => k < j
           /\ Open(s) => vad[s].end <= t \/ t < vad[s].start
           /\ Open(s) /\ vad[s].start <= t =>
                \E k \in Flushes(s) : \A j \in Audio(s) : t < inbox[j].at => k < j
      /\ s \in suppressedSources =>
           /\ \A i \in Audio(s) : \E k \in Flushes(s) : i < k
           /\ Open(s) => Flushes(s) # {}

\* The store is open while a runner may write into it, and the worker is only
\* given up for closed when there is nothing left to read of it.
StopInv ==
  /\ storeOpen <=> orch # "closed"
  /\ orch \in {"flush", "shutdown", "close", "closed"} => \A s \in Sources : phase[s] = "done"
  /\ ~proc => worker = "down" /\ outbox = <<>>
  /\ orch \in {"close", "closed"} /\ ~timedOut => ~proc
  /\ \A s \in Sources :
       phase[s] \in {"resolving", "flushing", "exiting", "done"} => finalizeQueue[s] = <<>>

\* The rows of a source that still reads are those of the chunks so far.
RowsInv ==
  /\ rows = [c \in DOMAIN rows |-> rows[c]]
  /\ \A s \in Sources : phase[s] \in {"resolving", "reading"} =>
       \A n \in 0..MaxUnits : Chunk(s, n) \in DOMAIN rows => n < Num(s) \/ n = current[s]

\* Without faults every chunk that is open or named by a frame or a segment has
\* its row.
KnownInv ==
  faults = 0 =>
    \A s \in Sources :
      /\ current[s] # NoChunk => Chunk(s, current[s]) \in DOMAIN rows
      /\ \A i \in Audio(s) : inbox[i].chunk \in DOMAIN rows
      /\ Open(s) => vad[s].chunk \in DOMAIN rows
      /\ \A i \in Spoken(s) : outbox[i].segment.chunk \in DOMAIN rows

-----------------------------------------------------------------------------
(* Types. *)

\* The three kinds of request are told apart by their type.
LEMMA RequestKinds ==
  ASSUME NEW r \in Requests
  PROVE  /\ r.type \in {"audio", "flush", "shutdown"}
         /\ r.type = "audio" <=> r \in AudioRequests
         /\ r.type = "flush" <=> r \in FlushRequests
  BY DEF Requests, AudioRequests, FlushRequests, ShutdownRequest

\* And so are the two kinds of message.
LEMMA MessageKinds ==
  ASSUME NEW m \in Messages
  PROVE  /\ m.type = "segment" => m \in SegmentMessages /\ m.segment \in SegmentRecord
         /\ m.type # "segment" => m.type = "flushed" /\ m.id \in FlushIds
  BY DEF Messages, SegmentMessages

\* What the daemon's side writes to the worker are requests.
LEMMA SendType ==
  ASSUME TypeInv, NEW reqs \in Seq(Requests), Send(reqs)
  PROVE  inbox' \in Seq(Requests) /\ flushes' \subseteq FlushIds
<1>1. FlushesIn(reqs) \subseteq FlushIds
  <2> SUFFICES ASSUME NEW i \in DOMAIN reqs, reqs[i].type = "flush"
               PROVE  reqs[i].id \in FlushIds
    BY DEF FlushesIn
  <2>1. reqs[i] \in Requests
    OBVIOUS
  <2> QED  BY <2>1, RequestKinds DEF FlushRequests
<1> QED  BY <1>1 DEF TypeInv, TypeOK, Send

\* The number of the chunk that is open or due.
LEMMA NumType ==
  ASSUME TypeInv, ChunkInv, NEW s \in Sources
  PROVE  /\ Num(s) \in Nat /\ Num(s) <= samples[s]
         /\ Chunk(s, Num(s)) \in Chunks
         /\ samples[s] \in Nat /\ asrPending[s] \in Nat /\ asrPending[s] <= samples[s]
         /\ ChunkStart(Chunk(s, Num(s))) = Num(s) * ChunkUnits
<1>1. samples[s] \in 0..MaxUnits /\ asrPending[s] \in 0..(FrameUnits - 1)
      /\ current[s] \in Nat \cup {NoChunk}
  BY DEF TypeInv, TypeOK
<1>2. Num(s) \in Nat
  BY <1>1, PipelineAssumption DEF Num
<1>3. Num(s) * ChunkUnits <= samples[s] - asrPending[s]
  BY DEF ChunkInv, Heard
<1>4. Num(s) * ChunkUnits \in Nat /\ Num(s) <= Num(s) * ChunkUnits
  BY <1>2, PipelineAssumption
<1>5. asrPending[s] \in Nat /\ samples[s] \in Nat /\ samples[s] <= MaxUnits
  BY <1>1, VadAssumption, PipelineAssumption
<1> QED  BY <1>2, <1>3, <1>4, <1>5, PipelineAssumption DEF Chunk, Chunks, ChunkStart

-----------------------------------------------------------------------------
(* What hpm-asr makes of a request. *)

\* The transcription of one segment is a message or nothing.
LEMMA TranscribeOne ==
  ASSUME NEW g, NEW text \in Transcribe(<<g>>)
  PROVE  text = <<>> \/ text = <<FinalMessage(g)>>
<1>1. PICK n \in 0..1 : \E at \in {f \in [1..n -> {1}] : \A i, j \in 1..n : i < j => f[i] < f[j]} :
        text = [i \in 1..n |-> FinalMessage(<<g>>[at[i]])]
  BY DEF Transcribe
<1>2. CASE n = 0
  BY <1>1, <1>2
<1>3. CASE n = 1
  <2>1. PICK at \in [1..1 -> {1}] : text = [i \in 1..1 |-> FinalMessage(<<g>>[at[i]])]
    BY <1>1, <1>3
  <2>2. text = [i \in 1..1 |-> FinalMessage(g)]
    BY <2>1
  <2> QED  BY <2>2
<1> QED  BY <1>2, <1>3

\* Of nothing, nothing.
LEMMA TranscribeNone ==
  ASSUME NEW text \in Transcribe(<<>>)
  PROVE  text = <<>>
<1>1. PICK at \in [1..0 -> {}] : text = [i \in 1..0 |-> FinalMessage(<<>>[at[i]])]
  BY DEF Transcribe
<1> QED  BY <1>1

\* A segment that a frame has joined or opened.
LEMMA ExtendShape ==
  ASSUME NEW v \in Vads, NEW f \in AudioRequests, ~(v.len = 0 /\ ~f.speech)
  PROVE  /\ Extend(v, f) \in Vads
         /\ Extend(v, f).len > 0 /\ Extend(v, f).end = f.at + FrameUnits
         /\ v.len = 0 => Extend(v, f).chunk = f.chunk /\ Extend(v, f).start = f.at
         /\ v.len > 0 => Extend(v, f).chunk = v.chunk /\ Extend(v, f).start = v.start
  BY VadAssumption DEF Extend, Vads, AudioRequests

\* Push without a change of chunk: the frame is left out, or it joins or opens a
\* segment, which stays open, is dropped, or is cut.
LEMMA PushShape ==
  ASSUME NEW v \in Vads, NEW f \in AudioRequests, ~ChunkChanges(v, f),
         v.len = 0 => v = IdleVad
  PROVE  \/ Push(v, f) = [vad |-> v, out |-> <<>>]
         \/ /\ ~(v.len = 0 /\ ~f.speech)
            /\ Push(v, f) \in {[vad |-> Extend(v, f), out |-> <<>>],
                               [vad |-> IdleVad, out |-> <<>>],
                               [vad |-> IdleVad, out |-> <<Segment(Extend(v, f))>>]}
<1> DEFINE grown == Extend(v, f)
           cut == IF Complete(grown, f) THEN Take(grown, FALSE)
                                        ELSE [vad |-> grown, out |-> <<>>]
<1>1. Push(v, f) = [vad |-> cut.vad, out |-> <<>> \o cut.out]
  BY DEF Push
<1>2. cut \in {[vad |-> grown, out |-> <<>>], [vad |-> IdleVad, out |-> <<>>],
               [vad |-> IdleVad, out |-> <<Segment(grown)>>]}
  BY DEF Take
<1>3. Push(v, f) = cut
  <2> HIDE DEF cut, grown
  <2>1. \A x : <<>> \o <<x>> = <<x>>
    OBVIOUS
  <2>2. cut.out = <<>> \/ cut.out = <<Segment(grown)>>
    BY <1>2
  <2>3. <<>> \o cut.out = cut.out
    BY <2>1, <2>2
  <2>4. cut = [vad |-> cut.vad, out |-> cut.out]
    BY <1>2
  <2> QED  BY <1>1, <2>3, <2>4
<1>4. CASE v.len = 0 /\ ~f.speech
  <2>1. grown = v /\ ~Complete(grown, f)
    BY <1>4 DEF Extend, Complete
  <2> QED  BY <1>3, <2>1
<1> QED  BY <1>2, <1>3, <1>4

\* The head of the inbox, and what the index sets become when it has been read.
LEMMA InboxRead ==
  ASSUME TypeInv, inbox # <<>>, inbox' = Tail(inbox)
  PROVE  /\ inbox[1] = Head(inbox) /\ Head(inbox) \in Requests /\ inbox' \in Seq(Requests)
         /\ \A i \in DOMAIN inbox : i \in Nat /\ i >= 1
         /\ \A i \in DOMAIN inbox' : i \in Nat /\ i >= 1
         /\ \A s : /\ \A i \in Audio(s)' : i + 1 \in Audio(s) /\ inbox'[i] = inbox[i + 1]
                   /\ \A k \in Flushes(s) : k = 1 \/ k - 1 \in Flushes(s)'
                   /\ \A k \in Flushes(s)' : k + 1 \in Flushes(s)
<1>1. inbox \in Seq(Requests)
  BY DEF TypeInv
<1>2. Head(inbox) = inbox[1] /\ Head(inbox) \in Requests /\ inbox' \in Seq(Requests)
  BY <1>1
<1>3. DOMAIN inbox = 1..Len(inbox) /\ DOMAIN inbox' = 1..(Len(inbox) - 1) /\ Len(inbox) \in Nat
  BY <1>1
<1>4. \A i \in DOMAIN inbox' : i + 1 \in DOMAIN inbox /\ inbox'[i] = inbox[i + 1]
  BY <1>1, <1>3
<1>5. \A i \in DOMAIN inbox : i # 1 => i - 1 \in DOMAIN inbox' /\ inbox'[i - 1] = inbox[i]
  BY <1>1, <1>3, <1>4
<1>6. ASSUME NEW s
      PROVE  /\ \A i \in Audio(s)' : i + 1 \in Audio(s) /\ inbox'[i] = inbox[i + 1]
             /\ \A k \in Flushes(s) : k = 1 \/ k - 1 \in Flushes(s)'
             /\ \A k \in Flushes(s)' : k + 1 \in Flushes(s)
  BY <1>4, <1>5 DEF Audio, Flushes
<1>7. /\ \A i \in DOMAIN inbox : i \in Nat /\ i >= 1
      /\ \A i \in DOMAIN inbox' : i \in Nat /\ i >= 1
  BY <1>3
<1> QED  BY <1>2, <1>6, <1>7, Zenon

\* The index sets after requests have been written.
LEMMA InboxSent ==
  ASSUME TypeInv, NEW reqs \in Seq(Requests), inbox' = inbox \o reqs
  PROVE  /\ inbox' \in Seq(Requests)
         /\ \A i \in DOMAIN inbox : i \in Nat /\ i >= 1 /\ i <= Len(inbox)
         /\ \A i \in DOMAIN inbox : i \in DOMAIN inbox' /\ inbox'[i] = inbox[i]
         /\ \A n \in DOMAIN reqs :
              Len(inbox) + n \in DOMAIN inbox' /\ inbox'[Len(inbox) + n] = reqs[n]
         /\ \A i \in DOMAIN inbox' :
              i \in DOMAIN inbox \/ \E n \in DOMAIN reqs : i = Len(inbox) + n
<1>1. inbox \in Seq(Requests) /\ Len(inbox) \in Nat /\ DOMAIN inbox = 1..Len(inbox)
  BY DEF TypeInv
<1>2. Len(reqs) \in Nat /\ DOMAIN reqs = 1..Len(reqs)
  OBVIOUS
<1>3. inbox' \in Seq(Requests) /\ Len(inbox') = Len(inbox) + Len(reqs)
      /\ DOMAIN inbox' = 1..(Len(inbox) + Len(reqs))
  BY <1>1, <1>2
<1>4. \A i \in 1..(Len(inbox) + Len(reqs)) :
        inbox'[i] = IF i <= Len(inbox) THEN inbox[i] ELSE reqs[i - Len(inbox)]
  BY <1>1, <1>2, ConcatProperties
<1>5. ASSUME NEW n \in DOMAIN reqs
      PROVE  Len(inbox) + n \in DOMAIN inbox' /\ inbox'[Len(inbox) + n] = reqs[n]
  BY <1>1, <1>2, <1>3, <1>4
<1>6. ASSUME NEW i \in DOMAIN inbox'
      PROVE  i \in DOMAIN inbox \/ \E n \in DOMAIN reqs : i = Len(inbox) + n
  <2>1. CASE i <= Len(inbox)
    BY <1>1, <1>3, <2>1
  <2>2. CASE i > Len(inbox)
    <3>1. i - Len(inbox) \in DOMAIN reqs /\ i = Len(inbox) + (i - Len(inbox))
      BY <1>1, <1>2, <1>3, <2>2
    <3> QED  BY <3>1
  <2> QED  BY <1>1, <1>3, <2>1, <2>2
<1> QED  BY <1>1, <1>3, <1>4, <1>5, <1>6

\* A segment that has been written to the outbox.
LEMMA OutboxSaid ==
  ASSUME TypeInv, NEW m \in Messages, outbox' = Append(outbox, m)
  PROVE  /\ outbox' \in Seq(Messages)
         /\ DOMAIN outbox' = DOMAIN outbox \cup {Len(outbox) + 1} /\ Len(outbox) \in Nat
         /\ outbox'[Len(outbox) + 1] = m
         /\ \A i \in DOMAIN outbox : i \in Nat /\ i <= Len(outbox) /\ outbox'[i] = outbox[i]
  BY DEF TypeInv

\* The frame that hpm-asr reads, and the segment it joins or opens.
Frame == Head(inbox)
Grown == Extend(vad[Frame.source], Frame)

\* An open segment has a chunk; a frame of another one is not read before the flush
\* at the rotation (RotationKeepsSpeech).
LEMMA NoChunkChanges ==
  ASSUME TypeInv, InsideInv, RotationInv, NextRequest("audio")
  PROVE  /\ Frame \in AudioRequests /\ Frame = inbox[1] /\ 1 \in Audio(Frame.source)
         /\ Frame.source \in Sources
         /\ ~ChunkChanges(vad[Frame.source], Frame)
<1>1. inbox # <<>> /\ worker = "up" /\ Frame.type = "audio"
  BY DEF NextRequest, Frame
<1>2. inbox \in Seq(Requests)
  BY DEF TypeInv
<1>3. Frame = inbox[1] /\ Frame \in Requests /\ 1 \in DOMAIN inbox
  BY <1>1, <1>2 DEF Frame
<1>4. Frame \in AudioRequests /\ Frame.source \in Sources
  BY <1>1, <1>3, RequestKinds DEF AudioRequests
<1> DEFINE s == Frame.source
<1>5. 1 \in Audio(s)
  BY <1>1, <1>3 DEF Audio
<1>6. ASSUME ~Open(s)  PROVE ~ChunkChanges(vad[s], Frame)
  <2>1. vad[s] = IdleVad
    BY <1>4, <1>6 DEF InsideInv
  <2> QED  BY <2>1 DEF IdleVad, ChunkChanges
<1>7. ASSUME Open(s)  PROVE ~ChunkChanges(vad[s], Frame)
  <2>1. \A k \in Flushes(s) : ~(k < 1)
    BY <1>2 DEF Flushes
  <2>2. vad[s].chunk = Frame.chunk
    BY <1>1, <1>3, <1>4, <1>5, <1>7, <2>1 DEF RotationInv
  <2> QED  BY <2>2 DEF ChunkChanges
<1> QED  BY <1>3, <1>4, <1>5, <1>6, <1>7

\* What hpm-asr does with a frame: nothing, or its segment stays open, is dropped
\* or said.
LEMMA HandleAudioShape ==
  ASSUME TypeInv, InsideInv, RotationInv, HandleAudio
  PROVE  \/ vad' = vad /\ outbox' = outbox
         \/ /\ Grown \in Vads /\ Grown.len > 0 /\ Grown.end = Frame.at + FrameUnits
            /\ IF Open(Frame.source)
               THEN /\ Grown.chunk = vad[Frame.source].chunk /\ Grown.chunk = Frame.chunk
                    /\ Grown.start = vad[Frame.source].start
               ELSE Grown.chunk = Frame.chunk /\ Grown.start = Frame.at
            /\ \/ vad' = [vad EXCEPT ![Frame.source] = Grown] /\ outbox' = outbox
               \/ /\ vad' = [vad EXCEPT ![Frame.source] = IdleVad]
                  /\ \/ outbox' = outbox
                     \/ outbox' = Append(outbox, FinalMessage(Segment(Grown)))
<1> DEFINE s == Frame.source
           v == vad[s]
           pushed == Push(v, Frame)
<1>1. Frame \in AudioRequests /\ s \in Sources /\ ~ChunkChanges(v, Frame)
  BY NoChunkChanges DEF HandleAudio
<1>2. v \in Vads /\ (v.len = 0 => v = IdleVad) /\ (v.len > 0 <=> Open(s)) /\ v.len \in Nat
  BY <1>1 DEF TypeInv, InsideInv, Open, Vads
<1>3. \A x : outbox \o <<x>> = Append(outbox, x) /\ outbox \o <<>> = outbox
  BY DEF TypeInv
<1>4. CASE model # "ready"
  BY <1>4 DEF HandleAudio
<1>5. CASE model = "ready"
  <2>1. PICK text \in Transcribe(pushed.out) :
          vad' = [vad EXCEPT ![s] = pushed.vad] /\ outbox' = outbox \o text
    BY <1>5 DEF HandleAudio, Frame
  <2> HIDE DEF pushed
  <2>2. CASE pushed = [vad |-> v, out |-> <<>>]
    <3>1. vad' = vad
      BY <1>1, <2>1, <2>2 DEF TypeInv
    <3>2. text = <<>>
      BY <2>2, TranscribeNone
    <3> QED  BY <1>3, <2>1, <3>1, <3>2
  <2>3. CASE /\ ~(v.len = 0 /\ ~Frame.speech)
             /\ pushed \in {[vad |-> Grown, out |-> <<>>], [vad |-> IdleVad, out |-> <<>>],
                            [vad |-> IdleVad, out |-> <<Segment(Grown)>>]}
    <3>1. /\ Grown \in Vads /\ Grown.len > 0 /\ Grown.end = Frame.at + FrameUnits
          /\ v.len = 0 => Grown.chunk = Frame.chunk /\ Grown.start = Frame.at
          /\ v.len > 0 => Grown.chunk = v.chunk /\ Grown.start = v.start
      BY <1>1, <1>2, <2>3, ExtendShape DEF Grown
    <3>2. v.len > 0 => v.chunk = Frame.chunk
      BY <1>1, <1>2 DEF ChunkChanges, InsideInv
    <3>3. IF Open(s) THEN Grown.chunk = v.chunk /\ Grown.chunk = Frame.chunk /\ Grown.start = v.start
                     ELSE Grown.chunk = Frame.chunk /\ Grown.start = Frame.at
      BY <1>2, <3>1, <3>2
    <3>4. \/ vad' = [vad EXCEPT ![s] = Grown] /\ outbox' = outbox
          \/ /\ vad' = [vad EXCEPT ![s] = IdleVad]
             /\ outbox' = outbox \/ outbox' = Append(outbox, FinalMessage(Segment(Grown)))
      <4>1. CASE pushed = [vad |-> Grown, out |-> <<>>]
        <5>1. text = <<>>
          BY <4>1, TranscribeNone
        <5> QED  BY <1>3, <2>1, <4>1, <5>1
      <4>2. CASE pushed = [vad |-> IdleVad, out |-> <<>>]
        <5>1. text = <<>>
          BY <4>2, TranscribeNone
        <5> QED  BY <1>3, <2>1, <4>2, <5>1
      <4>3. CASE pushed = [vad |-> IdleVad, out |-> <<Segment(Grown)>>]
        <5>1. text = <<>> \/ text = <<FinalMessage(Segment(Grown))>>
          BY <4>3, TranscribeOne
        <5> QED  BY <1>3, <2>1, <4>3, <5>1
      <4> QED  BY <2>3, <4>1, <4>2, <4>3
    <3> QED  BY <3>1, <3>3, <3>4
  <2> QED  BY <1>1, <1>2, <2>2, <2>3, PushShape DEF Grown, pushed
<1> QED  BY <1>4, <1>5

\* A flush takes the open segment of a source.
LEMMA FlushShape ==
  ASSUME TypeInv, NEW s \in Sources, FlushSource(s)
  PROVE  /\ Open(s)
         /\ vad' = [vad EXCEPT ![s] = IdleVad]
         /\ outbox' = outbox \/ outbox' = Append(outbox, FinalMessage(Segment(vad[s])))
<1>1. Open(s) /\ vad[s].len # 0
  BY DEF FlushSource, Pending, Open, TypeInv, Vads
<1>2. Flush(vad[s]) = [vad |-> IdleVad, out |-> <<Segment(vad[s])>>]
  BY <1>1 DEF Flush, Take
<1>3. \A x : outbox \o <<x>> = Append(outbox, x) /\ outbox \o <<>> = outbox
  BY DEF TypeInv
<1>4. /\ vad' = [vad EXCEPT ![s] = Flush(vad[s]).vad]
      /\ \E text \in Transcribe(Flush(vad[s]).out) : outbox' = outbox \o text
  BY Zenon DEF FlushSource
<1>5. Flush(vad[s]).vad = IdleVad /\ Flush(vad[s]).out = <<Segment(vad[s])>>
  BY <1>2
<1>6. vad' = [vad EXCEPT ![s] = IdleVad]
      /\ \E text \in Transcribe(<<Segment(vad[s])>>) : outbox' = outbox \o text
  BY <1>4, <1>5, Zenon
<1> QED  BY <1>1, <1>3, <1>6, TranscribeOne

-----------------------------------------------------------------------------
(* What is said, in order: the steps of hpm-asr. *)

SayInv == InsideInv /\ OrderInv /\ RotationInv /\ SkipInv /\ MutedInv

\* The daemon's side of what is said.
daemonVars == <<samples, asrPending, current, segments, muted, suppressedSources>>

\* A segment g of s that is open or about to be said: after all that is stored or
\* said, before the frames behind the first `read` ones, and beside what is muted.
Fits(s, g, read) ==
  /\ g.chunk \in Chunks /\ g.chunk[1] = s /\ Inside(g)
  /\ g.end <= Heard(s)
  /\ \A i \in Spoken(s) : outbox[i].segment.end <= g.start
  /\ \A i \in Stored(s) : segments[i].end <= g.start
  /\ \A i \in Audio(s) : i > read => g.end <= inbox[i].at
  /\ \A t \in muted[s] : g.end <= t \/ t < g.start

\* The open segment fits, ...
LEMMA OpenFits ==
  ASSUME TypeInv, SayInv, worker = "up", NEW s \in Sources, Open(s)
  PROVE  Fits(s, vad[s], 0)
<1>1. vad[s].chunk \in Chunks /\ vad[s].chunk[1] = s /\ Inside(vad[s])
  BY DEF TypeInv, SayInv, InsideInv, Vads
<1>2. /\ vad[s].end <= Heard(s)
      /\ \A i \in Spoken(s) : outbox[i].segment.end <= vad[s].start
      /\ \A i \in Stored(s) : segments[i].end <= vad[s].start
      /\ \A i \in Audio(s) : vad[s].end <= inbox[i].at
  BY DEF SayInv, OrderInv
<1>3. \A t \in muted[s] : vad[s].end <= t \/ t < vad[s].start
  BY DEF SayInv, MutedInv
<1> QED  BY <1>1, <1>2, <1>3 DEF Fits

\* ... and so does the one that the next frame extends.
LEMMA GrownFits ==
  ASSUME TypeInv, SayInv, worker = "up", NEW s \in Sources, Frame \in AudioRequests,
         Frame = inbox[1], 1 \in Audio(s),
         Grown \in Vads, Grown.end = Frame.at + FrameUnits,
         IF Open(s) THEN /\ Grown.chunk = vad[s].chunk /\ Grown.chunk = Frame.chunk
                         /\ Grown.start = vad[s].start
                    ELSE Grown.chunk = Frame.chunk /\ Grown.start = Frame.at
  PROVE  Fits(s, Grown, 1)
<1>1. /\ Frame.chunk \in Chunks /\ Frame.chunk[1] = s /\ Frame.at \in Nat
      /\ ChunkStart(Frame.chunk) <= Frame.at
      /\ Frame.at + FrameUnits <= ChunkStart(Frame.chunk) + ChunkUnits
  BY DEF SayInv, InsideInv, AudioRequests
<1>2. ChunkStart(Frame.chunk) \in Nat
  BY <1>1, PipelineAssumption DEF Chunks, ChunkStart
<1>3. Open(s) => /\ vad[s].start \in Nat /\ vad[s].end \in Nat
                 /\ ChunkStart(Frame.chunk) <= vad[s].start
                 /\ vad[s].start < vad[s].end /\ vad[s].end <= Frame.at
  <2> SUFFICES ASSUME Open(s)
               PROVE /\ vad[s].start \in Nat /\ vad[s].end \in Nat
                     /\ ChunkStart(Frame.chunk) <= vad[s].start
                     /\ vad[s].start < vad[s].end /\ vad[s].end <= Frame.at
    OBVIOUS
  <2>1. Inside(vad[s]) /\ vad[s].end <= Frame.at
    BY DEF SayInv, InsideInv, OrderInv
  <2>2. vad[s] \in Vads
    BY DEF TypeInv
  <2>3. vad[s].chunk = Frame.chunk
    OBVIOUS
  <2> QED  BY <2>1, <2>2, <2>3 DEF Inside, Vads
<1>4. Grown.chunk \in Chunks /\ Grown.chunk[1] = s /\ Inside(Grown) /\ Grown.start \in Nat
  BY <1>1, <1>2, <1>3, PipelineAssumption, VadAssumption DEF Inside
<1>5. Grown.end <= Heard(s)
  BY DEF SayInv, OrderInv
<1>6. \A i \in Spoken(s) : outbox[i].segment.end <= Grown.start
  BY DEF SayInv, OrderInv
<1>7. \A i \in Stored(s) : segments[i].end <= Grown.start
  BY DEF SayInv, OrderInv
<1>8. \A i \in Audio(s) : i > 1 => Grown.end <= inbox[i].at
  BY DEF SayInv, OrderInv
<1>9. ASSUME NEW t \in muted[s]  PROVE Grown.end <= t \/ t < Grown.start
  <2>1. t \in Nat
    BY DEF TypeInv, TypeOK
  <2>2. t + FrameUnits <= Frame.at \/ Frame.at + FrameUnits <= t
    BY DEF SayInv, MutedInv
  <2>3. CASE ~Open(s)
    BY <1>1, <2>1, <2>2, <2>3, VadAssumption
  <2>4. CASE Open(s)
    <3>1. vad[s].end <= t \/ t < vad[s].start
      BY <2>4 DEF SayInv, MutedInv
    <3>2. CASE t < vad[s].start
      BY <2>4, <3>2
    <3>3. CASE vad[s].end <= t /\ t + FrameUnits <= Frame.at
      <4>1. vad[s].start <= t /\ t < Frame.at
        BY <1>1, <1>3, <2>1, <2>4, <3>3, VadAssumption
      <4>2. \E k \in Flushes(s) : k < 1
        BY <2>4, <4>1 DEF SayInv, MutedInv
      <4> QED  BY <4>2 DEF Flushes, TypeInv
    <3>4. CASE Frame.at + FrameUnits <= t
      BY <3>4
    <3> QED  BY <2>2, <3>1, <3>2, <3>3, <3>4
  <2> QED  BY <2>3, <2>4
<1> QED  BY <1>4, <1>5, <1>6, <1>7, <1>8, <1>9 DEF Fits

\* The inbox without its first `read` requests, which are not flushes.
Shifted(read) ==
  \A d \in Sources :
    /\ \A i \in Audio(d)' : i \in Nat /\ i >= 1 /\ i + read \in Audio(d)
                            /\ inbox'[i] = inbox[i + read]
    /\ \A k \in Flushes(d) : k \in Nat /\ k > read /\ k - read \in Flushes(d)'

\* The outbox as it was, or with a message of the segment g of s behind it.
Said(s, g) ==
  \A d \in Sources : \A i \in Spoken(d)' :
    \/ i \in Spoken(d) /\ outbox'[i] = outbox[i]
    \/ d = s /\ outbox'[i].segment = Segment(g) /\ \A j \in Spoken(d)' : ~(i < j)

\* A segment g of s, in which the frame that was read takes part if there was one,
\* is open afterwards, or it is said or dropped.
Cut(s, g, v, read) ==
  /\ vad' = [vad EXCEPT ![s] = v]
  /\ \/ /\ v = g /\ g.len > 0 /\ read = 1 /\ 1 \in Audio(s)
        /\ g.chunk = inbox[1].chunk /\ inbox[1].at <= g.end
        /\ \A d \in Sources : \A i \in Spoken(d)' : i \in Spoken(d) /\ outbox'[i] = outbox[i]
     \/ v = IdleVad /\ Said(s, g)

\* A segment that the worker cuts from the frames it reads lies in their chunk.
LEMMA CutKeepsInside ==
  ASSUME TypeInv, SayInv, NEW s \in Sources, NEW g \in Vads, NEW v, NEW read \in {0, 1},
         Fits(s, g, read), Shifted(read), Cut(s, g, v, read), UNCHANGED daemonVars
  PROVE  InsideInv'
<1>1. ASSUME NEW d \in Sources, NEW i \in Audio(d)'
      PROVE  LET f == inbox'[i]
             IN  /\ f.chunk[1] = d /\ ChunkStart(f.chunk) <= f.at
                 /\ f.at + FrameUnits <= ChunkStart(f.chunk) + ChunkUnits
  BY <1>1 DEF Shifted, SayInv, InsideInv
<1>2. ASSUME NEW d \in Sources
      PROVE  IF Open(d)' THEN vad'[d].chunk[1] = d /\ vad'[d].chunk # NoChunk /\ Inside(vad'[d])
                         ELSE vad'[d] = IdleVad
  <2>1. CASE d # s
    <3>1. vad'[d] = vad[d] /\ (Open(d)' <=> Open(d))
      BY <2>1 DEF Cut, Open, TypeInv
    <3> QED  BY <3>1 DEF SayInv, InsideInv
  <2>2. CASE d = s
    <3>1. vad'[d] = v
      BY <2>2 DEF Cut, TypeInv
    <3>2. g.chunk # NoChunk
      BY PipelineAssumption DEF Fits, Chunks
    <3> QED  BY <2>2, <3>1, <3>2 DEF Cut, Fits, Open, IdleVad
  <2> QED  BY <2>1, <2>2
<1>3. ASSUME NEW d \in Sources, NEW i \in Spoken(d)'
      PROVE  Inside(outbox'[i].segment)
  <2>1. CASE i \in Spoken(d) /\ outbox'[i] = outbox[i]
    BY <2>1 DEF SayInv, InsideInv
  <2>2. CASE d = s /\ outbox'[i].segment = Segment(g)
    BY <2>2 DEF Fits, Inside, Segment
  <2> QED  BY <1>3, <2>1, <2>2 DEF Cut, Said
<1>4. \A i \in DOMAIN segments' : Inside(segments'[i])
  BY DEF SayInv, InsideInv, daemonVars
<1> QED  BY <1>1, <1>2, <1>3, <1>4 DEF InsideInv

\* It keeps its place between what was said before and the frames that follow.
LEMMA CutKeepsOrder ==
  ASSUME TypeInv, SayInv, NEW s \in Sources, NEW g \in Vads, NEW v, NEW read \in {0, 1},
         Fits(s, g, read), Shifted(read), Cut(s, g, v, read), UNCHANGED daemonVars
  PROVE  OrderInv'
<1> SUFFICES ASSUME NEW d \in Sources
             PROVE
    /\ \A i \in Audio(d)' :
         /\ inbox'[i].at + FrameUnits <= Heard(d)'
         /\ \A j \in Audio(d)' : i < j => inbox'[i].at + FrameUnits <= inbox'[j].at
         /\ Open(d)' => vad'[d].end <= inbox'[i].at
    /\ Open(d)' => vad'[d].end <= Heard(d)'
    /\ \A i \in Spoken(d)' : LET h == outbox'[i].segment
         IN  /\ \A j \in Spoken(d)' : i < j => h.end <= outbox'[j].segment.start
             /\ Open(d)' => h.end <= vad'[d].start
             /\ \A j \in Audio(d)' : h.end <= inbox'[j].at
             /\ h.end <= Heard(d)'
    /\ \A i \in Stored(d)' : LET h == segments'[i]
         IN  /\ \A j \in Stored(d)' : i < j => h.end <= segments'[j].start
             /\ \A j \in Spoken(d)' : h.end <= outbox'[j].segment.start
             /\ Open(d)' => h.end <= vad'[d].start
             /\ \A j \in Audio(d)' : h.end <= inbox'[j].at
             /\ h.end <= Heard(d)'
  BY DEF OrderInv
<1>1. Heard(d)' = Heard(d) /\ Stored(d)' = Stored(d) /\ segments' = segments
  BY DEF daemonVars, Heard, Stored
<1>2. \A i \in Audio(d)' : i \in Nat /\ i >= 1 /\ i + read \in Audio(d) /\ inbox'[i] = inbox[i + read]
  BY DEF Shifted
<1>3. Audio(d) \subseteq Nat
  BY DEF Audio, TypeInv
<1>4. CASE d # s
  <2>1. vad'[d] = vad[d] /\ (Open(d)' <=> Open(d))
    BY <1>4 DEF Cut, Open, TypeInv
  <2>2. \A i \in Spoken(d)' : i \in Spoken(d) /\ outbox'[i] = outbox[i]
    BY <1>4 DEF Cut, Said
  <2> QED  BY <1>1, <1>2, <2>1, <2>2 DEF SayInv, OrderInv
<1>5. CASE d = s
  <2>1. vad'[d] = v /\ (Open(d)' => v = g)
    BY <1>5 DEF Cut, TypeInv, Open, IdleVad
  <2>2. /\ g.end <= Heard(d)
        /\ \A i \in Spoken(d) : outbox[i].segment.end <= g.start
        /\ \A i \in Stored(d) : segments[i].end <= g.start
        /\ \A i \in Audio(d)' : g.end <= inbox'[i].at
    BY <1>2, <1>5 DEF Fits
  <2>3. \A i \in Spoken(d)' :
          \/ i \in Spoken(d) /\ outbox'[i] = outbox[i]
          \/ /\ outbox'[i].segment = Segment(g) /\ \A j \in Spoken(d)' : ~(i < j)
             /\ ~Open(d)'
    BY <1>5 DEF Cut, Said, Open, IdleVad, TypeInv
  <2>4. Segment(g).start = g.start /\ Segment(g).end = g.end
    BY DEF Segment
  <2>5. \A i \in Audio(d)' :
          /\ inbox'[i].at + FrameUnits <= Heard(d)'
          /\ \A j \in Audio(d)' : i < j => inbox'[i].at + FrameUnits <= inbox'[j].at
          /\ Open(d)' => vad'[d].end <= inbox'[i].at
    BY <1>1, <1>2, <2>1, <2>2 DEF SayInv, OrderInv
  <2>6. ASSUME NEW i \in Spoken(d)'
        PROVE  LET h == outbox'[i].segment
         IN  /\ \A j \in Spoken(d)' : i < j => h.end <= outbox'[j].segment.start
             /\ Open(d)' => h.end <= vad'[d].start
             /\ \A j \in Audio(d)' : h.end <= inbox'[j].at
             /\ h.end <= Heard(d)'
    <3>1. CASE i \in Spoken(d) /\ outbox'[i] = outbox[i]
      BY <1>1, <1>2, <2>1, <2>2, <2>3, <2>4, <3>1 DEF SayInv, OrderInv
    <3>2. CASE /\ outbox'[i].segment = Segment(g) /\ \A j \in Spoken(d)' : ~(i < j)
               /\ ~Open(d)'
      BY <1>1, <2>2, <2>4, <3>2
    <3> QED  BY <2>3, <3>1, <3>2
  <2>7. ASSUME NEW i \in Stored(d)'
        PROVE  LET h == segments'[i]
         IN  /\ \A j \in Stored(d)' : i < j => h.end <= segments'[j].start
             /\ \A j \in Spoken(d)' : h.end <= outbox'[j].segment.start
             /\ Open(d)' => h.end <= vad'[d].start
             /\ \A j \in Audio(d)' : h.end <= inbox'[j].at
             /\ h.end <= Heard(d)'
    BY <1>1, <1>2, <2>1, <2>2, <2>3, <2>4 DEF SayInv, OrderInv
  <2> QED  BY <1>1, <2>1, <2>2, <2>5, <2>6, <2>7
<1> QED  BY <1>4, <1>5

\* A flush still stands between the frames and segments that a rotation separates.
LEMMA CutKeepsRotation ==
  ASSUME TypeInv, SayInv, worker = "up", NEW s \in Sources, NEW g \in Vads, NEW v,
         NEW read \in {0, 1},
         Fits(s, g, read), Shifted(read), Cut(s, g, v, read), UNCHANGED daemonVars
  PROVE  RotationInv'
<1> SUFFICES ASSUME NEW d \in Sources
             PROVE
      /\ \A i \in Audio(d)' :
           /\ \A j \in Audio(d)' :
                i < j /\ inbox'[i].chunk # inbox'[j].chunk
                  => \E k \in Flushes(d)' : i < k /\ k < j
           /\ Open(d)' /\ vad'[d].chunk # inbox'[i].chunk => \E k \in Flushes(d)' : k < i
           /\ inbox'[i].chunk # Chunk(d, Num(d)') => \E k \in Flushes(d)' : i < k
      /\ Open(d)' /\ vad'[d].chunk # Chunk(d, Num(d)') => Flushes(d)' # {}
  BY DEF RotationInv, Chunk
<1>1. Num(d)' = Num(d)
  BY DEF daemonVars, Num
<1>2. \A i \in Audio(d)' : i \in Nat /\ i >= 1 /\ i + read \in Audio(d) /\ inbox'[i] = inbox[i + read]
  BY DEF Shifted
<1>3. \A k \in Flushes(d) : k \in Nat /\ k > read /\ k - read \in Flushes(d)'
  BY DEF Shifted
<1>4. \/ vad'[d] = vad[d] /\ (Open(d)' <=> Open(d))
      \/ ~Open(d)'
      \/ /\ vad'[d].chunk = inbox[1].chunk /\ read = 1 /\ 1 \in Audio(d)
  <2>1. CASE d # s
    BY <2>1 DEF Cut, Open, TypeInv
  <2>2. CASE d = s
    <3>1. vad'[d] = v
      BY <2>2 DEF Cut, TypeInv
    <3> QED  BY <2>2, <3>1 DEF Cut, Open, IdleVad
  <2> QED  BY <2>1, <2>2
<1>5. ASSUME NEW i \in Audio(d)', NEW j \in Audio(d)', i < j, inbox'[i].chunk # inbox'[j].chunk
      PROVE  \E k \in Flushes(d)' : i < k /\ k < j
  <2>1. PICK k \in Flushes(d) : i + read < k /\ k < j + read
    BY <1>2, <1>5 DEF SayInv, RotationInv
  <2> QED  BY <1>2, <1>3, <2>1
<1>6. ASSUME NEW i \in Audio(d)', Open(d)', vad'[d].chunk # inbox'[i].chunk
      PROVE  \E k \in Flushes(d)' : k < i
  <2>1. PICK k \in Flushes(d) : k < i + read
    BY <1>2, <1>4, <1>6 DEF SayInv, RotationInv
  <2> QED  BY <1>2, <1>3, <2>1
<1>7. ASSUME NEW i \in Audio(d)', inbox'[i].chunk # Chunk(d, Num(d)')
      PROVE  \E k \in Flushes(d)' : i < k
  <2>1. PICK k \in Flushes(d) : i + read < k
    BY <1>1, <1>2, <1>7 DEF SayInv, RotationInv
  <2> QED  BY <1>2, <1>3, <2>1
<1>8. ASSUME Open(d)', vad'[d].chunk # Chunk(d, Num(d)')
      PROVE  Flushes(d)' # {}
  <2>1. PICK k \in Flushes(d) : TRUE
    BY <1>1, <1>4, <1>8 DEF SayInv, RotationInv
  <2> QED  BY <1>3, <2>1
<1> QED  BY <1>5, <1>6, <1>7, <1>8

\* No segment runs into what a replay has suppressed.
LEMMA CutKeepsMuted ==
  ASSUME TypeInv, SayInv, worker = "up", NEW s \in Sources, NEW g \in Vads, NEW v,
         NEW read \in {0, 1},
         Fits(s, g, read), Shifted(read), Cut(s, g, v, read), UNCHANGED daemonVars
  PROVE  SkipInv' /\ MutedInv'
<1>1. muted' = muted /\ suppressedSources' = suppressedSources /\ segments' = segments
      /\ \A d \in Sources : Heard(d)' = Heard(d) /\ Stored(d)' = Stored(d)
  BY DEF daemonVars, Heard, Stored
<1>2. ASSUME NEW d \in Sources
      PROVE  /\ \A i \in Audio(d)' : i \in Nat /\ i >= 1 /\ i + read \in Audio(d)
                                     /\ inbox'[i] = inbox[i + read]
             /\ \A k \in Flushes(d) : k \in Nat /\ k > read /\ k - read \in Flushes(d)'
  BY DEF Shifted
<1>3. ASSUME NEW d \in Sources
      PROVE  \/ vad'[d] = vad[d] /\ (Open(d)' <=> Open(d))
             \/ ~Open(d)'
             \/ /\ d = s /\ vad'[d] = g /\ read = 1 /\ 1 \in Audio(d) /\ inbox[1].at <= g.end
  <2>1. CASE d # s
    BY <2>1 DEF Cut, Open, TypeInv
  <2>2. CASE d = s
    <3>1. vad'[d] = v
      BY <2>2 DEF Cut, TypeInv
    <3> QED  BY <2>2, <3>1 DEF Cut, Open, IdleVad
  <2> QED  BY <2>1, <2>2
<1>4. SkipInv'
  <2> SUFFICES ASSUME NEW d \in Sources, NEW t \in muted[d]
               PROVE
        /\ t + FrameUnits <= Heard(d)
        /\ \A i \in Spoken(d)' : LET h == outbox'[i].segment IN h.end <= t \/ t < h.start
        /\ \A i \in Stored(d) : segments[i].end <= t \/ t < segments[i].start
    BY <1>1 DEF SkipInv
  <2>1. ASSUME NEW i \in Spoken(d)'
        PROVE  outbox'[i].segment.end <= t \/ t < outbox'[i].segment.start
    <3>1. CASE i \in Spoken(d) /\ outbox'[i] = outbox[i]
      BY <3>1 DEF SayInv, SkipInv
    <3>2. CASE d = s /\ outbox'[i].segment = Segment(g)
      BY <3>2 DEF Fits, Segment
    <3> QED  BY <3>1, <3>2 DEF Cut, Said
  <2> QED  BY <2>1 DEF SayInv, SkipInv
<1>5. ASSUME NEW d \in Sources, NEW t \in muted[d]
      PROVE
           /\ \A i \in Audio(d)' :
                /\ t + FrameUnits <= inbox'[i].at \/ inbox'[i].at + FrameUnits <= t
                /\ inbox'[i].at <= t =>
                     \E k \in Flushes(d)' : i < k /\ \A j \in Audio(d)' : t < inbox'[j].at => k < j
           /\ Open(d)' => vad'[d].end <= t \/ t < vad'[d].start
           /\ Open(d)' /\ vad'[d].start <= t =>
                \E k \in Flushes(d)' : \A j \in Audio(d)' : t < inbox'[j].at => k < j
  <2>1. ASSUME NEW i \in Audio(d)'
        PROVE  t + FrameUnits <= inbox'[i].at \/ inbox'[i].at + FrameUnits <= t
    BY <1>2 DEF SayInv, MutedInv
  <2>2. ASSUME NEW i \in Audio(d)', inbox'[i].at <= t
        PROVE  \E k \in Flushes(d)' : i < k /\ \A j \in Audio(d)' : t < inbox'[j].at => k < j
    <3>1. PICK k \in Flushes(d) : i + read < k /\ \A j \in Audio(d) : t < inbox[j].at => k < j
      BY <1>2, <2>2 DEF SayInv, MutedInv
    <3> QED  BY <1>2, <3>1
  <2>3. Open(d)' => vad'[d].end <= t \/ t < vad'[d].start
    BY <1>3 DEF SayInv, MutedInv, Fits
  <2>4. ASSUME Open(d)', vad'[d].start <= t
        PROVE  \E k \in Flushes(d)' : \A j \in Audio(d)' : t < inbox'[j].at => k < j
    <3>1. t \in Nat /\ g.start \in Nat /\ g.end \in Nat
      BY DEF TypeInv, TypeOK, Vads
    <3>2. \E k \in Flushes(d) : \A j \in Audio(d) : t < inbox[j].at => k < j
      <4>1. CASE vad'[d] = vad[d] /\ (Open(d)' <=> Open(d))
        BY <2>4, <4>1 DEF SayInv, MutedInv
      <4>2. CASE d = s /\ vad'[d] = g /\ read = 1 /\ 1 \in Audio(d) /\ inbox[1].at <= g.end
        <5>1. g.end <= t
          BY <2>4, <3>1, <4>2 DEF Fits
        <5>2. inbox[1] \in AudioRequests
          BY <4>2, RequestKinds DEF Audio, TypeInv
        <5>3. inbox[1].at <= t
          BY <3>1, <4>2, <5>1, <5>2 DEF AudioRequests
        <5> QED  BY <4>2, <5>3 DEF SayInv, MutedInv
      <4> QED  BY <1>3, <2>4, <4>1, <4>2
    <3>3. PICK k \in Flushes(d) : \A j \in Audio(d) : t < inbox[j].at => k < j
      BY <3>2
    <3> QED  BY <1>2, <3>3
  <2> QED  BY <2>1, <2>2, <2>3, <2>4
<1>6. ASSUME NEW d \in Sources, d \in suppressedSources
      PROVE  /\ \A i \in Audio(d)' : \E k \in Flushes(d)' : i < k
             /\ Open(d)' => Flushes(d)' # {}
  <2>1. ASSUME NEW i \in Audio(d)'
        PROVE  \E k \in Flushes(d)' : i < k
    <3>1. PICK k \in Flushes(d) : i + read < k
      BY <1>2, <1>6 DEF SayInv, MutedInv
    <3> QED  BY <1>2, <3>1
  <2>2. ASSUME Open(d)'  PROVE \E k \in Flushes(d)' : TRUE
    <3>1. PICK k \in Flushes(d) : TRUE
      BY <1>3, <1>6, <2>2 DEF SayInv, MutedInv
    <3> QED  BY <1>2, <3>1
  <2> QED  BY <2>1, <2>2
<1> QED  BY <1>1, <1>4, <1>5, <1>6 DEF MutedInv

\* The first `read` requests are gone, a flush only when there was nothing left to say.
Passed(read) ==
  \A d \in Sources :
    /\ \A i \in Audio(d)' : i \in Nat /\ i + read \in Audio(d) /\ inbox'[i] = inbox[i + read]
    /\ \A k \in Flushes(d) : /\ k \in Nat
                             /\ k > read => k - read \in Flushes(d)'
                             /\ k <= read => ~Open(d)

\* A request that changes no segment has been read: a frame that is left out, or a
\* flush or shutdown when there is nothing left to say.
LEMMA ReadKeepsSay ==
  ASSUME TypeInv, SayInv, worker = "up", vad' = vad, NEW read \in Nat, Passed(read),
         \A d \in Sources : \A i \in Spoken(d)' : i \in Spoken(d) /\ outbox'[i] = outbox[i],
         UNCHANGED daemonVars
  PROVE  SayInv'
<1>1. muted' = muted /\ suppressedSources' = suppressedSources /\ segments' = segments
  BY DEF daemonVars
<1>2. ASSUME NEW d \in Sources
      PROVE  /\ \A i \in Audio(d)' : i \in Nat /\ i + read \in Audio(d) /\ inbox'[i] = inbox[i + read]
             /\ \A k \in Flushes(d) : /\ k \in Nat
                                      /\ k > read => k - read \in Flushes(d)'
                                      /\ k <= read => ~Open(d)
             /\ Heard(d)' = Heard(d) /\ Num(d)' = Num(d) /\ Stored(d)' = Stored(d)
             /\ Open(d)' <=> Open(d)
  BY DEF Passed, daemonVars, Heard, Num, Stored, Open
<1>3. InsideInv'
  <2>1. ASSUME NEW d \in Sources, NEW i \in Audio(d)'
        PROVE  LET f == inbox'[i]
               IN  /\ f.chunk[1] = d /\ ChunkStart(f.chunk) <= f.at
                   /\ f.at + FrameUnits <= ChunkStart(f.chunk) + ChunkUnits
    BY <1>2, <2>1 DEF SayInv, InsideInv
  <2> QED  BY <1>1, <1>2, <2>1 DEF SayInv, InsideInv
<1>4. OrderInv'
  <2> SUFFICES ASSUME NEW d \in Sources
               PROVE
    /\ \A i \in Audio(d)' :
         /\ inbox'[i].at + FrameUnits <= Heard(d)'
         /\ \A j \in Audio(d)' : i < j => inbox'[i].at + FrameUnits <= inbox'[j].at
         /\ Open(d)' => vad'[d].end <= inbox'[i].at
    /\ Open(d)' => vad'[d].end <= Heard(d)'
    /\ \A i \in Spoken(d)' : LET h == outbox'[i].segment
         IN  /\ \A j \in Spoken(d)' : i < j => h.end <= outbox'[j].segment.start
             /\ Open(d)' => h.end <= vad'[d].start
             /\ \A j \in Audio(d)' : h.end <= inbox'[j].at
             /\ h.end <= Heard(d)'
    /\ \A i \in Stored(d)' : LET h == segments'[i]
         IN  /\ \A j \in Stored(d)' : i < j => h.end <= segments'[j].start
             /\ \A j \in Spoken(d)' : h.end <= outbox'[j].segment.start
             /\ Open(d)' => h.end <= vad'[d].start
             /\ \A j \in Audio(d)' : h.end <= inbox'[j].at
             /\ h.end <= Heard(d)'
    BY DEF OrderInv
  <2>0. /\ \A i \in Audio(d)' : i \in Nat /\ i + read \in Audio(d) /\ inbox'[i] = inbox[i + read]
        /\ Heard(d)' = Heard(d) /\ Stored(d)' = Stored(d) /\ (Open(d)' <=> Open(d))
    BY <1>2
  <2> QED  BY <1>1, <2>0 DEF SayInv, OrderInv
<1>5. ASSUME NEW d \in Sources
      PROVE
      /\ \A i \in Audio(d)' :
           /\ \A j \in Audio(d)' :
                i < j /\ inbox'[i].chunk # inbox'[j].chunk
                  => \E k \in Flushes(d)' : i < k /\ k < j
           /\ Open(d)' /\ vad'[d].chunk # inbox'[i].chunk => \E k \in Flushes(d)' : k < i
           /\ inbox'[i].chunk # Chunk(d, Num(d)') => \E k \in Flushes(d)' : i < k
      /\ Open(d)' /\ vad'[d].chunk # Chunk(d, Num(d)') => Flushes(d)' # {}
  <2>1. ASSUME NEW i \in Audio(d)', NEW j \in Audio(d)', i < j, inbox'[i].chunk # inbox'[j].chunk
        PROVE  \E k \in Flushes(d)' : i < k /\ k < j
    <3>1. PICK k \in Flushes(d) : i + read < k /\ k < j + read
      BY <1>2, <2>1 DEF SayInv, RotationInv
    <3> QED  BY <1>2, <3>1
  <2>2. ASSUME NEW i \in Audio(d)', Open(d)', vad'[d].chunk # inbox'[i].chunk
        PROVE  \E k \in Flushes(d)' : k < i
    <3>1. PICK k \in Flushes(d) : k < i + read
      BY <1>2, <2>2 DEF SayInv, RotationInv
    <3> QED  BY <1>2, <2>2, <3>1
  <2>3. ASSUME NEW i \in Audio(d)', inbox'[i].chunk # Chunk(d, Num(d)')
        PROVE  \E k \in Flushes(d)' : i < k
    <3>1. PICK k \in Flushes(d) : i + read < k
      BY <1>2, <2>3 DEF SayInv, RotationInv
    <3> QED  BY <1>2, <3>1
  <2>4. ASSUME Open(d)', vad'[d].chunk # Chunk(d, Num(d)')
        PROVE  Flushes(d)' # {}
    <3>1. PICK k \in Flushes(d) : TRUE
      BY <1>2, <2>4 DEF SayInv, RotationInv
    <3> QED  BY <1>2, <2>4, <3>1
  <2> QED  BY <2>1, <2>2, <2>3, <2>4
<1>6. SkipInv'
  <2> SUFFICES ASSUME NEW d \in Sources, NEW t \in muted[d]
               PROVE
        /\ t + FrameUnits <= Heard(d)'
        /\ \A i \in Spoken(d)' : LET h == outbox'[i].segment IN h.end <= t \/ t < h.start
        /\ \A i \in Stored(d)' : segments'[i].end <= t \/ t < segments'[i].start
    BY <1>1 DEF SkipInv
  <2> QED  BY <1>1, <1>2 DEF SayInv, SkipInv
<1>7. ASSUME NEW d \in Sources, NEW t \in muted[d]
      PROVE
           /\ \A i \in Audio(d)' :
                /\ t + FrameUnits <= inbox'[i].at \/ inbox'[i].at + FrameUnits <= t
                /\ inbox'[i].at <= t =>
                     \E k \in Flushes(d)' : i < k /\ \A j \in Audio(d)' : t < inbox'[j].at => k < j
           /\ Open(d)' => vad'[d].end <= t \/ t < vad'[d].start
           /\ Open(d)' /\ vad'[d].start <= t =>
                \E k \in Flushes(d)' : \A j \in Audio(d)' : t < inbox'[j].at => k < j
  <2>1. ASSUME NEW i \in Audio(d)'
        PROVE  t + FrameUnits <= inbox'[i].at \/ inbox'[i].at + FrameUnits <= t
    BY <1>2 DEF SayInv, MutedInv
  <2>2. ASSUME NEW i \in Audio(d)', inbox'[i].at <= t
        PROVE  \E k \in Flushes(d)' : i < k /\ \A j \in Audio(d)' : t < inbox'[j].at => k < j
    <3>1. PICK k \in Flushes(d) : i + read < k /\ \A j \in Audio(d) : t < inbox[j].at => k < j
      BY <1>2, <2>2 DEF SayInv, MutedInv
    <3> QED  BY <1>2, <3>1
  <2>3. Open(d)' => vad'[d].end <= t \/ t < vad'[d].start
    BY <1>2 DEF SayInv, MutedInv
  <2>4. ASSUME Open(d)', vad'[d].start <= t
        PROVE  \E k \in Flushes(d)' : \A j \in Audio(d)' : t < inbox'[j].at => k < j
    <3>1. PICK k \in Flushes(d) : \A j \in Audio(d) : t < inbox[j].at => k < j
      BY <1>2, <2>4 DEF SayInv, MutedInv
    <3> QED  BY <1>2, <2>4, <3>1
  <2> QED  BY <2>1, <2>2, <2>3, <2>4
<1>8. ASSUME NEW d \in Sources, d \in suppressedSources
      PROVE  /\ \A i \in Audio(d)' : \E k \in Flushes(d)' : i < k
             /\ Open(d)' => Flushes(d)' # {}
  <2>1. ASSUME NEW i \in Audio(d)'
        PROVE  \E k \in Flushes(d)' : i < k
    <3>1. PICK k \in Flushes(d) : i + read < k
      BY <1>2, <1>8 DEF SayInv, MutedInv
    <3> QED  BY <1>2, <3>1
  <2>2. ASSUME Open(d)'  PROVE \E k \in Flushes(d)' : TRUE
    <3>1. PICK k \in Flushes(d) : TRUE
      BY <1>2, <1>8, <2>2 DEF SayInv, MutedInv
    <3> QED  BY <1>2, <2>2, <3>1
  <2> QED  BY <2>1, <2>2
<1>9. RotationInv'
  BY <1>5 DEF RotationInv, Chunk
<1>10. MutedInv'
  BY <1>1, <1>7, <1>8 DEF MutedInv
<1> QED  BY <1>3, <1>4, <1>6, <1>9, <1>10 DEF SayInv

\* The message of a segment stands last in the outbox.
LEMMA SaidOnce ==
  ASSUME TypeInv, NEW s \in Sources, NEW g \in Vads, NEW read, Fits(s, g, read),
         outbox' = outbox \/ outbox' = Append(outbox, FinalMessage(Segment(g)))
  PROVE  Said(s, g)
<1> DEFINE m == FinalMessage(Segment(g))
<1>1. m \in Messages /\ m.type = "segment" /\ m.segment = Segment(g) /\ Segment(g).chunk[1] = s
  BY DEF FinalMessage, Segment, Messages, SegmentMessages, SegmentRecord, Fits, Vads
<1>2. CASE outbox' = outbox
  BY <1>2 DEF Said, Spoken
<1>3. CASE outbox' = Append(outbox, m)
  <2> HIDE DEF m
  <2>1. /\ DOMAIN outbox' = DOMAIN outbox \cup {Len(outbox) + 1} /\ Len(outbox) \in Nat
        /\ outbox'[Len(outbox) + 1] = m
        /\ \A i \in DOMAIN outbox : i \in Nat /\ i <= Len(outbox) /\ outbox'[i] = outbox[i]
    BY <1>1, <1>3, OutboxSaid
  <2> QED  BY <1>1, <2>1 DEF Said, Spoken
<1> QED  BY <1>2, <1>3

\* A frame is handled.
LEMMA AudioKeepsSay ==
  ASSUME TypeInv, SayInv, HandleAudio, UNCHANGED daemonVars
  PROVE  SayInv'
<1> DEFINE s == Frame.source
<1>1. /\ worker = "up" /\ inbox # <<>> /\ inbox' = Tail(inbox)
      /\ Frame \in AudioRequests /\ Frame = inbox[1] /\ 1 \in Audio(s) /\ s \in Sources
  BY NoChunkChanges DEF HandleAudio, RequestDone, NextRequest, SayInv
<1>2. \A d : 1 \notin Flushes(d)
  BY <1>1 DEF Audio, Flushes
<1>3. Shifted(1)
  BY <1>1, <1>2, InboxRead DEF Shifted, Flushes, Audio
<1>4. CASE vad' = vad /\ outbox' = outbox
  <2>2. Passed(1)
    BY <1>2, <1>3 DEF Shifted, Passed
  <2>1. \A d \in Sources : \A i \in Spoken(d)' : i \in Spoken(d) /\ outbox'[i] = outbox[i]
    BY <1>4 DEF Spoken
  <2> QED  BY <1>1, <1>4, <2>1, <2>2, ReadKeepsSay
<1>5. CASE /\ Grown \in Vads /\ Grown.len > 0 /\ Grown.end = Frame.at + FrameUnits
           /\ IF Open(s)
              THEN /\ Grown.chunk = vad[s].chunk /\ Grown.chunk = Frame.chunk
                   /\ Grown.start = vad[s].start
              ELSE Grown.chunk = Frame.chunk /\ Grown.start = Frame.at
           /\ \/ vad' = [vad EXCEPT ![s] = Grown] /\ outbox' = outbox
              \/ /\ vad' = [vad EXCEPT ![s] = IdleVad]
                 /\ \/ outbox' = outbox
                    \/ outbox' = Append(outbox, FinalMessage(Segment(Grown)))
  <2>1. Fits(s, Grown, 1)
    BY <1>1, <1>5, GrownFits
  <2>2. Frame.at <= Grown.end
    BY <1>1, <1>5, VadAssumption DEF AudioRequests
  <2>3. Grown.chunk = inbox[1].chunk
    BY <1>1, <1>5
  <2>4. outbox' = outbox =>
          \A d \in Sources : \A i \in Spoken(d)' : i \in Spoken(d) /\ outbox'[i] = outbox[i]
    BY DEF Spoken
  <2>5. \/ outbox' = outbox
        \/ outbox' = Append(outbox, FinalMessage(Segment(Grown)))
        => Said(s, Grown)
    BY <1>1, <1>5, <2>1, SaidOnce
  <2>6. PICK v : Cut(s, Grown, v, 1)
    BY <1>1, <1>5, <2>2, <2>3, <2>4, <2>5 DEF Cut
  <2> QED
    BY <1>1, <1>3, <1>5, <2>1, <2>6, CutKeepsInside, CutKeepsOrder, CutKeepsRotation,
       CutKeepsMuted DEF SayInv
<1> QED  BY <1>4, <1>5, HandleAudioShape DEF SayInv

\* A flush takes the open segment of a source.
LEMMA FlushKeepsSay ==
  ASSUME TypeInv, SayInv, NEW s \in Sources, FlushSource(s), UNCHANGED daemonVars
  PROVE  SayInv'
<1>1. worker = "up" /\ inbox' = inbox
  BY DEF FlushSource, AtFlush, NextRequest
<1>2. Shifted(0)
  BY <1>1 DEF Shifted, Audio, Flushes, TypeInv
<1>3. Fits(s, vad[s], 0) /\ vad[s] \in Vads
  BY <1>1, FlushShape, OpenFits DEF TypeInv
<1>4. Said(s, vad[s])
  BY <1>3, FlushShape, SaidOnce
<1>5. Cut(s, vad[s], IdleVad, 0)
  BY <1>4, FlushShape DEF Cut
<1> QED
  BY <1>1, <1>2, <1>3, <1>5, CutKeepsInside, CutKeepsOrder, CutKeepsRotation, CutKeepsMuted
     DEF SayInv

\* A flush is answered, or the shutdown is.
LEMMA AnswerKeepsSay ==
  ASSUME TypeInv, SayInv, AtFlush, Pending = {}, inbox' = Tail(inbox), vad' = vad,
         \/ outbox' = outbox
         \/ /\ Head(inbox).type = "flush"
            /\ outbox' = Append(outbox, FlushedMessage(Head(inbox).id)),
         UNCHANGED daemonVars
  PROVE  SayInv'
<1>1. /\ worker = "up" /\ inbox # <<>> /\ Head(inbox).type \in {"flush", "shutdown"}
      /\ Head(inbox) = inbox[1] /\ inbox[1] \in Requests
  BY InboxRead DEF AtFlush, NextRequest
<1>2. ASSUME NEW d \in Sources, 1 \in Flushes(d)
      PROVE  ~Open(d)
  <2>1. d \in Concerned(Head(inbox))
    BY <1>1, <1>2 DEF Concerned, Flushes
  <2> QED  BY <2>1 DEF Pending, Open
<1>3. ASSUME NEW d \in Sources
      PROVE  /\ \A i \in Audio(d)' : i \in Nat /\ i + 1 \in Audio(d) /\ inbox'[i] = inbox[i + 1]
             /\ \A k \in Flushes(d) : /\ k \in Nat
                                      /\ k > 1 => k - 1 \in Flushes(d)'
                                      /\ k <= 1 => ~Open(d)
  <2>1. \A k \in Flushes(d) : k \in Nat /\ k >= 1 /\ (k = 1 \/ k - 1 \in Flushes(d)')
    BY <1>1, InboxRead DEF Flushes
  <2>2. \A i \in Audio(d)' : i \in Nat /\ i + 1 \in Audio(d) /\ inbox'[i] = inbox[i + 1]
    BY <1>1, InboxRead DEF Audio
  <2>3. ASSUME NEW k \in Flushes(d)
        PROVE  k \in Nat /\ (k > 1 => k - 1 \in Flushes(d)') /\ (k <= 1 => ~Open(d))
    <3>1. k \in Nat /\ k >= 1 /\ (k = 1 \/ k - 1 \in Flushes(d)')
      BY <2>1
    <3>2. k = 1 => ~Open(d)
      BY <1>2
    <3>3. (k > 1 => k # 1) /\ (k <= 1 => k = 1)
      BY <3>1
    <3> QED  BY <3>1, <3>2, <3>3, Zenon
  <2> QED  BY <2>2, <2>3
<1>4. Passed(1)
  BY <1>3 DEF Passed
<1>5. \A d \in Sources : \A i \in Spoken(d)' : i \in Spoken(d) /\ outbox'[i] = outbox[i]
  <2>1. CASE outbox' = outbox
    BY <2>1 DEF Spoken
  <2>2. CASE /\ Head(inbox).type = "flush"
             /\ outbox' = Append(outbox, FlushedMessage(Head(inbox).id))
    <3>1. Head(inbox).id \in FlushIds
      BY <1>1, <2>2, RequestKinds DEF FlushRequests
    <3>2. FlushedMessage(Head(inbox).id) \in Messages
          /\ FlushedMessage(Head(inbox).id).type = "flushed"
      BY <3>1 DEF FlushedMessage, Messages
    <3>3. /\ DOMAIN outbox' = DOMAIN outbox \cup {Len(outbox) + 1}
          /\ outbox'[Len(outbox) + 1].type = "flushed"
          /\ \A i \in DOMAIN outbox : outbox'[i] = outbox[i]
      BY <2>2, <3>2, OutboxSaid
    <3> QED  BY <3>3 DEF Spoken
  <2> QED  BY <2>1, <2>2
<1> QED  BY <1>1, <1>4, <1>5, ReadKeepsSay

\* The first n messages have been read, and what they said is lost or stored last.
Delivered(n) ==
  \A d \in Sources :
    /\ \A i \in Spoken(d)' : i \in Nat /\ i >= 1 /\ i + n \in Spoken(d)
                             /\ outbox'[i] = outbox[i + n]
    /\ \A i \in Stored(d)' :
         \/ i \in Stored(d) /\ segments'[i] = segments[i]
         \/ /\ \A j \in Stored(d)' : ~(i < j)
            /\ \E m \in Spoken(d) : m \in Nat /\ m <= n /\ segments'[i] = outbox[m].segment

\* What the daemon reads of the worker becomes part of the transcript.
LEMMA DeliveredKeepsSay ==
  ASSUME TypeInv, SayInv, NEW n \in Nat, Delivered(n),
         UNCHANGED <<inbox, vad, worker, samples, asrPending, current, muted, suppressedSources>>
  PROVE  OrderInv' /\ SkipInv' /\ RotationInv' /\ MutedInv'
<1>1. ASSUME NEW d \in Sources
      PROVE /\ Heard(d)' = Heard(d) /\ Num(d)' = Num(d) /\ Audio(d)' = Audio(d)
            /\ Flushes(d)' = Flushes(d) /\ (Open(d)' <=> Open(d))
            /\ \A i \in Spoken(d)' : i \in Nat /\ i >= 1 /\ i + n \in Spoken(d)
                                     /\ outbox'[i] = outbox[i + n]
            /\ \A i \in Stored(d)' :
                 \/ i \in Stored(d) /\ segments'[i] = segments[i]
                 \/ /\ \A j \in Stored(d)' : ~(i < j)
                    /\ \E m \in Spoken(d) : m \in Nat /\ m <= n /\ segments'[i] = outbox[m].segment
  BY DEF Heard, Num, Audio, Flushes, Open, Delivered
<1>2. OrderInv'
  <2> SUFFICES ASSUME NEW d \in Sources
               PROVE
    /\ \A i \in Audio(d)' :
         /\ inbox'[i].at + FrameUnits <= Heard(d)'
         /\ \A j \in Audio(d)' : i < j => inbox'[i].at + FrameUnits <= inbox'[j].at
         /\ Open(d)' => vad'[d].end <= inbox'[i].at
    /\ Open(d)' => vad'[d].end <= Heard(d)'
    /\ \A i \in Spoken(d)' : LET h == outbox'[i].segment
         IN  /\ \A j \in Spoken(d)' : i < j => h.end <= outbox'[j].segment.start
             /\ Open(d)' => h.end <= vad'[d].start
             /\ \A j \in Audio(d)' : h.end <= inbox'[j].at
             /\ h.end <= Heard(d)'
    /\ \A i \in Stored(d)' : LET h == segments'[i]
         IN  /\ \A j \in Stored(d)' : i < j => h.end <= segments'[j].start
             /\ \A j \in Spoken(d)' : h.end <= outbox'[j].segment.start
             /\ Open(d)' => h.end <= vad'[d].start
             /\ \A j \in Audio(d)' : h.end <= inbox'[j].at
             /\ h.end <= Heard(d)'
    BY DEF OrderInv
  <2>1. \A i \in Audio(d)' :
         /\ inbox'[i].at + FrameUnits <= Heard(d)'
         /\ \A j \in Audio(d)' : i < j => inbox'[i].at + FrameUnits <= inbox'[j].at
         /\ Open(d)' => vad'[d].end <= inbox'[i].at
    BY <1>1 DEF SayInv, OrderInv
  <2>2. Open(d)' => vad'[d].end <= Heard(d)'
    BY <1>1 DEF SayInv, OrderInv
  <2>3. ASSUME NEW i \in Spoken(d)'
        PROVE  LET h == outbox'[i].segment
         IN  /\ \A j \in Spoken(d)' : i < j => h.end <= outbox'[j].segment.start
             /\ Open(d)' => h.end <= vad'[d].start
             /\ \A j \in Audio(d)' : h.end <= inbox'[j].at
             /\ h.end <= Heard(d)'
    BY <1>1 DEF SayInv, OrderInv
  <2>4. ASSUME NEW i \in Stored(d)'
        PROVE  LET h == segments'[i]
         IN  /\ \A j \in Stored(d)' : i < j => h.end <= segments'[j].start
             /\ \A j \in Spoken(d)' : h.end <= outbox'[j].segment.start
             /\ Open(d)' => h.end <= vad'[d].start
             /\ \A j \in Audio(d)' : h.end <= inbox'[j].at
             /\ h.end <= Heard(d)'
    <3>1. CASE i \in Stored(d) /\ segments'[i] = segments[i]
      BY <1>1, <3>1 DEF SayInv, OrderInv
    <3>2. CASE /\ \A j \in Stored(d)' : ~(i < j)
               /\ \E m \in Spoken(d) : m \in Nat /\ m <= n /\ segments'[i] = outbox[m].segment
      <4>1. PICK m \in Spoken(d) : m \in Nat /\ m <= n /\ segments'[i] = outbox[m].segment
        BY <3>2
      <4>2. \A j \in Spoken(d)' : m < j + n
        BY <1>1, <4>1
      <4> QED  BY <1>1, <3>2, <4>1, <4>2 DEF SayInv, OrderInv
    <3> QED  BY <1>1, <3>1, <3>2
  <2> QED  BY <2>1, <2>2, <2>3, <2>4
<1>3. SkipInv'
  <2> SUFFICES ASSUME NEW d \in Sources, NEW t \in muted[d]
               PROVE
        /\ t + FrameUnits <= Heard(d)'
        /\ \A i \in Spoken(d)' : LET h == outbox'[i].segment IN h.end <= t \/ t < h.start
        /\ \A i \in Stored(d)' : segments'[i].end <= t \/ t < segments'[i].start
    BY DEF SkipInv
  <2> QED  BY <1>1 DEF SayInv, SkipInv
<1>4. RotationInv'
  BY DEF SayInv, RotationInv, Chunk, Audio, Flushes, Open, Num
<1>5. MutedInv'
  BY DEF SayInv, MutedInv, Audio, Flushes, Open
<1> QED  BY <1>2, <1>3, <1>4, <1>5

\* The next line on the worker's stdout is read.
LEMMA DeliverKeepsSay ==
  ASSUME TypeInv, SayInv, Deliver
  PROVE  SayInv'
<1>1. /\ outbox # <<>> /\ outbox' = Tail(outbox)
      /\ UNCHANGED <<inbox, vad, worker, samples, asrPending, current, muted, suppressedSources>>
  BY DEF Deliver, streamVars
<1>2. outbox \in Seq(Messages) /\ segments \in Seq(SegmentRecord)
  BY DEF TypeInv, TypeOK
<1>3. /\ Head(outbox) = outbox[1] /\ outbox[1] \in Messages /\ 1 \in DOMAIN outbox
      /\ \A i \in DOMAIN outbox' :
           i \in Nat /\ i >= 1 /\ i + 1 \in DOMAIN outbox /\ outbox'[i] = outbox[i + 1]
  BY <1>1, <1>2
<1>4. \/ segments' = segments
      \/ /\ outbox[1] \in SegmentMessages /\ outbox[1].type = "segment"
         /\ segments' = Append(segments, outbox[1].segment)
  BY <1>3, MessageKinds DEF Deliver, HandleSegment
<1>5. ASSUME NEW d \in Sources
      PROVE  \A i \in Spoken(d)' : i \in Nat /\ i >= 1 /\ i + 1 \in Spoken(d)
                                   /\ outbox'[i] = outbox[i + 1]
  BY <1>3 DEF Spoken
<1>6. CASE segments' = segments
  <2>1. Delivered(1)
    BY <1>5, <1>6 DEF Delivered, Stored
  <2>2. InsideInv'
    <3>1. ASSUME NEW d \in Sources, NEW i \in Spoken(d)'
          PROVE  Inside(outbox'[i].segment)
      BY <1>5, <3>1 DEF SayInv, InsideInv
    <3> QED  BY <1>1, <1>6, <3>1 DEF SayInv, InsideInv, Audio, Open
  <2> QED  BY <1>1, <2>1, <2>2, DeliveredKeepsSay DEF SayInv
<1>7. CASE /\ outbox[1] \in SegmentMessages /\ outbox[1].type = "segment"
           /\ segments' = Append(segments, outbox[1].segment)
  <2>1. /\ DOMAIN segments' = DOMAIN segments \cup {Len(segments) + 1} /\ Len(segments) \in Nat
        /\ segments'[Len(segments) + 1] = outbox[1].segment
        /\ \A i \in DOMAIN segments : i \in Nat /\ i <= Len(segments) /\ segments'[i] = segments[i]
    BY <1>2, <1>7 DEF SegmentMessages
  <2>2. ASSUME NEW d \in Sources, NEW i \in Stored(d)'
        PROVE
         \/ i \in Stored(d) /\ segments'[i] = segments[i]
         \/ /\ \A j \in Stored(d)' : ~(i < j)
            /\ \E m \in Spoken(d) : m \in Nat /\ m <= 1 /\ segments'[i] = outbox[m].segment
    <3>1. CASE i \in DOMAIN segments
      BY <2>1, <2>2, <3>1 DEF Stored
    <3>2. CASE i = Len(segments) + 1
      <4>1. \A j \in Stored(d)' : ~(i < j)
        BY <2>1, <3>2 DEF Stored
      <4>2. 1 \in Spoken(d)
        BY <1>3, <1>7, <2>1, <2>2, <3>2 DEF Stored, Spoken
      <4> QED  BY <2>1, <3>2, <4>1, <4>2
    <3> QED  BY <2>1, <2>2, <3>1, <3>2 DEF Stored
  <2>3. Delivered(1)
    BY <1>5, <2>2 DEF Delivered
  <2>4. InsideInv'
    <3>1. ASSUME NEW d \in Sources, NEW i \in Spoken(d)'
          PROVE  Inside(outbox'[i].segment)
      BY <1>5, <3>1 DEF SayInv, InsideInv
    <3>2. Inside(outbox[1].segment)
      <4>1. outbox[1].segment.chunk[1] \in Sources
        BY <1>7 DEF SegmentMessages, SegmentRecord, Chunks
      <4>2. 1 \in Spoken(outbox[1].segment.chunk[1])
        BY <1>3, <1>7 DEF Spoken
      <4> QED  BY <4>1, <4>2 DEF SayInv, InsideInv
    <3>3. \A i \in DOMAIN segments' : Inside(segments'[i])
      BY <2>1, <3>2 DEF SayInv, InsideInv
    <3> QED  BY <1>1, <3>1, <3>3 DEF SayInv, InsideInv, Audio, Open
  <2> QED  BY <1>1, <2>3, <2>4, DeliveredKeepsSay DEF SayInv
<1> QED  BY <1>4, <1>6, <1>7

\* A worker that is gone says nothing more.
LEMMA KillKeepsSay ==
  ASSUME TypeInv, SayInv, KillWorker, UNCHANGED <<outbox, daemonVars>>
  PROVE  SayInv'
<1>1. \A d : Audio(d)' = {}
  BY DEF KillWorker, Audio
<1>2. \A d \in Sources : vad'[d] = IdleVad /\ ~Open(d)'
  BY DEF KillWorker, Open, IdleVad
<1>3. /\ muted' = muted /\ segments' = segments /\ outbox' = outbox
      /\ \A d \in Sources : /\ Heard(d)' = Heard(d) /\ Stored(d)' = Stored(d)
                            /\ Spoken(d)' = Spoken(d)
  BY DEF daemonVars, Heard, Stored, Spoken
<1>4. InsideInv'
  BY <1>1, <1>2, <1>3 DEF SayInv, InsideInv
<1>5. OrderInv'
  BY <1>1, <1>2, <1>3 DEF SayInv, OrderInv
<1>6. SkipInv'
  BY <1>3 DEF SayInv, SkipInv
<1> QED  BY <1>4, <1>5, <1>6 DEF SayInv, RotationInv, MutedInv, KillWorker

-----------------------------------------------------------------------------
(* What is heard: the steps of the streams. *)

\* No frame of d is written, and there is a flush behind every frame in the inbox and
\* behind the open segment.
Covered(d) ==
  /\ \A i \in Audio(d)' : /\ i \in Audio(d) /\ inbox'[i] = inbox[i]
                         /\ \E k \in Flushes(d)' : i < k
  /\ Open(d) => \E k \in Flushes(d)' : TRUE

\* A frame of d has been written behind everything else: the one that follows what
\* had been heard, of the chunk that was open.
NewFrame(d, i) ==
  /\ inbox'[i].chunk = Chunk(d, Num(d)) /\ Chunk(d, Num(d))[1] = d
  /\ ChunkStart(Chunk(d, Num(d))) <= Heard(d)
  /\ Heard(d) + FrameUnits <= ChunkStart(Chunk(d, Num(d))) + ChunkUnits
  /\ inbox'[i].at = Heard(d) /\ Heard(d) + FrameUnits <= Heard(d)'
  /\ \A j \in Audio(d)' : i # j => j < i
  /\ \A k \in Flushes(d) : k < i
  /\ d \notin suppressedSources'

\* What a stream may do: hear more, write a frame, write flushes, of which there is
\* one at the end when its chunk is over, and suppress a frame that a flush covers.
Hears(d) ==
  /\ Heard(d) \in Nat /\ Heard(d)' \in Nat /\ Heard(d) <= Heard(d)'
  /\ \A i \in Audio(d) : i \in Audio(d)'
  /\ \A i \in Audio(d)' : (i \in Audio(d) /\ inbox'[i] = inbox[i]) \/ NewFrame(d, i)
  /\ \A k \in Flushes(d) : k \in Flushes(d)'
  /\ worker = "up" =>
       /\ Num(d)' # Num(d) => \E k \in Flushes(d)' : \A i \in Audio(d)' : i < k
       /\ \A t \in muted'[d] : t \in muted[d] \/ (t = Heard(d) /\ Covered(d))
       /\ d \in suppressedSources' => Covered(d)
  /\ \A t \in muted'[d] :
       t \in muted[d] \/ (t = Heard(d) /\ Heard(d) + FrameUnits <= Heard(d)')

\* A stream that hears more leaves a flush before whatever it suppresses.
LEMMA HearKeepsMuted ==
  ASSUME TypeInv, SayInv, \A d \in Sources : Hears(d), UNCHANGED <<vad, outbox, worker, segments>>,
         inbox' \in Seq(Requests)
  PROVE  MutedInv'
<1> SUFFICES ASSUME worker = "up"
             PROVE  MutedInv'
  BY DEF MutedInv
<1>1. ASSUME NEW d \in Sources, NEW t \in muted'[d]
      PROVE
           /\ \A i \in Audio(d)' :
                /\ t + FrameUnits <= inbox'[i].at \/ inbox'[i].at + FrameUnits <= t
                /\ inbox'[i].at <= t =>
                     \E k \in Flushes(d)' : i < k /\ \A j \in Audio(d)' : t < inbox'[j].at => k < j
           /\ Open(d)' => vad'[d].end <= t \/ t < vad'[d].start
           /\ Open(d)' /\ vad'[d].start <= t =>
                \E k \in Flushes(d)' : \A j \in Audio(d)' : t < inbox'[j].at => k < j
  <2>1. /\ Heard(d) \in Nat /\ Heard(d)' \in Nat
        /\ \A i \in Audio(d)' :
             \/ i \in Audio(d) /\ inbox'[i] = inbox[i]
             \/ inbox'[i].at = Heard(d) /\ (\A k \in Flushes(d) : k < i) /\ d \notin suppressedSources'
        /\ \A k \in Flushes(d) : k \in Flushes(d)'
        /\ Open(d)' <=> Open(d)
    BY <1>1 DEF Hears, NewFrame, Open
  <2>2. ASSUME NEW i \in Audio(d)
        PROVE  inbox[i].at \in Nat /\ inbox[i].at + FrameUnits <= Heard(d)
    <3>1. inbox[i] \in AudioRequests
      BY RequestKinds DEF Audio, TypeInv
    <3> QED  BY <3>1 DEF AudioRequests, SayInv, OrderInv
  <2>3. CASE t \in muted[d]
    <3>1. t \in Nat /\ t + FrameUnits <= Heard(d)
      BY <2>3 DEF TypeInv, TypeOK, SayInv, SkipInv
    <3>2. ASSUME NEW i \in Audio(d)'
          PROVE  t + FrameUnits <= inbox'[i].at \/ inbox'[i].at + FrameUnits <= t
      BY <2>1, <2>3, <3>1 DEF SayInv, MutedInv
    <3>3. ASSUME NEW i \in Audio(d)', inbox'[i].at <= t
          PROVE  \E k \in Flushes(d)' : i < k /\ \A j \in Audio(d)' : t < inbox'[j].at => k < j
      <4>1. i \in Audio(d) /\ inbox'[i] = inbox[i]
        BY <2>1, <3>1, <3>3, VadAssumption
      <4>2. PICK k \in Flushes(d) : i < k /\ \A j \in Audio(d) : t < inbox[j].at => k < j
        BY <2>3, <3>3, <4>1 DEF SayInv, MutedInv
      <4> QED  BY <2>1, <4>2
    <3>4. Open(d)' => vad'[d].end <= t \/ t < vad'[d].start
      BY <2>1, <2>3 DEF SayInv, MutedInv
    <3>5. ASSUME Open(d)', vad'[d].start <= t
          PROVE  \E k \in Flushes(d)' : \A j \in Audio(d)' : t < inbox'[j].at => k < j
      <4>1. PICK k \in Flushes(d) : \A j \in Audio(d) : t < inbox[j].at => k < j
        BY <2>1, <2>3, <3>5 DEF SayInv, MutedInv
      <4> QED  BY <2>1, <4>1
    <3> QED  BY <3>2, <3>3, <3>4, <3>5
  <2>4. CASE t = Heard(d) /\ Covered(d) /\ t \notin muted[d]
    <3>1. \A i \in Audio(d)' : i \in Audio(d) /\ inbox'[i] = inbox[i]
      BY <2>4 DEF Covered
    <3>2. \A i \in Audio(d)' : inbox'[i].at + FrameUnits <= t /\ ~(t < inbox'[i].at)
      BY <2>1, <2>2, <2>4, <3>1, VadAssumption
    <3>3. Open(d)' => vad'[d].end <= t
      BY <2>1, <2>4 DEF SayInv, OrderInv
    <3> QED  BY <2>1, <2>4, <3>2, <3>3 DEF Covered
  <2> QED  BY <1>1, <2>3, <2>4 DEF Hears
<1>2. ASSUME NEW d \in Sources, d \in suppressedSources'
      PROVE  /\ \A i \in Audio(d)' : \E k \in Flushes(d)' : i < k
             /\ Open(d)' => Flushes(d)' # {}
  BY <1>2 DEF Hears, Covered, Open
<1> QED  BY <1>1, <1>2 DEF MutedInv

\* And keeps the order and the place of what is said.
LEMMA HearKeepsSay ==
  ASSUME TypeInv, SayInv, \A d \in Sources : Hears(d), UNCHANGED <<vad, outbox, worker, segments>>,
         inbox' \in Seq(Requests)
  PROVE  SayInv'
<1>1. ASSUME NEW d \in Sources
      PROVE  Hears(d) /\ Stored(d)' = Stored(d) /\ Spoken(d)' = Spoken(d) /\ (Open(d)' <=> Open(d))
  BY DEF Stored, Spoken, Open
<1>2. ASSUME NEW d \in Sources
      PROVE  Audio(d) \subseteq Nat /\ Flushes(d) \subseteq Nat
  BY DEF Audio, Flushes, TypeInv
<1>3. ASSUME NEW d \in Sources, NEW i \in Audio(d)
      PROVE  inbox[i].at \in Nat
  <2>1. inbox[i] \in AudioRequests
    BY RequestKinds DEF Audio, TypeInv
  <2> QED  BY <2>1 DEF AudioRequests
<1>4. InsideInv'
  <2>1. ASSUME NEW d \in Sources, NEW i \in Audio(d)'
        PROVE  LET f == inbox'[i]
               IN  /\ f.chunk[1] = d /\ ChunkStart(f.chunk) <= f.at
                   /\ f.at + FrameUnits <= ChunkStart(f.chunk) + ChunkUnits
    BY <1>1, <2>1 DEF SayInv, InsideInv, Hears, NewFrame
  <2> QED  BY <1>1, <2>1 DEF SayInv, InsideInv
<1>5. OrderInv'
  <2> SUFFICES ASSUME NEW d \in Sources
               PROVE
    /\ \A i \in Audio(d)' :
         /\ inbox'[i].at + FrameUnits <= Heard(d)'
         /\ \A j \in Audio(d)' : i < j => inbox'[i].at + FrameUnits <= inbox'[j].at
         /\ Open(d)' => vad'[d].end <= inbox'[i].at
    /\ Open(d)' => vad'[d].end <= Heard(d)'
    /\ \A i \in Spoken(d)' : LET h == outbox'[i].segment
         IN  /\ \A j \in Spoken(d)' : i < j => h.end <= outbox'[j].segment.start
             /\ Open(d)' => h.end <= vad'[d].start
             /\ \A j \in Audio(d)' : h.end <= inbox'[j].at
             /\ h.end <= Heard(d)'
    /\ \A i \in Stored(d)' : LET h == segments'[i]
         IN  /\ \A j \in Stored(d)' : i < j => h.end <= segments'[j].start
             /\ \A j \in Spoken(d)' : h.end <= outbox'[j].segment.start
             /\ Open(d)' => h.end <= vad'[d].start
             /\ \A j \in Audio(d)' : h.end <= inbox'[j].at
             /\ h.end <= Heard(d)'
    BY DEF OrderInv
  <2>1. /\ Heard(d) \in Nat /\ Heard(d)' \in Nat /\ Heard(d) <= Heard(d)'
        /\ \A i \in Audio(d)' :
             \/ i \in Audio(d) /\ inbox'[i] = inbox[i]
             \/ /\ inbox'[i].at = Heard(d) /\ Heard(d) + FrameUnits <= Heard(d)'
                /\ \A j \in Audio(d)' : i # j => j < i
        /\ Audio(d) \subseteq Nat
    BY <1>1, <1>2 DEF Hears, NewFrame
  <2>2. ASSUME NEW i \in Audio(d)'
        PROVE
         /\ inbox'[i].at + FrameUnits <= Heard(d)'
         /\ \A j \in Audio(d)' : i < j => inbox'[i].at + FrameUnits <= inbox'[j].at
         /\ Open(d)' => vad'[d].end <= inbox'[i].at
    <3>1. CASE i \in Audio(d) /\ inbox'[i] = inbox[i]
      <4>1. inbox[i].at + FrameUnits <= Heard(d) /\ inbox[i].at \in Nat
        BY <1>3, <3>1 DEF SayInv, OrderInv
      <4>2. Open(d)' => vad'[d].end <= inbox[i].at
        BY <1>1, <3>1 DEF SayInv, OrderInv
      <4>3. ASSUME NEW j \in Audio(d)', i < j
            PROVE  inbox[i].at + FrameUnits <= inbox'[j].at
        BY <2>1, <3>1, <4>1, <4>3 DEF SayInv, OrderInv
      <4> QED  BY <2>1, <3>1, <4>1, <4>2, <4>3, VadAssumption
    <3>2. CASE /\ inbox'[i].at = Heard(d) /\ Heard(d) + FrameUnits <= Heard(d)'
               /\ \A j \in Audio(d)' : i # j => j < i
      <4>1. \A j \in Audio(d)' : ~(i < j)
        <5>1. \A j \in Audio(d)' : i \in Int /\ j \in Int
          BY DEF Audio
        <5> QED  BY <3>2, <5>1
      <4>2. Open(d)' => vad'[d].end <= Heard(d)
        BY <1>1 DEF SayInv, OrderInv
      <4> QED  BY <3>2, <4>1, <4>2
    <3> QED  BY <2>1, <3>1, <3>2
  <2>3. Open(d)' => vad'[d].end <= Heard(d)'
    BY <1>1, <2>1 DEF SayInv, OrderInv, TypeInv, Vads
  <2>4. ASSUME NEW i \in Spoken(d)'
        PROVE  LET h == outbox'[i].segment
         IN  /\ \A j \in Spoken(d)' : i < j => h.end <= outbox'[j].segment.start
             /\ Open(d)' => h.end <= vad'[d].start
             /\ \A j \in Audio(d)' : h.end <= inbox'[j].at
             /\ h.end <= Heard(d)'
    <3>1. outbox[i].segment.end \in Nat
      BY <1>1, MessageKinds DEF Spoken, TypeInv, SegmentRecord
    <3> QED  BY <1>1, <2>1, <3>1 DEF SayInv, OrderInv
  <2>5. ASSUME NEW i \in Stored(d)'
        PROVE  LET h == segments'[i]
         IN  /\ \A j \in Stored(d)' : i < j => h.end <= segments'[j].start
             /\ \A j \in Spoken(d)' : h.end <= outbox'[j].segment.start
             /\ Open(d)' => h.end <= vad'[d].start
             /\ \A j \in Audio(d)' : h.end <= inbox'[j].at
             /\ h.end <= Heard(d)'
    <3>1. segments[i].end \in Nat
      <4>1. i \in DOMAIN segments /\ segments \in Seq(SegmentRecord)
        BY <1>1 DEF Stored, TypeInv, TypeOK
      <4>2. segments[i] \in SegmentRecord
        BY <4>1
      <4> QED  BY <4>2 DEF SegmentRecord
    <3> QED  BY <1>1, <2>1, <3>1 DEF SayInv, OrderInv
  <2> QED  BY <2>2, <2>3, <2>4, <2>5
<1>6. SkipInv'
  <2> SUFFICES ASSUME NEW d \in Sources, NEW t \in muted'[d]
               PROVE
        /\ t + FrameUnits <= Heard(d)'
        /\ \A i \in Spoken(d)' : LET h == outbox'[i].segment IN h.end <= t \/ t < h.start
        /\ \A i \in Stored(d)' : segments'[i].end <= t \/ t < segments'[i].start
    BY DEF SkipInv
  <2>1. CASE t \in muted[d]
    <3>1. t \in Nat
      BY <2>1 DEF TypeInv, TypeOK
    <3> QED  BY <1>1, <2>1, <3>1, VadAssumption DEF SayInv, SkipInv, Hears
  <2>2. CASE t = Heard(d) /\ Heard(d) + FrameUnits <= Heard(d)'
    BY <1>1, <2>2 DEF SayInv, OrderInv
  <2> QED  BY <1>1, <2>1, <2>2 DEF Hears
<1>7. ASSUME worker = "up", NEW d \in Sources
      PROVE
      /\ \A i \in Audio(d)' :
           /\ \A j \in Audio(d)' :
                i < j /\ inbox'[i].chunk # inbox'[j].chunk
                  => \E k \in Flushes(d)' : i < k /\ k < j
           /\ Open(d)' /\ vad'[d].chunk # inbox'[i].chunk => \E k \in Flushes(d)' : k < i
           /\ inbox'[i].chunk # Chunk(d, Num(d)') => \E k \in Flushes(d)' : i < k
      /\ Open(d)' /\ vad'[d].chunk # Chunk(d, Num(d)') => Flushes(d)' # {}
  <2>1. /\ \A i \in Audio(d)' :
             \/ i \in Audio(d) /\ inbox'[i] = inbox[i]
             \/ /\ inbox'[i].chunk = Chunk(d, Num(d))
                /\ \A j \in Audio(d)' : i # j => j < i
                /\ \A k \in Flushes(d) : k < i
        /\ \A k \in Flushes(d) : k \in Flushes(d)'
        /\ Audio(d) \subseteq Nat
        /\ Num(d)' # Num(d) => \E k \in Flushes(d)' : \A i \in Audio(d)' : i < k
    BY <1>1, <1>2, <1>7 DEF Hears, NewFrame
  <2>2. ASSUME NEW i \in Audio(d)', NEW j \in Audio(d)', i < j, inbox'[i].chunk # inbox'[j].chunk
        PROVE  \E k \in Flushes(d)' : i < k /\ k < j
    <3>1. i \in Audio(d) /\ inbox'[i] = inbox[i]
      <4>1. ASSUME \A l \in Audio(d)' : i # l => l < i  PROVE FALSE
        <5>1. j < i
          BY <2>2, <4>1
        <5>2. i \in Int /\ j \in Int
          BY DEF Audio
        <5> QED  BY <2>2, <5>1, <5>2
      <4> QED  BY <2>1, <4>1
    <3>2. CASE j \in Audio(d) /\ inbox'[j] = inbox[j]
      BY <1>7, <2>1, <2>2, <3>1, <3>2 DEF SayInv, RotationInv
    <3>3. CASE inbox'[j].chunk = Chunk(d, Num(d)) /\ \A k \in Flushes(d) : k < j
      BY <1>7, <2>1, <2>2, <3>1, <3>3 DEF SayInv, RotationInv
    <3> QED  BY <2>1, <3>2, <3>3
  <2>3. ASSUME NEW i \in Audio(d)', Open(d)', vad'[d].chunk # inbox'[i].chunk
        PROVE  \E k \in Flushes(d)' : k < i
    <3>1. CASE i \in Audio(d) /\ inbox'[i] = inbox[i]
      BY <1>1, <1>7, <2>1, <2>3, <3>1 DEF SayInv, RotationInv
    <3>2. CASE inbox'[i].chunk = Chunk(d, Num(d)) /\ \A k \in Flushes(d) : k < i
      BY <1>1, <1>7, <2>1, <2>3, <3>2 DEF SayInv, RotationInv
    <3> QED  BY <2>1, <3>1, <3>2
  <2>4. ASSUME NEW i \in Audio(d)', inbox'[i].chunk # Chunk(d, Num(d)')
        PROVE  \E k \in Flushes(d)' : i < k
    <3>1. CASE Num(d)' # Num(d)
      BY <2>1, <3>1
    <3>2. CASE Num(d)' = Num(d)
      BY <1>7, <2>1, <2>4, <3>2 DEF SayInv, RotationInv
    <3> QED  BY <3>1, <3>2
  <2>5. ASSUME Open(d)', vad'[d].chunk # Chunk(d, Num(d)')
        PROVE  Flushes(d)' # {}
    <3>1. CASE Num(d)' # Num(d)
      BY <2>1, <3>1
    <3>2. CASE Num(d)' = Num(d)
      BY <1>1, <1>7, <2>1, <2>5, <3>2 DEF SayInv, RotationInv
    <3> QED  BY <3>1, <3>2
  <2> QED  BY <2>2, <2>3, <2>4, <2>5
<1>8. RotationInv'
  BY <1>7 DEF RotationInv, Chunk
<1> QED  BY <1>4, <1>5, <1>6, <1>8, HearKeepsMuted DEF SayInv

\* The arithmetic of chunks: a number of units and the chunk it is in.
LEMMA DivChunk ==
  ASSUME NEW n \in Nat
  PROVE  /\ n \div ChunkUnits \in Nat
         /\ (n \div ChunkUnits) * ChunkUnits <= n
         /\ n < (n \div ChunkUnits) * ChunkUnits + ChunkUnits
  BY PipelineAssumption

\* A number of units is in one chunk only.
LEMMA DivUnique ==
  ASSUME NEW n \in Nat, NEW m \in Nat, m * ChunkUnits <= n, n < m * ChunkUnits + ChunkUnits
  PROVE  n \div ChunkUnits = m
  BY PipelineAssumption

\* What is heard of a source is a number of units.
LEMMA HeardType ==
  ASSUME TypeInv, ChunkInv, NEW d \in Sources
  PROVE  Heard(d) \in Nat /\ samples[d] \in Nat /\ asrPending[d] \in Nat
         /\ Heard(d) + asrPending[d] = samples[d]
  BY NumType DEF Heard

\* A unit that is read: the frame it completes begins where the last one ended, and
\* the next chunk is due when this one is full.
LEMMA ReadNumbers ==
  ASSUME TypeInv, ChunkInv, NEW s \in Sources, HasAudio(s),
         samples' = [samples EXCEPT ![s] = @ + 1],
         asrPending' = [asrPending EXCEPT ![s] = IF FrameDue(s) \/ Full(s) THEN 0 ELSE @ + 1],
         current' = [current EXCEPT ![s] = IF Full(s) THEN NoChunk ELSE Num(s)]
  PROVE  /\ Heard(s)' \in Nat /\ Heard(s) <= Heard(s)'
         /\ FrameDue(s) => FrameAt(s) = Heard(s) /\ Heard(s) + FrameUnits = Heard(s)'
                           /\ Heard(s) + FrameUnits <= Num(s) * ChunkUnits + ChunkUnits
         /\ Num(s)' = IF Full(s) THEN Num(s) + 1 ELSE Num(s)
         /\ Full(s) => samples'[s] = Num(s)' * ChunkUnits
         /\ Num(s)' * ChunkUnits <= Heard(s)'
         /\ samples'[s] < Num(s)' * ChunkUnits + ChunkUnits
         /\ asrPending'[s] \in 0..(FrameUnits - 1)
         /\ \A d \in Sources \ {s} : Heard(d)' = Heard(d) /\ Num(d)' = Num(d)
<1> DEFINE x == samples[s]
           p == asrPending[s]
           m == Num(s)
<1>1. /\ x \in Nat /\ p \in Nat /\ p <= x /\ m \in Nat /\ p < FrameUnits
      /\ m * ChunkUnits <= x - p /\ x < m * ChunkUnits + ChunkUnits
      /\ ChunkUnits \in Nat /\ m * ChunkUnits \in Nat /\ FrameUnits \in Nat
      /\ (m + 1) * ChunkUnits = m * ChunkUnits + ChunkUnits
  <2>1. p < FrameUnits
    BY VadAssumption DEF TypeInv, TypeOK
  <2> QED  BY <2>1, NumType, PipelineAssumption, VadAssumption DEF ChunkInv, Heard
<1>2. /\ samples'[s] = x + 1
      /\ asrPending'[s] = IF FrameDue(s) \/ Full(s) THEN 0 ELSE p + 1
      /\ current'[s] = IF Full(s) THEN NoChunk ELSE m
  BY DEF TypeInv, TypeOK
<1>3. FrameDue(s) <=> p + 1 = FrameUnits
  BY DEF FrameDue
<1>4. Full(s) <=> x + 1 = m * ChunkUnits + ChunkUnits
  BY <1>1 DEF Full
<1>5. Num(s)' = IF Full(s) THEN m + 1 ELSE m
  <2>1. CASE Full(s)
    <3>1. (x + 1) \div ChunkUnits = m + 1
      <4>1. /\ x + 1 \in Nat /\ m + 1 \in Nat /\ (m + 1) * ChunkUnits <= x + 1
            /\ x + 1 < (m + 1) * ChunkUnits + ChunkUnits
        BY <1>1, <1>4, <2>1, PipelineAssumption
      <4> QED  BY <4>1, DivUnique
    <3> QED  BY <1>2, <2>1, <3>1 DEF Num
  <2>2. CASE ~Full(s)
    BY <1>1, <1>2, <2>2, PipelineAssumption DEF Num
  <2> QED  BY <2>1, <2>2
<1>6. \A d \in Sources \ {s} : Heard(d)' = Heard(d) /\ Num(d)' = Num(d)
  BY DEF TypeInv, TypeOK, Heard, Num
<1> DEFINE next == asrPending'[s]
<1>7. Heard(s)' = (x + 1) - next /\ Heard(s) = x - p /\ FrameAt(s) = x + 1 - FrameUnits
      /\ next = (IF FrameDue(s) \/ Full(s) THEN 0 ELSE p + 1)
  <2>1. Heard(s)' = samples'[s] - next
    BY DEF Heard
  <2>2. Heard(s) = x - p /\ FrameAt(s) = x + 1 - FrameUnits
    BY DEF Heard, FrameAt
  <2> QED  BY <1>2, <2>1, <2>2, Zenon
<1> HIDE DEF x, p, m, next
<1>8. Heard(s)' \in Nat /\ Heard(s) <= Heard(s)'
  BY <1>1, <1>2, <1>7
<1>9. FrameDue(s) => FrameAt(s) = Heard(s) /\ Heard(s) + FrameUnits = Heard(s)'
                     /\ Heard(s) + FrameUnits <= m * ChunkUnits + ChunkUnits
  BY <1>1, <1>2, <1>3, <1>7
<1>10. Full(s) => samples'[s] = Num(s)' * ChunkUnits
  BY <1>1, <1>2, <1>4, <1>5
<1>11. Num(s)' * ChunkUnits <= Heard(s)'
  BY <1>1, <1>2, <1>4, <1>5, <1>7, <1>8
<1>12. samples'[s] < Num(s)' * ChunkUnits + ChunkUnits
  BY <1>1, <1>2, <1>4, <1>5, PipelineAssumption
<1>13. next \in 0..(FrameUnits - 1)
  BY <1>1, <1>3, <1>7, VadAssumption
<1> QED  BY <1>5, <1>6, <1>8, <1>9, <1>10, <1>11, <1>12, <1>13 DEF m, next

\* A flush or shutdown that is written: nothing else changes in the inbox.
LEMMA FlushSent ==
  ASSUME TypeInv, StopInv, NEW req \in Requests, req.type # "audio", Send(<<req>>)
  PROVE  /\ inbox' \in Seq(Requests)
         /\ \A d \in Sources :
              /\ \A i \in Audio(d) : i \in Audio(d)'
              /\ \A i \in Audio(d)' : i \in Audio(d) /\ inbox'[i] = inbox[i]
              /\ \A k \in Flushes(d) : k \in Flushes(d)'
              /\ worker = "up" /\ req.type = "flush" /\ req.source = d =>
                   \E k \in Flushes(d)' : \A i \in Audio(d)' : i < k
<1>1. CASE ~(proc /\ worker = "up")
  <2>1. inbox' = inbox /\ worker # "up"
    BY <1>1 DEF Send, StopInv
  <2> QED  BY <2>1 DEF TypeInv, Audio, Flushes
<1>2. CASE proc /\ worker = "up"
  <2>1. inbox' = inbox \o <<req>> /\ <<req>> \in Seq(Requests)
    BY <1>2 DEF Send
  <2>2. /\ inbox' \in Seq(Requests) /\ Len(inbox) \in Nat
        /\ \A i \in DOMAIN inbox : i \in Nat /\ i <= Len(inbox) /\ i \in DOMAIN inbox'
                                   /\ inbox'[i] = inbox[i]
        /\ Len(inbox) + 1 \in DOMAIN inbox' /\ inbox'[Len(inbox) + 1] = req
        /\ \A i \in DOMAIN inbox' : i \in DOMAIN inbox \/ i = Len(inbox) + 1
    <3>1. \A n \in DOMAIN <<req>> : n = 1 /\ <<req>>[n] = req
      OBVIOUS
    <3>2. 1 \in DOMAIN <<req>>
      OBVIOUS
    <3>3. Len(inbox) \in Nat
      BY DEF TypeInv
    <3>4. /\ inbox' \in Seq(Requests)
          /\ \A i \in DOMAIN inbox : i \in Nat /\ i <= Len(inbox)
          /\ \A i \in DOMAIN inbox : i \in DOMAIN inbox' /\ inbox'[i] = inbox[i]
          /\ \A n \in DOMAIN <<req>> :
               Len(inbox) + n \in DOMAIN inbox' /\ inbox'[Len(inbox) + n] = <<req>>[n]
          /\ \A i \in DOMAIN inbox' :
               i \in DOMAIN inbox \/ \E n \in DOMAIN <<req>> : i = Len(inbox) + n
      BY <2>1, InboxSent, Zenon
    <3>5. Len(inbox) + 1 \in DOMAIN inbox' /\ inbox'[Len(inbox) + 1] = req
      BY <3>1, <3>2, <3>4
    <3>6. \A i \in DOMAIN inbox' : i \in DOMAIN inbox \/ i = Len(inbox) + 1
      BY <3>1, <3>4
    <3> QED  BY <3>3, <3>4, <3>5, <3>6, Zenon
  <2>3. ASSUME NEW d \in Sources
        PROVE /\ \A i \in Audio(d) : i \in Audio(d)'
              /\ \A i \in Audio(d)' : i \in Audio(d) /\ inbox'[i] = inbox[i]
              /\ \A k \in Flushes(d) : k \in Flushes(d)'
    BY <2>2 DEF Audio, Flushes
  <2>4. ASSUME NEW d \in Sources, req.type = "flush", req.source = d
        PROVE  \E k \in Flushes(d)' : \A i \in Audio(d)' : i < k
    <3>1. Len(inbox) + 1 \in Flushes(d)'
      BY <2>2, <2>4 DEF Flushes
    <3>2. \A i \in Audio(d)' : i < Len(inbox) + 1
      BY <2>2, <2>3 DEF Audio
    <3> QED  BY <3>1, <3>2
  <2> QED  BY <2>2, <2>3, <2>4
<1> QED  BY <1>1, <1>2

\* A flush or shutdown, with no audio: the stream has heard what it has heard, or it
\* leaves out a frame that is not complete, and ends its chunk with a flush.
LEMMA FlushHears ==
  ASSUME TypeInv, SayInv, StopInv, NEW req \in Requests, req.type # "audio", Send(<<req>>),
         NEW d \in Sources, Heard(d) \in Nat, Heard(d)' \in Nat, Heard(d) <= Heard(d)',
         Num(d)' = Num(d) \/ (req.type = "flush" /\ req.source = d),
         UNCHANGED <<muted, suppressedSources>>
  PROVE  Hears(d)
<1>1. /\ \A i \in Audio(d) : i \in Audio(d)'
      /\ \A i \in Audio(d)' : i \in Audio(d) /\ inbox'[i] = inbox[i]
      /\ \A k \in Flushes(d) : k \in Flushes(d)'
      /\ worker = "up" /\ req.type = "flush" /\ req.source = d =>
           \E k \in Flushes(d)' : \A i \in Audio(d)' : i < k
  BY FlushSent
<1>2. ASSUME worker = "up", d \in suppressedSources'
      PROVE  Covered(d)
  BY <1>1, <1>2 DEF Covered, SayInv, MutedInv
<1> QED  BY <1>1, <1>2 DEF Hears

\* What a Read writes: at most one request for the frame, then the flush at the
\* boundary if the chunk is full.
LEMMA ReadSends ==
  ASSUME TypeInv, ChunkInv, SayInv, NEW s \in Sources, NEW sound,
         Send(Submission(s, Chunk(s, Num(s)), sound) \o Boundary(s)), proc, worker = "up"
  PROVE  LET sub == Submission(s, Chunk(s, Num(s)), sound)
             due == IF sub = <<>> THEN Len(inbox) + 1 ELSE Len(inbox) + 2
         IN  /\ Len(inbox) \in Nat /\ inbox' \in Seq(Requests)
             /\ \A i \in DOMAIN inbox : i \in Nat /\ i <= Len(inbox) /\ i \in DOMAIN inbox'
                                        /\ inbox'[i] = inbox[i]
             /\ sub # <<>> => Len(inbox) + 1 \in DOMAIN inbox' /\ inbox'[Len(inbox) + 1] = sub[1]
             /\ Full(s) => due \in DOMAIN inbox'
                           /\ inbox'[due] = FlushRequest(<<s, "boundary", samples[s]>>, s)
             /\ \A i \in DOMAIN inbox' : \/ i \in DOMAIN inbox
                                         \/ sub # <<>> /\ i = Len(inbox) + 1
                                         \/ Full(s) /\ i = due
<1> DEFINE sub == Submission(s, Chunk(s, Num(s)), sound)
           flush == FlushRequest(<<s, "suppress", samples[s]>>, s)
           audio == AudioRequest(s, Chunk(s, Num(s)), FrameAt(s), sound = "speech")
           last == FlushRequest(<<s, "boundary", samples[s]>>, s)
           due == IF sub = <<>> THEN Len(inbox) + 1 ELSE Len(inbox) + 2
<1>1. samples[s] \in Nat
  BY NumType
<1>2. flush \in Requests /\ last \in Requests
  BY <1>1 DEF FlushRequest, Requests, FlushRequests, FlushIds
<1>3. sub \in {<<>>, <<flush>>, <<audio>>} /\ (sub = <<audio>> => Submits(s, sound))
  BY DEF Submission
<1>4. sub = <<audio>> => audio \in Requests
  <2> SUFFICES ASSUME Submits(s, sound)  PROVE audio \in Requests
    BY <1>3
  <2>1. FrameAt(s) \in Nat
    <3>1. asrPending[s] + 1 = FrameUnits /\ asrPending[s] <= samples[s] /\ asrPending[s] \in Nat
      BY NumType DEF Submits, FrameDue
    <3> QED  BY <1>1, <3>1, VadAssumption DEF FrameAt
  <2>2. Chunk(s, Num(s)) \in Chunks
    BY NumType
  <2> QED  BY <2>1, <2>2 DEF AudioRequest, Requests, AudioRequests
<1>5. Boundary(s) = IF Full(s) THEN <<last>> ELSE <<>>
  BY DEF Boundary
<1>6. Len(inbox) \in Nat /\ inbox \in Seq(Requests)
  BY DEF TypeInv
<1>7. inbox' = inbox \o (sub \o Boundary(s))
  BY DEF Send
<1> HIDE DEF sub, flush, audio, last
<1>8. ASSUME NEW reqs \in Seq(Requests), inbox' = inbox \o reqs
      PROVE  /\ inbox' \in Seq(Requests)
             /\ \A i \in DOMAIN inbox : i \in Nat /\ i <= Len(inbox) /\ i \in DOMAIN inbox'
                                        /\ inbox'[i] = inbox[i]
             /\ \A n \in DOMAIN reqs :
                  Len(inbox) + n \in DOMAIN inbox' /\ inbox'[Len(inbox) + n] = reqs[n]
             /\ \A i \in DOMAIN inbox' :
                  i \in DOMAIN inbox \/ \E n \in DOMAIN reqs : i = Len(inbox) + n
  BY <1>8, InboxSent
<1> DEFINE Goal ==
        /\ inbox' \in Seq(Requests)
        /\ \A i \in DOMAIN inbox : i \in Nat /\ i <= Len(inbox) /\ i \in DOMAIN inbox'
                                   /\ inbox'[i] = inbox[i]
        /\ sub # <<>> => Len(inbox) + 1 \in DOMAIN inbox' /\ inbox'[Len(inbox) + 1] = sub[1]
        /\ Full(s) => due \in DOMAIN inbox' /\ inbox'[due] = last
        /\ \A i \in DOMAIN inbox' : \/ i \in DOMAIN inbox
                                    \/ sub # <<>> /\ i = Len(inbox) + 1
                                    \/ Full(s) /\ i = due
<1>9. ASSUME sub = <<>>, ~Full(s)  PROVE Goal
  <2>1. inbox' = inbox \o <<>> /\ <<>> \in Seq(Requests)
    BY <1>5, <1>7, <1>9
  <2>2. DOMAIN <<>> = {}
    OBVIOUS
  <2> QED  BY <1>8, <1>9, <2>1, <2>2
<1>10. ASSUME sub = <<>>, Full(s)  PROVE Goal
  <2>1. inbox' = inbox \o <<last>> /\ <<last>> \in Seq(Requests)
    BY <1>2, <1>5, <1>7, <1>10
  <2>2. DOMAIN <<last>> = {1} /\ <<last>>[1] = last
    OBVIOUS
  <2>3. /\ inbox' \in Seq(Requests)
        /\ \A i \in DOMAIN inbox : i \in Nat /\ i <= Len(inbox) /\ i \in DOMAIN inbox'
                                   /\ inbox'[i] = inbox[i]
        /\ Len(inbox) + 1 \in DOMAIN inbox' /\ inbox'[Len(inbox) + 1] = last
        /\ \A i \in DOMAIN inbox' : i \in DOMAIN inbox \/ i = Len(inbox) + 1
    <3>1. /\ inbox' \in Seq(Requests)
          /\ \A i \in DOMAIN inbox : i \in Nat /\ i <= Len(inbox) /\ i \in DOMAIN inbox'
                                     /\ inbox'[i] = inbox[i]
          /\ \A n \in DOMAIN <<last>> :
               Len(inbox) + n \in DOMAIN inbox' /\ inbox'[Len(inbox) + n] = <<last>>[n]
          /\ \A i \in DOMAIN inbox' :
               i \in DOMAIN inbox \/ \E n \in DOMAIN <<last>> : i = Len(inbox) + n
      BY <1>8, <2>1, Zenon
    <3>2. Len(inbox) + 1 \in DOMAIN inbox' /\ inbox'[Len(inbox) + 1] = last
      BY <2>2, <3>1
    <3>3. \A i \in DOMAIN inbox' : i \in DOMAIN inbox \/ i = Len(inbox) + 1
      BY <2>2, <3>1
    <3> QED  BY <3>1, <3>2, <3>3, Zenon
  <2> QED  BY <1>10, <2>3
<1>11. ASSUME NEW r \in Requests, sub = <<r>>, ~Full(s)  PROVE Goal
  <2>1. inbox' = inbox \o <<r>> /\ <<r>> \in Seq(Requests)
    BY <1>5, <1>7, <1>11
  <2>2. DOMAIN <<r>> = {1} /\ <<r>>[1] = r /\ sub[1] = r /\ sub # <<>>
    BY <1>11
  <2>3. /\ inbox' \in Seq(Requests)
        /\ \A i \in DOMAIN inbox : i \in Nat /\ i <= Len(inbox) /\ i \in DOMAIN inbox'
                                   /\ inbox'[i] = inbox[i]
        /\ Len(inbox) + 1 \in DOMAIN inbox' /\ inbox'[Len(inbox) + 1] = r
        /\ \A i \in DOMAIN inbox' : i \in DOMAIN inbox \/ i = Len(inbox) + 1
    BY <1>8, <2>1, <2>2
  <2> QED  BY <1>11, <2>2, <2>3
<1>12. ASSUME NEW r \in Requests, sub = <<r>>, Full(s)  PROVE Goal
  <2> DEFINE reqs == <<r>> \o <<last>>
  <2>1. inbox' = inbox \o reqs
    BY <1>5, <1>7, <1>12
  <2>2. /\ reqs \in Seq(Requests) /\ DOMAIN reqs = {1, 2} /\ reqs[1] = r /\ reqs[2] = last
        /\ sub[1] = r /\ sub # <<>>
    <3>1. <<r>> \in Seq(Requests) /\ <<last>> \in Seq(Requests)
          /\ Len(<<r>>) = 1 /\ Len(<<last>>) = 1 /\ <<r>>[1] = r /\ <<last>>[1] = last
      BY <1>2
    <3>2. /\ reqs \in Seq(Requests) /\ Len(reqs) = 1 + 1
          /\ reqs[1] = <<r>>[1] /\ reqs[2] = <<last>>[2 - 1]
      BY <3>1, ConcatProperties
    <3>3. DOMAIN reqs = 1..2
      BY <3>2
    <3>4. 1..2 = {1, 2}
      OBVIOUS
    <3> QED  BY <1>12, <3>1, <3>2, <3>3, <3>4
  <2> HIDE DEF reqs
  <2>3. /\ inbox' \in Seq(Requests)
        /\ \A i \in DOMAIN inbox : i \in Nat /\ i <= Len(inbox) /\ i \in DOMAIN inbox'
                                   /\ inbox'[i] = inbox[i]
        /\ Len(inbox) + 1 \in DOMAIN inbox' /\ inbox'[Len(inbox) + 1] = r
        /\ Len(inbox) + 2 \in DOMAIN inbox' /\ inbox'[Len(inbox) + 2] = last
        /\ \A i \in DOMAIN inbox' :
             i \in DOMAIN inbox \/ i = Len(inbox) + 1 \/ i = Len(inbox) + 2
    BY <1>8, <2>1, <2>2
  <2> QED  BY <1>12, <2>2, <2>3
<1>13. Goal
  BY <1>2, <1>3, <1>4, <1>9, <1>10, <1>11, <1>12
<1> QED  BY <1>6, <1>13 DEF sub, last

\* A unit that is read is heard, and no frame of another source is written.
LEMMA ReadHears ==
  ASSUME TypeInv, ChunkInv, SayInv, StopInv, NEW s \in Sources, NEW sound, Read(s, sound)
  PROVE  /\ inbox' \in Seq(Requests) /\ \A d \in Sources : Hears(d)
         /\ \A d \in Sources \ {s} : \A i \in Audio(d)' : i \in Audio(d) /\ inbox'[i] = inbox[i]
<1> DEFINE c == Chunk(s, Num(s))
           sub == Submission(s, c, sound)
           due == IF sub = <<>> THEN Len(inbox) + 1 ELSE Len(inbox) + 2
<1>1. /\ Heard(s)' \in Nat /\ Heard(s) <= Heard(s)'
      /\ FrameDue(s) => FrameAt(s) = Heard(s) /\ Heard(s) + FrameUnits = Heard(s)'
                        /\ Heard(s) + FrameUnits <= Num(s) * ChunkUnits + ChunkUnits
      /\ Num(s)' = IF Full(s) THEN Num(s) + 1 ELSE Num(s)
      /\ \A d \in Sources \ {s} : Heard(d)' = Heard(d) /\ Num(d)' = Num(d)
  BY ReadNumbers DEF Read, Rotate
<1>2. \A d \in Sources : Heard(d) \in Nat /\ Heard(d)' \in Nat /\ Heard(d) <= Heard(d)'
  BY <1>1, HeardType
<1>3. /\ Send(sub \o Boundary(s)) /\ Suppress(s, sound)
  BY DEF Read
<1>4. ASSUME NEW d \in Sources, NEW t \in muted'[d]
      PROVE  \/ t \in muted[d]
             \/ /\ t = Heard(d) /\ Heard(d) + FrameUnits <= Heard(d)'
                /\ d = s /\ Submits(s, sound) /\ replaying
  <2>1. CASE muted' = muted
    BY <1>4, <2>1
  <2>2. CASE /\ Submits(s, sound) /\ replaying
             /\ muted' = [muted EXCEPT ![s] = @ \cup {FrameAt(s)}]
    <3>1. FrameAt(s) = Heard(s) /\ Heard(s) + FrameUnits = Heard(s)'
      BY <1>1, <2>2 DEF Submits
    <3>2. t \in muted[d] \/ (d = s /\ t = FrameAt(s))
      BY <1>4, <2>2 DEF TypeInv, TypeOK
    <3> QED  BY <1>2, <2>2, <3>1, <3>2
  <2> QED  BY <1>3, <2>1, <2>2 DEF Suppress
<1>5. CASE ~(proc /\ worker = "up")
  <2>1. inbox' = inbox /\ worker # "up"
    BY <1>3, <1>5 DEF Send, StopInv
  <2>2. inbox' \in Seq(Requests)
    BY <2>1 DEF TypeInv
  <2>3. ASSUME NEW d \in Sources  PROVE Hears(d)
    BY <1>2, <1>4, <2>1 DEF Hears, Audio, Flushes
  <2>4. \A d \in Sources : \A i \in Audio(d)' : i \in Audio(d) /\ inbox'[i] = inbox[i]
    BY <2>1 DEF Audio
  <2> QED  BY <2>2, <2>3, <2>4
<1>6. CASE proc /\ worker = "up"
  <2>1. /\ Len(inbox) \in Nat /\ inbox' \in Seq(Requests)
        /\ \A i \in DOMAIN inbox : i \in Nat /\ i <= Len(inbox) /\ i \in DOMAIN inbox'
                                   /\ inbox'[i] = inbox[i]
        /\ sub # <<>> => Len(inbox) + 1 \in DOMAIN inbox' /\ inbox'[Len(inbox) + 1] = sub[1]
        /\ Full(s) => due \in DOMAIN inbox'
                      /\ inbox'[due] = FlushRequest(<<s, "boundary", samples[s]>>, s)
        /\ \A i \in DOMAIN inbox' : \/ i \in DOMAIN inbox
                                    \/ sub # <<>> /\ i = Len(inbox) + 1
                                    \/ Full(s) /\ i = due
    BY <1>3, <1>6, ReadSends, Zenon
  <2>2. Full(s) => inbox'[due].type = "flush" /\ inbox'[due].source = s
    BY <2>1 DEF FlushRequest
  <2>3. sub # <<>> =>
          \/ /\ sub[1].type = "flush" /\ sub[1].source = s
             /\ Submits(s, sound) /\ replaying /\ s \notin suppressedSources
          \/ /\ sub[1].type = "audio" /\ sub[1].source = s /\ sub[1].chunk = c
             /\ sub[1].at = FrameAt(s) /\ Submits(s, sound) /\ ~replaying
    BY DEF Submission, FlushRequest, AudioRequest
  <2>4. replaying => (Submits(s, sound) /\ s \notin suppressedSources => sub # <<>>)
    BY DEF Submission
  <2> HIDE DEF sub, c
  <2>5. ASSUME NEW d \in Sources
        PROVE  /\ \A i \in Audio(d) : i \in Audio(d)'
               /\ \A k \in Flushes(d) : k \in Flushes(d)' /\ k <= Len(inbox)
               /\ \A i \in Audio(d)' :
                    \/ i \in Audio(d) /\ inbox'[i] = inbox[i] /\ i <= Len(inbox)
                    \/ /\ d = s /\ i = Len(inbox) + 1 /\ inbox'[i] = sub[1]
                       /\ sub # <<>> /\ sub[1].type = "audio"
    <3>1. \A i \in Audio(d) : i \in Audio(d)'
      BY <2>1 DEF Audio
    <3>2. \A k \in Flushes(d) : k \in Flushes(d)' /\ k <= Len(inbox)
      BY <2>1 DEF Flushes
    <3>3. ASSUME NEW i \in Audio(d)'
          PROVE  \/ i \in Audio(d) /\ inbox'[i] = inbox[i] /\ i <= Len(inbox)
                 \/ /\ d = s /\ i = Len(inbox) + 1 /\ inbox'[i] = sub[1]
                    /\ sub # <<>> /\ sub[1].type = "audio"
      <4>1. i \in DOMAIN inbox' /\ inbox'[i].type = "audio" /\ inbox'[i].source = d
        BY <3>3 DEF Audio
      <4>2. CASE i \in DOMAIN inbox
        BY <2>1, <4>1, <4>2 DEF Audio
      <4>3. CASE sub # <<>> /\ i = Len(inbox) + 1
        BY <2>1, <2>3, <4>1, <4>3
      <4>4. CASE Full(s) /\ i = due
        BY <2>2, <4>1, <4>4
      <4> QED  BY <2>1, <4>1, <4>2, <4>3, <4>4
    <3> QED  BY <3>1, <3>2, <3>3, Zenon
  <2>6. Full(s) => due \in Flushes(s)' /\ \A i \in Audio(s)' : i < due
    <3> SUFFICES ASSUME Full(s)
                 PROVE  due \in Flushes(s)' /\ \A i \in Audio(s)' : i < due
      OBVIOUS
    <3>1. due \in Flushes(s)'
      BY <2>1, <2>2 DEF Flushes
    <3>2. ASSUME NEW i \in Audio(s)'  PROVE i < due
      <4>1. CASE i \in Audio(s) /\ i <= Len(inbox)
        BY <2>1, <4>1 DEF Audio
      <4>2. CASE i = Len(inbox) + 1 /\ sub # <<>>
        BY <2>1, <4>2
      <4> QED  BY <2>5, <4>1, <4>2
    <3> QED  BY <3>1, <3>2
  <2>7. ASSUME NEW d \in Sources, d \in suppressedSources' \/ (d = s /\ Submits(s, sound) /\ replaying)
        PROVE  Covered(d)
    <3>1. ~(d = s /\ sub # <<>> /\ sub[1].type = "audio")
      BY <1>3, <2>3, <2>7 DEF Suppress
    <3>2. \A i \in Audio(d)' : i \in Audio(d) /\ inbox'[i] = inbox[i] /\ i <= Len(inbox)
      BY <2>5, <3>1
    <3>3. CASE d \in suppressedSources
      BY <1>6, <2>5, <3>2, <3>3 DEF Covered, SayInv, MutedInv
    <3>4. CASE d \notin suppressedSources
      <4>1. d = s /\ Submits(s, sound) /\ replaying
        BY <1>3, <2>7, <3>4 DEF Suppress
      <4>2. Len(inbox) + 1 \in Flushes(s)'
        BY <2>1, <2>3, <2>4, <3>4, <4>1 DEF Flushes
      <4>3. \A i \in Audio(d)' : i < Len(inbox) + 1
        BY <2>1, <3>2 DEF Audio
      <4> QED  BY <3>2, <4>1, <4>2, <4>3 DEF Covered
    <3> QED  BY <3>3, <3>4
  <2>8. ASSUME NEW i \in Audio(s)', i = Len(inbox) + 1, inbox'[i] = sub[1],
               sub # <<>>, sub[1].type = "audio"
        PROVE  NewFrame(s, i)
    <3>1. inbox'[i].chunk = c /\ inbox'[i].at = FrameAt(s) /\ Submits(s, sound) /\ ~replaying
      BY <2>3, <2>8
    <3>2. s \notin suppressedSources'
      BY <1>3, <3>1 DEF Suppress
    <3>3. FrameAt(s) = Heard(s) /\ Heard(s) + FrameUnits = Heard(s)'
          /\ Heard(s) + FrameUnits <= Num(s) * ChunkUnits + ChunkUnits
      BY <1>1, <3>1 DEF Submits
    <3>4. /\ c[1] = s /\ ChunkStart(c) = Num(s) * ChunkUnits
          /\ Num(s) * ChunkUnits <= Heard(s)
      BY NumType DEF c, Chunk, ChunkInv
    <3>5. \A j \in Audio(s)' : i # j => j < i
      <4>1. \A j \in Audio(s) : j \in Nat
        BY <2>1 DEF Audio
      <4> QED  BY <2>1, <2>5, <2>8, <4>1
    <3>6. \A k \in Flushes(s) : k < i
      <4>1. \A k \in Flushes(s) : k \in Nat
        BY <2>1 DEF Flushes
      <4> QED  BY <2>1, <2>5, <2>8, <4>1
    <3>7. Heard(s) + FrameUnits <= Heard(s)'
      BY <1>2, <3>3
    <3> QED  BY <3>1, <3>2, <3>3, <3>4, <3>5, <3>6, <3>7 DEF NewFrame, c
  <2>9. ASSUME NEW d \in Sources  PROVE Hears(d)
    <3>1. \A i \in Audio(d)' : (i \in Audio(d) /\ inbox'[i] = inbox[i]) \/ NewFrame(d, i)
      BY <2>5, <2>8
    <3>2. Num(d)' # Num(d) => \E k \in Flushes(d)' : \A i \in Audio(d)' : i < k
      BY <1>1, <2>6
    <3>3. d \in suppressedSources' => Covered(d)
      BY <2>7
    <3>4. \A t \in muted'[d] : t \in muted[d] \/ (t = Heard(d) /\ Covered(d))
      BY <1>4, <2>7
    <3>5. \A t \in muted'[d] :
            t \in muted[d] \/ (t = Heard(d) /\ Heard(d) + FrameUnits <= Heard(d)')
      BY <1>4
    <3> QED  BY <1>2, <2>5, <3>1, <3>2, <3>3, <3>4, <3>5 DEF Hears
  <2>10. \A d \in Sources \ {s} : \A i \in Audio(d)' : i \in Audio(d) /\ inbox'[i] = inbox[i]
    BY <2>5
  <2> QED  BY <2>1, <2>9, <2>10
<1> QED  BY <1>5, <1>6

\* A stream that ends leaves out the frame it was filling; the chunk that would be due
\* is the one that holds its last unit, or the next.
LEMMA FinalizeNumbers ==
  ASSUME TypeInv, ChunkInv, NEW s \in Sources, NEW n \in Nat,
         samples' = [samples EXCEPT ![s] = @ + n],
         asrPending' = [asrPending EXCEPT ![s] = 0],
         current' = [current EXCEPT ![s] = NoChunk]
  PROVE  /\ Heard(s)' \in Nat /\ Heard(s) <= Heard(s)'
         /\ Num(s)' * ChunkUnits <= Heard(s)'
         /\ samples'[s] < Num(s)' * ChunkUnits + ChunkUnits
         /\ \A d \in Sources \ {s} : Heard(d)' = Heard(d) /\ Num(d)' = Num(d)
<1>1. samples[s] \in Nat /\ asrPending[s] \in Nat /\ asrPending[s] <= samples[s]
  BY NumType
<1>2. samples'[s] = samples[s] + n /\ asrPending'[s] = 0 /\ current'[s] = NoChunk
  BY DEF TypeInv, TypeOK
<1> DEFINE x == samples'[s]
<1>3. x \in Nat /\ samples[s] <= x
  BY <1>1, <1>2
<1>4. Heard(s)' = x - 0 /\ Heard(s) = samples[s] - asrPending[s]
  BY <1>2 DEF Heard
<1>5. Num(s)' = x \div ChunkUnits
  BY <1>2 DEF Num
<1>6. \A d \in Sources \ {s} : Heard(d)' = Heard(d) /\ Num(d)' = Num(d)
  BY DEF TypeInv, TypeOK, Heard, Num
<1> HIDE DEF x
<1>7. /\ x \div ChunkUnits \in Nat /\ (x \div ChunkUnits) * ChunkUnits <= x
      /\ x < (x \div ChunkUnits) * ChunkUnits + ChunkUnits
  BY <1>3, DivChunk
<1>8. Heard(s)' = x /\ Heard(s) <= x
  BY <1>1, <1>3, <1>4
<1> QED  BY <1>3, <1>5, <1>6, <1>7, <1>8 DEF x

\* The rest of a read that is not fed stays in the chunk it opened.
LEMMA InsertFailsNumbers ==
  ASSUME TypeInv, ChunkInv, NEW s \in Sources, HasAudio(s), current[s] = NoChunk,
         NEW n \in 1..(ChunkUnits - 1),
         samples' = [samples EXCEPT ![s] = @ + n], asrPending' = asrPending,
         current' = [current EXCEPT ![s] = Num(s)]
  PROVE  /\ Heard(s)' \in Nat /\ Heard(s) <= Heard(s)' /\ Num(s)' = Num(s)
         /\ Num(s)' * ChunkUnits <= Heard(s)'
         /\ samples'[s] < Num(s)' * ChunkUnits + ChunkUnits
         /\ current'[s] # NoChunk
         /\ \A d \in Sources \ {s} : Heard(d)' = Heard(d) /\ Num(d)' = Num(d)
<1>1. samples[s] \in Nat /\ asrPending[s] = 0 /\ Num(s) \in Nat /\ Num(s) * ChunkUnits \in Nat
      /\ samples[s] = Num(s) * ChunkUnits
  BY NumType, PipelineAssumption DEF ChunkInv, HasAudio
<1>2. samples'[s] = samples[s] + n /\ asrPending'[s] = 0 /\ current'[s] = Num(s)
  BY <1>1 DEF TypeInv, TypeOK
<1>3. current'[s] # NoChunk /\ Num(s)' = Num(s)
  BY <1>1, <1>2, PipelineAssumption DEF Num
<1> DEFINE x == samples'[s]
<1>4. Heard(s)' = x - 0 /\ Heard(s) = samples[s] - 0
  BY <1>1, <1>2 DEF Heard
<1>5. x = samples[s] + n /\ n \in Nat /\ n < ChunkUnits
  BY <1>2, PipelineAssumption
<1>6. \A d \in Sources \ {s} : Heard(d)' = Heard(d) /\ Num(d)' = Num(d)
  BY DEF TypeInv, TypeOK, Heard, Num
<1> HIDE DEF x
<1>7. Heard(s)' \in Nat /\ Heard(s) <= Heard(s)' /\ Num(s) * ChunkUnits <= Heard(s)'
      /\ x < Num(s) * ChunkUnits + ChunkUnits
  BY <1>1, <1>4, <1>5, PipelineAssumption
<1> QED  BY <1>3, <1>6, <1>7 DEF x

\* Chunks and what is left of a frame in them, whatever the streams do.
LEMMA ChunkStep ==
  ASSUME TypeInv, ChunkInv, [Next]_vars
  PROVE  ChunkInv'
<1>1. ASSUME UNCHANGED <<samples, asrPending, current>>,
             \A s \in Sources : phase'[s] \in {"resolving", "reading"}
                                  => phase[s] \in {"resolving", "reading"}
      PROVE  ChunkInv'
  BY <1>1 DEF ChunkInv, Heard, Num
<1>2. ASSUME NEW s \in Sources, NEW n \in Nat, samples' = [samples EXCEPT ![s] = @ + n],
             NEW open, Finalize(s, open)
      PROVE  ChunkInv'
  <2>1. /\ asrPending' = [asrPending EXCEPT ![s] = 0]
        /\ current' = [current EXCEPT ![s] = NoChunk]
        /\ phase' = [phase EXCEPT ![s] = "draining"]
    BY <1>2 DEF Finalize
  <2>2. /\ Num(s)' * ChunkUnits <= Heard(s)'
        /\ samples'[s] < Num(s)' * ChunkUnits + ChunkUnits
        /\ \A d \in Sources \ {s} : Heard(d)' = Heard(d) /\ Num(d)' = Num(d)
    BY <1>2, <2>1, FinalizeNumbers
  <2>3. /\ asrPending'[s] = 0 /\ phase'[s] = "draining"
        /\ \A d \in Sources \ {s} : /\ asrPending'[d] = asrPending[d] /\ phase'[d] = phase[d]
                                    /\ samples'[d] = samples[d] /\ current'[d] = current[d]
    BY <1>2, <2>1 DEF TypeInv, TypeOK
  <2> QED  BY <2>2, <2>3 DEF ChunkInv
<1>3. ASSUME NEW s \in Sources, Resolve(s) \/ FinalizeChunk(s) \/ FinalFlush(s)
                                \/ FinalFlushed(s) \/ Exited(s)
      PROVE  ChunkInv'
  <2>1. UNCHANGED <<samples, asrPending, current>>
    BY <1>3 DEF Resolve, FinalizeChunk, FinalFlush, FinalFlushed, Exited
  <2>2. \A d \in Sources : phase'[d] \in {"resolving", "reading"}
                             => phase[d] \in {"resolving", "reading"}
    BY <1>3 DEF Resolve, FinalizeChunk, FinalFlush, FinalFlushed, Exited, TypeInv, TypeOK
  <2> QED  BY <1>1, <2>1, <2>2
<1>4. ASSUME NEW s \in Sources, LoopExit(s)
      PROVE  ChunkInv'
  <2>1. samples' = [samples EXCEPT ![s] = @ + 0]
    BY <1>4 DEF LoopExit, TypeInv, TypeOK
  <2> QED  BY <1>2, <1>4, <2>1 DEF LoopExit
<1>5. ASSUME NEW s \in Sources, InsertFails(s)
      PROVE  ChunkInv'
  BY <1>2, <1>5 DEF InsertFails
<1>6. ASSUME NEW s \in Sources, InsertFailsSck(s)
      PROVE  ChunkInv'
  <2>1. PICK n \in 1..(ChunkUnits - 1) : samples' = [samples EXCEPT ![s] = @ + n]
    BY <1>6 DEF InsertFailsSck
  <2>2. /\ Num(s)' * ChunkUnits <= Heard(s)'
        /\ samples'[s] < Num(s)' * ChunkUnits + ChunkUnits
        /\ current'[s] # NoChunk
        /\ \A d \in Sources \ {s} : Heard(d)' = Heard(d) /\ Num(d)' = Num(d)
    BY <1>6, <2>1, InsertFailsNumbers DEF InsertFailsSck
  <2>3. /\ phase' = phase /\ asrPending' = asrPending
        /\ \A d \in Sources \ {s} : samples'[d] = samples[d] /\ current'[d] = current[d]
    BY <1>6, <2>1 DEF InsertFailsSck, TypeInv, TypeOK
  <2> QED  BY <2>2, <2>3 DEF ChunkInv
<1>7. ASSUME NEW s \in Sources, NEW sound, Read(s, sound)
      PROVE  ChunkInv'
  <2>1. /\ Full(s) => samples'[s] = Num(s)' * ChunkUnits
        /\ Num(s)' * ChunkUnits <= Heard(s)'
        /\ samples'[s] < Num(s)' * ChunkUnits + ChunkUnits
        /\ \A d \in Sources \ {s} : Heard(d)' = Heard(d) /\ Num(d)' = Num(d)
    BY <1>7, ReadNumbers DEF Read, Rotate
  <2>2. /\ Full(s) => asrPending'[s] = 0
        /\ current'[s] = NoChunk => Full(s)
        /\ \A d \in Sources \ {s} : /\ asrPending'[d] = asrPending[d] /\ phase'[d] = phase[d]
                                    /\ samples'[d] = samples[d] /\ current'[d] = current[d]
    BY <1>7, NumType, PipelineAssumption DEF Read, Rotate, TypeInv, TypeOK
  <2> QED  BY <2>1, <2>2 DEF ChunkInv
<1>8. ASSUME NEW s \in Sources, BlobFails(s) \/ ResolveFails(s) \/ ChildExit(s)
      PROVE  ChunkInv'
  <2>1. UNCHANGED <<samples, asrPending, current>>
    BY <1>8 DEF BlobFails, ResolveFails, ChildExit
  <2>2. \A d \in Sources : phase'[d] \in {"resolving", "reading"}
                             => phase[d] \in {"resolving", "reading"}
    BY <1>8 DEF BlobFails, ResolveFails, ChildExit, TypeInv, TypeOK
  <2> QED  BY <1>1, <2>1, <2>2
<1>9. ASSUME \/ Stop \/ Stopping \/ Engine \/ ReplayStarts \/ ReplayEnds \/ FlushTimeout
             \/ WorkerCrash \/ ShutdownTimeout \/ UNCHANGED vars
      PROVE  ChunkInv'
  <2>1. UNCHANGED <<samples, asrPending, current, phase>>
    BY <1>9 DEF Stop, Stopping, RunnersDone, StopFlushed, WorkerClosed, CloseStore, Engine, Worker,
                Deliver, WorkerClose, ReplayStarts, ReplayEnds, FlushTimeout, WorkerCrash,
                ShutdownTimeout, vars, streamVars
  <2> QED  BY <1>1, <2>1
<1> QED  BY <1>3, <1>4, <1>5, <1>6, <1>7, <1>8, <1>9 DEF Next, Stream, Environment, Stopped

\* Steps that are no concern of what is said.
LEMMA QuietKeepsSay ==
  ASSUME SayInv, UNCHANGED <<inbox, vad, outbox, worker, daemonVars>>
  PROVE  SayInv'
<1>1. InsideInv'
  BY DEF SayInv, InsideInv, daemonVars, Audio, Spoken, Open
<1>2. OrderInv'
  BY DEF SayInv, OrderInv, daemonVars, Audio, Spoken, Stored, Open, Heard
<1>3. RotationInv'
  BY DEF SayInv, RotationInv, daemonVars, Audio, Flushes, Open, Num, Chunk
<1>4. SkipInv'
  BY DEF SayInv, SkipInv, daemonVars, Spoken, Stored, Heard
<1>5. MutedInv'
  BY DEF SayInv, MutedInv, daemonVars, Audio, Flushes, Open
<1> QED  BY <1>1, <1>2, <1>3, <1>4, <1>5 DEF SayInv

\* What is said stays in order, in its chunk and beside what is muted.
LEMMA SayStep ==
  ASSUME TypeInv, ChunkInv, SayInv, StopInv, [Next]_vars
  PROVE  SayInv'
<1>1. ASSUME NEW req \in Requests, req.type # "audio", Send(<<req>>),
             \A d \in Sources :
               /\ Heard(d)' \in Nat /\ Heard(d) <= Heard(d)'
               /\ Num(d)' = Num(d) \/ (req.type = "flush" /\ req.source = d),
             UNCHANGED <<muted, suppressedSources, vad, outbox, worker, segments>>
      PROVE  SayInv'
  <2>1. \A d \in Sources : Hears(d)
    BY <1>1, HeardType, FlushHears
  <2>2. inbox' \in Seq(Requests)
    BY <1>1, FlushSent
  <2> QED  BY <1>1, <2>1, <2>2, HearKeepsSay
<1>2. ASSUME NEW s \in Sources, NEW n \in Nat, samples' = [samples EXCEPT ![s] = @ + n],
             NEW open, Finalize(s, open),
             UNCHANGED <<muted, suppressedSources, vad, outbox, worker, segments>>
      PROVE  SayInv'
  <2> DEFINE req == FlushRequest(<<s, "last", samples[s]>>, s)
  <2>1. /\ Heard(s)' \in Nat /\ Heard(s) <= Heard(s)'
        /\ \A d \in Sources \ {s} : Heard(d)' = Heard(d) /\ Num(d)' = Num(d)
    BY <1>2, FinalizeNumbers DEF Finalize
  <2>2. req \in Requests /\ req.type = "flush" /\ req.source = s
    BY NumType DEF FlushRequest, Requests, FlushRequests, FlushIds
  <2>3. Send(<<req>>)
    BY <1>2 DEF Finalize
  <2>4. \A d \in Sources : /\ Heard(d)' \in Nat /\ Heard(d) <= Heard(d)'
                           /\ Num(d)' = Num(d) \/ (req.type = "flush" /\ req.source = d)
    BY <2>1, <2>2, HeardType
  <2> HIDE DEF req
  <2> QED  BY <1>1, <1>2, <2>2, <2>3, <2>4
<1>3. ASSUME NEW req \in Requests, req.type # "audio", Send(<<req>>),
             UNCHANGED <<samples, asrPending, current, muted, suppressedSources, vad, outbox, worker,
                         segments>>
      PROVE  SayInv'
  <2>1. \A d \in Sources : /\ Heard(d)' \in Nat /\ Heard(d) <= Heard(d)'
                           /\ Num(d)' = Num(d) \/ (req.type = "flush" /\ req.source = d)
    BY <1>3, HeardType DEF Heard, Num
  <2> QED  BY <1>1, <1>3, <2>1
<1>4. ASSUME NEW s \in Sources, \/ Resolve(s) \/ FinalizeChunk(s) \/ FinalFlushed(s) \/ Exited(s)
                                \/ BlobFails(s) \/ ResolveFails(s) \/ ChildExit(s)
      PROVE  SayInv'
  <2>1. UNCHANGED <<inbox, vad, outbox, worker, daemonVars>>
    BY <1>4 DEF Resolve, FinalizeChunk, FinalFlushed, Exited, BlobFails, ResolveFails, ChildExit,
                daemonVars, workerVars, queueVars, storeVars
  <2> QED  BY <2>1, QuietKeepsSay
<1>5. ASSUME NEW s \in Sources, LoopExit(s)
      PROVE  SayInv'
  <2>1. samples' = [samples EXCEPT ![s] = @ + 0]
    BY <1>5 DEF LoopExit, TypeInv, TypeOK
  <2>2. Finalize(s, current[s])
        /\ UNCHANGED <<muted, suppressedSources, vad, outbox, worker, segments>>
    BY <1>5 DEF LoopExit, engineVars, storeVars
  <2> QED  BY <1>2, <2>1, <2>2
<1>6. ASSUME NEW s \in Sources, InsertFails(s)
      PROVE  SayInv'
  <2>1. samples' = [samples EXCEPT ![s] = @ + 1] /\ Finalize(s, Num(s))
        /\ UNCHANGED <<muted, suppressedSources, vad, outbox, worker, segments>>
    BY <1>6 DEF InsertFails, engineVars, storeVars
  <2> QED  BY <1>2, <2>1
<1>7. ASSUME NEW s \in Sources, FinalFlush(s)
      PROVE  SayInv'
  <2> DEFINE req == FlushRequest(FinalFlushId(s), s)
  <2>1. req \in Requests /\ req.type = "flush"
    BY DEF FlushRequest, Requests, FlushRequests, FlushIds, FinalFlushId
  <2>2. Send(<<req>>)
        /\ UNCHANGED <<samples, asrPending, current, muted, suppressedSources, vad, outbox, worker,
                       segments>>
    BY <1>7 DEF FinalFlush, engineVars, storeVars
  <2> HIDE DEF req
  <2> QED  BY <1>3, <2>1, <2>2
<1>8. ASSUME RunnersDone
      PROVE  SayInv'
  <2> DEFINE req == FlushRequest(StopFlushId, "all")
  <2>1. req \in Requests /\ req.type = "flush"
    BY DEF FlushRequest, Requests, FlushRequests, FlushIds, StopFlushId
  <2>2. Send(<<req>>)
        /\ UNCHANGED <<samples, asrPending, current, muted, suppressedSources, vad, outbox, worker,
                       segments>>
    BY <1>8 DEF RunnersDone, engineVars, storeVars, streamVars
  <2> HIDE DEF req
  <2> QED  BY <1>3, <2>1, <2>2
<1>9. ASSUME StopFlushed
      PROVE  SayInv'
  <2>1. ShutdownRequest \in Requests /\ ShutdownRequest.type = "shutdown"
    BY DEF ShutdownRequest, Requests
  <2>2. Send(<<ShutdownRequest>>)
        /\ UNCHANGED <<samples, asrPending, current, muted, suppressedSources, vad, outbox, worker,
                       segments>>
    BY <1>9 DEF StopFlushed, engineVars, storeVars, streamVars
  <2> QED  BY <1>3, <2>1, <2>2
<1>10. ASSUME NEW s \in Sources, InsertFailsSck(s)
       PROVE  SayInv'
  <2>1. PICK n \in 1..(ChunkUnits - 1) : samples' = [samples EXCEPT ![s] = @ + n]
    BY <1>10 DEF InsertFailsSck
  <2>2. /\ Heard(s)' \in Nat /\ Heard(s) <= Heard(s)' /\ Num(s)' = Num(s)
        /\ \A d \in Sources \ {s} : Heard(d)' = Heard(d) /\ Num(d)' = Num(d)
    BY <1>10, <2>1, InsertFailsNumbers DEF InsertFailsSck
  <2>3. /\ UNCHANGED <<inbox, muted, suppressedSources, vad, outbox, worker, segments>>
        /\ inbox' \in Seq(Requests)
    BY <1>10 DEF InsertFailsSck, workerVars, queueVars, storeVars, TypeInv
  <2>4. ASSUME NEW d \in Sources
        PROVE  Hears(d)
    <3>1. Audio(d)' = Audio(d) /\ Flushes(d)' = Flushes(d)
      BY <2>3 DEF Audio, Flushes
    <3>2. Heard(d) \in Nat /\ Heard(d)' \in Nat /\ Heard(d) <= Heard(d)' /\ Num(d)' = Num(d)
      BY <2>2, HeardType
    <3>3. ASSUME worker = "up", d \in suppressedSources'
          PROVE  Covered(d)
      BY <2>3, <3>1, <3>3 DEF Covered, SayInv, MutedInv
    <3> QED  BY <2>3, <3>1, <3>2, <3>3 DEF Hears
  <2> QED  BY <2>3, <2>4, HearKeepsSay
<1>11. ASSUME NEW s \in Sources, NEW sound, Read(s, sound)
       PROVE  SayInv'
  <2>1. UNCHANGED <<vad, outbox, worker, segments>>
    BY <1>11 DEF Read, engineVars
  <2> QED  BY <1>11, <2>1, ReadHears, HearKeepsSay
<1>12. ASSUME \/ Stop \/ WorkerClosed \/ CloseStore \/ WorkerClose \/ ReplayStarts \/ ReplayEnds
              \/ FlushTimeout \/ UNCHANGED vars
       PROVE  SayInv'
  <2>1. UNCHANGED <<inbox, vad, outbox, worker, daemonVars>>
    BY <1>12 DEF Stop, WorkerClosed, CloseStore, WorkerClose, ReplayStarts, ReplayEnds, FlushTimeout,
                 vars, daemonVars, workerVars, streamVars, queueVars, storeVars
  <2> QED  BY <2>1, QuietKeepsSay
<1>13. ASSUME WorkerCrash \/ ShutdownTimeout
       PROVE  SayInv'
  <2>1. KillWorker /\ UNCHANGED <<outbox, daemonVars>>
    BY <1>13 DEF WorkerCrash, ShutdownTimeout, daemonVars, streamVars, queueVars, storeVars
  <2> QED  BY <2>1, KillKeepsSay
<1>14. ASSUME Worker
       PROVE  SayInv'
  <2>1. UNCHANGED daemonVars
    BY <1>14 DEF Worker, daemonVars, streamVars, queueVars, storeVars
  <2>2. CASE LoadModel
    <3>1. UNCHANGED <<inbox, vad, outbox, worker, daemonVars>>
      BY <2>1, <2>2 DEF LoadModel
    <3> QED  BY <3>1, QuietKeepsSay
  <2>3. CASE HandleAudio
    BY <2>1, <2>3, AudioKeepsSay
  <2>4. ASSUME NEW s \in Sources, FlushSource(s)
        PROVE  SayInv'
    BY <2>1, <2>4, FlushKeepsSay
  <2>5. CASE AnswerFlush \/ AnswerShutdown
    BY <2>1, <2>5, AnswerKeepsSay DEF AnswerFlush, AnswerShutdown, AtFlush, RequestDone, NextRequest
  <2> QED  BY <1>14, <2>2, <2>3, <2>4, <2>5 DEF Worker, WorkerNext
<1>15. ASSUME Deliver
       PROVE  SayInv'
  BY <1>15, DeliverKeepsSay
<1> QED
  BY <1>4, <1>5, <1>6, <1>7, <1>8, <1>9, <1>10, <1>11, <1>12, <1>13, <1>14, <1>15
     DEF Next, Stream, Stopping, Engine, Environment, Stopped

-----------------------------------------------------------------------------
(* Types and the stop, step by step. *)

\* The daemon's variables and the worker's have types of their own.
StreamTypes ==
  /\ phase \in [Sources ->
                {"resolving", "reading", "late", "draining", "flushing", "exiting", "done"}]
  /\ running \in [Sources -> BOOLEAN]
  /\ child \in [Sources -> {"none", "up", "down"}]
  /\ samples \in [Sources -> 0..MaxUnits]
  /\ current \in [Sources -> Nat \cup {NoChunk}]
  /\ asrPending \in [Sources -> 0..(FrameUnits - 1)]
  /\ finalizeQueue \in [Sources -> Seq(Chunks)]

DaemonTypes ==
  /\ proc \in BOOLEAN
  /\ suppressedSources \subseteq Sources
  /\ replaying \in BOOLEAN
  /\ replays \in 0..MaxReplays
  /\ DOMAIN rows \subseteq Chunks
  /\ \A c \in DOMAIN rows : rows[c] \in {"open", "final"}
  /\ segments \in Seq(SegmentRecord)
  /\ lost \subseteq SegmentRecord
  /\ muted \in [Sources -> SUBSET (0..MaxUnits)]
  /\ orch \in {"up", "runners", "flush", "shutdown", "close", "closed"}
  /\ storeOpen \in BOOLEAN
  /\ faults \in 0..MaxFaults
  /\ timedOut \in BOOLEAN

WorkerTypes ==
  /\ flushes \subseteq FlushIds
  /\ inbox \in Seq(Requests)
  /\ outbox \in Seq(Messages)
  /\ vad \in [Sources -> Vads]
  /\ worker \in {"up", "down"}

\* TypeInv in three parts, by what changes them.
LEMMA TypeParts ==
  TypeInv <=> StreamTypes /\ DaemonTypes /\ WorkerTypes
  BY DEF TypeInv, TypeOK, StreamTypes, DaemonTypes, WorkerTypes

\* The variables of the capture streams keep their types, ...
LEMMA StreamTypeStep ==
  ASSUME TypeInv, ChunkInv, [Next]_vars
  PROVE  StreamTypes'
<1>1. ASSUME NEW s \in Sources, \/ Resolve(s) \/ FinalFlush(s) \/ FinalFlushed(s) \/ Exited(s)
                                \/ ResolveFails(s) \/ ChildExit(s)
      PROVE  StreamTypes'
  BY <1>1 DEF StreamTypes, TypeInv, TypeOK, Resolve, FinalFlush, FinalFlushed, Exited, ResolveFails,
              ChildExit
<1>2. ASSUME NEW s \in Sources, FinalizeChunk(s) \/ BlobFails(s)
      PROVE  StreamTypes'
  <2>1. finalizeQueue[s] \in Seq(Chunks) /\ finalizeQueue[s] # <<>>
    BY <1>2 DEF FinalizeChunk, BlobFails, TypeInv, TypeOK
  <2>2. Tail(finalizeQueue[s]) \in Seq(Chunks)
    BY <2>1
  <2>3. finalizeQueue' = [finalizeQueue EXCEPT ![s] = Tail(finalizeQueue[s])]
        /\ UNCHANGED <<phase, running, child, samples, current, asrPending>>
    BY <1>2 DEF FinalizeChunk, BlobFails
  <2> QED  BY <2>2, <2>3 DEF StreamTypes, TypeInv, TypeOK
<1>3. ASSUME NEW s \in Sources, NEW open, Finalize(s, open),
             open # NoChunk => Chunk(s, open) \in Chunks,
             samples' \in [Sources -> 0..MaxUnits], child' = child
      PROVE  StreamTypes'
  <2>1. finalizeQueue[s] \in Seq(Chunks)
    BY DEF TypeInv, TypeOK
  <2>2. open # NoChunk => Append(finalizeQueue[s], Chunk(s, open)) \in Seq(Chunks)
    BY <1>3, <2>1
  <2>3. (IF open = NoChunk THEN finalizeQueue[s] ELSE Append(finalizeQueue[s], Chunk(s, open)))
          \in Seq(Chunks)
    BY <2>1, <2>2
  <2>4. /\ phase' = [phase EXCEPT ![s] = "draining"]
        /\ running' = [running EXCEPT ![s] = FALSE]
        /\ asrPending' = [asrPending EXCEPT ![s] = 0]
        /\ current' = [current EXCEPT ![s] = NoChunk]
    BY <1>3 DEF Finalize
  <2>5. finalizeQueue' \in [Sources -> Seq(Chunks)]
    BY <1>3, <2>3 DEF Finalize, TypeInv, TypeOK
  <2>6. 0 \in 0..(FrameUnits - 1)
    BY VadAssumption
  <2> QED  BY <1>3, <2>4, <2>5, <2>6 DEF StreamTypes, TypeInv, TypeOK
<1>4. ASSUME NEW s \in Sources, LoopExit(s)
      PROVE  StreamTypes'
  <2>1. current[s] # NoChunk => Chunk(s, current[s]) \in Chunks
    BY NumType DEF Num
  <2>2. samples' \in [Sources -> 0..MaxUnits] /\ child' = child
    BY <1>4 DEF LoopExit, TypeInv, TypeOK
  <2> QED  BY <1>3, <1>4, <2>1, <2>2 DEF LoopExit
<1>5. ASSUME NEW s \in Sources, InsertFails(s)
      PROVE  StreamTypes'
  <2>1. Chunk(s, Num(s)) \in Chunks
    BY NumType
  <2>2. samples' \in [Sources -> 0..MaxUnits] /\ child' = child
    <3>1. samples[s] + 1 \in 0..MaxUnits
      BY <1>5, PipelineAssumption DEF InsertFails, HasAudio, TypeInv, TypeOK
    <3> QED  BY <1>5, <3>1 DEF InsertFails, TypeInv, TypeOK
  <2> QED  BY <1>3, <1>5, <2>1, <2>2 DEF InsertFails
<1>6. ASSUME NEW s \in Sources, InsertFailsSck(s)
      PROVE  StreamTypes'
  <2>1. PICK n \in 1..(ChunkUnits - 1) :
          samples[s] + n <= MaxUnits /\ samples' = [samples EXCEPT ![s] = @ + n]
    BY <1>6 DEF InsertFailsSck
  <2>2. samples[s] + n \in 0..MaxUnits
    BY <2>1, NumType, PipelineAssumption
  <2>3. Num(s) \in Nat
    BY NumType
  <2> QED  BY <1>6, <2>1, <2>2, <2>3 DEF InsertFailsSck, StreamTypes, TypeInv, TypeOK
<1>7. ASSUME NEW s \in Sources, NEW sound, Read(s, sound)
      PROVE  StreamTypes'
  <2>1. samples[s] + 1 \in 0..MaxUnits
    BY <1>7, PipelineAssumption DEF Read, HasAudio, TypeInv, TypeOK
  <2>2. Num(s) \in Nat /\ Chunk(s, Num(s)) \in Chunks
    BY NumType
  <2>3. asrPending'[s] \in 0..(FrameUnits - 1)
    BY <1>7, ReadNumbers DEF Read, Rotate
  <2>4. asrPending' \in [Sources -> 0..(FrameUnits - 1)]
    <3>1. \A d \in Sources : d # s => asrPending'[d] = asrPending[d]
      BY <1>7 DEF Read, TypeInv, TypeOK
    <3>2. asrPending' = [d \in Sources |-> asrPending'[d]]
      BY <1>7 DEF Read, TypeInv, TypeOK
    <3>3. \A d \in Sources : asrPending'[d] \in 0..(FrameUnits - 1)
      BY <2>3, <3>1 DEF TypeInv, TypeOK
    <3> QED  BY <3>2, <3>3
  <2>5. finalizeQueue' \in [Sources -> Seq(Chunks)]
    <3>1. finalizeQueue[s] \in Seq(Chunks)
      BY DEF TypeInv, TypeOK
    <3>2. Append(finalizeQueue[s], Chunk(s, Num(s))) \in Seq(Chunks)
      BY <2>2, <3>1
    <3> QED  BY <1>7, <3>1, <3>2 DEF Read, Rotate, TypeInv, TypeOK
  <2>6. samples' \in [Sources -> 0..MaxUnits] /\ current' \in [Sources -> Nat \cup {NoChunk}]
    BY <1>7, <2>1, <2>2 DEF Read, Rotate, TypeInv, TypeOK
  <2>7. UNCHANGED <<phase, running, child>>
    BY <1>7 DEF Read
  <2> QED  BY <2>4, <2>5, <2>6, <2>7 DEF StreamTypes, TypeInv, TypeOK
<1>8. ASSUME Stop
      PROVE  StreamTypes'
  BY <1>8 DEF Stop, StreamTypes, TypeInv, TypeOK
<1>9. ASSUME \/ Stopping \/ Engine \/ ReplayStarts \/ ReplayEnds \/ FlushTimeout
             \/ WorkerCrash \/ ShutdownTimeout \/ UNCHANGED vars
      PROVE  StreamTypes'
  <2>1. UNCHANGED streamVars
    BY <1>9 DEF Stopping, RunnersDone, StopFlushed, WorkerClosed, CloseStore, Engine, Worker,
                Deliver, WorkerClose, ReplayStarts, ReplayEnds, FlushTimeout, WorkerCrash,
                ShutdownTimeout, vars
  <2> QED  BY <2>1 DEF StreamTypes, TypeInv, TypeOK, streamVars
<1> QED  BY <1>1, <1>2, <1>4, <1>5, <1>6, <1>7, <1>8, <1>9 DEF Next, Stream, Environment, Stopped

\* A row is inserted for the chunk that is open.
LEMMA InsertRowType ==
  ASSUME TypeInv, ChunkInv, NEW s \in Sources, InsertRow(s)
  PROVE  DOMAIN rows' \subseteq Chunks /\ \A c \in DOMAIN rows' : rows'[c] \in {"open", "final"}
<1>1. Chunk(s, Num(s)) \in Chunks
  BY NumType
<1>2. CASE rows' = rows
  BY <1>2 DEF TypeInv, TypeOK
<1>3. CASE rows' = WithRow(Chunk(s, Num(s)))
  BY <1>1, <1>3 DEF WithRow, TypeInv, TypeOK
<1> QED  BY <1>2, <1>3 DEF InsertRow

\* ... those of the queue, the store and stop() theirs, ...
LEMMA DaemonTypeStep ==
  ASSUME TypeInv, ChunkInv, [Next]_vars
  PROVE  DaemonTypes'
<1>1. ASSUME NEW s \in Sources, \/ Resolve(s) \/ LoopExit(s) \/ FinalFlush(s) \/ FinalFlushed(s)
                                \/ Exited(s)
      PROVE  DaemonTypes'
  BY <1>1 DEF DaemonTypes, TypeInv, TypeOK, Resolve, LoopExit, FinalFlush, FinalFlushed, Exited,
              queueVars, storeVars, replayVars, faultVars, engineVars
<1>2. ASSUME NEW s \in Sources, FinalizeChunk(s)
      PROVE  DaemonTypes'
  <2>1. DOMAIN rows' \subseteq Chunks /\ \A c \in DOMAIN rows' : rows'[c] \in {"open", "final"}
    BY <1>2 DEF FinalizeChunk, TypeInv, TypeOK
  <2> QED  BY <1>2, <2>1 DEF FinalizeChunk, DaemonTypes, TypeInv, TypeOK, queueVars, replayVars,
                             faultVars
<1>3. ASSUME NEW kind, Fault(kind)
      PROVE  faults' \in 0..MaxFaults /\ timedOut' = timedOut
  BY <1>3, PipelineAssumption DEF Fault, TypeInv, TypeOK
<1>4. ASSUME NEW s \in Sources, \/ BlobFails(s) \/ ResolveFails(s) \/ ChildExit(s) \/ InsertFails(s)
                                \/ InsertFailsSck(s)
      PROVE  DaemonTypes'
  <2>1. faults' \in 0..MaxFaults /\ timedOut' = timedOut
    BY <1>3, <1>4 DEF BlobFails, ResolveFails, ChildExit, InsertFails, InsertFailsSck
  <2>2. UNCHANGED <<proc, suppressedSources, replaying, replays, storeVars, muted, orch>>
    BY <1>4 DEF BlobFails, ResolveFails, ChildExit, InsertFails, InsertFailsSck, engineVars,
                queueVars, replayVars
  <2> QED  BY <2>1, <2>2 DEF DaemonTypes, TypeInv, TypeOK, storeVars
<1>5. ASSUME NEW s \in Sources, NEW sound, Read(s, sound)
      PROVE  DaemonTypes'
  <2>1. DOMAIN rows' \subseteq Chunks /\ \A c \in DOMAIN rows' : rows'[c] \in {"open", "final"}
    BY <1>5, InsertRowType DEF Read
  <2>2. suppressedSources' \subseteq Sources
    BY <1>5 DEF Read, Suppress, TypeInv, TypeOK
  <2>3. muted' \in [Sources -> SUBSET (0..MaxUnits)]
    <3>1. CASE muted' = muted
      BY <3>1 DEF TypeInv, TypeOK
    <3>2. CASE FrameDue(s) /\ muted' = [muted EXCEPT ![s] = @ \cup {FrameAt(s)}]
      <4>1. FrameAt(s) = Heard(s)
        BY <1>5, <3>2, ReadNumbers DEF Read, Rotate
      <4>2. Heard(s) \in 0..MaxUnits
        <5>1. samples[s] \in 0..MaxUnits
          BY DEF TypeInv, TypeOK
        <5> QED  BY <5>1, HeardType, PipelineAssumption
      <4> QED  BY <3>2, <4>1, <4>2 DEF TypeInv, TypeOK
    <3> QED  BY <1>5, <3>1, <3>2 DEF Read, Suppress, Submits
  <2>4. UNCHANGED <<proc, segments, lost, storeOpen, replaying, replays, orch, faults, timedOut>>
    BY <1>5 DEF Read, engineVars, replayVars, faultVars
  <2>5. DaemonTypes
    BY DEF DaemonTypes, TypeInv, TypeOK
  <2>6. faults' \in 0..MaxFaults /\ replays' \in 0..MaxReplays
    BY <2>4, <2>5 DEF DaemonTypes
  <2>7. segments' \in Seq(SegmentRecord) /\ lost' \subseteq SegmentRecord
    BY <2>4, <2>5 DEF DaemonTypes
  <2>8. /\ proc' \in BOOLEAN /\ replaying' \in BOOLEAN
        /\ storeOpen' \in BOOLEAN /\ timedOut' \in BOOLEAN /\ orch' = orch
    BY <2>4, <2>5 DEF DaemonTypes
  <2>9. orch' \in {"up", "runners", "flush", "shutdown", "close", "closed"}
    BY <2>5, <2>8 DEF DaemonTypes
  <2> QED  BY <2>1, <2>2, <2>3, <2>6, <2>7, <2>8, <2>9, Zenon DEF DaemonTypes
<1>6. ASSUME ReplayStarts
      PROVE  DaemonTypes'
  <2>1. replays' \in 0..MaxReplays
    BY <1>6, PipelineAssumption DEF ReplayStarts, TypeInv, TypeOK
  <2> QED  BY <1>6, <2>1 DEF ReplayStarts, DaemonTypes, TypeInv, TypeOK, queueVars, storeVars,
                             faultVars
<1>7. ASSUME \/ Stop \/ ReplayEnds \/ Stopping \/ WorkerClose \/ Worker \/ FlushTimeout
             \/ ShutdownTimeout \/ UNCHANGED vars
      PROVE  DaemonTypes'
  <2>1. DaemonTypes
    BY DEF DaemonTypes, TypeInv, TypeOK
  <2> USE DEF DaemonTypes, queueVars, storeVars, replayVars, faultVars, engineVars
  <2>2. CASE Stop \/ ReplayEnds \/ WorkerClose \/ Worker
    BY <2>1, <2>2 DEF Stop, ReplayEnds, WorkerClose, Worker
  <2>3. CASE Stopping
    BY <2>1, <2>3 DEF Stopping, RunnersDone, StopFlushed, WorkerClosed, CloseStore
  <2>4. CASE FlushTimeout \/ ShutdownTimeout
    BY <2>1, <2>4 DEF FlushTimeout, ShutdownTimeout, Timeout
  <2>5. CASE UNCHANGED vars
    BY <2>1, <2>5 DEF vars
  <2> QED  BY <1>7, <2>2, <2>3, <2>4, <2>5
<1>8. ASSUME WorkerCrash
      PROVE  DaemonTypes'
  <2>1. faults' \in 0..MaxFaults /\ timedOut' = timedOut
    BY <1>3, <1>8 DEF WorkerCrash
  <2> QED  BY <1>8, <2>1 DEF WorkerCrash, DaemonTypes, TypeInv, TypeOK, queueVars, storeVars
<1>9. ASSUME Deliver
      PROVE  DaemonTypes'
  <2>1. Head(outbox) \in Messages
    BY <1>9 DEF Deliver, TypeInv
  <2>2. segments' \in Seq(SegmentRecord) /\ lost' \subseteq SegmentRecord
    <3>1. CASE UNCHANGED <<segments, lost>>
      BY <3>1 DEF TypeInv, TypeOK
    <3>2. ASSUME NEW g \in SegmentRecord, HandleSegment(g)
          PROVE  segments' \in Seq(SegmentRecord) /\ lost' \subseteq SegmentRecord
      <4>1. segments \in Seq(SegmentRecord) /\ lost \subseteq SegmentRecord
        BY DEF TypeInv, TypeOK
      <4>2. Append(segments, g) \in Seq(SegmentRecord) /\ lost \cup {g} \subseteq SegmentRecord
        BY <4>1
      <4> QED  BY <3>2, <4>1, <4>2, Zenon DEF HandleSegment
    <3>3. Head(outbox).type = "segment" => Head(outbox).segment \in SegmentRecord
      BY <2>1, MessageKinds
    <3>4. IF Head(outbox).type = "segment"
          THEN HandleSegment(Head(outbox).segment)
          ELSE UNCHANGED <<segments, lost>>
      BY <1>9 DEF Deliver
    <3> QED  BY <3>1, <3>2, <3>3, <3>4
  <2> QED  BY <1>9, <2>2 DEF Deliver, DaemonTypes, TypeInv, TypeOK, faultVars
<1> QED
  BY <1>1, <1>2, <1>4, <1>5, <1>6, <1>7, <1>8, <1>9
     DEF Next, Stream, Stopping, Engine, Environment, Stopped

\* What a Read writes are requests.
LEMMA SubmissionType ==
  ASSUME TypeInv, ChunkInv, NEW s \in Sources, NEW sound
  PROVE  Submission(s, Chunk(s, Num(s)), sound) \o Boundary(s) \in Seq(Requests)
<1>1. samples[s] \in Nat /\ Chunk(s, Num(s)) \in Chunks
  BY NumType
<1>2. \A kind \in {"suppress", "boundary"} : FlushRequest(<<s, kind, samples[s]>>, s) \in Requests
  BY <1>1 DEF FlushRequest, Requests, FlushRequests, FlushIds
<1>3. Submits(s, sound) =>
        AudioRequest(s, Chunk(s, Num(s)), FrameAt(s), sound = "speech") \in Requests
  <2> SUFFICES ASSUME Submits(s, sound)
               PROVE  AudioRequest(s, Chunk(s, Num(s)), FrameAt(s), sound = "speech") \in Requests
    OBVIOUS
  <2>1. asrPending[s] + 1 = FrameUnits /\ asrPending[s] <= samples[s] /\ asrPending[s] \in Nat
    BY NumType DEF Submits, FrameDue
  <2>2. FrameAt(s) \in Nat
    BY <1>1, <2>1, VadAssumption DEF FrameAt
  <2> QED  BY <1>1, <2>2 DEF AudioRequest, Requests, AudioRequests
<1>4. Submission(s, Chunk(s, Num(s)), sound) \in Seq(Requests)
  BY <1>2, <1>3 DEF Submission
<1>5. Boundary(s) \in Seq(Requests)
  BY <1>2 DEF Boundary
<1> QED  BY <1>4, <1>5

\* ... and so do the pipes and the state of hpm-asr.
LEMMA WorkerTypeStep ==
  ASSUME TypeInv, ChunkInv, SayInv, [Next]_vars
  PROVE  WorkerTypes'
<1>1. ASSUME NEW reqs \in Seq(Requests), Send(reqs), UNCHANGED <<outbox, vad, worker>>
      PROVE  WorkerTypes'
  BY <1>1, SendType DEF WorkerTypes, TypeInv
<1>2. ASSUME flushes' \subseteq flushes, UNCHANGED workerVars
      PROVE  WorkerTypes'
  BY <1>2 DEF WorkerTypes, TypeInv, TypeOK, workerVars
<1>3. ASSUME NEW s \in Sources, \/ Resolve(s) \/ FinalizeChunk(s) \/ FinalFlushed(s) \/ Exited(s)
                                \/ BlobFails(s) \/ ResolveFails(s) \/ ChildExit(s)
                                \/ InsertFailsSck(s)
      PROVE  WorkerTypes'
  <2>1. flushes' \subseteq flushes /\ UNCHANGED workerVars
    BY <1>3 DEF Resolve, FinalizeChunk, FinalFlushed, Exited, BlobFails, ResolveFails, ChildExit,
                InsertFailsSck, queueVars
  <2> QED  BY <1>2, <2>1
<1>4. ASSUME NEW s \in Sources, LoopExit(s) \/ InsertFails(s)
      PROVE  WorkerTypes'
  <2> DEFINE req == FlushRequest(<<s, "last", samples[s]>>, s)
  <2>1. req \in Requests
    BY NumType DEF FlushRequest, Requests, FlushRequests, FlushIds
  <2>2. Send(<<req>>) /\ UNCHANGED <<outbox, vad, worker>>
    BY <1>4 DEF LoopExit, InsertFails, Finalize, engineVars
  <2>3. <<req>> \in Seq(Requests)
    BY <2>1
  <2> HIDE DEF req
  <2> QED  BY <1>1, <2>2, <2>3
<1>5. ASSUME NEW s \in Sources, FinalFlush(s)
      PROVE  WorkerTypes'
  <2> DEFINE req == FlushRequest(FinalFlushId(s), s)
  <2>1. req \in Requests
    BY DEF FlushRequest, Requests, FlushRequests, FlushIds, FinalFlushId
  <2>2. Send(<<req>>) /\ UNCHANGED <<outbox, vad, worker>>
    BY <1>5 DEF FinalFlush, engineVars
  <2>3. <<req>> \in Seq(Requests)
    BY <2>1
  <2> HIDE DEF req
  <2> QED  BY <1>1, <2>2, <2>3
<1>6. ASSUME RunnersDone
      PROVE  WorkerTypes'
  <2> DEFINE req == FlushRequest(StopFlushId, "all")
  <2>1. req \in Requests
    BY DEF FlushRequest, Requests, FlushRequests, FlushIds, StopFlushId
  <2>2. Send(<<req>>) /\ UNCHANGED <<outbox, vad, worker>>
    BY <1>6 DEF RunnersDone, engineVars
  <2>3. <<req>> \in Seq(Requests)
    BY <2>1
  <2> HIDE DEF req
  <2> QED  BY <1>1, <2>2, <2>3
<1>7. ASSUME StopFlushed
      PROVE  WorkerTypes'
  <2>1. Send(<<ShutdownRequest>>) /\ UNCHANGED <<outbox, vad, worker>>
    BY <1>7 DEF StopFlushed, engineVars
  <2>2. <<ShutdownRequest>> \in Seq(Requests)
    BY DEF ShutdownRequest, Requests
  <2> QED  BY <1>1, <2>1, <2>2
<1>8. ASSUME NEW s \in Sources, NEW sound, Read(s, sound)
      PROVE  WorkerTypes'
  <2>1. /\ Send(Submission(s, Chunk(s, Num(s)), sound) \o Boundary(s))
        /\ UNCHANGED <<outbox, vad, worker>>
    BY <1>8 DEF Read, engineVars
  <2> QED  BY <1>1, <2>1, SubmissionType
<1>9. ASSUME \/ Stop \/ WorkerClosed \/ CloseStore \/ WorkerClose \/ ReplayStarts \/ ReplayEnds
             \/ FlushTimeout \/ UNCHANGED vars
      PROVE  WorkerTypes'
  <2>1. flushes' \subseteq flushes /\ UNCHANGED workerVars
    BY <1>9 DEF Stop, WorkerClosed, CloseStore, WorkerClose, ReplayStarts, ReplayEnds, FlushTimeout,
                vars, queueVars
  <2> QED  BY <1>2, <2>1
<1>10. ASSUME WorkerCrash \/ ShutdownTimeout
       PROVE  WorkerTypes'
  <2>1. KillWorker /\ UNCHANGED <<outbox, flushes>>
    BY <1>10 DEF WorkerCrash, ShutdownTimeout, queueVars
  <2>2. IdleVad \in Vads
    BY DEF IdleVad, Vads
  <2> QED  BY <2>1, <2>2 DEF KillWorker, WorkerTypes, TypeInv, TypeOK
<1>11. ASSUME Deliver
       PROVE  WorkerTypes'
  <2>1. outbox' \in Seq(Messages) /\ flushes' \subseteq flushes
        /\ UNCHANGED <<inbox, vad, worker>>
    BY <1>11 DEF Deliver, TypeInv
  <2> QED  BY <2>1 DEF WorkerTypes, TypeInv, TypeOK
<1>12. ASSUME Worker
       PROVE  WorkerTypes'
  <2>1. IdleVad \in Vads /\ flushes' = flushes
    BY <1>12 DEF Worker, queueVars, IdleVad, Vads
  <2>2. ASSUME NEW g \in Vads, g.chunk \in Chunks, outbox' = Append(outbox, FinalMessage(Segment(g)))
        PROVE  outbox' \in Seq(Messages)
    <3>1. FinalMessage(Segment(g)) \in Messages
      BY <2>2 DEF FinalMessage, Segment, Messages, SegmentMessages, SegmentRecord, Vads
    <3> QED  BY <2>2, <3>1 DEF TypeInv
  <2>3. CASE LoadModel
    BY <2>1, <2>3 DEF LoadModel, WorkerTypes, TypeInv, TypeOK
  <2>4. CASE HandleAudio
    <3>1. inbox' \in Seq(Requests) /\ worker' = worker
      BY <2>4 DEF HandleAudio, RequestDone, NextRequest, TypeInv
    <3>2. Frame \in AudioRequests /\ Frame.chunk \in Chunks
      BY <2>4, NoChunkChanges DEF HandleAudio, SayInv, AudioRequests
    <3>3. CASE vad' = vad /\ outbox' = outbox
      BY <2>1, <3>1, <3>3 DEF WorkerTypes, TypeInv, TypeOK
    <3>4. CASE /\ Grown \in Vads /\ Grown.chunk = Frame.chunk
               /\ \/ vad' = [vad EXCEPT ![Frame.source] = Grown] /\ outbox' = outbox
                  \/ /\ vad' = [vad EXCEPT ![Frame.source] = IdleVad]
                     /\ \/ outbox' = outbox
                        \/ outbox' = Append(outbox, FinalMessage(Segment(Grown)))
      <4>1. outbox' \in Seq(Messages)
        BY <2>2, <3>2, <3>4 DEF TypeInv
      <4>2. vad' \in [Sources -> Vads]
        BY <2>1, <3>4 DEF TypeInv
      <4> QED  BY <2>1, <3>1, <4>1, <4>2 DEF WorkerTypes, TypeInv, TypeOK
    <3> QED  BY <2>4, <3>3, <3>4, HandleAudioShape DEF SayInv
  <2>5. ASSUME NEW s \in Sources, FlushSource(s)
        PROVE  WorkerTypes'
    <3>1. /\ vad' = [vad EXCEPT ![s] = IdleVad]
          /\ outbox' = outbox \/ outbox' = Append(outbox, FinalMessage(Segment(vad[s])))
          /\ Open(s) /\ UNCHANGED <<inbox, worker>>
      BY <2>5, FlushShape DEF FlushSource
    <3>2. vad[s] \in Vads /\ vad[s].chunk \in Chunks
      BY <3>1 DEF TypeInv, SayInv, InsideInv, Vads
    <3>3. outbox' \in Seq(Messages)
      BY <2>2, <3>1, <3>2 DEF TypeInv
    <3>4. vad' \in [Sources -> Vads]
      BY <2>1, <3>1 DEF TypeInv
    <3> QED  BY <2>1, <3>1, <3>3, <3>4 DEF WorkerTypes, TypeInv, TypeOK
  <2>6. CASE AnswerFlush
    <3>1. /\ inbox # <<>> /\ inbox' = Tail(inbox) /\ Head(inbox).type = "flush"
          /\ outbox' = Append(outbox, FlushedMessage(Head(inbox).id)) /\ UNCHANGED <<vad, worker>>
      BY <2>6 DEF AnswerFlush, NextRequest, RequestDone
    <3>2. Head(inbox) \in Requests /\ inbox' \in Seq(Requests)
      BY <3>1, InboxRead
    <3>3. FlushedMessage(Head(inbox).id) \in Messages
      BY <3>1, <3>2, RequestKinds DEF FlushRequests, FlushedMessage, Messages
    <3>4. outbox' \in Seq(Messages)
      BY <3>1, <3>3 DEF TypeInv
    <3> QED  BY <2>1, <3>1, <3>2, <3>4 DEF WorkerTypes, TypeInv, TypeOK
  <2>7. CASE AnswerShutdown
    <3>1. inbox' \in Seq(Requests)
      BY <2>7 DEF AnswerShutdown, NextRequest, RequestDone, TypeInv
    <3> QED  BY <2>1, <2>7, <3>1 DEF AnswerShutdown, WorkerTypes, TypeInv, TypeOK
  <2> QED  BY <1>12, <2>3, <2>4, <2>5, <2>6, <2>7 DEF Worker, WorkerNext
<1> QED
  BY <1>3, <1>4, <1>5, <1>6, <1>7, <1>8, <1>9, <1>10, <1>11, <1>12
     DEF Next, Stream, Stopping, Engine, Environment, Stopped

\* The order in which stop() ends the daemon.
LEMMA StopStep ==
  ASSUME TypeInv, StopInv, [Next]_vars
  PROVE  StopInv'
<1>1. ASSUME UNCHANGED <<storeOpen, orch, timedOut, proc, worker, outbox>>,
             NEW s \in Sources, phase'[s] \in {"resolving", "flushing", "exiting", "done"} =>
                                  finalizeQueue'[s] = <<>>,
             phase[s] # "done",
             \A d \in Sources \ {s} : phase'[d] = phase[d] /\ finalizeQueue'[d] = finalizeQueue[d]
      PROVE  StopInv'
  BY <1>1 DEF StopInv
<1>2. ASSUME UNCHANGED <<storeOpen, orch, timedOut, proc, worker, outbox>>, phase' = phase,
             \A s \in Sources : finalizeQueue[s] = <<>> => finalizeQueue'[s] = <<>>
      PROVE  StopInv'
  BY <1>2 DEF StopInv
<1>3. ASSUME NEW s \in Sources, \/ Resolve(s) \/ ResolveFails(s) \/ LoopExit(s) \/ InsertFails(s)
                                \/ FinalFlush(s) \/ FinalFlushed(s) \/ Exited(s)
      PROVE  StopInv'
  <2>1. UNCHANGED <<storeOpen, orch, timedOut, proc, worker, outbox>>
    BY <1>3 DEF Resolve, ResolveFails, LoopExit, InsertFails, FinalFlush, FinalFlushed, Exited, Fault,
                workerVars, engineVars, queueVars, storeVars, faultVars
  <2>2. \A d \in Sources \ {s} : phase'[d] = phase[d] /\ finalizeQueue'[d] = finalizeQueue[d]
    BY <1>3 DEF Resolve, ResolveFails, LoopExit, InsertFails, Finalize, FinalFlush, FinalFlushed,
                Exited, TypeInv, TypeOK
  <2>3. phase'[s] \in {"resolving", "flushing", "exiting", "done"} => finalizeQueue'[s] = <<>>
    BY <1>3 DEF Resolve, ResolveFails, LoopExit, InsertFails, Finalize, FinalFlush, FinalFlushed,
                Exited, TypeInv, TypeOK, StopInv
  <2>4. phase[s] # "done"
    BY <1>3 DEF Resolve, ResolveFails, LoopExit, InsertFails, HasAudio, FinalFlush, FinalFlushed,
                Exited
  <2> QED  BY <1>1, <2>1, <2>2, <2>3, <2>4
<1>4. ASSUME NEW s \in Sources, FinalizeChunk(s) \/ BlobFails(s)
      PROVE  StopInv'
  <2>1. UNCHANGED <<storeOpen, orch, timedOut, proc, worker, outbox>> /\ phase' = phase
    BY <1>4 DEF FinalizeChunk, BlobFails, Fault, workerVars, queueVars, storeVars, faultVars
  <2>2. \A d \in Sources : finalizeQueue[d] = <<>> => finalizeQueue'[d] = <<>>
    BY <1>4 DEF FinalizeChunk, BlobFails, TypeInv, TypeOK
  <2> QED  BY <1>2, <2>1, <2>2
<1>5. ASSUME NEW s \in Sources, NEW sound, Read(s, sound)
      PROVE  StopInv'
  <2>1. UNCHANGED <<storeOpen, orch, timedOut, proc, worker, outbox>> /\ phase' = phase
        /\ phase[s] = "reading"
    BY <1>5 DEF Read, HasAudio, engineVars, faultVars
  <2>2. \A d \in Sources \ {s} : finalizeQueue'[d] = finalizeQueue[d]
    BY <1>5 DEF Read, Rotate, TypeInv, TypeOK
  <2> QED  BY <2>1, <2>2 DEF StopInv
<1>6. ASSUME \/ \E s \in Sources : InsertFailsSck(s) \/ ChildExit(s)
             \/ ReplayStarts \/ ReplayEnds \/ FlushTimeout \/ UNCHANGED vars
      PROVE  StopInv'
  <2>1. UNCHANGED <<storeOpen, orch, proc, worker, outbox, phase, finalizeQueue>>
        /\ (timedOut => timedOut')
    BY <1>6 DEF InsertFailsSck, ChildExit, ReplayStarts, ReplayEnds, FlushTimeout, Fault, Timeout,
                vars, workerVars, streamVars, queueVars, storeVars, faultVars
  <2> QED  BY <2>1 DEF StopInv
<1>7. ASSUME Stop \/ RunnersDone \/ StopFlushed \/ WorkerClosed \/ CloseStore \/ ShutdownTimeout
      PROVE  StopInv'
  <2>1. UNCHANGED <<phase, finalizeQueue, outbox, proc>>
    BY <1>7 DEF Stop, RunnersDone, StopFlushed, WorkerClosed, CloseStore, ShutdownTimeout,
                workerVars, engineVars, queueVars, streamVars
  <2>2. worker' = worker \/ worker' = "down"
    BY <1>7 DEF Stop, RunnersDone, StopFlushed, WorkerClosed, CloseStore, ShutdownTimeout,
                workerVars, engineVars, KillWorker
  <2>3. storeOpen' <=> orch' # "closed"
    BY <1>7 DEF Stop, RunnersDone, StopFlushed, WorkerClosed, CloseStore, ShutdownTimeout,
                storeVars, StopInv
  <2>4. orch' \in {"flush", "shutdown", "close", "closed"} => \A s \in Sources : phase'[s] = "done"
    BY <1>7, <2>1 DEF Stop, RunnersDone, StopFlushed, WorkerClosed, CloseStore, ShutdownTimeout,
                      StopInv
  <2>5. orch' \in {"close", "closed"} /\ ~timedOut' => ~proc'
    BY <1>7, <2>1 DEF Stop, RunnersDone, StopFlushed, WorkerClosed, CloseStore, ShutdownTimeout,
                      Timeout, StopInv, faultVars
  <2> QED  BY <2>1, <2>2, <2>3, <2>4, <2>5 DEF StopInv
<1>8. ASSUME WorkerClose \/ WorkerCrash \/ Deliver \/ Worker
      PROVE  StopInv'
  <2>1. UNCHANGED <<phase, finalizeQueue, storeOpen, orch, timedOut>> /\ (~proc => ~proc')
    BY <1>8 DEF WorkerClose, WorkerCrash, Deliver, Worker, Fault, streamVars, queueVars, storeVars,
                faultVars
  <2>2. ~proc' => worker' = "down" /\ outbox' = <<>>
    BY <1>8 DEF WorkerClose, WorkerCrash, KillWorker, Deliver, Worker, WorkerNext, LoadModel,
                HandleAudio, FlushSource, AtFlush, AnswerFlush, AnswerShutdown, NextRequest,
                workerVars, queueVars, StopInv
  <2> QED  BY <2>1, <2>2 DEF StopInv
<1> QED
  BY <1>3, <1>4, <1>5, <1>6, <1>7, <1>8 DEF Next, Stream, Stopping, Engine, Environment, Stopped

-----------------------------------------------------------------------------
(* The inductive invariant and what follows from it. *)

\* The inductive invariant of all that is said.
SpeechInv == TypeInv /\ ChunkInv /\ SayInv /\ StopInv

\* It holds when the streams start.
LEMMA InitSpeech ==
  ASSUME Init
  PROVE  SpeechInv
<1>1. /\ inbox = <<>> /\ outbox = <<>> /\ segments = <<>> /\ worker = "up"
      /\ \A s \in Sources :
           /\ vad[s] = IdleVad /\ vad[s].len = 0 /\ samples[s] = 0 /\ asrPending[s] = 0
           /\ current[s] = NoChunk /\ finalizeQueue[s] = <<>> /\ muted[s] = {}
  BY DEF Init, WorkerInit, IdleVad
<1>2. TypeInv
  <2>1. IdleVad \in Vads /\ 0 \in 0..(FrameUnits - 1) /\ 0 \in 0..MaxUnits
    BY VadAssumption, PipelineAssumption DEF IdleVad, Vads
  <2>2. vad \in [Sources -> Vads] /\ inbox \in Seq(Requests) /\ outbox \in Seq(Messages)
        /\ worker \in {"up", "down"}
    BY <2>1 DEF Init, WorkerInit
  <2>3. StreamTypes
    BY <2>1 DEF Init, StreamTypes
  <2>4. DaemonTypes
    <3>1. rows = <<>> /\ DOMAIN rows = {}
      BY DEF Init
    <3>2. muted \in [Sources -> SUBSET (0..MaxUnits)] /\ segments \in Seq(SegmentRecord)
      BY DEF Init
    <3>3. 0 \in 0..MaxReplays /\ 0 \in 0..MaxFaults
      BY PipelineAssumption
    <3> QED  BY <3>1, <3>2, <3>3 DEF Init, DaemonTypes
  <2> QED  BY <2>2, <2>3, <2>4, TypeParts DEF WorkerTypes, Init
<1>3. \A s \in Sources : Num(s) = 0 /\ Num(s) * ChunkUnits = 0
  BY <1>1, PipelineAssumption DEF Num
<1>4. ChunkInv
  BY <1>1, <1>3, PipelineAssumption DEF ChunkInv, Heard
<1>5. \A s : Audio(s) = {} /\ Spoken(s) = {} /\ Stored(s) = {}
  BY <1>1 DEF Audio, Spoken, Stored
<1>6. \A s \in Sources : ~Open(s)
  BY <1>1 DEF Open
<1>7. InsideInv /\ OrderInv /\ RotationInv
  BY <1>1, <1>5, <1>6 DEF InsideInv, OrderInv, RotationInv
<1>8. SkipInv /\ MutedInv
  BY <1>1, <1>5, <1>6 DEF SkipInv, MutedInv, Init
<1>9. StopInv
  BY <1>1 DEF Init, StopInv
<1> QED  BY <1>2, <1>4, <1>7, <1>8, <1>9 DEF SpeechInv, SayInv

\* Every step keeps it.
LEMMA SpeechStep ==
  ASSUME SpeechInv, [Next]_vars
  PROVE  SpeechInv'
<1>1. TypeInv'
  BY StreamTypeStep, DaemonTypeStep, WorkerTypeStep, TypeParts
     DEF SpeechInv, TypeInv, TypeOK, StreamTypes, DaemonTypes, WorkerTypes
<1>2. ChunkInv' /\ SayInv' /\ StopInv'
  BY ChunkStep, SayStep, StopStep DEF SpeechInv
<1> QED  BY <1>1, <1>2 DEF SpeechInv

\* The invariant holds whatever the sources say, the worker hears and the environment
\* does to them.
THEOREM SpeechInvariant ==
  Spec => []SpeechInv
<1>1. Init => SpeechInv
  BY InitSpeech
<1>2. SpeechInv /\ [Next]_vars => SpeechInv'
  BY SpeechStep
<1> QED  BY <1>1, <1>2, PTL DEF Spec

\* Every variable of the pipeline keeps its type (TypeOK), among them that no source
\* counts past the units it delivers and no row or segment names a chunk that cannot be.
THEOREM TypeCorrect ==
  Spec => []TypeOK
<1>1. SpeechInv => TypeOK
  BY DEF SpeechInv, TypeInv
<1> QED  BY <1>1, SpeechInvariant, PTL

\* The stored segments of a source follow one another without overlap, each within its
\* chunk (SourceVad's take and flush, flushAsrBoundary, handleSegment).
THEOREM StoredInOrder ==
  Spec => []TranscriptOrdered
<1>1. SpeechInv => TranscriptOrdered
  <2> SUFFICES ASSUME SpeechInv  PROVE TranscriptOrdered
    OBVIOUS
  <2>1. \A i \in DOMAIN segments : Inside(segments[i])
    BY DEF SpeechInv, SayInv, InsideInv
  <2>2. ASSUME NEW i \in DOMAIN segments, NEW j \in DOMAIN segments, i < j,
               segments[i].chunk[1] = segments[j].chunk[1]
        PROVE  segments[i].end <= segments[j].start
    <3> DEFINE s == segments[i].chunk[1]
    <3>1. segments[i] \in SegmentRecord
      BY DEF SpeechInv, TypeInv, TypeOK
    <3>2. s \in Sources
      BY <3>1 DEF SegmentRecord, Chunks
    <3>3. i \in Stored(s) /\ j \in Stored(s)
      BY <2>2 DEF Stored
    <3> QED  BY <2>2, <3>2, <3>3 DEF SpeechInv, SayInv, OrderInv
  <2> QED  BY <2>1, <2>2 DEF TranscriptOrdered, Inside
<1> QED  BY <1>1, SpeechInvariant, PTL

\* No stored segment covers a moment at which a replay was suppressing the source
\* (TranscriptionQueue.submitPcm and the flush it sends first).
THEOREM ReplaySkipped ==
  Spec => []SegmentsSkipReplay
<1>1. SpeechInv => SegmentsSkipReplay
  <2> SUFFICES ASSUME SpeechInv, NEW i \in DOMAIN segments,
                      NEW t \in muted[segments[i].chunk[1]]
               PROVE  ~(segments[i].start <= t /\ t < segments[i].end)
    BY DEF SegmentsSkipReplay
  <2>1. segments[i] \in SegmentRecord
    BY DEF SpeechInv, TypeInv, TypeOK
  <2>2. segments[i].chunk[1] \in Sources /\ segments[i].start \in Nat /\ segments[i].end \in Nat
    BY <2>1 DEF SegmentRecord, Chunks
  <2>3. i \in Stored(segments[i].chunk[1])
    BY DEF Stored
  <2>4. t \in Nat
    BY <2>2 DEF SpeechInv, TypeInv, TypeOK
  <2>5. segments[i].end <= t \/ t < segments[i].start
    BY <2>2, <2>3 DEF SpeechInv, SayInv, SkipInv
  <2> QED  BY <2>2, <2>4, <2>5
<1> QED  BY <1>1, SpeechInvariant, PTL

\* The worker never meets a frame of a new chunk with a segment of the old one open:
\* the flush of the rotation has taken it, so take(false) drops no speech there.
THEOREM RotationSafe ==
  Spec => []RotationKeepsSpeech
<1>1. SpeechInv => RotationKeepsSpeech
  <2> SUFFICES ASSUME SpeechInv, NextRequest("audio"), model = "ready"
               PROVE  ~ChunkChanges(vad[Head(inbox).source], Head(inbox))
    BY DEF RotationKeepsSpeech
  <2> QED  BY NoChunkChanges DEF SpeechInv, SayInv, Frame
<1> QED  BY <1>1, SpeechInvariant, PTL

-----------------------------------------------------------------------------
(* No flush is forgotten. *)

Asked(id) == \E i \in DOMAIN inbox : inbox[i].type = "flush" /\ inbox[i].id = id
Answered(id) == \E i \in DOMAIN outbox : outbox[i].type = "flushed" /\ outbox[i].id = id

AnswersInv == worker = "up" => \A id \in flushes : Asked(id) \/ Answered(id)

\* Every step keeps every flush asked or answered.
LEMMA AnswersStep ==
  ASSUME SpeechInv, AnswersInv, [Next]_vars
  PROVE  AnswersInv'
<1>1. ASSUME NEW reqs \in Seq(Requests), Send(reqs), UNCHANGED <<outbox, worker>>
      PROVE  AnswersInv'
  <2> SUFFICES ASSUME worker = "up", NEW id \in flushes'
               PROVE  Asked(id)' \/ Answered(id)'
    BY <1>1 DEF AnswersInv
  <2>1. proc
    BY DEF SpeechInv, StopInv
  <2>2. /\ \A i \in DOMAIN inbox : i \in DOMAIN inbox' /\ inbox'[i] = inbox[i]
        /\ \A n \in DOMAIN reqs :
             Len(inbox) + n \in DOMAIN inbox' /\ inbox'[Len(inbox) + n] = reqs[n]
    BY <1>1, <2>1, InboxSent DEF Send, SpeechInv
  <2>3. CASE id \in flushes
    BY <1>1, <2>2, <2>3 DEF AnswersInv, Asked, Answered
  <2>4. CASE id \in FlushesIn(reqs)
    <3>1. PICK n \in DOMAIN reqs : reqs[n].type = "flush" /\ reqs[n].id = id
      BY <2>4 DEF FlushesIn
    <3> QED  BY <2>2, <3>1 DEF Asked
  <2> QED  BY <1>1, <2>1, <2>3, <2>4 DEF Send
<1>2. ASSUME flushes' \subseteq flushes, UNCHANGED <<inbox, outbox, worker>>
      PROVE  AnswersInv'
  BY <1>2 DEF AnswersInv, Asked, Answered
<1>3. ASSUME NEW s \in Sources, \/ Resolve(s) \/ FinalizeChunk(s) \/ FinalFlushed(s) \/ Exited(s)
                                \/ BlobFails(s) \/ ResolveFails(s) \/ ChildExit(s)
                                \/ InsertFailsSck(s)
      PROVE  AnswersInv'
  <2>1. flushes' \subseteq flushes /\ UNCHANGED <<inbox, outbox, worker>>
    BY <1>3 DEF Resolve, FinalizeChunk, FinalFlushed, Exited, BlobFails, ResolveFails, ChildExit,
                InsertFailsSck, queueVars, workerVars
  <2> QED  BY <1>2, <2>1
<1>4. ASSUME NEW s \in Sources, LoopExit(s) \/ InsertFails(s)
      PROVE  AnswersInv'
  <2> DEFINE req == FlushRequest(<<s, "last", samples[s]>>, s)
  <2>1. req \in Requests
    BY NumType DEF FlushRequest, Requests, FlushRequests, FlushIds, SpeechInv
  <2>2. Send(<<req>>) /\ UNCHANGED <<outbox, worker>> /\ <<req>> \in Seq(Requests)
    BY <1>4, <2>1 DEF LoopExit, InsertFails, Finalize, engineVars
  <2> HIDE DEF req
  <2> QED  BY <1>1, <2>2
<1>5. ASSUME NEW s \in Sources, FinalFlush(s)
      PROVE  AnswersInv'
  <2> DEFINE req == FlushRequest(FinalFlushId(s), s)
  <2>1. req \in Requests
    BY DEF FlushRequest, Requests, FlushRequests, FlushIds, FinalFlushId
  <2>2. Send(<<req>>) /\ UNCHANGED <<outbox, worker>> /\ <<req>> \in Seq(Requests)
    BY <1>5, <2>1 DEF FinalFlush, engineVars
  <2> HIDE DEF req
  <2> QED  BY <1>1, <2>2
<1>6. ASSUME RunnersDone
      PROVE  AnswersInv'
  <2> DEFINE req == FlushRequest(StopFlushId, "all")
  <2>1. req \in Requests
    BY DEF FlushRequest, Requests, FlushRequests, FlushIds, StopFlushId
  <2>2. Send(<<req>>) /\ UNCHANGED <<outbox, worker>> /\ <<req>> \in Seq(Requests)
    BY <1>6, <2>1 DEF RunnersDone, engineVars
  <2> HIDE DEF req
  <2> QED  BY <1>1, <2>2
<1>7. ASSUME StopFlushed
      PROVE  AnswersInv'
  <2>1. Send(<<ShutdownRequest>>) /\ UNCHANGED <<outbox, worker>>
    BY <1>7 DEF StopFlushed, engineVars
  <2>2. <<ShutdownRequest>> \in Seq(Requests)
    BY DEF ShutdownRequest, Requests
  <2> QED  BY <1>1, <2>1, <2>2
<1>8. ASSUME NEW s \in Sources, NEW sound, Read(s, sound)
      PROVE  AnswersInv'
  <2>1. /\ Send(Submission(s, Chunk(s, Num(s)), sound) \o Boundary(s))
        /\ UNCHANGED <<outbox, worker>>
    BY <1>8 DEF Read, engineVars
  <2>2. Submission(s, Chunk(s, Num(s)), sound) \o Boundary(s) \in Seq(Requests)
    BY SubmissionType DEF SpeechInv
  <2> QED  BY <1>1, <2>1, <2>2
<1>9. ASSUME \/ Stop \/ WorkerClosed \/ CloseStore \/ WorkerClose \/ ReplayStarts \/ ReplayEnds
             \/ FlushTimeout \/ UNCHANGED vars
      PROVE  AnswersInv'
  <2>1. flushes' \subseteq flushes /\ UNCHANGED <<inbox, outbox, worker>>
    BY <1>9 DEF Stop, WorkerClosed, CloseStore, WorkerClose, ReplayStarts, ReplayEnds, FlushTimeout,
                vars, queueVars, workerVars
  <2> QED  BY <1>2, <2>1
<1>10. ASSUME WorkerCrash \/ ShutdownTimeout \/ AnswerShutdown
       PROVE  AnswersInv'
  BY <1>10 DEF WorkerCrash, ShutdownTimeout, KillWorker, AnswerShutdown, AnswersInv
<1>11. ASSUME Deliver
       PROVE  AnswersInv'
  <2> SUFFICES ASSUME worker = "up", NEW id \in flushes'
               PROVE  Asked(id)' \/ Answered(id)'
    BY <1>11 DEF AnswersInv, Deliver
  <2>1. /\ outbox # <<>> /\ outbox' = Tail(outbox) /\ inbox' = inbox
        /\ id \in flushes /\ (Head(outbox).type # "segment" => id # Head(outbox).id)
    BY <1>11 DEF Deliver
  <2>2. outbox \in Seq(Messages)
    BY DEF SpeechInv, TypeInv
  <2>3. CASE Asked(id)
    BY <2>1, <2>3 DEF Asked
  <2>4. CASE Answered(id)
    <3>1. PICK i \in DOMAIN outbox : outbox[i].type = "flushed" /\ outbox[i].id = id
      BY <2>4 DEF Answered
    <3>2. i # 1
      BY <2>1, <2>2, <3>1
    <3>3. i - 1 \in DOMAIN outbox' /\ outbox'[i - 1] = outbox[i]
      BY <2>1, <2>2, <3>1, <3>2
    <3> QED  BY <3>1, <3>3 DEF Answered
  <2> QED  BY <2>1, <2>3, <2>4 DEF AnswersInv
<1>12. ASSUME Worker, ~AnswerShutdown
       PROVE  AnswersInv'
  <2>1. /\ flushes' = flushes /\ worker' = worker
        /\ LoadModel \/ HandleAudio \/ (\E s \in Sources : FlushSource(s)) \/ AnswerFlush
    BY <1>12 DEF Worker, WorkerNext, queueVars, LoadModel, HandleAudio, FlushSource, AnswerFlush
  <2>2. outbox \in Seq(Messages)
    BY DEF SpeechInv, TypeInv
  <2>3. ASSUME NEW m, outbox' = outbox \/ outbox' = Append(outbox, m), NEW id, Answered(id)
        PROVE  Answered(id)'
    <3>1. PICK i \in DOMAIN outbox : outbox[i].type = "flushed" /\ outbox[i].id = id
      BY <2>3 DEF Answered
    <3>2. i \in DOMAIN outbox' /\ outbox'[i] = outbox[i]
      BY <2>2, <2>3, <3>1
    <3> QED  BY <3>1, <3>2 DEF Answered
  <2>4. ASSUME inbox # <<>>, inbox' = Tail(inbox), NEW id, Asked(id),
               ~(Head(inbox).type = "flush" /\ Head(inbox).id = id)
        PROVE  Asked(id)'
    <3>1. inbox \in Seq(Requests)
      BY DEF SpeechInv, TypeInv
    <3>2. PICK i \in DOMAIN inbox : inbox[i].type = "flush" /\ inbox[i].id = id
      BY <2>4 DEF Asked
    <3>3. i # 1
      BY <2>4, <3>1, <3>2
    <3>4. i - 1 \in DOMAIN inbox' /\ inbox'[i - 1] = inbox[i]
      BY <2>4, <3>1, <3>2, <3>3
    <3> QED  BY <3>2, <3>4 DEF Asked
  <2>5. CASE LoadModel
    BY <2>1, <2>5, <1>2 DEF LoadModel
  <2>6. CASE HandleAudio
    <3>1. inbox # <<>> /\ inbox' = Tail(inbox) /\ Head(inbox).type = "audio"
      BY <2>6 DEF HandleAudio, NextRequest, RequestDone
    <3>2. \E m : outbox' = outbox \/ outbox' = Append(outbox, m)
      BY <2>6, HandleAudioShape DEF SpeechInv, SayInv
    <3> QED  BY <2>1, <2>3, <2>4, <3>1, <3>2 DEF AnswersInv
  <2>7. ASSUME NEW s \in Sources, FlushSource(s)
        PROVE  AnswersInv'
    <3>1. inbox' = inbox
      BY <2>7 DEF FlushSource
    <3>2. \E m : outbox' = outbox \/ outbox' = Append(outbox, m)
      BY <2>7, FlushShape DEF SpeechInv
    <3> QED  BY <2>1, <2>3, <3>1, <3>2 DEF AnswersInv, Asked
  <2>8. CASE AnswerFlush
    <3>1. /\ inbox # <<>> /\ inbox' = Tail(inbox)
          /\ outbox' = Append(outbox, FlushedMessage(Head(inbox).id))
      BY <2>8 DEF AnswerFlush, NextRequest, RequestDone
    <3>2. ASSUME NEW id, id = Head(inbox).id
          PROVE  Answered(id)'
      <4>1. Len(outbox) + 1 \in DOMAIN outbox'
            /\ outbox'[Len(outbox) + 1] = FlushedMessage(Head(inbox).id)
        BY <2>2, <3>1
      <4> QED  BY <3>2, <4>1 DEF Answered, FlushedMessage
    <3>3. ASSUME NEW id \in flushes, worker = "up"
          PROVE  Asked(id)' \/ Answered(id)'
      <4>1. CASE Answered(id)
        BY <2>3, <3>1, <4>1
      <4>2. CASE Asked(id) /\ id # Head(inbox).id
        BY <2>4, <3>1, <4>2
      <4>3. CASE id = Head(inbox).id
        BY <3>2, <4>3
      <4> QED  BY <3>3, <4>1, <4>2, <4>3 DEF AnswersInv
    <3> QED  BY <2>1, <3>3 DEF AnswersInv
  <2> QED  BY <2>1, <2>5, <2>6, <2>7, <2>8
<1> QED
  BY <1>3, <1>4, <1>5, <1>6, <1>7, <1>8, <1>9, <1>10, <1>11, <1>12
     DEF Next, Stream, Stopping, Engine, Environment, Stopped, Worker, WorkerNext

\* While the worker runs, every flush the daemon waits for (Parakeet's pending map) is
\* still to be read by it or already answered on its stdout.
THEOREM FlushesKept ==
  Spec => []FlushesAnswered
<1>1. Init => SpeechInv /\ AnswersInv
  BY InitSpeech DEF Init, AnswersInv
<1>2. SpeechInv /\ AnswersInv /\ [Next]_vars => (SpeechInv /\ AnswersInv)'
  BY SpeechStep, AnswersStep
<1>3. SpeechInv /\ AnswersInv => FlushesAnswered
  BY DEF AnswersInv, Asked, Answered, FlushesAnswered, FlushesIn
<1> QED  BY <1>1, <1>2, <1>3, PTL DEF Spec

-----------------------------------------------------------------------------
(* Rows: what is inserted, and what has a row. *)

\* A step leaves the rows alone, makes a row final, or is the read that inserts one.
LEMMA RowsChange ==
  ASSUME TypeInv, ChunkInv, RowsInv, [Next]_vars
  PROVE  \/ rows' = rows
         \/ \E s \in Sources : /\ FinalizeChunk(s) /\ Head(finalizeQueue[s]) \in DOMAIN rows
                               /\ rows' = [rows EXCEPT ![Head(finalizeQueue[s])] = "final"]
         \/ \E s \in Sources : \E sound \in Sounds(s) :
              Read(s, sound) /\ current[s] = NoChunk /\ rows' = WithRow(Chunk(s, Num(s)))
<1>1. ASSUME NEW s \in Sources, NEW sound \in Sounds(s), Read(s, sound)
      PROVE  rows' = rows \/ (current[s] = NoChunk /\ rows' = WithRow(Chunk(s, Num(s))))
  BY <1>1 DEF Read, InsertRow
<1>2. ASSUME NEW s \in Sources, FinalizeChunk(s)
      PROVE  \/ rows' = rows
             \/ /\ Head(finalizeQueue[s]) \in DOMAIN rows
                /\ rows' = [rows EXCEPT ![Head(finalizeQueue[s])] = "final"]
  BY <1>2 DEF FinalizeChunk
<1>3. ASSUME NEW s \in Sources, \/ Resolve(s) \/ LoopExit(s) \/ FinalFlush(s) \/ FinalFlushed(s)
                                \/ Exited(s) \/ InsertFails(s) \/ InsertFailsSck(s) \/ BlobFails(s)
                                \/ ResolveFails(s) \/ ChildExit(s)
      PROVE  rows' = rows
  BY <1>3 DEF Resolve, LoopExit, FinalFlush, FinalFlushed, Exited, InsertFails, InsertFailsSck,
              BlobFails, ResolveFails, ChildExit, storeVars
<1>4. ASSUME \/ Stop \/ Stopping \/ Engine \/ ReplayStarts \/ ReplayEnds \/ FlushTimeout
             \/ WorkerCrash \/ ShutdownTimeout \/ UNCHANGED vars
      PROVE  rows' = rows
  BY <1>4 DEF Stop, Stopping, RunnersDone, StopFlushed, WorkerClosed, CloseStore, Engine, Worker,
              Deliver, WorkerClose, ReplayStarts, ReplayEnds, FlushTimeout, WorkerCrash,
              ShutdownTimeout, vars, storeVars
<1> QED  BY <1>1, <1>2, <1>3, <1>4 DEF Next, Stream, Environment, Stopped

\* Rows are never removed.
LEMMA RowsGrow ==
  ASSUME TypeInv, ChunkInv, RowsInv, [Next]_vars
  PROVE  DOMAIN rows \subseteq DOMAIN rows'
<1>1. ASSUME NEW c  PROVE DOMAIN rows \subseteq DOMAIN WithRow(c)
  BY DEF WithRow
<1>2. ASSUME NEW c \in DOMAIN rows  PROVE DOMAIN [rows EXCEPT ![c] = "final"] = DOMAIN rows
  BY DEF RowsInv
<1> QED  BY <1>1, <1>2, RowsChange

\* The chunk of a source that still reads is the last one with a row.
LEMMA RowsStep ==
  ASSUME TypeInv, ChunkInv, RowsInv, [Next]_vars
  PROVE  RowsInv'
<1>1. rows' = [c \in DOMAIN rows' |-> rows'[c]]
  BY RowsChange DEF RowsInv, WithRow
<1>2. ASSUME NEW s \in Sources, phase[s] \in {"resolving", "reading"}, NEW n \in 0..MaxUnits,
             Chunk(s, n) \in DOMAIN rows
      PROVE  n < Num(s) \/ n = current[s]
  BY <1>2 DEF RowsInv
<1>3. ASSUME DOMAIN rows' = DOMAIN rows, UNCHANGED <<samples, current>>,
             \A s \in Sources : phase'[s] \in {"resolving", "reading"}
                                  => phase[s] \in {"resolving", "reading"}
      PROVE  RowsInv'
  BY <1>1, <1>2, <1>3 DEF RowsInv, Num, Chunk
<1>4. ASSUME NEW s \in Sources, \/ Resolve(s) \/ FinalFlush(s) \/ FinalFlushed(s) \/ Exited(s)
                                \/ BlobFails(s) \/ ResolveFails(s) \/ ChildExit(s)
                                \/ FinalizeChunk(s)
      PROVE  RowsInv'
  <2>1. UNCHANGED <<samples, current>>
    BY <1>4 DEF Resolve, FinalFlush, FinalFlushed, Exited, BlobFails, ResolveFails, ChildExit,
                FinalizeChunk
  <2>2. DOMAIN rows' = DOMAIN rows
    BY <1>4 DEF Resolve, FinalFlush, FinalFlushed, Exited, BlobFails, ResolveFails, ChildExit,
                FinalizeChunk, storeVars, RowsInv
  <2>3. \A d \in Sources : phase'[d] \in {"resolving", "reading"}
                             => phase[d] \in {"resolving", "reading"}
    BY <1>4 DEF Resolve, FinalFlush, FinalFlushed, Exited, BlobFails, ResolveFails, ChildExit,
                FinalizeChunk, TypeInv, TypeOK
  <2> QED  BY <1>3, <2>1, <2>2, <2>3
<1>5. ASSUME NEW s \in Sources, LoopExit(s) \/ InsertFails(s)
      PROVE  RowsInv'
  <2>1. rows' = rows /\ phase'[s] = "draining"
    BY <1>5 DEF LoopExit, InsertFails, Finalize, storeVars, TypeInv, TypeOK
  <2>2. \A d \in Sources \ {s} : phase'[d] = phase[d] /\ current'[d] = current[d]
                                 /\ samples'[d] = samples[d]
    BY <1>5 DEF LoopExit, InsertFails, Finalize, TypeInv, TypeOK
  <2> QED  BY <1>1, <1>2, <2>1, <2>2 DEF RowsInv, Num, Chunk
<1>6. ASSUME NEW s \in Sources, InsertFailsSck(s)
      PROVE  RowsInv'
  <2>1. PICK more \in 1..(ChunkUnits - 1) : samples' = [samples EXCEPT ![s] = @ + more]
    BY <1>6 DEF InsertFailsSck
  <2>2. /\ Num(s)' = Num(s)
        /\ \A d \in Sources \ {s} : Num(d)' = Num(d)
    BY <1>6, <2>1, InsertFailsNumbers DEF InsertFailsSck
  <2>3. /\ rows' = rows /\ phase' = phase /\ current[s] = NoChunk
        /\ \A d \in Sources \ {s} : current'[d] = current[d]
    BY <1>6 DEF InsertFailsSck, storeVars, TypeInv, TypeOK
  <2>4. \A n \in 0..MaxUnits : n # NoChunk
    BY PipelineAssumption
  <2>5. ASSUME NEW d \in Sources, phase'[d] \in {"resolving", "reading"}, NEW n \in 0..MaxUnits,
               Chunk(d, n) \in DOMAIN rows'
        PROVE  n < Num(d)' \/ n = current'[d]
    <3>1. n < Num(d) \/ n = current[d]
      BY <1>2, <2>3, <2>5
    <3> QED  BY <2>2, <2>3, <2>4, <3>1
  <2> QED  BY <1>1, <2>5 DEF RowsInv, Chunk
<1>7. ASSUME NEW s \in Sources, NEW sound, Read(s, sound)
      PROVE  RowsInv'
  <2>1. /\ Num(s)' = IF Full(s) THEN Num(s) + 1 ELSE Num(s)
        /\ \A d \in Sources \ {s} : Num(d)' = Num(d)
    BY <1>7, ReadNumbers DEF Read, Rotate
  <2>2. Num(s) \in Nat /\ (current[s] # NoChunk => Num(s) = current[s])
    BY NumType DEF Num
  <2>3. /\ phase' = phase /\ phase[s] = "reading"
        /\ current'[s] = IF Full(s) THEN NoChunk ELSE Num(s)
        /\ \A d \in Sources \ {s} : current'[d] = current[d]
    BY <1>7 DEF Read, Rotate, HasAudio, TypeInv, TypeOK
  <2>4. \A c \in DOMAIN rows' : c \in DOMAIN rows \/ c = Chunk(s, Num(s))
    BY <1>7 DEF Read, InsertRow, WithRow
  <2>5. ASSUME NEW d \in Sources, phase'[d] \in {"resolving", "reading"}, NEW n \in 0..MaxUnits,
               Chunk(d, n) \in DOMAIN rows'
        PROVE  n < Num(d)' \/ n = current'[d]
    <3>1. CASE Chunk(d, n) \in DOMAIN rows
      <4>1. n < Num(d) \/ n = current[d]
        BY <1>2, <2>3, <2>5, <3>1
      <4>2. CASE d # s
        BY <2>1, <2>3, <4>1, <4>2
      <4>3. CASE d = s
        <5>1. n < Num(s) \/ n = Num(s)
          BY <2>2, <4>1, <4>3, PipelineAssumption
        <5> QED  BY <2>1, <2>2, <2>3, <4>3, <5>1
      <4> QED  BY <4>2, <4>3
    <3>2. CASE Chunk(d, n) = Chunk(s, Num(s))
      <4>1. d = s /\ n = Num(s)
        BY <3>2 DEF Chunk
      <4> QED  BY <2>1, <2>2, <2>3, <4>1
    <3> QED  BY <2>4, <2>5, <3>1, <3>2
  <2> QED  BY <1>1, <2>5 DEF RowsInv, Chunk
<1>8. ASSUME \/ Stop \/ Stopping \/ Engine \/ ReplayStarts \/ ReplayEnds \/ FlushTimeout
             \/ WorkerCrash \/ ShutdownTimeout \/ UNCHANGED vars
      PROVE  RowsInv'
  <2>1. UNCHANGED <<samples, current, phase, rows>>
    BY <1>8 DEF Stop, Stopping, RunnersDone, StopFlushed, WorkerClosed, CloseStore, Engine, Worker,
                Deliver, WorkerClose, ReplayStarts, ReplayEnds, FlushTimeout, WorkerCrash,
                ShutdownTimeout, vars, streamVars, storeVars
  <2> QED  BY <1>3, <2>1
<1> QED  BY <1>4, <1>5, <1>6, <1>7, <1>8 DEF Next, Stream, Environment, Stopped

\* What the worker holds and says comes of what it held and read.
Traced ==
  \A s \in Sources :
    /\ \A i \in Audio(s)' : \E j \in Audio(s) : inbox'[i] = inbox[j]
    /\ Open(s)' => \/ Open(s) /\ vad'[s] = vad[s]
                   \/ \E j \in Audio(s) : vad'[s].chunk = inbox[j].chunk
    /\ \A i \in Spoken(s)' :
         \/ \E j \in Spoken(s) : outbox'[i] = outbox[j]
         \/ Open(s) /\ outbox'[i].segment.chunk = vad[s].chunk
         \/ \E j \in Audio(s) : outbox'[i].segment.chunk = inbox[j].chunk

\* Reading the inbox takes from it.
LEMMA ReadTraced ==
  ASSUME TypeInv, inbox # <<>>, inbox' = Tail(inbox), NEW s
  PROVE  \A i \in Audio(s)' : \E j \in Audio(s) : inbox'[i] = inbox[j]
  BY InboxRead

\* A message that is written is found last in the outbox.
LEMMA WriteTraced ==
  ASSUME TypeInv, NEW m \in Messages, outbox' = outbox \/ outbox' = Append(outbox, m), NEW s,
         NEW i \in Spoken(s)'
  PROVE  \/ i \in Spoken(s) /\ outbox'[i] = outbox[i]
         \/ outbox'[i] = m /\ m.type = "segment" /\ m.segment.chunk[1] = s
<1>1. CASE outbox' = outbox
  BY <1>1 DEF Spoken
<1>2. CASE outbox' = Append(outbox, m)
  <2>1. /\ DOMAIN outbox' = DOMAIN outbox \cup {Len(outbox) + 1}
        /\ outbox'[Len(outbox) + 1] = m
        /\ \A j \in DOMAIN outbox : outbox'[j] = outbox[j]
    BY <1>2, OutboxSaid
  <2> QED  BY <2>1 DEF Spoken
<1> QED  BY <1>1, <1>2

\* Handling a frame: the segment has the frame's chunk, ...
LEMMA AudioTraced ==
  ASSUME TypeInv, SayInv, HandleAudio
  PROVE  Traced
<1> DEFINE s == Frame.source
<1>1. /\ inbox # <<>> /\ inbox' = Tail(inbox)
      /\ Frame \in AudioRequests /\ Frame = inbox[1] /\ 1 \in Audio(s) /\ s \in Sources
      /\ Frame.chunk \in Chunks /\ Frame.chunk[1] = s
  <2>1. /\ Frame \in AudioRequests /\ Frame = inbox[1] /\ 1 \in Audio(s) /\ s \in Sources
        /\ inbox # <<>> /\ inbox' = Tail(inbox)
    BY NoChunkChanges DEF HandleAudio, RequestDone, NextRequest, SayInv
  <2>2. Frame.chunk[1] = s
    BY <2>1 DEF SayInv, InsideInv
  <2> QED  BY <2>1, <2>2 DEF AudioRequests
<1>2. \A d \in Sources : \A i \in Audio(d)' : \E j \in Audio(d) : inbox'[i] = inbox[j]
  BY <1>1, ReadTraced
<1>3. CASE vad' = vad /\ outbox' = outbox
  BY <1>2, <1>3 DEF Traced, Open, Spoken
<1>4. CASE /\ Grown \in Vads /\ Grown.chunk = Frame.chunk
           /\ \/ vad' = [vad EXCEPT ![s] = Grown] /\ outbox' = outbox
              \/ /\ vad' = [vad EXCEPT ![s] = IdleVad]
                 /\ \/ outbox' = outbox
                    \/ outbox' = Append(outbox, FinalMessage(Segment(Grown)))
  <2> DEFINE m == FinalMessage(Segment(Grown))
  <2>1. m \in Messages /\ m.segment.chunk = Frame.chunk
    BY <1>1, <1>4 DEF FinalMessage, Segment, Messages, SegmentMessages, SegmentRecord, Vads
  <2>2. \A d \in Sources : Open(d)' =>
          (Open(d) /\ vad'[d] = vad[d]) \/ \E j \in Audio(d) : vad'[d].chunk = inbox[j].chunk
    BY <1>1, <1>4 DEF Open, IdleVad, TypeInv
  <2>3. outbox' = outbox \/ outbox' = Append(outbox, m)
    BY <1>4
  <2> HIDE DEF m
  <2>4. ASSUME NEW d \in Sources, NEW i \in Spoken(d)'
        PROVE  \/ \E j \in Spoken(d) : outbox'[i] = outbox[j]
               \/ \E j \in Audio(d) : outbox'[i].segment.chunk = inbox[j].chunk
    BY <1>1, <2>1, <2>3, WriteTraced
  <2> QED  BY <1>2, <2>2, <2>4 DEF Traced
<1> QED  BY <1>3, <1>4, HandleAudioShape DEF SayInv

\* ... a flush says what is open, ...
LEMMA FlushTraced ==
  ASSUME TypeInv, SayInv, NEW s \in Sources, FlushSource(s)
  PROVE  Traced
<1> DEFINE m == FinalMessage(Segment(vad[s]))
<1>1. /\ Open(s) /\ vad' = [vad EXCEPT ![s] = IdleVad] /\ inbox' = inbox
      /\ outbox' = outbox \/ outbox' = Append(outbox, m)
  BY FlushShape DEF FlushSource
<1>2. vad[s] \in Vads /\ vad[s].chunk \in Chunks /\ vad[s].chunk[1] = s
  BY <1>1 DEF TypeInv, SayInv, InsideInv, Vads
<1>3. m \in Messages /\ m.segment.chunk = vad[s].chunk
  BY <1>2 DEF FinalMessage, Segment, Messages, SegmentMessages, SegmentRecord, Vads
<1>4. \A d \in Sources : Open(d)' => Open(d) /\ vad'[d] = vad[d]
  BY <1>1 DEF Open, IdleVad, TypeInv
<1>5. \A d \in Sources : \A i \in Audio(d)' : \E j \in Audio(d) : inbox'[i] = inbox[j]
  BY <1>1 DEF Audio
<1> HIDE DEF m
<1>6. ASSUME NEW d \in Sources, NEW i \in Spoken(d)'
      PROVE  \/ \E j \in Spoken(d) : outbox'[i] = outbox[j]
             \/ Open(d) /\ outbox'[i].segment.chunk = vad[d].chunk
  BY <1>1, <1>2, <1>3, WriteTraced
<1> QED  BY <1>4, <1>5, <1>6 DEF Traced

\* ... and its answer says nothing.
LEMMA AnswerTraced ==
  ASSUME TypeInv, AnswerFlush \/ AnswerShutdown
  PROVE  Traced
<1>1. inbox # <<>> /\ inbox' = Tail(inbox) /\ vad' = vad
  BY DEF AnswerFlush, AnswerShutdown, NextRequest, RequestDone
<1>2. ASSUME NEW d \in Sources, NEW i \in Spoken(d)'
      PROVE  \E j \in Spoken(d) : outbox'[i] = outbox[j]
  <2>1. CASE AnswerFlush
    <3>1. Head(inbox) \in Requests /\ Head(inbox).type = "flush"
      BY <1>1, <2>1, InboxRead DEF AnswerFlush, NextRequest
    <3>2. Head(inbox).id \in FlushIds
      BY <3>1, RequestKinds DEF FlushRequests
    <3>3. FlushedMessage(Head(inbox).id) \in Messages
          /\ FlushedMessage(Head(inbox).id).type # "segment"
      BY <3>2 DEF FlushedMessage, Messages
    <3> QED  BY <1>2, <2>1, <3>3, WriteTraced DEF AnswerFlush
  <2>2. CASE AnswerShutdown
    BY <1>2, <2>2 DEF AnswerShutdown, Spoken
  <2> QED  BY <2>1, <2>2
<1>3. \A d \in Sources : Open(d)' => Open(d) /\ vad'[d] = vad[d]
  BY <1>1 DEF Open
<1> QED  BY <1>1, <1>2, <1>3, ReadTraced DEF Traced

\* Before anything has failed, what is open, read or said belongs to a chunk with a row.
LEMMA KnownStep ==
  ASSUME SpeechInv, RowsInv, KnownInv, [Next]_vars
  PROVE  KnownInv'
<1>1. DOMAIN rows \subseteq DOMAIN rows'
  BY RowsGrow DEF SpeechInv
<1>2. ASSUME NEW kind, Fault(kind)  PROVE KnownInv'
  <2>1. faults' # 0
    BY <1>2 DEF Fault, SpeechInv, TypeInv, TypeOK
  <2> QED  BY <2>1 DEF KnownInv
<1>3. ASSUME faults' = faults, Traced, \A s \in Sources : current'[s] \in {current[s], NoChunk}
      PROVE  KnownInv'
  <2> SUFFICES ASSUME faults = 0, NEW s \in Sources
               PROVE
      /\ current'[s] # NoChunk => Chunk(s, current'[s]) \in DOMAIN rows'
      /\ \A i \in Audio(s)' : inbox'[i].chunk \in DOMAIN rows'
      /\ Open(s)' => vad'[s].chunk \in DOMAIN rows'
      /\ \A i \in Spoken(s)' : outbox'[i].segment.chunk \in DOMAIN rows'
    BY <1>3 DEF KnownInv, Chunk
  <2>1. /\ current[s] # NoChunk => Chunk(s, current[s]) \in DOMAIN rows
        /\ \A i \in Audio(s) : inbox[i].chunk \in DOMAIN rows
        /\ Open(s) => vad[s].chunk \in DOMAIN rows
        /\ \A i \in Spoken(s) : outbox[i].segment.chunk \in DOMAIN rows
    BY DEF KnownInv
  <2>2. current'[s] # NoChunk => Chunk(s, current'[s]) \in DOMAIN rows'
    BY <1>1, <1>3, <2>1 DEF Traced
  <2>3. \A i \in Audio(s)' : inbox'[i].chunk \in DOMAIN rows'
    BY <1>1, <1>3, <2>1 DEF Traced
  <2>4. Open(s)' => vad'[s].chunk \in DOMAIN rows'
    BY <1>1, <1>3, <2>1 DEF Traced
  <2>5. \A i \in Spoken(s)' : outbox'[i].segment.chunk \in DOMAIN rows'
    BY <1>1, <1>3, <2>1 DEF Traced
  <2> QED  BY <2>2, <2>3, <2>4, <2>5
<1>4. ASSUME UNCHANGED <<faults, vad, outbox>>,
             \A s \in Sources : current'[s] \in {current[s], NoChunk},
             \A s \in Sources : \A i \in Audio(s)' : i \in Audio(s) /\ inbox'[i] = inbox[i]
      PROVE  KnownInv'
  BY <1>3, <1>4 DEF Traced, Open, Spoken
<1>5. ASSUME UNCHANGED <<faults, vad, outbox, inbox, current>>
      PROVE  KnownInv'
  BY <1>4, <1>5 DEF Audio
<1>6. ASSUME NEW s \in Sources, \/ Resolve(s) \/ FinalizeChunk(s) \/ FinalFlushed(s) \/ Exited(s)
      PROVE  KnownInv'
  BY <1>5, <1>6 DEF Resolve, FinalizeChunk, FinalFlushed, Exited, workerVars, faultVars
<1>7. ASSUME NEW s \in Sources, \/ ResolveFails(s) \/ InsertFails(s) \/ InsertFailsSck(s)
                                \/ BlobFails(s) \/ ChildExit(s)
      PROVE  KnownInv'
  BY <1>2, <1>7 DEF ResolveFails, InsertFails, InsertFailsSck, BlobFails, ChildExit
<1>8. ASSUME NEW s \in Sources, LoopExit(s)
      PROVE  KnownInv'
  <2> DEFINE req == FlushRequest(<<s, "last", samples[s]>>, s)
  <2>1. req \in Requests /\ req.type # "audio"
    BY NumType DEF FlushRequest, Requests, FlushRequests, FlushIds, SpeechInv
  <2>2. Send(<<req>>) /\ UNCHANGED <<faults, vad, outbox>>
    BY <1>8 DEF LoopExit, Finalize, engineVars, faultVars
  <2>3. \A d \in Sources : current'[d] \in {current[d], NoChunk}
    BY <1>8 DEF LoopExit, Finalize, SpeechInv, TypeInv, TypeOK
  <2> HIDE DEF req
  <2>4. \A d \in Sources : \A i \in Audio(d)' : i \in Audio(d) /\ inbox'[i] = inbox[i]
    BY <2>1, <2>2, FlushSent DEF SpeechInv
  <2> QED  BY <1>4, <2>2, <2>3, <2>4
<1>9. ASSUME NEW s \in Sources, FinalFlush(s)
      PROVE  KnownInv'
  <2> DEFINE req == FlushRequest(FinalFlushId(s), s)
  <2>1. req \in Requests /\ req.type # "audio"
    BY DEF FlushRequest, Requests, FlushRequests, FlushIds, FinalFlushId
  <2>2. Send(<<req>>) /\ UNCHANGED <<faults, vad, outbox, current>>
    BY <1>9 DEF FinalFlush, engineVars, faultVars
  <2> HIDE DEF req
  <2>3. \A d \in Sources : \A i \in Audio(d)' : i \in Audio(d) /\ inbox'[i] = inbox[i]
    BY <2>1, <2>2, FlushSent DEF SpeechInv
  <2> QED  BY <1>4, <2>2, <2>3
<1>10. ASSUME RunnersDone \/ StopFlushed
       PROVE  KnownInv'
  <2>1. FlushRequest(StopFlushId, "all") \in Requests /\ ShutdownRequest \in Requests
        /\ FlushRequest(StopFlushId, "all").type # "audio" /\ ShutdownRequest.type # "audio"
    BY DEF FlushRequest, Requests, FlushRequests, FlushIds, StopFlushId, ShutdownRequest
  <2>2. PICK req \in Requests : req.type # "audio" /\ Send(<<req>>)
    BY <1>10, <2>1 DEF RunnersDone, StopFlushed
  <2>3. UNCHANGED <<faults, vad, outbox, current>>
    BY <1>10 DEF RunnersDone, StopFlushed, engineVars, faultVars, streamVars
  <2>4. \A d \in Sources : \A i \in Audio(d)' : i \in Audio(d) /\ inbox'[i] = inbox[i]
    BY <2>2, FlushSent DEF SpeechInv
  <2> QED  BY <1>4, <2>3, <2>4
<1>11. ASSUME \/ Stop \/ WorkerClosed \/ CloseStore \/ WorkerClose \/ ReplayStarts \/ ReplayEnds
              \/ FlushTimeout \/ UNCHANGED vars
       PROVE  KnownInv'
  <2>1. UNCHANGED <<faults, vad, outbox, inbox, current>>
    BY <1>11 DEF Stop, WorkerClosed, CloseStore, WorkerClose, ReplayStarts, ReplayEnds, FlushTimeout,
                 vars, faultVars, workerVars, streamVars
  <2> QED  BY <1>5, <2>1
<1>12. ASSUME WorkerCrash
       PROVE  KnownInv'
  BY <1>2, <1>12 DEF WorkerCrash
<1>13. ASSUME ShutdownTimeout
       PROVE  KnownInv'
  <2>1. KillWorker /\ UNCHANGED <<faults, outbox, current>>
    BY <1>13 DEF ShutdownTimeout, streamVars
  <2>2. \A d \in Sources : Audio(d)' = {} /\ ~Open(d)' /\ Spoken(d)' = Spoken(d)
    BY <2>1 DEF KillWorker, Audio, Open, IdleVad, Spoken
  <2> QED  BY <1>3, <2>1, <2>2 DEF Traced
<1>14. ASSUME NEW s \in Sources, NEW sound, Read(s, sound)
       PROVE  KnownInv'
  <2> SUFFICES ASSUME faults = 0, NEW d \in Sources
               PROVE
      /\ current'[d] # NoChunk => Chunk(d, current'[d]) \in DOMAIN rows'
      /\ \A i \in Audio(d)' : inbox'[i].chunk \in DOMAIN rows'
      /\ Open(d)' => vad'[d].chunk \in DOMAIN rows'
      /\ \A i \in Spoken(d)' : outbox'[i].segment.chunk \in DOMAIN rows'
    BY <1>14 DEF KnownInv, Chunk, Read, faultVars
  <2>1. /\ current[d] # NoChunk => Chunk(d, current[d]) \in DOMAIN rows
        /\ \A i \in Audio(d) : inbox[i].chunk \in DOMAIN rows
        /\ Open(d) => vad[d].chunk \in DOMAIN rows
        /\ \A i \in Spoken(d) : outbox[i].segment.chunk \in DOMAIN rows
    BY DEF KnownInv
  <2>2. Chunk(s, Num(s)) \in DOMAIN rows'
    <3>1. CASE current[s] = NoChunk
      BY <1>14, <3>1 DEF Read, InsertRow, WithRow
    <3>2. CASE current[s] # NoChunk
      BY <1>1, <3>2 DEF Num, KnownInv
    <3> QED  BY <3>1, <3>2
  <2>3. current'[d] # NoChunk => Chunk(d, current'[d]) \in DOMAIN rows'
    <3>1. CASE d = s
      BY <1>14, <2>2, <3>1 DEF Read, Rotate, SpeechInv, TypeInv, TypeOK
    <3>2. CASE d # s
      BY <1>1, <1>14, <2>1, <3>2 DEF Read, Rotate, SpeechInv, TypeInv, TypeOK
    <3> QED  BY <3>1, <3>2
  <2>4. ASSUME NEW i \in Audio(d)'
        PROVE  inbox'[i].chunk \in DOMAIN rows'
    <3>1. (i \in Audio(d) /\ inbox'[i] = inbox[i]) \/ inbox'[i].chunk = Chunk(d, Num(d))
      BY <1>14, ReadHears DEF SpeechInv, Hears, NewFrame
    <3>2. CASE i \in Audio(d) /\ inbox'[i] = inbox[i]
      BY <1>1, <2>1, <3>2
    <3>3. CASE inbox'[i].chunk = Chunk(d, Num(d)) /\ ~(i \in Audio(d) /\ inbox'[i] = inbox[i])
      <4>1. CASE d = s
        BY <2>2, <3>3, <4>1
      <4>2. CASE d # s
        BY <1>14, <2>4, <3>3, <4>2, ReadHears DEF SpeechInv
      <4> QED  BY <4>1, <4>2
    <3> QED  BY <3>1, <3>2, <3>3
  <2>5. UNCHANGED <<vad, outbox>>
    BY <1>14 DEF Read, engineVars
  <2> QED  BY <1>1, <2>1, <2>3, <2>4, <2>5 DEF Open, Spoken
<1>15. ASSUME Deliver
       PROVE  KnownInv'
  <2>1. /\ outbox # <<>> /\ outbox' = Tail(outbox)
        /\ UNCHANGED <<inbox, vad, faults, current>>
    BY <1>15 DEF Deliver, streamVars, faultVars
  <2>2. outbox \in Seq(Messages)
    BY DEF SpeechInv, TypeInv
  <2>3. ASSUME NEW s \in Sources, NEW i \in Spoken(s)'
        PROVE  \E j \in Spoken(s) : outbox'[i] = outbox[j]
    <3>1. i + 1 \in DOMAIN outbox /\ outbox'[i] = outbox[i + 1]
      BY <2>1, <2>2 DEF Spoken
    <3> QED  BY <3>1 DEF Spoken
  <2>4. \A s \in Sources : Audio(s)' = Audio(s) /\ (Open(s)' <=> Open(s))
    BY <2>1 DEF Audio, Open
  <2> QED  BY <1>3, <2>1, <2>3, <2>4 DEF Traced
<1>16. ASSUME Worker
       PROVE  KnownInv'
  <2>1. UNCHANGED <<faults, current>>
    BY <1>16 DEF Worker, streamVars, faultVars
  <2>2. CASE LoadModel
    BY <1>5, <2>1, <2>2 DEF LoadModel
  <2>3. CASE HandleAudio
    BY <1>3, <2>1, <2>3, AudioTraced DEF SpeechInv
  <2>4. ASSUME NEW s \in Sources, FlushSource(s)
        PROVE  KnownInv'
    BY <1>3, <2>1, <2>4, FlushTraced DEF SpeechInv
  <2>5. CASE AnswerFlush \/ AnswerShutdown
    BY <1>3, <2>1, <2>5, AnswerTraced DEF SpeechInv
  <2> QED  BY <1>16, <2>2, <2>3, <2>4, <2>5 DEF Worker, WorkerNext
<1> QED
  BY <1>6, <1>7, <1>8, <1>9, <1>10, <1>11, <1>12, <1>13, <1>14, <1>15, <1>16
     DEF Next, Stream, Stopping, Engine, Environment, Stopped

\* A segment is lost only when something has failed: what is said has its row, and the
\* store stays open until the worker has closed its stdout.
LEMMA LostStep ==
  ASSUME SpeechInv, KnownInv, NothingLost, [Next]_vars
  PROVE  NothingLost'
<1>1. ASSUME Deliver  PROVE NothingLost'
  <2> SUFFICES ASSUME Undisturbed'  PROVE lost' = {}
    BY DEF NothingLost
  <2>1. Undisturbed /\ faults = 0 /\ ~timedOut /\ outbox # <<>>
    BY <1>1 DEF Deliver, faultVars, Undisturbed
  <2>2. lost = {}
    BY <2>1 DEF NothingLost
  <2>3. CASE Head(outbox).type # "segment"
    BY <1>1, <2>2, <2>3 DEF Deliver
  <2>4. CASE Head(outbox).type = "segment"
    <3>1. proc
      BY <2>1 DEF SpeechInv, StopInv
    <3>2. storeOpen
      BY <2>1, <3>1 DEF SpeechInv, StopInv
    <3>3. outbox \in Seq(Messages) /\ 1 \in DOMAIN outbox /\ Head(outbox) = outbox[1]
      BY <2>1 DEF SpeechInv, TypeInv
    <3>4. outbox[1] \in Messages /\ outbox[1].type = "segment"
      BY <2>4, <3>3
    <3>5. outbox[1].segment.chunk[1] \in Sources
      BY <3>4 DEF Messages, SegmentMessages, SegmentRecord, Chunks
    <3>6. 1 \in Spoken(outbox[1].segment.chunk[1])
      BY <3>3, <3>4 DEF Spoken
    <3>7. Head(outbox).segment.chunk \in DOMAIN rows
      BY <2>1, <3>3, <3>5, <3>6 DEF KnownInv
    <3> QED  BY <1>1, <2>2, <2>4, <3>2, <3>7 DEF Deliver, HandleSegment
  <2> QED  BY <2>3, <2>4
<1>2. ASSUME lost' = lost, Undisturbed' => Undisturbed  PROVE NothingLost'
  BY <1>2 DEF NothingLost
<1>3. ASSUME NEW kind, Fault(kind)  PROVE NothingLost'
  <2>1. faults' # 0
    BY <1>3 DEF Fault, SpeechInv, TypeInv, TypeOK
  <2> QED  BY <2>1 DEF NothingLost, Undisturbed
<1>4. ASSUME NEW s \in Sources, \/ Resolve(s) \/ LoopExit(s) \/ FinalizeChunk(s) \/ FinalFlush(s)
                                \/ FinalFlushed(s) \/ Exited(s)
                                \/ \E sound \in Sounds(s) : Read(s, sound)
      PROVE  NothingLost'
  <2>1. lost' = lost /\ UNCHANGED faultVars
    BY <1>4 DEF Resolve, LoopExit, FinalizeChunk, FinalFlush, FinalFlushed, Exited, Read, storeVars
  <2> QED  BY <1>2, <2>1 DEF faultVars, Undisturbed
<1>5. ASSUME NEW s \in Sources, \/ InsertFails(s) \/ InsertFailsSck(s) \/ BlobFails(s)
                                \/ ResolveFails(s) \/ ChildExit(s)
      PROVE  NothingLost'
  BY <1>3, <1>5 DEF InsertFails, InsertFailsSck, BlobFails, ResolveFails, ChildExit
<1>6. ASSUME Stop \/ Stopping \/ Worker \/ WorkerClose \/ ReplayStarts \/ ReplayEnds
             \/ UNCHANGED vars
      PROVE  NothingLost'
  <2>1. lost' = lost /\ UNCHANGED faultVars
    BY <1>6 DEF Stop, Stopping, RunnersDone, StopFlushed, WorkerClosed, CloseStore, Worker,
                WorkerClose, ReplayStarts, ReplayEnds, vars, storeVars
  <2> QED  BY <1>2, <2>1 DEF faultVars, Undisturbed
<1>7. ASSUME FlushTimeout \/ ShutdownTimeout  PROVE NothingLost'
  <2>1. timedOut'
    BY <1>7 DEF FlushTimeout, ShutdownTimeout, Timeout
  <2> QED  BY <2>1 DEF NothingLost, Undisturbed
<1>8. ASSUME WorkerCrash  PROVE NothingLost'
  BY <1>3, <1>8 DEF WorkerCrash
<1> QED  BY <1>1, <1>4, <1>5, <1>6, <1>7, <1>8 DEF Next, Stream, Engine, Environment, Stopped

\* Unless something fails or a timer gives up on the worker, no segment finds its chunk's
\* row missing or the store closed (handleSegment; the order of Orchestrator.stop).
THEOREM AllKept ==
  Spec => []NothingLost
<1> DEFINE IInv == SpeechInv /\ RowsInv /\ KnownInv /\ NothingLost
<1>1. Init => IInv
  <2> SUFFICES ASSUME Init  PROVE IInv
    OBVIOUS
  <2>1. DOMAIN rows = {} /\ lost = {} /\ inbox = <<>> /\ outbox = <<>>
        /\ vad = [s \in Sources |-> IdleVad] /\ current = [s \in Sources |-> NoChunk]
    BY DEF Init, WorkerInit
  <2>2. RowsInv
    BY <2>1 DEF Init, RowsInv
  <2>3. KnownInv
    BY <2>1 DEF KnownInv, Audio, Open, Spoken, IdleVad
  <2> QED  BY <2>1, <2>2, <2>3, InitSpeech DEF NothingLost
<1>2. IInv /\ [Next]_vars => IInv'
  BY SpeechStep, RowsStep, KnownStep, LostStep DEF SpeechInv
<1>3. IInv => NothingLost
  OBVIOUS
<1> QED  BY <1>1, <1>2, <1>3, PTL DEF Spec

-----------------------------------------------------------------------------
(* The pipeline implements Transcript. *)

\* The row that a read inserts is the next chunk of its source.
LEMMA ReadAddsChunk ==
  ASSUME SpeechInv, RowsInv, NEW s \in Sources, NEW sound, Read(s, sound)
  PROVE  Index!Next \/ UNCHANGED Index!indexVars
<1>1. UNCHANGED <<segments, storeOpen>>
  BY DEF Read
<1>2. CASE current[s] # NoChunk
  BY <1>1, <1>2 DEF Read, InsertRow, Index!indexVars
<1>3. CASE current[s] = NoChunk
  <2> DEFINE n == Num(s)
             new == <<s, n>>
  <2>1. rows' = WithRow(new) /\ phase[s] = "reading"
    BY <1>3 DEF Read, InsertRow, HasAudio, Chunk
  <2>2. storeOpen
    BY <2>1 DEF SpeechInv, StopInv
  <2>3. ASSUME NEW c \in DOMAIN rows, c[1] = s  PROVE c[2] < n
    <3>1. c \in Sources \X (0..MaxUnits)
      BY DEF SpeechInv, TypeInv, TypeOK, Chunks
    <3>2. c = Chunk(s, c[2]) /\ c[2] \in 0..MaxUnits /\ c[2] # NoChunk
      BY <2>3, <3>1, PipelineAssumption DEF Chunk
    <3> QED  BY <1>3, <2>1, <3>2 DEF RowsInv
  <2>4. n \in Nat
    BY NumType DEF SpeechInv
  <2>5. new \notin DOMAIN rows
    BY <2>3, <2>4
  <2>6. /\ rows' = [c \in DOMAIN rows \cup {new} |-> IF c = new THEN "open" ELSE rows[c]]
        /\ new \in DOMAIN rows'
    BY <2>1, <2>5 DEF WithRow
  <2>7. Index!AddChunk(s, n)
    BY <1>1, <2>2, <2>3, <2>6 DEF Index!AddChunk
  <2>8. new \in Index!NewChunks /\ new[1] = s /\ new[2] = n
    BY <2>5, <2>6 DEF Index!NewChunks
  <2> HIDE DEF new, n
  <2>9. \E c \in Index!NewChunks : Index!AddChunk(c[1], c[2])
    BY <2>7, <2>8
  <2> QED  BY <2>9 DEF Index!Next
<1> QED  BY <1>2, <1>3

\* A chunk is completed at most once, and never after the store is closed.
LEMMA FinalizeCompletes ==
  ASSUME SpeechInv, RowsInv, NEW s \in Sources, FinalizeChunk(s)
  PROVE  Index!Next \/ UNCHANGED Index!indexVars
<1> DEFINE c == Head(finalizeQueue[s])
<1>1. UNCHANGED <<segments, storeOpen>> /\ storeOpen
  BY DEF FinalizeChunk, SpeechInv, StopInv
<1>2. CASE c \notin DOMAIN rows
  BY <1>1, <1>2 DEF FinalizeChunk, Index!indexVars
<1>3. CASE c \in DOMAIN rows
  <2>1. rows' = [rows EXCEPT ![c] = "final"]
    BY <1>3 DEF FinalizeChunk
  <2>2. rows[c] \in {"open", "final"}
    BY <1>3 DEF SpeechInv, TypeInv, TypeOK
  <2> HIDE DEF c
  <2>3. CASE rows[c] = "open"
    BY <1>1, <1>3, <2>1, <2>3 DEF Index!Next, Index!CompleteChunk
  <2>4. CASE rows[c] = "final"
    <3>1. rows = [d \in DOMAIN rows |-> rows[d]]
      BY DEF RowsInv
    <3>2. rows' = rows
      BY <1>3, <2>1, <2>4, <3>1
    <3> QED  BY <1>1, <3>2 DEF Index!indexVars
  <2> QED  BY <2>2, <2>3, <2>4
<1> QED  BY <1>2, <1>3

\* A segment that is stored lies in its chunk, after all that its source said before.
LEMMA DeliverAddsSegment ==
  ASSUME SpeechInv, Deliver
  PROVE  Index!Next \/ UNCHANGED Index!indexVars
<1>1. UNCHANGED <<rows, storeOpen>> /\ outbox # <<>>
  BY DEF Deliver
<1>2. CASE segments' = segments
  BY <1>1, <1>2 DEF Index!indexVars
<1>3. CASE segments' # segments
  <2> DEFINE g == Head(outbox).segment
             s == g.chunk[1]
  <2>1. /\ Head(outbox).type = "segment" /\ storeOpen /\ g.chunk \in DOMAIN rows
        /\ segments' = Append(segments, g)
    BY <1>3 DEF Deliver, HandleSegment
  <2>2. /\ outbox[1] \in Messages /\ 1 \in DOMAIN outbox /\ Head(outbox) = outbox[1]
        /\ segments \in Seq(SegmentRecord)
    BY <1>1 DEF SpeechInv, TypeInv, TypeOK
  <2>3. g \in SegmentRecord /\ outbox[1].segment = g
    BY <2>1, <2>2 DEF Messages, SegmentMessages
  <2>4. s \in Sources /\ g.chunk[2] \in Nat /\ g.end \in Nat
    BY <2>3 DEF SegmentRecord, Chunks
  <2>5. 1 \in Spoken(s)
    BY <2>1, <2>2, <2>3 DEF Spoken
  <2>6. Inside(g)
    BY <2>3, <2>4, <2>5 DEF SpeechInv, SayInv, InsideInv
  <2>7. ASSUME NEW i \in DOMAIN segments, segments[i].chunk[1] = g.chunk[1]
        PROVE  segments[i].end <= g.start
    <3>1. i \in Stored(s)
      BY <2>7 DEF Stored
    <3> QED  BY <2>3, <2>4, <2>5, <3>1 DEF SpeechInv, SayInv, OrderInv
  <2>8. /\ Len(segments') > Len(segments) /\ segments'[Len(segments')] = g
    BY <2>1, <2>2, <2>3
  <2> HIDE DEF g, s
  <2>9. Index!Inside(g)
    <3>1. (g.chunk[2] + 1) * ChunkUnits = g.chunk[2] * ChunkUnits + ChunkUnits
      BY <2>4, PipelineAssumption
    <3> QED  BY <2>6, <3>1 DEF Index!Inside, Inside, ChunkStart
  <2>10. Index!AddSegment(g)
    BY <1>1, <2>1, <2>7, <2>9 DEF Index!AddSegment, Index!After
  <2> QED  BY <2>8, <2>10 DEF Index!Next
<1> QED  BY <1>2, <1>3

\* Every step is a step of Transcript or changes nothing there.
LEMMA IndexStep ==
  ASSUME SpeechInv, RowsInv, [Next]_vars
  PROVE  Index!Next \/ UNCHANGED Index!indexVars
<1>1. ASSUME UNCHANGED <<rows, segments, storeOpen>>
      PROVE  UNCHANGED Index!indexVars
  BY <1>1 DEF Index!indexVars
<1>2. ASSUME NEW s \in Sources, \/ Resolve(s) \/ LoopExit(s) \/ FinalFlush(s) \/ FinalFlushed(s)
                                \/ Exited(s) \/ InsertFails(s) \/ InsertFailsSck(s) \/ BlobFails(s)
                                \/ ResolveFails(s) \/ ChildExit(s)
      PROVE  UNCHANGED Index!indexVars
  BY <1>1, <1>2 DEF Resolve, LoopExit, FinalFlush, FinalFlushed, Exited, InsertFails,
                    InsertFailsSck, BlobFails, ResolveFails, ChildExit, storeVars
<1>3. ASSUME \/ Stop \/ RunnersDone \/ StopFlushed \/ WorkerClosed \/ Worker \/ WorkerClose
             \/ ReplayStarts \/ ReplayEnds \/ FlushTimeout \/ WorkerCrash \/ ShutdownTimeout
             \/ UNCHANGED vars
      PROVE  UNCHANGED Index!indexVars
  BY <1>1, <1>3 DEF Stop, RunnersDone, StopFlushed, WorkerClosed, Worker, WorkerClose, ReplayStarts,
                    ReplayEnds, FlushTimeout, WorkerCrash, ShutdownTimeout, vars, storeVars
<1>4. ASSUME CloseStore  PROVE Index!Next
  <2>1. storeOpen /\ ~storeOpen' /\ UNCHANGED <<rows, segments>>
    BY <1>4 DEF CloseStore, SpeechInv, StopInv
  <2>2. storeOpen' = FALSE
    BY <1>4 DEF CloseStore
  <2> QED  BY <2>1, <2>2 DEF Index!Next, Index!Close
<1> QED
  BY <1>2, <1>3, <1>4, ReadAddsChunk, FinalizeCompletes, DeliverAddsSegment
     DEF Next, Stream, Stopping, Engine, Environment, Stopped

\* The pipeline implements what Transcript promises of the index: chunks in the order of
\* time, rows that only become final, segments inside their chunk and after what was said
\* before, and nothing once Orchestrator.stop has closed the store.
THEOREM IndexAsPromised ==
  Spec => ImplementsTranscript
<1>1. Init => SpeechInv /\ RowsInv /\ Index!Init
  <2> SUFFICES ASSUME Init  PROVE RowsInv /\ Index!Init
    BY InitSpeech
  <2>1. rows = <<>> /\ DOMAIN rows = {} /\ segments = <<>> /\ storeOpen = TRUE
    BY DEF Init
  <2>2. RowsInv
    BY <2>1 DEF Init, RowsInv
  <2> QED  BY <2>1, <2>2 DEF Index!Init
<1>2. SpeechInv /\ RowsInv /\ [Next]_vars => (SpeechInv /\ RowsInv)'
  BY SpeechStep, RowsStep DEF SpeechInv
<1>3. SpeechInv /\ RowsInv /\ [Next]_vars => [Index!Next]_Index!indexVars
  BY IndexStep
<1> QED  BY <1>1, <1>2, <1>3, PTL DEF Spec, ImplementsTranscript, Index!Spec
=============================================================================
