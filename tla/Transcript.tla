------------------------------ MODULE Transcript ------------------------------
(***************************************************************************)
(* What the index promises about recorded audio, whatever the streams, the *)
(* worker and the shutdown do: the chunks of a source are added in order   *)
(* of time, a row only ever turns from open to final, a segment is added   *)
(* to a chunk that is there, inside the chunk and after what that source   *)
(* said before, and nothing changes once the store is closed.              *)
(***************************************************************************)
EXTENDS Naturals, Sequences

CONSTANTS Sources, ChunkUnits

VARIABLES rows, segments, storeOpen

indexVars == <<rows, segments, storeOpen>>

Init == rows = <<>> /\ segments = <<>> /\ storeOpen = TRUE

\* A chunk is a pair of its source and its number.
AddChunk(s, n) ==
  /\ storeOpen
  /\ \A c \in DOMAIN rows : c[1] = s => c[2] < n
  /\ rows' = [c \in DOMAIN rows \cup {<<s, n>>} |-> IF c = <<s, n>> THEN "open" ELSE rows[c]]
  /\ UNCHANGED <<segments, storeOpen>>

CompleteChunk(c) ==
  /\ storeOpen
  /\ rows[c] = "open"
  /\ rows' = [rows EXCEPT ![c] = "final"]
  /\ UNCHANGED <<segments, storeOpen>>

Inside(g) ==
  /\ g.chunk[2] * ChunkUnits <= g.start
  /\ g.start < g.end
  /\ g.end <= (g.chunk[2] + 1) * ChunkUnits

After(g) ==
  \A i \in DOMAIN segments : segments[i].chunk[1] = g.chunk[1] => segments[i].end <= g.start

AddSegment(g) ==
  /\ storeOpen
  /\ g.chunk \in DOMAIN rows
  /\ Inside(g) /\ After(g)
  /\ segments' = Append(segments, g)
  /\ UNCHANGED <<rows, storeOpen>>

Close == storeOpen /\ storeOpen' = FALSE /\ UNCHANGED <<rows, segments>>

\* The chunk or segment a step adds is read off the next state.
NewChunks == DOMAIN rows' \ DOMAIN rows

Next ==
  \/ \E c \in NewChunks : AddChunk(c[1], c[2])
  \/ \E c \in DOMAIN rows : CompleteChunk(c)
  \/ Len(segments') > Len(segments) /\ AddSegment(segments'[Len(segments')])
  \/ Close

Spec == Init /\ [][Next]_indexVars
=============================================================================
