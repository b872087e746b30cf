----------------------------- MODULE SemanticIndex -----------------------------
(***************************************************************************)
(* How a daemon's pipeline into the semantic index promises to run dry,    *)
(* from its source to its end: screenshots stop first, then transcript     *)
(* segments, then vectors, and then nothing is written any more.  A        *)
(* captured text is never forgotten, and a vector is stored once, for a    *)
(* text that is there.                                                     *)
(***************************************************************************)
EXTENDS Naturals

CONSTANTS Screenshots, Segments

VARIABLES
  captured,  \* texts in the index
  embedded,  \* those with a vector
  stage      \* 0: all is open, 1: no more screenshots, 2: no more segments,
             \* 3: no more vectors either

pipelineVars == <<captured, embedded, stage>>

Init ==
  /\ captured \in SUBSET Segments  \* of earlier daemons
  /\ embedded = {}
  /\ stage = 0

Capture ==
  /\ \E text \in (Screenshots \cup Segments) \ captured :
       /\ text \in Screenshots => stage = 0
       /\ text \in Segments => stage <= 1
       /\ captured' = captured \cup {text}
  /\ UNCHANGED <<embedded, stage>>

\* The vectors of one batch.
Embed ==
  /\ stage <= 2
  /\ \E batch \in SUBSET (captured \ embedded) : embedded' = embedded \cup batch
  /\ UNCHANGED <<captured, stage>>

RunDry ==
  /\ stage' \in (stage + 1)..3
  /\ UNCHANGED <<captured, embedded>>

Next == Capture \/ Embed \/ RunDry

Spec == Init /\ [][Next]_pipelineVars
=============================================================================
