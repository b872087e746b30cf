---------------------------- MODULE MCReplayViewer ----------------------------
(* Instances of ReplayViewer for TLC. *)
EXTENDS ReplayViewer, TLC

\* A replay without audio, from its first page on, and a request that fails.
Lossy(v) ==
  [viewers |-> {v}, manifests |-> <<{}>>, duration |-> 1, loaded |-> FALSE, suppress |-> TRUE,
   controls |-> {"audio", "suppress", "watch"}, lost |-> 1, timed |-> TRUE]

\* Two replays side by side, of which only matters whether they play.
Twins ==
  [viewers |-> Viewers, manifests |-> <<{}>>, duration |-> 1, loaded |-> TRUE, suppress |-> TRUE,
   controls |-> {}, lost |-> 0, timed |-> TRUE]

\* A replay that loads two ranges which share an item, and suppresses nothing.
Sounding(v) ==
  [viewers |-> {v}, manifests |-> <<{0, 1}, {1}>>, duration |-> 2, loaded |-> FALSE,
   suppress |-> FALSE, controls |-> {"audio", "seek", "watch"}, lost |-> 0, timed |-> FALSE]

AllSettings == {Lossy(v) : v \in Viewers} \cup {Sounding(v) : v \in Viewers} \cup {Twins}

ViewerSymmetry == Permutations(Viewers)
=============================================================================
