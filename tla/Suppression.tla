----------------------------- MODULE Suppression ------------------------------
(***************************************************************************)
(* core/transcription_suppression.ts: a replay that is heard must not be   *)
(* transcribed again.  Each replay server writes the marker file under its *)
(* own token and lets it expire; the daemon looks at it for every frame of *)
(* audio.  Servers and daemon are processes of their own: between reading  *)
(* the marker and unlinking it another one may replace it.                 *)
(* Times are relative: `left` is what remains of a marker's `until`.       *)
(***************************************************************************)
EXTENDS Naturals, FiniteSets

CONSTANTS
  Viewers,   \* replay servers, each with the page it has opened
  Ttl,       \* SUPPRESSION_TTL_MS of the page
  NoMarker   \* there is no marker file

ASSUME MarkerAssumption ==
  /\ Ttl \in Nat
  /\ NoMarker \notin [owner : Viewers \cup {"crashed"}, left : Nat]

VARIABLES
  marker,    \* the file, or NoMarker
  cache,     \* the daemon's cachedUntil, and if cachedCheckedAt is recent
  unlinking  \* processes that have decided to unlink the marker

markerVars == <<marker, cache, unlinking>>

Daemon == "daemon"

\* There may be a marker of a replay that has crashed.
MarkerInit ==
  /\ marker \in {NoMarker, [owner |-> "crashed", left |-> 0]}
  /\ cache = [left |-> 0, fresh |-> FALSE]
  /\ unlinking = {}

\* setReplayTranscriptionSuppression: written beside and renamed.
SetMarker(v) ==
  /\ v \notin unlinking
  /\ marker' = [owner |-> v, left |-> Ttl]
  /\ UNCHANGED <<cache, unlinking>>

\* clearReplayTranscriptionSuppression: not the marker of another owner.
ClearMarker(v) ==
  /\ v \notin unlinking
  /\ unlinking' = IF marker # NoMarker /\ marker.owner # v THEN unlinking
                  ELSE unlinking \cup {v}
  /\ UNCHANGED <<marker, cache>>

\* It may be another marker than the one that was read.
Unlink ==
  /\ \E process \in unlinking : unlinking' = unlinking \ {process}
  /\ marker' = NoMarker
  /\ UNCHANGED cache

\* isReplayTranscriptionSuppressed, when the last look is not recent.
LookAtMarker ==
  /\ ~cache.fresh /\ Daemon \notin unlinking
  /\ cache' = [left |-> IF marker = NoMarker THEN 0 ELSE marker.left, fresh |-> TRUE]
  /\ unlinking' = IF marker # NoMarker /\ marker.left = 0 THEN unlinking \cup {Daemon}
                  ELSE unlinking
  /\ UNCHANGED marker

\* What it answers.
Suppressed ==
  IF cache.fresh THEN cache.left > 0 ELSE marker # NoMarker /\ marker.left > 0

Decreased(n) == IF n = 0 THEN 0 ELSE n - 1

\* A second passes, which is more than the 250 ms of the cache and than any
\* process takes from its read to its unlink.
TimePasses ==
  /\ unlinking = {}
  /\ marker' = IF marker = NoMarker THEN NoMarker ELSE [marker EXCEPT !.left = Decreased(@)]
  /\ cache' = [left |-> Decreased(cache.left), fresh |-> FALSE]
  /\ UNCHANGED unlinking
=============================================================================
