----------------------------- MODULE ReplayViewer -----------------------------
(***************************************************************************)
(* replay/server.ts: the server of a replay and the page it serves.  The   *)
(* page plays a manifest, schedules the audio of it as it is decoded, and  *)
(* tells the server every few seconds that it is playing, so that the      *)
(* server keeps the suppression marker alive (Suppression).  The server    *)
(* ends when the page has been silent for a while.                         *)
(* A second is one step of Tick; the two audio tracks of a manifest are    *)
(* treated alike and are one here.  One request is answered at a time, but *)
(* requests of a page may overtake each other.                             *)
(***************************************************************************)
EXTENDS Suppression, Sequences

CONSTANTS
  Settings,     \* how replays are used: records of viewers (who takes part), manifests
                \* (load -> items; an item sounds from its number to the next), their
                \* duration, loaded (the range is there at the start), suppress (the
                \* checkbox), controls (what else the user does), lost (bound on failing
                \* requests) and timed (whether time passes)
  Renew,        \* SUPPRESSION_RENEW_MS
  MaxDelay,     \* what a request takes at most
  NoTimer, NoLoad

ASSUME SettingsAssumption ==
  \A s \in Settings :
    /\ s.viewers \subseteq Viewers
    /\ s.manifests \in Seq(SUBSET Nat) /\ (s.loaded => s.manifests # <<>>)
    /\ s.duration \in Nat /\ s.lost \in Nat
    /\ {s.loaded, s.suppress, s.timed} \subseteq BOOLEAN

ASSUME TimesAssumption ==
  /\ Renew \in Nat \ {0} /\ MaxDelay \in Nat
  /\ \A s \in Settings : (s.lost + 1) * Renew + MaxDelay < Ttl
  /\ {NoTimer, NoLoad} \cap Nat = {}

VARIABLES
  setting,
  page,       \* viewer -> the page's variables, its checkboxes and what the user has done
  player,     \* viewer -> audioEngine, its position and the loading of manifests
  posts,      \* requests to /api/replay-transcription under way
  server,     \* viewer -> whether it runs, and activeBlobs
  lost,       \* number of requests that failed
  settled     \* history: seconds since a page or a server last changed its mind

vars == <<setting, page, player, posts, server, lost, settled, markerVars>>

Loads == DOMAIN setting.manifests
Items(load) == IF load = NoLoad THEN {} ELSE setting.manifests[load]

Init ==
  /\ setting \in Settings
  /\ page = [v \in Viewers |->
       [state |-> IF v \notin setting.viewers THEN "gone"
                  ELSE IF setting.loaded THEN "open" ELSE "unopened",
        playing |-> FALSE, audio |-> TRUE, suppress |-> setting.suppress, timer |-> NoTimer]]
  /\ player = [v \in Viewers |->
       [manifest |-> IF setting.loaded THEN 1 ELSE NoLoad,
        loads |-> [l \in Loads |-> IF setting.loaded THEN "done" ELSE "none"],
        overlapped |-> FALSE,
        position |-> 0, buffers |-> {}, waiting |-> {}, nodes |-> {}]]
  /\ posts = {}
  /\ server = [v \in Viewers |-> [up |-> v \in setting.viewers,
                                  blobs |-> IF setting.loaded THEN 1 ELSE NoLoad]]
  /\ lost = 0 /\ settled = 0
  /\ MarkerInit

\* Until a renewal that was sent after all other requests have arrived is there.
Settling == (setting.lost + 1) * Renew + 2 * MaxDelay
Enough == IF Settling > Ttl + MaxDelay THEN Settling + 1 ELSE Ttl + MaxDelay + 1

-----------------------------------------------------------------------------
(* The page and the marker *)

\* wantsTranscriptionSuppressed
Wants(p) == p.playing /\ p.suppress /\ p.audio

\* postTranscriptionSuppression
Post(v, active) == posts' = posts \cup {[owner |-> v, active |-> active, age |-> 0]}

\* Mutant: no interval is set.
UpdateSuppression_Once(v, p) ==
  /\ page' = [page EXCEPT ![v] = [p EXCEPT !.timer = NoTimer]]
  /\ Post(v, Wants(p))
  /\ settled' = 0

\* updateTranscriptionSuppression, after the page has become p.
UpdateSuppression(v, p) ==
  /\ page' = [page EXCEPT ![v] = [p EXCEPT !.timer = IF Wants(p) THEN Renew ELSE NoTimer]]
  /\ Post(v, Wants(p))
  /\ settled' = 0

\* clearTranscriptionSuppression
ClearSuppression(v, p) ==
  /\ page' = [page EXCEPT ![v] = [p EXCEPT !.timer = NoTimer]]
  /\ Post(v, FALSE)
  /\ settled' = 0

\* The interval: the marker is renewed before it expires.
RenewSuppression ==
  /\ \E v \in Viewers :
       /\ page[v].timer = 0
       /\ IF Wants(page[v])
          THEN Post(v, TRUE) /\ page' = [page EXCEPT ![v].timer = Renew] /\ UNCHANGED settled
          ELSE UpdateSuppression(v, page[v])
  /\ UNCHANGED <<setting, player, server, lost, markerVars>>

-----------------------------------------------------------------------------
(* audioEngine *)

Item(node) == node.item
Playing(p, e) == p.playing /\ p.audio /\ e.manifest # NoLoad

\* Mutant: an item is scheduled whatever its generation.
Scheduled_AnyGeneration(p, e, w) ==
  Playing(p, e) /\ w.item >= e.position /\ ~\E n \in e.nodes : n.item = w.item

\* scheduleItem: does it start the item of a manifest that was seen under a generation?
Scheduled(p, e, w) ==
  /\ w.current /\ Playing(p, e) /\ w.item >= e.position
  /\ ~\E n \in e.nodes : n.item = w.item

\* stop and reset: a new generation.
Stopped(e) == [e EXCEPT !.nodes = {}, !.waiting = {[w EXCEPT !.current = FALSE] : w \in @}]

\* sync: what is decoded is scheduled, the rest is fetched or waited for.
Synced(p, e) ==
  IF ~Playing(p, e) THEN [e EXCEPT !.nodes = {}]
  ELSE LET due     == {i \in Items(e.manifest) : i >= e.position}
           sounding == {Item(n) : n \in e.nodes}
           wait(i) == [item |-> i, load |-> e.manifest, current |-> TRUE]
       IN  [e EXCEPT !.nodes   = @ \cup {[item |-> i, load |-> e.manifest] :
                                            i \in (due \cap e.buffers) \ sounding},
                     !.waiting = @ \cup {wait(i) : i \in (due \ e.buffers) \ sounding}]

\* fetch and decodeAudioData are done, or fail: the blob must be one of the
\* manifest that the server has sent last.
Decoded(v) ==
  /\ \E i \in {w.item : w \in player[v].waiting} :
       LET waiters == {w \in player[v].waiting : w.item = i}
           found   == server[v].up /\ i \in Items(server[v].blobs)
           rest    == [player[v] EXCEPT !.waiting = @ \ waiters,
                                        !.buffers = IF found THEN @ \cup {i} ELSE @]
           ready   == {w \in waiters : found /\ Scheduled(page[v], rest, w)}
       IN  \/ ready = {} /\ player' = [player EXCEPT ![v] = rest]
           \/ \E w \in ready : player' = [player EXCEPT ![v] =
                [rest EXCEPT !.nodes = @ \cup {[item |-> i, load |-> w.load]}]]
  /\ UNCHANGED <<setting, page, posts, server, lost, settled, markerVars>>

\* onended
NodeEnds(v) ==
  /\ \E n \in player[v].nodes :
       /\ n.item < player[v].position
       /\ player' = [player EXCEPT ![v].nodes = @ \ {n}]
  /\ UNCHANGED <<setting, page, posts, server, lost, settled, markerVars>>

-----------------------------------------------------------------------------
(* The user and the page *)

Open(v) == page[v].state = "open"

OpenPage(v) ==
  /\ page[v].state = "unopened" /\ server[v].up
  /\ page' = [page EXCEPT ![v].state = "open"]
  /\ UNCHANGED <<setting, player, posts, server, lost, settled, markerVars>>

Play(v) ==
  /\ Open(v) /\ ~page[v].playing /\ player[v].manifest # NoLoad
  /\ LET p == [page[v] EXCEPT !.playing = TRUE]
         e == [player[v] EXCEPT !.position = IF @ >= setting.duration THEN 0 ELSE @]
     IN  /\ UpdateSuppression(v, p)
         /\ player' = [player EXCEPT ![v] = Synced(p, e)]
  /\ UNCHANGED <<setting, server, lost, markerVars>>

\* pause(), which is called at other places too.
PausedPage(v) == [page[v] EXCEPT !.playing = FALSE]

Pause(v) ==
  /\ Open(v) /\ page[v].playing
  /\ ClearSuppression(v, PausedPage(v))
  /\ player' = [player EXCEPT ![v] = Stopped(@)]
  /\ UNCHANGED <<setting, server, lost, markerVars>>

\* A checkbox of a track.
ToggleAudio(v) ==
  /\ Open(v) /\ "audio" \in setting.controls
  /\ LET p == [page[v] EXCEPT !.audio = ~@]
     IN  /\ UpdateSuppression(v, p)
         /\ player' = [player EXCEPT ![v] = Synced(p, Stopped(@))]
  /\ UNCHANGED <<setting, server, lost, markerVars>>

ToggleSuppress(v) ==
  /\ Open(v) /\ "suppress" \in setting.controls
  /\ LET p == [page[v] EXCEPT !.suppress = ~@]
     IN  /\ UpdateSuppression(v, p)
         /\ player' = [player EXCEPT ![v] = Synced(p, @)]
  /\ UNCHANGED <<setting, server, lost, markerVars>>

\* The slider, the arrow keys, and the speed, which also resets the audio.
Seek(v) ==
  /\ Open(v) /\ "seek" \in setting.controls /\ player[v].manifest # NoLoad
  /\ UpdateSuppression(v, page[v])
  /\ \E position \in 0..setting.duration :
       player' = [player EXCEPT ![v] = Synced(page[v], Stopped([@ EXCEPT !.position = position]))]
  /\ UNCHANGED <<setting, server, lost, markerVars>>

\* tick: an animation frame.
Frame(v) ==
  /\ Open(v) /\ "watch" \in setting.controls /\ page[v].playing
  /\ \E position \in {player[v].position, player[v].position + 1} :
       LET e == [player[v] EXCEPT !.position =
                   IF position < setting.duration THEN position ELSE setting.duration]
       IN  IF position >= setting.duration
           THEN /\ ClearSuppression(v, PausedPage(v))
                /\ player' = [player EXCEPT ![v] = Stopped(e)]
           ELSE /\ player' = [player EXCEPT ![v] = Synced(page[v], e)]
                /\ UNCHANGED <<page, posts, settled>>
  /\ UNCHANGED <<setting, server, lost, markerVars>>

\* loadManifest, up to the request.
Load(v) ==
  /\ Open(v)
  /\ \E l \in Loads :
       /\ player[v].loads[l] = "none"
       /\ ClearSuppression(v, PausedPage(v))
       /\ player' = [player EXCEPT ![v] = [Stopped(player[v]) EXCEPT
            !.manifest = NoLoad, !.loads[l] = "asked",
            !.overlapped = @ \/ \E m \in Loads : player[v].loads[m] \in {"asked", "answered"}]]
  /\ UNCHANGED <<setting, server, lost, markerVars>>

\* The server reads the rows and keeps the paths of their blobs.
AnswerLoad(v) ==
  /\ server[v].up
  /\ \E l \in Loads :
       /\ player[v].loads[l] = "asked"
       /\ player' = [player EXCEPT ![v].loads[l] = "answered"]
       /\ server' = [server EXCEPT ![v].blobs = l]
  /\ UNCHANGED <<setting, page, posts, lost, settled, markerVars>>

\* loadManifest goes on, whatever has happened to the page meanwhile.
Loaded(v) ==
  /\ Open(v)
  /\ \E l \in Loads :
       /\ player[v].loads[l] = "answered"
       /\ player' = [player EXCEPT ![v].loads[l] = "done", ![v].manifest = l, ![v].position = 0]
  /\ UNCHANGED <<setting, page, posts, server, lost, settled, markerVars>>

\* The page is closed, which it says with a last request, or crashes.
LeavePage(v) ==
  /\ Open(v)
  /\ LET p == [page[v] EXCEPT !.state = "gone", !.playing = FALSE]
     IN  \/ ClearSuppression(v, p)
         \/ /\ page' = [page EXCEPT ![v] = [p EXCEPT !.timer = NoTimer]]
            /\ settled' = 0
            /\ UNCHANGED posts
  /\ player' = [player EXCEPT ![v] = [Stopped(@) EXCEPT !.waiting = {}]]
  /\ UNCHANGED <<setting, server, lost, markerVars>>

-----------------------------------------------------------------------------
(* The server *)

\* A request arrives, in any order.
Deliver ==
  /\ \E r \in posts :
       /\ posts' = posts \ {r}
       /\ \/ server[r.owner].up /\ r.active /\ SetMarker(r.owner)
          \/ server[r.owner].up /\ ~r.active /\ ClearMarker(r.owner)
          \/ ~server[r.owner].up /\ UNCHANGED markerVars
  /\ UNCHANGED <<setting, page, player, server, lost, settled>>

\* postTranscriptionSuppression ignores that a request has failed.
LosePost ==
  /\ lost < setting.lost
  /\ \E r \in posts : posts' = posts \ {r}
  /\ lost' = lost + 1
  /\ UNCHANGED <<setting, page, player, server, settled, markerVars>>

\* close(): by a signal at any time, and by the interval that finds that the page
\* has sent no ping for 15 s, or was not opened for 60 s.
CloseServer(v) ==
  /\ server[v].up
  /\ server' = [server EXCEPT ![v].up = FALSE]
  /\ ClearMarker(v)
  /\ settled' = 0
  /\ UNCHANGED <<setting, page, player, posts, lost>>

\* The daemon, for a frame of audio.
DaemonLooks ==
  /\ LookAtMarker
  /\ UNCHANGED <<setting, page, player, posts, server, lost, settled>>

FileUnlinked ==
  /\ Unlink
  /\ UNCHANGED <<setting, page, player, posts, server, lost, settled>>

\* A second.  What is due is done before.
Tick ==
  /\ setting.timed
  /\ \A v \in Viewers : page[v].timer # 0
  /\ \A r \in posts : r.age < MaxDelay
  /\ TimePasses
  /\ page' = [v \in Viewers |-> [page[v] EXCEPT !.timer = IF @ = NoTimer THEN @ ELSE @ - 1]]
  /\ posts' = {[r EXCEPT !.age = @ + 1] : r \in posts}
  /\ settled' = IF settled < Enough THEN settled + 1 ELSE settled
  /\ UNCHANGED <<setting, player, server, lost>>

PageStep(v) == \/ OpenPage(v) \/ Play(v) \/ Pause(v) \/ ToggleAudio(v) \/ ToggleSuppress(v)
               \/ Seek(v) \/ Frame(v) \/ Load(v) \/ Loaded(v) \/ LeavePage(v)
               \/ Decoded(v) \/ NodeEnds(v)

ServerStep(v) == AnswerLoad(v) \/ CloseServer(v)

Next ==
  \/ \E v \in Viewers : PageStep(v) \/ ServerStep(v)
  \/ RenewSuppression \/ Deliver \/ LosePost \/ DaemonLooks \/ FileUnlinked \/ Tick

Spec == Init /\ [][Next]_vars

-----------------------------------------------------------------------------
\* The daemon does not transcribe while a replay plays whose page has wanted
\* that for a while: late, reordered and lost requests, another replay that
\* ends, and the marker of a crashed one are overcome by the next renewal, and
\* the renewals are frequent enough.  And when no replay wants it any more the
\* daemon transcribes again, even if no page or server was able to say so.
SuppressionFollowsReplay ==
  LET wanted == \E v \in Viewers : Open(v) /\ server[v].up /\ Wants(page[v])
  IN  /\ wanted /\ settled > Settling => Suppressed
      /\ ~wanted /\ settled > Ttl + MaxDelay => ~Suppressed

\* What sounds belongs to the manifest that is shown, unless a range was loaded
\* while another one was, and to a page that plays: no decoding that ends late
\* starts an item of a range that was left, or after a pause.
NoStraySound ==
  \A v \in Viewers : \A n \in player[v].nodes :
    /\ Playing(page[v], player[v])
    /\ ~player[v].overlapped => n.load = player[v].manifest
=============================================================================
