-------------------------- MODULE ReplayViewerProofs --------------------------
(***************************************************************************)
(* What TLAPS proves of ReplayViewer and Suppression, for any number of    *)
(* replays, any manifests and any times that satisfy TimesAssumption.      *)
(***************************************************************************)
EXTENDS ReplayViewer, FiniteSetTheorems, TLAPS

-----------------------------------------------------------------------------
(* Types. *)

Pages ==
  [state : {"gone", "open", "unopened"}, playing : BOOLEAN, audio : BOOLEAN, suppress : BOOLEAN,
   timer : (0..Renew) \cup {NoTimer}]
LoadSteps == {"none", "asked", "answered", "done"}
Waiters == [item : Nat, load : Loads, current : BOOLEAN]
Nodes == [item : Nat, load : Loads]
Players ==
  [manifest : Loads \cup {NoLoad}, loads : [Loads -> LoadSteps], overlapped : BOOLEAN,
   position : Nat, buffers : SUBSET Nat, waiting : SUBSET Waiters, nodes : SUBSET Nodes]

PageInv == page \in [Viewers -> Pages]
PlayerInv == setting \in Settings /\ player \in [Viewers -> Players]

\* The engine of a page knows one manifest at a time: what waits under the present
\* generation is of it, and there is none while one is being loaded.
Tuned(e) ==
  ~e.overlapped =>
    /\ \A n \in e.nodes : n.load = e.manifest
    /\ \A w \in e.waiting : w.current => w.load = e.manifest
    /\ \A l \in Loads : e.loads[l] \in {"asked", "answered"} =>
         e.manifest = NoLoad /\ \A m \in Loads : e.loads[m] \in {"asked", "answered"} => m = l

Heard(p, e) == \A n \in e.nodes : Playing(p, e)

SoundInv == \A v \in Viewers : Tuned(player[v]) /\ Heard(page[v], player[v])

-----------------------------------------------------------------------------
(* The operators of audioEngine. *)

\* A load is a number, which "no load" is not.
LEMMA LoadNumbers ==
  ASSUME setting \in Settings
  PROVE  /\ Loads \subseteq Nat /\ NoLoad \notin Loads /\ (setting.loaded => 1 \in Loads)
         /\ \A l \in Loads \cup {NoLoad} : Items(l) \subseteq Nat
         /\ setting.duration \in Nat
<1>1. setting.manifests \in Seq(SUBSET Nat) /\ (setting.loaded => setting.manifests # <<>>)
      /\ setting.duration \in Nat
  BY SettingsAssumption
<1>2. Loads \subseteq Nat /\ (setting.loaded => 1 \in Loads)
  BY <1>1 DEF Loads
<1>3. NoLoad \notin Loads
  BY <1>2, TimesAssumption
<1>4. \A l \in Loads \cup {NoLoad} : Items(l) \subseteq Nat
  BY <1>1, <1>3 DEF Loads, Items
<1> QED  BY <1>1, <1>2, <1>3, <1>4

\* stop() keeps the engine tuned, with nothing that sounds.
LEMMA StoppedTuned ==
  ASSUME setting \in Settings, NEW e \in Players, Tuned(e)
  PROVE  /\ Stopped(e) \in Players /\ Tuned(Stopped(e))
         /\ Stopped(e) = [e EXCEPT !.nodes = {}, !.waiting = Stopped(e).waiting]
         /\ Stopped(e).nodes = {}
         /\ \A w \in Stopped(e).waiting : ~w.current
<1> DEFINE quiet == {[w EXCEPT !.current = FALSE] : w \in e.waiting}
<1>1. quiet \subseteq Waiters /\ \A w \in quiet : w.current = FALSE
  <2>1. e.waiting \subseteq Waiters
    BY DEF Players
  <2>2. ASSUME NEW u \in quiet  PROVE u \in Waiters /\ u.current = FALSE
    <3>1. PICK w \in e.waiting : u = [w EXCEPT !.current = FALSE]
      OBVIOUS
    <3> HIDE DEF quiet
    <3> QED  BY <2>1, <3>1 DEF Waiters
  <2> HIDE DEF quiet
  <2> QED  BY <2>2
<1>2. Stopped(e) = [e EXCEPT !.nodes = {}, !.waiting = quiet]
  BY DEF Stopped, Players
<1> HIDE DEF quiet
<1>3. /\ Stopped(e).nodes = {} /\ Stopped(e).waiting = quiet
      /\ Stopped(e).manifest = e.manifest /\ Stopped(e).loads = e.loads
      /\ Stopped(e).overlapped = e.overlapped
  BY <1>2 DEF Players
<1>4. Stopped(e) \in Players
  BY <1>1, <1>2 DEF Players
<1>5. Tuned(Stopped(e))
  BY <1>1, <1>3 DEF Tuned
<1> QED  BY <1>1, <1>2, <1>3, <1>4, <1>5

\* sync() keeps it tuned, and leaves nothing that sounds on a page that does not play.
LEMMA SyncedTuned ==
  ASSUME setting \in Settings, NEW p, NEW e \in Players, Tuned(e)
  PROVE  Synced(p, e) \in Players /\ Tuned(Synced(p, e)) /\ Heard(p, Synced(p, e))
<1>1. CASE ~Playing(p, e)
  <2>1. Synced(p, e) = [e EXCEPT !.nodes = {}]
    BY <1>1 DEF Synced
  <2> QED  BY <2>1 DEF Players, Tuned, Heard
<1>2. CASE Playing(p, e)
  <2> DEFINE due == {i \in Items(e.manifest) : i >= e.position}
             sounding == {Item(n) : n \in e.nodes}
             started == {[item |-> i, load |-> e.manifest] : i \in (due \cap e.buffers) \ sounding}
             awaited == {[item |-> i, load |-> e.manifest, current |-> TRUE] :
                           i \in (due \ e.buffers) \ sounding}
  <2>1. Synced(p, e) = [e EXCEPT !.nodes = @ \cup started, !.waiting = @ \cup awaited]
    BY <1>2 DEF Synced
  <2>2. e.manifest \in Loads /\ due \subseteq Nat
    BY <1>2, LoadNumbers DEF Playing, Players
  <2>3. /\ started \subseteq Nodes /\ \A n \in started : n.load = e.manifest
        /\ awaited \subseteq Waiters /\ \A w \in awaited : w.load = e.manifest
    <3> DEFINE now == (due \cap e.buffers) \ sounding
               later == (due \ e.buffers) \ sounding
    <3>1. now \subseteq Nat /\ later \subseteq Nat
      BY <2>2
    <3> HIDE DEF now, later, due, sounding
    <3>2. \A i \in now : [item |-> i, load |-> e.manifest] \in Nodes
      BY <2>2, <3>1 DEF Nodes
    <3>3. \A i \in later : [item |-> i, load |-> e.manifest, current |-> TRUE] \in Waiters
      BY <2>2, <3>1 DEF Waiters
    <3>4. started = {[item |-> i, load |-> e.manifest] : i \in now}
      BY Zenon DEF now
    <3>5. awaited = {[item |-> i, load |-> e.manifest, current |-> TRUE] : i \in later}
      BY Zenon DEF later
    <3> HIDE DEF started, awaited
    <3> QED  BY <3>2, <3>3, <3>4, <3>5
  <2> HIDE DEF started, awaited
  <2>4. /\ Synced(p, e).nodes = e.nodes \cup started
        /\ Synced(p, e).waiting = e.waiting \cup awaited
        /\ Synced(p, e).manifest = e.manifest /\ Synced(p, e).loads = e.loads
        /\ Synced(p, e).overlapped = e.overlapped
    BY <2>1 DEF Players
  <2>5. Synced(p, e) \in Players
    BY <2>1, <2>3 DEF Players
  <2>6. Tuned(Synced(p, e))
    BY <2>2, <2>3, <2>4, LoadNumbers DEF Tuned
  <2>7. Heard(p, Synced(p, e))
    BY <1>2, <2>4 DEF Heard, Playing
  <2> QED  BY <2>5, <2>6, <2>7
<1> QED  BY <1>1, <1>2

-----------------------------------------------------------------------------
(* NoStraySound: every step keeps the engine of each page tuned. *)

Inv == PageInv /\ PlayerInv /\ SoundInv

\* A step of one page that leaves its engine tuned, and heard only when it plays.
LEMMA OnePage ==
  ASSUME Inv, setting' = setting, NEW v \in Viewers, NEW p \in Pages, NEW e \in Players,
         page' = [page EXCEPT ![v] = p], player' = [player EXCEPT ![v] = e],
         Tuned(e), Heard(p, e)
  PROVE  Inv'
<1>1. Loads' = Loads /\ Players' = Players
  BY DEF Loads, Players, Waiters, Nodes
<1>2. PageInv' /\ PlayerInv'
  BY <1>1 DEF Inv, PageInv, PlayerInv
<1>3. ASSUME NEW u \in Viewers
      PROVE  Tuned(player[u])' /\ Heard(page[u], player[u])'
  <2>1. CASE u = v
    <3>1. player'[u] = e /\ page'[u] = p
      BY <2>1 DEF Inv, PageInv, PlayerInv
    <3> QED  BY <3>1 DEF Tuned, Heard, Playing, Loads
  <2>2. CASE u # v
    <3>1. player'[u] = player[u] /\ page'[u] = page[u]
      BY <2>2 DEF Inv, PageInv, PlayerInv
    <3> QED  BY <3>1 DEF Inv, SoundInv, Tuned, Heard, Playing, Loads
  <2> QED  BY <2>1, <2>2
<1> QED  BY <1>2, <1>3 DEF Inv, SoundInv

\* What a page says about the suppression does not change whether it plays.
LEMMA SaysSame ==
  ASSUME NEW v \in Viewers, NEW p \in Pages, UpdateSuppression(v, p) \/ ClearSuppression(v, p)
  PROVE  \E q \in Pages : /\ page' = [page EXCEPT ![v] = q]
                          /\ \A e : Playing(q, e) <=> Playing(p, e)
<1>1. Renew \in 0..Renew
  BY TimesAssumption
<1>2. PICK t \in (0..Renew) \cup {NoTimer} : page' = [page EXCEPT ![v] = [p EXCEPT !.timer = t]]
  BY <1>1 DEF UpdateSuppression, ClearSuppression
<1>3. [p EXCEPT !.timer = t] \in Pages
  BY DEF Pages
<1>4. \A e : Playing([p EXCEPT !.timer = t], e) <=> Playing(p, e)
  BY DEF Pages, Playing
<1> QED  BY <1>2, <1>3, <1>4

\* Which is why an engine that is in order for the page is after that as well.
LEMMA PageSays ==
  ASSUME Inv, setting' = setting, NEW v \in Viewers, NEW p \in Pages, NEW e \in Players,
         UpdateSuppression(v, p) \/ ClearSuppression(v, p),
         player' = [player EXCEPT ![v] = e], Tuned(e), Heard(p, e)
  PROVE  Inv'
<1>1. PICK q \in Pages : /\ page' = [page EXCEPT ![v] = q]
                         /\ \A f : Playing(q, f) <=> Playing(p, f)
  BY SaysSame
<1>2. Heard(q, e)
  BY <1>1 DEF Heard
<1> QED  BY <1>1, <1>2, OnePage

\* The page and the engine of a viewer.
LEMMA OfViewer ==
  ASSUME Inv, NEW v \in Viewers
  PROVE  /\ setting \in Settings /\ page[v] \in Pages /\ player[v] \in Players
         /\ Tuned(player[v]) /\ Heard(page[v], player[v])
         /\ page = [page EXCEPT ![v] = page[v]] /\ player = [player EXCEPT ![v] = player[v]]
BY DEF Inv, PageInv, PlayerInv, SoundInv

\* What starts to play, plays on from where it was or from the start.
LEMMA PlaySound == ASSUME Inv, NEW v \in Viewers, Play(v) PROVE Inv'
<1> DEFINE p == [page[v] EXCEPT !.playing = TRUE]
           e == [player[v] EXCEPT !.position = IF @ >= setting.duration THEN 0 ELSE @]
<1>1. p \in Pages
  BY OfViewer DEF Pages
<1>2. e \in Players /\ Tuned(e)
  BY OfViewer DEF Players, Tuned
<1>3. setting' = setting /\ UpdateSuppression(v, p) /\ player' = [player EXCEPT ![v] = Synced(p, e)]
  BY DEF Play
<1> HIDE DEF p, e
<1> QED  BY <1>1, <1>2, <1>3, OfViewer, SyncedTuned, PageSays

\* A pause stops everything.
LEMMA PauseSound == ASSUME Inv, NEW v \in Viewers, Pause(v) PROVE Inv'
<1>1. PausedPage(v) \in Pages
  BY OfViewer DEF Pages, PausedPage
<1>2. Heard(PausedPage(v), Stopped(player[v]))
  BY OfViewer, StoppedTuned DEF Heard
<1>3. setting' = setting /\ ClearSuppression(v, PausedPage(v))
      /\ player' = [player EXCEPT ![v] = Stopped(player[v])]
  BY OfViewer DEF Pause, Inv, PlayerInv
<1> QED  BY <1>1, <1>2, <1>3, OfViewer, StoppedTuned, PageSays

\* A checkbox, and the slider, sync what they have stopped.
LEMMA ControlSound ==
  ASSUME Inv, NEW v \in Viewers, ToggleAudio(v) \/ ToggleSuppress(v) \/ Seek(v)
  PROVE  Inv'
<1>1. CASE ToggleAudio(v)
  <2> DEFINE p == [page[v] EXCEPT !.audio = ~@]
  <2>1. p \in Pages
    BY OfViewer DEF Pages
  <2>2. setting' = setting /\ UpdateSuppression(v, p)
        /\ player' = [player EXCEPT ![v] = Synced(p, Stopped(player[v]))]
    BY <1>1, OfViewer DEF ToggleAudio, Inv, PlayerInv
  <2> HIDE DEF p
  <2>3. Stopped(player[v]) \in Players /\ Tuned(Stopped(player[v]))
    BY OfViewer, StoppedTuned
  <2> QED  BY <2>1, <2>2, <2>3, OfViewer, SyncedTuned, PageSays
<1>2. CASE ToggleSuppress(v)
  <2> DEFINE p == [page[v] EXCEPT !.suppress = ~@]
  <2>1. p \in Pages
    BY OfViewer DEF Pages
  <2>2. setting' = setting /\ UpdateSuppression(v, p)
        /\ player' = [player EXCEPT ![v] = Synced(p, player[v])]
    BY <1>2, OfViewer DEF ToggleSuppress, Inv, PlayerInv
  <2> HIDE DEF p
  <2> QED  BY <2>1, <2>2, OfViewer, SyncedTuned, PageSays
<1>3. CASE Seek(v)
  <2>1. PICK position \in 0..setting.duration :
          player' = [player EXCEPT ![v] =
                       Synced(page[v], Stopped([player[v] EXCEPT !.position = position]))]
    BY <1>3, OfViewer DEF Seek, Inv, PlayerInv
  <2> DEFINE e == [player[v] EXCEPT !.position = position]
  <2>2. e \in Players /\ Tuned(e)
    BY OfViewer, LoadNumbers DEF Players, Tuned
  <2>3. setting' = setting /\ UpdateSuppression(v, page[v])
    BY <1>3 DEF Seek
  <2>4. player' = [player EXCEPT ![v] = Synced(page[v], Stopped(e))]
    BY <2>1
  <2> HIDE DEF e
  <2>5. Stopped(e) \in Players /\ Tuned(Stopped(e))
    BY <2>2, OfViewer, StoppedTuned
  <2> QED  BY <2>3, <2>4, <2>5, OfViewer, SyncedTuned, PageSays
<1> QED  BY <1>1, <1>2, <1>3

\* A frame moves on, or pauses at the end.
LEMMA FrameSound == ASSUME Inv, NEW v \in Viewers, Frame(v) PROVE Inv'
<1>1. PICK position \in {player[v].position, player[v].position + 1} :
        LET e == [player[v] EXCEPT !.position =
                    IF position < setting.duration THEN position ELSE setting.duration]
        IN  IF position >= setting.duration
            THEN /\ ClearSuppression(v, PausedPage(v))
                 /\ player' = [player EXCEPT ![v] = Stopped(e)]
            ELSE /\ player' = [player EXCEPT ![v] = Synced(page[v], e)]
                 /\ UNCHANGED <<page, posts, settled>>
  BY DEF Frame
<1> DEFINE e == [player[v] EXCEPT !.position =
                   IF position < setting.duration THEN position ELSE setting.duration]
<1>2. e \in Players /\ Tuned(e)
  <2>1. (IF position < setting.duration THEN position ELSE setting.duration) \in Nat
    BY OfViewer, LoadNumbers DEF Players
  <2> QED  BY <2>1, OfViewer DEF Players, Tuned
<1>3. setting' = setting
  BY DEF Frame
<1>4. CASE position >= setting.duration
  <2>1. ClearSuppression(v, PausedPage(v)) /\ player' = [player EXCEPT ![v] = Stopped(e)]
    BY <1>1, <1>4
  <2>2. PausedPage(v) \in Pages
    BY OfViewer DEF Pages, PausedPage
  <2> HIDE DEF e
  <2>3. Stopped(e) \in Players /\ Tuned(Stopped(e)) /\ Heard(PausedPage(v), Stopped(e))
    BY <1>2, OfViewer, StoppedTuned DEF Heard
  <2> QED  BY <1>3, <2>1, <2>2, <2>3, PageSays
<1>5. CASE ~(position >= setting.duration)
  <2>1. player' = [player EXCEPT ![v] = Synced(page[v], e)] /\ page' = page
    BY <1>1, <1>5
  <2> HIDE DEF e
  <2>2. /\ Synced(page[v], e) \in Players /\ Tuned(Synced(page[v], e))
        /\ Heard(page[v], Synced(page[v], e))
    BY <1>2, OfViewer, SyncedTuned
  <2> QED  BY <1>3, <2>1, <2>2, OfViewer, OnePage
<1> QED  BY <1>4, <1>5

\* While a range is loaded nothing is scheduled: what waits is of a former generation.
LEMMA LoadSound == ASSUME Inv, NEW v \in Viewers, Load(v) PROVE Inv'
<1>1. PICK l \in Loads :
        /\ player[v].loads[l] = "none"
        /\ ClearSuppression(v, PausedPage(v))
        /\ player' = [player EXCEPT ![v] = [Stopped(player[v]) EXCEPT
             !.manifest = NoLoad, !.loads[l] = "asked",
             !.overlapped = @ \/ \E m \in Loads : player[v].loads[m] \in {"asked", "answered"}]]
  BY DEF Load
<1> DEFINE stopped == Stopped(player[v])
           busy == \E m \in Loads : player[v].loads[m] \in {"asked", "answered"}
           e == [stopped EXCEPT !.manifest = NoLoad, !.loads[l] = "asked",
                                !.overlapped = @ \/ busy]
<1>2. player' = [player EXCEPT ![v] = e]
  BY <1>1, Zenon
<1>3. /\ stopped \in Players /\ Tuned(stopped) /\ stopped.nodes = {}
      /\ stopped.loads = player[v].loads /\ \A w \in stopped.waiting : ~w.current
  <2>1. /\ stopped \in Players /\ Tuned(stopped) /\ stopped.nodes = {}
        /\ stopped = [player[v] EXCEPT !.nodes = {}, !.waiting = stopped.waiting]
        /\ \A w \in stopped.waiting : ~w.current
    BY OfViewer, StoppedTuned
  <2> HIDE DEF stopped
  <2>2. stopped.loads = player[v].loads
    BY <2>1, OfViewer DEF Players
  <2> QED  BY <2>1, <2>2
<1> HIDE DEF stopped
<1>4. busy \in BOOLEAN
  OBVIOUS
<1>5. e \in Players
  BY <1>3, <1>4 DEF Players, LoadSteps
<1>6. /\ e.nodes = {} /\ e.waiting = stopped.waiting /\ e.manifest = NoLoad
      /\ e.loads = [player[v].loads EXCEPT ![l] = "asked"] /\ (~e.overlapped => ~busy)
  BY <1>3, <1>4 DEF Players
<1>7. player[v].loads \in [Loads -> LoadSteps]
  BY OfViewer DEF Players
<1> HIDE DEF e
<1>8. Tuned(e) /\ Heard(PausedPage(v), e)
  BY <1>3, <1>6, <1>7 DEF Tuned, Heard
<1>9. PausedPage(v) \in Pages
  BY OfViewer DEF Pages, PausedPage
<1> QED  BY <1>1, <1>2, <1>5, <1>8, <1>9, PageSays DEF Load

\* The answer of the server changes nothing that sounds.
LEMMA AnswerSound == ASSUME Inv, NEW v \in Viewers, AnswerLoad(v) PROVE Inv'
<1>1. PICK l \in Loads : player[v].loads[l] = "asked"
                         /\ player' = [player EXCEPT ![v].loads[l] = "answered"]
  BY DEF AnswerLoad
<1> DEFINE e == [player[v] EXCEPT !.loads[l] = "answered"]
<1>2. player' = [player EXCEPT ![v] = e]
  BY <1>1, OfViewer DEF Inv, PlayerInv
<1>3. e \in Players /\ Tuned(e) /\ Heard(page[v], e)
  <2>1. e \in Players
    BY OfViewer DEF Players, LoadSteps
  <2>2. /\ e.nodes = player[v].nodes /\ e.waiting = player[v].waiting
        /\ e.manifest = player[v].manifest /\ e.overlapped = player[v].overlapped
        /\ e.loads = [player[v].loads EXCEPT ![l] = "answered"]
        /\ player[v].loads \in [Loads -> LoadSteps]
    BY OfViewer DEF Players
  <2> HIDE DEF e
  <2> QED  BY <1>1, <2>1, <2>2, OfViewer DEF Tuned, Heard, Playing
<1> HIDE DEF e
<1> QED  BY <1>2, <1>3, OfViewer, OnePage DEF AnswerLoad

\* A manifest is shown when nothing sounds and nothing current waits, unless loads overlap.
LEMMA LoadedSound == ASSUME Inv, NEW v \in Viewers, Loaded(v) PROVE Inv'
<1>1. PICK l \in Loads :
        /\ player[v].loads[l] = "answered"
        /\ player' = [player EXCEPT ![v].loads[l] = "done", ![v].manifest = l, ![v].position = 0]
  BY DEF Loaded
<1> DEFINE e == [player[v] EXCEPT !.loads[l] = "done", !.manifest = l, !.position = 0]
<1>2. player' = [player EXCEPT ![v] = e]
  BY <1>1, OfViewer DEF Inv, PlayerInv
<1>3. e \in Players
  <2>1. player[v] \in Players
    BY OfViewer, Zenon
  <2>2. [player[v].loads EXCEPT ![l] = "done"] \in [Loads -> LoadSteps]
    BY <2>1 DEF Players, LoadSteps
  <2> DEFINE loads == [player[v].loads EXCEPT ![l] = "done"]
  <2>3. e = [player[v] EXCEPT !.loads = loads, !.manifest = l, !.position = 0]
    BY <2>1 DEF Players
  <2> HIDE DEF loads, e
  <2>4. loads \in [Loads -> LoadSteps]
    BY <2>2 DEF loads
  <2> QED  BY <2>1, <2>3, <2>4 DEF Players
<1>4. /\ e.nodes = player[v].nodes /\ e.waiting = player[v].waiting
      /\ e.manifest = l /\ e.overlapped = player[v].overlapped
      /\ e.loads = [player[v].loads EXCEPT ![l] = "done"]
      /\ player[v].loads \in [Loads -> LoadSteps] /\ player[v].waiting \subseteq Waiters
  BY OfViewer DEF Players
<1>5. NoLoad \notin Loads
  BY OfViewer, LoadNumbers
<1> HIDE DEF e
<1>6. Heard(page[v], e)
  BY <1>4, <1>5, OfViewer DEF Heard, Playing
<1>7. Tuned(e)
  <2> SUFFICES ASSUME ~e.overlapped PROVE Tuned(e)
    BY DEF Tuned
  <2>1. player[v].manifest = NoLoad
    BY <1>1, <1>4, OfViewer DEF Tuned
  <2>2. e.nodes = {}
    BY <1>4, <2>1, OfViewer DEF Heard, Playing
  <2>3. \A w \in e.waiting : ~w.current
    BY <1>4, <1>5, <2>1, OfViewer DEF Tuned, Waiters
  <2>4. \A m \in Loads : e.loads[m] \notin {"asked", "answered"}
    BY <1>1, <1>4, OfViewer DEF Tuned
  <2> QED  BY <2>2, <2>3, <2>4 DEF Tuned
<1> QED  BY <1>2, <1>3, <1>6, <1>7, OfViewer, OnePage DEF Loaded

\* A page that is left is silent.
LEMMA LeaveSound == ASSUME Inv, NEW v \in Viewers, LeavePage(v) PROVE Inv'
<1> DEFINE p == [page[v] EXCEPT !.state = "gone", !.playing = FALSE]
           e == [Stopped(player[v]) EXCEPT !.waiting = {}]
<1>1. p \in Pages /\ [p EXCEPT !.timer = NoTimer] \in Pages
  BY OfViewer DEF Pages
<1>2. e \in Players /\ Tuned(e) /\ e.nodes = {}
  <2>1. /\ Stopped(player[v]) \in Players /\ Tuned(Stopped(player[v]))
        /\ Stopped(player[v]).nodes = {}
    BY OfViewer, StoppedTuned
  <2> QED  BY <2>1 DEF Players, Tuned
<1>3. setting' = setting
      /\ (ClearSuppression(v, p) \/ page' = [page EXCEPT ![v] = [p EXCEPT !.timer = NoTimer]])
  BY DEF LeavePage
<1>4. player' = [player EXCEPT ![v] = e]
  BY Zenon DEF LeavePage
<1> HIDE DEF p, e
<1>5. Heard(p, e) /\ Heard([p EXCEPT !.timer = NoTimer], e)
  BY <1>2 DEF Heard
<1>6. CASE ClearSuppression(v, p)
  BY <1>1, <1>2, <1>3, <1>4, <1>5, <1>6, PageSays
<1>7. CASE page' = [page EXCEPT ![v] = [p EXCEPT !.timer = NoTimer]]
  BY <1>1, <1>2, <1>3, <1>4, <1>5, <1>7, OnePage
<1> QED  BY <1>3, <1>6, <1>7

\* What has been decoded starts only for a waiter of the present generation, so that it
\* is an item of the manifest that is shown.
LEMMA DecodedSound == ASSUME Inv, NEW v \in Viewers, Decoded(v) PROVE Inv'
<1>1. PICK i \in {w.item : w \in player[v].waiting} :
        LET waiters == {w \in player[v].waiting : w.item = i}
            found   == server[v].up /\ i \in Items(server[v].blobs)
            rest    == [player[v] EXCEPT !.waiting = @ \ waiters,
                                         !.buffers = IF found THEN @ \cup {i} ELSE @]
            ready   == {w \in waiters : found /\ Scheduled(page[v], rest, w)}
        IN  \/ ready = {} /\ player' = [player EXCEPT ![v] = rest]
            \/ \E w \in ready : player' = [player EXCEPT ![v] =
                 [rest EXCEPT !.nodes = @ \cup {[item |-> i, load |-> w.load]}]]
  BY DEF Decoded
<1> DEFINE waiters == {w \in player[v].waiting : w.item = i}
           found   == server[v].up /\ i \in Items(server[v].blobs)
           rest    == [player[v] EXCEPT !.waiting = @ \ waiters,
                                        !.buffers = IF found THEN @ \cup {i} ELSE @]
           ready   == {w \in waiters : found /\ Scheduled(page[v], rest, w)}
           sounding(w) == [rest EXCEPT !.nodes = @ \cup {[item |-> i, load |-> w.load]}]
<1>2. \/ player' = [player EXCEPT ![v] = rest]
      \/ \E w \in ready : player' = [player EXCEPT ![v] = sounding(w)]
  BY <1>1
<1>3. i \in Nat /\ waiters \subseteq player[v].waiting /\ player[v].waiting \subseteq Waiters
  BY OfViewer DEF Players, Waiters
<1> DEFINE buffers == IF found THEN player[v].buffers \cup {i} ELSE player[v].buffers
<1>4. buffers \subseteq Nat
  BY <1>3, OfViewer DEF Players
<1>5. rest = [player[v] EXCEPT !.waiting = @ \ waiters, !.buffers = buffers]
  BY OfViewer DEF Players
<1>6. \A w \in ready : w \in player[v].waiting /\ Scheduled(page[v], rest, w)
  OBVIOUS
<1>7. setting' = setting /\ page' = [page EXCEPT ![v] = page[v]]
  BY OfViewer DEF Decoded
<1> HIDE DEF waiters, found, ready, buffers
<1>8. rest \in Players
  <2>1. player[v] \in Players
    BY OfViewer, Zenon
  <2> DEFINE left == player[v].waiting \ waiters
  <2>2. left \subseteq Waiters
    BY <1>3
  <2>3. rest = [player[v] EXCEPT !.waiting = left, !.buffers = buffers]
    BY <1>5, Zenon
  <2> HIDE DEF left, rest
  <2> QED  BY <1>4, <2>1, <2>2, <2>3 DEF Players
<1>9. /\ rest.nodes = player[v].nodes /\ rest.waiting \subseteq player[v].waiting
      /\ rest.manifest = player[v].manifest /\ rest.loads = player[v].loads
      /\ rest.overlapped = player[v].overlapped
  BY <1>5, OfViewer DEF Players
<1> HIDE DEF rest
<1>10. Tuned(rest) /\ Heard(page[v], rest)
  BY <1>9, OfViewer DEF Tuned, Heard, Playing
<1>11. CASE player' = [player EXCEPT ![v] = rest]
  BY <1>7, <1>8, <1>10, <1>11, OfViewer, OnePage
<1>12. ASSUME NEW w \in ready, player' = [player EXCEPT ![v] = sounding(w)]
       PROVE  Inv'
  <2>1. w \in player[v].waiting /\ w \in Waiters /\ w.current /\ Playing(page[v], rest)
    BY <1>3, <1>6 DEF Scheduled
  <2>2. [item |-> i, load |-> w.load] \in Nodes
    BY <1>3, <2>1 DEF Waiters, Nodes
  <2>3. sounding(w) \in Players
    BY <1>8, <2>2 DEF Players
  <2>4. /\ sounding(w).nodes = player[v].nodes \cup {[item |-> i, load |-> w.load]}
        /\ sounding(w).waiting \subseteq player[v].waiting
        /\ sounding(w).manifest = player[v].manifest /\ sounding(w).loads = player[v].loads
        /\ sounding(w).overlapped = player[v].overlapped
    BY <1>8, <1>9 DEF Players
  <2> HIDE DEF sounding
  <2>5. Tuned(sounding(w))
    BY <2>1, <2>4, OfViewer DEF Tuned
  <2>6. Heard(page[v], sounding(w))
    BY <1>9, <2>1, <2>4 DEF Heard, Playing
  <2> QED  BY <1>7, <1>12, <2>3, <2>5, <2>6, OfViewer, OnePage
<1> QED  BY <1>2, <1>11, <1>12

\* An item ends.
LEMMA EndsSound == ASSUME Inv, NEW v \in Viewers, NodeEnds(v) PROVE Inv'
<1>1. PICK n \in player[v].nodes : player' = [player EXCEPT ![v].nodes = @ \ {n}]
  BY DEF NodeEnds
<1> DEFINE e == [player[v] EXCEPT !.nodes = @ \ {n}]
<1>2. player' = [player EXCEPT ![v] = e]
  BY <1>1, OfViewer DEF Inv, PlayerInv
<1>3. e \in Players /\ Tuned(e) /\ Heard(page[v], e)
  BY OfViewer DEF Players, Tuned, Heard, Playing
<1> HIDE DEF e
<1> QED  BY <1>2, <1>3, OfViewer, OnePage DEF NodeEnds

\* The page opens.
LEMMA OpenSound == ASSUME Inv, NEW v \in Viewers, OpenPage(v) PROVE Inv'
<1> DEFINE p == [page[v] EXCEPT !.state = "open"]
<1>1. p \in Pages /\ Heard(p, player[v])
  BY OfViewer DEF Pages, Heard, Playing
<1>2. page' = [page EXCEPT ![v] = p] /\ player' = [player EXCEPT ![v] = player[v]]
      /\ setting' = setting
  BY OfViewer DEF OpenPage, Inv, PageInv
<1> HIDE DEF p
<1> QED  BY <1>1, <1>2, OfViewer, OnePage

\* The interval and the seconds touch only the timers, everything else no page at all.
LEMMA TimerSound ==
  ASSUME Inv, RenewSuppression \/ Tick
  PROVE  Inv'
<1>1. CASE RenewSuppression
  <2>1. PICK v \in Viewers :
          IF Wants(page[v])
          THEN Post(v, TRUE) /\ page' = [page EXCEPT ![v].timer = Renew] /\ UNCHANGED settled
          ELSE UpdateSuppression(v, page[v])
    BY <1>1 DEF RenewSuppression
  <2>2. setting' = setting /\ player' = [player EXCEPT ![v] = player[v]]
    BY <1>1, OfViewer DEF RenewSuppression
  <2>3. CASE Wants(page[v])
    <3> DEFINE p == [page[v] EXCEPT !.timer = Renew]
    <3>1. page' = [page EXCEPT ![v] = p]
      BY <2>1, <2>3, OfViewer DEF Inv, PageInv
    <3>2. p \in Pages /\ Heard(p, player[v])
      BY OfViewer, TimesAssumption DEF Pages, Heard, Playing
    <3> HIDE DEF p
    <3> QED  BY <2>2, <3>1, <3>2, OfViewer, OnePage
  <2>4. CASE ~Wants(page[v])
    BY <2>1, <2>2, <2>4, OfViewer, PageSays
  <2> QED  BY <2>3, <2>4
<1>2. CASE Tick
  <2>1. setting' = setting /\ player' = player /\ Loads' = Loads /\ Players' = Players
    BY <1>2 DEF Tick, Loads, Players, Waiters, Nodes
  <2>2. ASSUME NEW v \in Viewers
        PROVE  /\ page'[v] \in Pages
               /\ page'[v].playing = page[v].playing /\ page'[v].audio = page[v].audio
    <3>1. /\ page'[v] = [page[v] EXCEPT !.timer = IF @ = NoTimer THEN @ ELSE @ - 1]
          /\ page[v].timer # 0
      BY <1>2 DEF Tick
    <3>2. (IF page[v].timer = NoTimer THEN page[v].timer ELSE page[v].timer - 1)
            \in (0..Renew) \cup {NoTimer}
      BY <3>1, OfViewer, TimesAssumption DEF Pages
    <3> QED  BY <3>1, <3>2, OfViewer DEF Pages
  <2>3. page' \in [Viewers -> Pages]
    <3>1. page' = [v \in Viewers |-> page'[v]]
      BY <1>2 DEF Tick
    <3> QED  BY <2>2, <3>1
  <2>4. \A v \in Viewers : Tuned(player[v])' /\ Heard(page[v], player[v])'
    BY <2>1, <2>2, OfViewer DEF Tuned, Heard, Playing
  <2> QED  BY <2>1, <2>3, <2>4 DEF Inv, PageInv, PlayerInv, SoundInv
<1> QED  BY <1>1, <1>2

\* At the start nothing sounds.
LEMMA InitSound == Init => Inv
<1> SUFFICES ASSUME Init PROVE Inv
  OBVIOUS
<1>1. setting \in Settings /\ (setting.loaded => 1 \in Loads)
  BY LoadNumbers DEF Init
<1>2. \A v \in Viewers : page[v] \in Pages
  BY <1>1, SettingsAssumption DEF Init, Pages
<1>3. page = [v \in Viewers |-> page[v]] /\ player = [v \in Viewers |-> player[v]]
  BY DEF Init
<1>4. ASSUME NEW v \in Viewers
      PROVE  player[v] \in Players /\ Tuned(player[v]) /\ Heard(page[v], player[v])
  <2>1. player[v] =
          [manifest |-> IF setting.loaded THEN 1 ELSE NoLoad,
           loads |-> [l \in Loads |-> IF setting.loaded THEN "done" ELSE "none"],
           overlapped |-> FALSE,
           position |-> 0, buffers |-> {}, waiting |-> {}, nodes |-> {}]
    BY DEF Init
  <2> QED  BY <1>1, <2>1 DEF Players, LoadSteps, Tuned, Heard
<1> QED  BY <1>1, <1>2, <1>3, <1>4 DEF Inv, PageInv, PlayerInv, SoundInv

\* Every step of the replays keeps it.
LEMMA StepSound == Inv /\ [Next]_vars => Inv'
<1> SUFFICES ASSUME Inv, [Next]_vars PROVE Inv'
  OBVIOUS
<1>1. ASSUME NEW v \in Viewers, PageStep(v) PROVE Inv'
  BY <1>1, OpenSound, PlaySound, PauseSound, ControlSound, FrameSound, LoadSound, LoadedSound,
     LeaveSound, DecodedSound, EndsSound DEF PageStep
<1>2. ASSUME NEW v \in Viewers, AnswerLoad(v) PROVE Inv'
  BY <1>2, AnswerSound
<1>3. CASE RenewSuppression \/ Tick
  BY <1>3, TimerSound
<1>4. CASE (\E v \in Viewers : CloseServer(v)) \/ Deliver \/ LosePost \/ DaemonLooks
           \/ FileUnlinked \/ UNCHANGED vars
  <2>1. setting' = setting /\ page' = page /\ player' = player
    BY <1>4 DEF CloseServer, Deliver, LosePost, DaemonLooks, FileUnlinked, vars
  <2> QED  BY <2>1 DEF Inv, PageInv, PlayerInv, SoundInv, Players, Waiters, Nodes, Loads, Tuned,
                       Heard, Playing
<1> QED  BY <1>1, <1>2, <1>3, <1>4 DEF Next, ServerStep

\* What sounds belongs to the manifest that is shown, unless a range was loaded while
\* another one was, and to a page that plays: scheduleItem's check of the generation is
\* enough, whatever the order in which decodings, pauses and loads end.
THEOREM OnlyWhatIsShown == Spec => []NoStraySound
<1>1. Spec => []Inv
  BY InitSound, StepSound, PTL DEF Spec
<1>2. Inv => NoStraySound
  BY DEF Inv, SoundInv, Tuned, Heard, NoStraySound
<1> QED  BY <1>1, <1>2, PTL

-----------------------------------------------------------------------------
(* SuppressionFollowsReplay: the renewals of a page that plays. *)

\* v plays and wants not to be transcribed, and its server can say so.
Wanting(v) == Open(v) /\ server[v].up /\ Wants(page[v])
Wanted == \E v \in Viewers : Wanting(v)

\* How long ago the j-th last renewal of v was sent, and the renewals that are no longer
\* under way among the last J.
Age(v, j) == j * Renew - page[v].timer
Sent(v, j) == [owner |-> v, active |-> TRUE, age |-> Age(v, j)]
Gone(v, J) == {j \in 1..J : Sent(v, j) \notin posts}

\* None of the renewals since the last change has arrived.
Undelivered(v) == \E J \in Nat : Cardinality(Gone(v, J)) <= lost /\ Age(v, J) >= settled

\* The marker is not older than a renewal since which none has arrived.
Held(v) ==
  /\ marker # NoMarker
  /\ \E J \in Nat : Cardinality(Gone(v, J)) <= lost /\ marker.left + Age(v, J + 1) >= Ttl

\* The last change is so recent that the renewals since, k of which were lost before one
\* was undone, may all be lost or under way.
Early(v) ==
  \E J, k \in Nat : /\ Cardinality(Gone(v, J)) + k <= lost
                    /\ Age(v, J + 1 + k) + MaxDelay >= settled

Posts == [owner : Viewers, active : BOOLEAN, age : 0..MaxDelay]
Markers == [owner : Viewers \cup {"crashed"}, left : 0..Ttl]

MarkerTypes ==
  /\ posts \subseteq Posts /\ settled \in Nat
  /\ lost \in Nat /\ lost <= setting.lost
  /\ marker \in Markers \cup {NoMarker}
  /\ cache \in [left : 0..Ttl, fresh : BOOLEAN]

\* The interval runs while the page wants the marker, which only an open page does.
TimerInv ==
  \A v \in Viewers : /\ (page[v].timer # NoTimer) <=> Wants(page[v])
                     /\ Wants(page[v]) => Open(v)

\* What is no longer meant was sent before the last change.
PostInv == \A r \in posts : (~r.active \/ ~Wants(page[r.owner])) => r.age >= settled

\* An unlink that is decided while someone wants the marker comes early enough.
UnlinkInv == (unlinking # {} /\ Wanted) => settled <= MaxDelay + lost * Renew

RenewedInv ==
  \A v \in Viewers : Wanting(v) => /\ marker # NoMarker => Undelivered(v) \/ Held(v)
                                   /\ unlinking = {} => Early(v) \/ Held(v)

CacheInv == (Wanted /\ cache.fresh /\ settled > Settling) => cache.left > 0

\* A marker that nobody wants runs out.
ExpireInv ==
  ~Wanted => /\ (marker # NoMarker /\ marker.left > 0) => marker.left + settled <= Ttl + MaxDelay
             /\ cache.left > 0 => cache.left + settled <= Ttl + MaxDelay

RenewalInv ==
  /\ MarkerTypes /\ TimerInv /\ PostInv
  /\ UnlinkInv /\ RenewedInv /\ CacheInv /\ ExpireInv

-----------------------------------------------------------------------------

\* Multiples of the interval.
LEMMA Multiples ==
  /\ Renew \in Nat \ {0} /\ MaxDelay \in Nat /\ Ttl \in Nat
  /\ \A i \in Int : i * Renew \in Int /\ (i + 1) * Renew = i * Renew + Renew
  /\ \A i, j \in Int : (i + j) * Renew = i * Renew + j * Renew
                       /\ (i <= j => i * Renew <= j * Renew)
  /\ \A i \in Nat : i * Renew \in Nat
<1>1. Renew \in Nat \ {0} /\ MaxDelay \in Nat /\ Ttl \in Nat
  BY TimesAssumption, MarkerAssumption
<1>2. \A i \in Int : i * Renew \in Int /\ (i + 1) * Renew = i * Renew + Renew
  BY <1>1
<1>3. \A i, j \in Int : (i + j) * Renew = i * Renew + j * Renew
  BY <1>1
<1>4. ASSUME NEW i \in Int, NEW j \in Int, i <= j
      PROVE  i * Renew <= j * Renew
  <2>1. PICK d \in Nat : j = i + d
    <3>1. j - i \in Nat /\ j = i + (j - i)
      BY <1>4
    <3> QED  BY <3>1
  <2>2. d * Renew >= 0
    BY <1>1
  <2> QED  BY <1>1, <1>3, <2>1, <2>2
<1>5. \A i \in Nat : i * Renew \in Nat
  BY <1>1
<1> QED  BY <1>1, <1>2, <1>3, <1>4, <1>5

\* What the timer of a page that wants the marker says about its renewals.
LEMMA Ages ==
  ASSUME PageInv, TimerInv, NEW v \in Viewers, Wants(page[v])
  PROVE  /\ page[v].timer \in 0..Renew
         /\ \A j \in Int : Age(v, j) \in Int /\ Age(v, j + 1) = Age(v, j) + Renew
         /\ \A i, j \in Int : Age(v, i + j) = Age(v, i) + j * Renew
                              /\ (i <= j => Age(v, i) <= Age(v, j))
         /\ Age(v, 0) <= 0 /\ Age(v, 1) >= 0
<1>1. page[v].timer \in 0..Renew
  BY DEF PageInv, TimerInv, Pages
<1>2. 0 * Renew = 0 /\ 1 * Renew = Renew
  BY Multiples
<1> QED  BY <1>1, <1>2, Multiples DEF Age

\* There are finitely many renewals.
LEMMA GoneFinite ==
  ASSUME NEW v, NEW J \in Nat
  PROVE  /\ IsFiniteSet(Gone(v, J)) /\ Cardinality(Gone(v, J)) \in Nat
         /\ \A S \in SUBSET Gone(v, J) : IsFiniteSet(S) /\ Cardinality(S) <= Cardinality(Gone(v, J))
<1>1. IsFiniteSet(1..J)
  BY FS_Interval
<1>2. Gone(v, J) \subseteq 1..J
  BY DEF Gone
<1>3. IsFiniteSet(Gone(v, J))
  BY <1>1, <1>2, FS_Subset
<1>4. \A S \in SUBSET Gone(v, J) : IsFiniteSet(S) /\ Cardinality(S) <= Cardinality(Gone(v, J))
  BY <1>3, FS_Subset
<1> QED  BY <1>3, <1>4, FS_CardinalityType

\* A request takes no longer than MaxDelay: of the last J renewals those that are older
\* are gone, so that J is bounded by how many are.
LEMMA GoneBounds ==
  ASSUME PageInv, TimerInv, MarkerTypes, NEW v \in Viewers, Wants(page[v]), NEW J \in Nat
  PROVE  Age(v, J) <= MaxDelay + Cardinality(Gone(v, J)) * Renew
<1> DEFINE n == Cardinality(Gone(v, J))
           span == n * Renew
<1>1. n \in Nat /\ \A S \in SUBSET Gone(v, J) : Cardinality(S) <= n
  BY GoneFinite
<1> HIDE DEF n
<1>2. span \in Nat /\ MaxDelay \in Nat
  BY <1>1, Multiples
<1>3. J - n \in Int /\ J \in Int /\ J = (J - n) + n
  BY <1>1
<1>4. Age(v, J) = Age(v, J - n) + span /\ Age(v, J) \in Int /\ Age(v, J - n) \in Int
  <2>1. n \in Int /\ J - n \in Int
    BY <1>1, <1>3
  <2>2. Age(v, (J - n) + n) = Age(v, J - n) + n * Renew
    BY <2>1, Ages, Zenon
  <2>3. Age(v, J) \in Int /\ Age(v, J - n) \in Int
    BY <1>3, Ages, Zenon
  <2> QED  BY <1>3, <2>2, <2>3 DEF span
<1> HIDE DEF span
<1> SUFFICES ASSUME Age(v, J) > MaxDelay + span
             PROVE  FALSE
  BY <1>2, <1>4 DEF n, span
<1>5. Age(v, J - n) > MaxDelay
  BY <1>2, <1>4
<1>6. J - n >= 1
  <2>1. SUFFICES ASSUME J - n <= 0 PROVE FALSE
    BY <1>3
  <2>2. Age(v, J - n) <= Age(v, 0) /\ Age(v, 0) <= 0
    BY <1>3, <2>1, Ages
  <2> HIDE DEF Age
  <2>3. Age(v, 0) \in Int
    BY Ages
  <2> QED  BY <1>2, <1>4, <1>5, <2>2, <2>3
<1>7. \A j \in (J - n)..J : j \in 1..J /\ Age(v, j) > MaxDelay
  <2> TAKE j \in (J - n)..J
  <2>1. j \in Int /\ J - n <= j /\ j <= J
    BY <1>3
  <2>2. Age(v, J - n) <= Age(v, j) /\ Age(v, j) \in Int
    BY <1>3, <2>1, Ages
  <2>3. j \in 1..J
    BY <1>3, <1>6, <2>1
  <2> QED  BY <1>2, <1>4, <1>5, <2>2, <2>3
<1>8. (J - n)..J \subseteq Gone(v, J)
  <2> SUFFICES ASSUME NEW j \in (J - n)..J PROVE j \in Gone(v, J)
    OBVIOUS
  <2>1. j \in 1..J /\ Age(v, j) > MaxDelay /\ Age(v, j) \in Int
    BY <1>3, <1>7, Ages
  <2>2. Sent(v, j) \notin Posts
    BY <2>1, Multiples DEF Sent, Posts
  <2> QED  BY <2>1, <2>2 DEF Gone, MarkerTypes
<1>9. Cardinality((J - n)..J) = n + 1
  BY <1>1, <1>3, FS_Interval
<1> QED  BY <1>1, <1>8, <1>9

\* However many of them are lost, they bound what has passed since.
LEMMA LostBounds ==
  ASSUME PageInv, TimerInv, MarkerTypes, setting \in Settings, NEW v \in Viewers, Wants(page[v])
  PROVE  /\ \A J \in Nat : Cardinality(Gone(v, J)) <= lost => Age(v, J) <= MaxDelay + lost * Renew
         /\ lost * Renew \in Nat /\ setting.lost * Renew \in Nat /\ (setting.lost + 1) * Renew \in Nat
         /\ lost * Renew <= setting.lost * Renew
         /\ (setting.lost + 1) * Renew = setting.lost * Renew + Renew
         /\ (setting.lost + 1) * Renew + MaxDelay < Ttl
<1>1. setting.lost \in Nat /\ (setting.lost + 1) * Renew + MaxDelay < Ttl
  BY SettingsAssumption, TimesAssumption
<1>2. lost \in Nat /\ lost <= setting.lost
  BY DEF MarkerTypes
<1>3. /\ lost * Renew \in Nat /\ setting.lost * Renew \in Nat /\ (setting.lost + 1) * Renew \in Nat
      /\ lost * Renew <= setting.lost * Renew
      /\ (setting.lost + 1) * Renew = setting.lost * Renew + Renew
  <2>1. lost \in Int /\ setting.lost \in Int /\ setting.lost + 1 \in Nat
    BY <1>1, <1>2
  <2> QED  BY <1>1, <1>2, <2>1, Multiples
<1>4. ASSUME NEW J \in Nat, Cardinality(Gone(v, J)) <= lost
      PROVE  Age(v, J) <= MaxDelay + lost * Renew
  <2> DEFINE n == Cardinality(Gone(v, J))
  <2>1. n \in Nat /\ n \in Int /\ lost \in Int
    BY <1>2, GoneFinite
  <2>2. n * Renew <= lost * Renew /\ n * Renew \in Nat
    BY <1>4, <2>1, Multiples
  <2>3. Age(v, J) <= MaxDelay + n * Renew /\ J \in Int
    BY GoneBounds
  <2>4. Age(v, J) \in Int
    BY <2>3, Ages
  <2> HIDE DEF n
  <2> QED  BY <1>3, <2>2, <2>3, <2>4, Multiples
<1> QED  BY <1>1, <1>3, <1>4

\* The marker of a page that is renewed in time has not run out.
LEMMA HeldLasts ==
  ASSUME PageInv, TimerInv, MarkerTypes, setting \in Settings, NEW v \in Viewers, Wants(page[v]),
         Held(v)
  PROVE  marker \in Markers /\ marker.left > 0
<1>1. PICK J \in Nat : Cardinality(Gone(v, J)) <= lost /\ marker.left + Age(v, J + 1) >= Ttl
  BY DEF Held
<1>2. marker \in Markers /\ marker.left \in Nat
  BY Multiples DEF Held, MarkerTypes, Markers
<1>3. Age(v, J) <= MaxDelay + lost * Renew
  BY <1>1, LostBounds
<1>4. J \in Int
  OBVIOUS
<1>5. Age(v, J) \in Int /\ Age(v, J + 1) = Age(v, J) + Renew
  BY <1>4, Ages
<1> DEFINE a == lost * Renew
           b == setting.lost * Renew
           c == (setting.lost + 1) * Renew
<1>6. a \in Nat /\ b \in Nat /\ c \in Nat /\ a <= b /\ c = b + Renew /\ c + MaxDelay < Ttl
  BY LostBounds
<1>7. Age(v, J) <= MaxDelay + a
  BY <1>3
<1> HIDE DEF a, b, c
<1> QED  BY <1>1, <1>2, <1>5, <1>6, <1>7, Multiples

\* When none of its renewals has arrived, the last change was not long ago.
LEMMA UndeliveredYoung ==
  ASSUME PageInv, TimerInv, MarkerTypes, setting \in Settings, NEW v \in Viewers, Wants(page[v]),
         Undelivered(v)
  PROVE  settled <= MaxDelay + lost * Renew
<1>1. PICK J \in Nat : Cardinality(Gone(v, J)) <= lost /\ Age(v, J) >= settled
  BY DEF Undelivered
<1>2. Age(v, J) <= MaxDelay + lost * Renew /\ lost * Renew \in Nat
  BY <1>1, LostBounds
<1>3. J \in Int
  OBVIOUS
<1>4. Age(v, J) \in Int /\ settled \in Nat
  BY <1>3, Ages DEF MarkerTypes
<1> DEFINE a == lost * Renew
<1>5. Age(v, J) <= MaxDelay + a /\ a \in Nat
  BY <1>2
<1> HIDE DEF a
<1>6. settled <= MaxDelay + a
  BY <1>1, <1>4, <1>5, Multiples
<1> QED  BY <1>6 DEF a

\* And then it does not matter if what has arrived is undone.
LEMMA YoungEarly ==
  ASSUME PageInv, TimerInv, MarkerTypes, setting \in Settings, NEW v \in Viewers, Wants(page[v]),
         settled <= MaxDelay + lost * Renew
  PROVE  Early(v)
<1>1. Gone(v, 0) = {} /\ Cardinality(Gone(v, 0)) = 0
  BY FS_EmptySet DEF Gone
<1>2. lost \in Nat /\ lost \in Int /\ settled \in Nat
  BY DEF MarkerTypes
<1>3. Age(v, 1 + lost) = Age(v, 1) + lost * Renew /\ Age(v, 1) \in Int /\ Age(v, 1) >= 0
  BY <1>2, Ages
<1>4. lost * Renew \in Nat
  BY LostBounds
<1> DEFINE a == lost * Renew
<1>5. Age(v, 1 + lost) = Age(v, 1) + a /\ a \in Nat /\ settled <= MaxDelay + a
  BY <1>3, <1>4
<1> HIDE DEF a
<1>6. Age(v, 1 + lost) + MaxDelay >= settled
  BY <1>2, <1>3, <1>5, Multiples
<1>7. 0 \in Nat /\ 0 + 1 + lost = 1 + lost /\ Cardinality(Gone(v, 0)) + lost <= lost
  BY <1>1, <1>2
<1> QED  BY <1>2, <1>6, <1>7 DEF Early

\* After Settling it is no longer early.
LEMMA EarlyEnds ==
  ASSUME PageInv, TimerInv, MarkerTypes, setting \in Settings, NEW v \in Viewers, Wants(page[v]),
         Early(v)
  PROVE  settled <= Settling
<1>1. PICK J \in Nat, k \in Nat : /\ Cardinality(Gone(v, J)) + k <= lost
                                  /\ Age(v, J + 1 + k) + MaxDelay >= settled
  BY DEF Early
<1> DEFINE n == Cardinality(Gone(v, J))
<1>2. n \in Nat /\ lost \in Nat /\ lost <= setting.lost /\ settled \in Nat /\ setting.lost \in Nat
  BY GoneFinite, SettingsAssumption DEF MarkerTypes
<1>3. n + (1 + k) <= setting.lost + 1
  BY <1>1, <1>2
<1>4. Age(v, J) <= MaxDelay + n * Renew
  BY GoneBounds
<1> HIDE DEF n
<1>5. Age(v, J + (1 + k)) = Age(v, J) + (1 + k) * Renew /\ Age(v, J) \in Int
  <2>1. J \in Int /\ 1 + k \in Int
    OBVIOUS
  <2> QED  BY <2>1, Ages, Zenon
<1>6. (n + (1 + k)) * Renew = n * Renew + (1 + k) * Renew
      /\ (n + (1 + k)) * Renew <= (setting.lost + 1) * Renew
  <2>1. n \in Int /\ 1 + k \in Int /\ n + (1 + k) \in Int /\ setting.lost + 1 \in Int
    BY <1>2
  <2> QED  BY <1>3, <2>1, Multiples, Zenon
<1>7. n * Renew \in Nat /\ (1 + k) * Renew \in Nat /\ (setting.lost + 1) * Renew \in Nat
  <2>1. 1 + k \in Nat /\ setting.lost + 1 \in Nat
    BY <1>2
  <2> QED  BY <1>2, <2>1, Multiples, Zenon
<1> DEFINE a == n * Renew
           b == (1 + k) * Renew
           c == (setting.lost + 1) * Renew
<1>8. /\ a \in Nat /\ b \in Nat /\ c \in Nat /\ a + b <= c
      /\ Age(v, J) <= MaxDelay + a /\ Age(v, J + (1 + k)) = Age(v, J) + b
  BY <1>4, <1>5, <1>6, <1>7
<1>9. Settling = c + 2 * MaxDelay
  BY DEF Settling
<1>10. J + 1 + k = J + (1 + k)
  OBVIOUS
<1> HIDE DEF a, b, c
<1> QED  BY <1>1, <1>2, <1>5, <1>8, <1>9, <1>10, Multiples

-----------------------------------------------------------------------------
(* What steps do to the renewals of a page. *)

\* Renewals that are not delivered are still under way, or one more is lost.
LEMMA Carry ==
  ASSUME PageInv, TimerInv, MarkerTypes, MarkerTypes', NEW v \in Viewers, Wants(page[v]),
         page'[v].timer = page[v].timer, settled' <= settled, lost' >= lost,
         \A J \in Nat : Cardinality(Gone(v, J)') + lost <= Cardinality(Gone(v, J)) + lost'
  PROVE  /\ Undelivered(v) => Undelivered(v)'
         /\ Early(v) => Early(v)'
         /\ marker' = marker /\ Held(v) => Held(v)'
<1>1. \A j : Age(v, j)' = Age(v, j)
  BY DEF Age
<1>2. lost \in Nat /\ lost' \in Nat /\ settled \in Nat /\ settled' \in Nat
  BY DEF MarkerTypes
<1>3. \A J \in Nat : Cardinality(Gone(v, J)) \in Nat /\ Cardinality(Gone(v, J)') \in Nat
  <2> TAKE J \in Nat
  <2>1. Cardinality(Gone(v, J)) \in Nat
    BY GoneFinite
  <2>2. Gone(v, J)' \subseteq 1..J /\ IsFiniteSet(1..J)
    BY FS_Interval DEF Gone
  <2>3. IsFiniteSet(Gone(v, J)')
    BY <2>2, FS_Subset
  <2> QED  BY <2>1, <2>3, FS_CardinalityType
<1>4. ASSUME Undelivered(v)
      PROVE  Undelivered(v)'
  <2>1. PICK J \in Nat : Cardinality(Gone(v, J)) <= lost /\ Age(v, J) >= settled
    BY <1>4 DEF Undelivered
  <2>2. J \in Int
    OBVIOUS
  <2>3. Age(v, J) \in Int
    BY <2>2, Ages
  <2>4. Cardinality(Gone(v, J)') <= lost'
    BY <1>2, <1>3, <2>1
  <2>5. Age(v, J)' >= settled'
    BY <1>1, <1>2, <2>1, <2>3
  <2> QED  BY <2>4, <2>5 DEF Undelivered
<1>5. ASSUME Early(v)
      PROVE  Early(v)'
  <2>1. PICK J \in Nat, k \in Nat : /\ Cardinality(Gone(v, J)) + k <= lost
                                    /\ Age(v, J + 1 + k) + MaxDelay >= settled
    BY <1>5 DEF Early
  <2>2. J + 1 + k \in Int
    OBVIOUS
  <2>3. Age(v, J + 1 + k) \in Int
    BY <2>2, Ages
  <2>4. Cardinality(Gone(v, J)') + k <= lost'
    BY <1>2, <1>3, <2>1
  <2>5. Age(v, J + 1 + k)' + MaxDelay >= settled'
    BY <1>1, <1>2, <2>1, <2>3, Multiples
  <2> QED  BY <2>4, <2>5 DEF Early
<1>6. ASSUME marker' = marker, Held(v)
      PROVE  Held(v)'
  <2>1. PICK J \in Nat : Cardinality(Gone(v, J)) <= lost /\ marker.left + Age(v, J + 1) >= Ttl
    BY <1>6 DEF Held
  <2>2. Cardinality(Gone(v, J)') <= lost'
    BY <1>2, <1>3, <2>1
  <2>3. marker'.left + Age(v, J + 1)' >= Ttl
    BY <1>1, <1>6, <2>1
  <2> QED  BY <1>6, <2>2, <2>3 DEF Held
<1> QED  BY <1>4, <1>5, <1>6

\* No renewal of v is delivered or lost.
LEMMA GoneSame ==
  ASSUME NEW v, page'[v].timer = page[v].timer,
         \A j \in Nat : Sent(v, j) \in posts => Sent(v, j) \in posts', NEW J \in Nat
  PROVE  Cardinality(Gone(v, J)') <= Cardinality(Gone(v, J))
<1>1. \A j : Sent(v, j)' = Sent(v, j)
  BY DEF Sent, Age
<1>2. Gone(v, J)' \subseteq Gone(v, J)
  BY <1>1 DEF Gone
<1> QED  BY <1>2, GoneFinite

\* One request fails.
LEMMA GoneOne ==
  ASSUME PageInv, TimerInv, NEW v \in Viewers, Wants(page[v]), page'[v].timer = page[v].timer,
         NEW r, posts' = posts \ {r}, NEW J \in Nat
  PROVE  Cardinality(Gone(v, J)') <= Cardinality(Gone(v, J)) + 1
<1>1. \A j : Sent(v, j)' = Sent(v, j)
  BY DEF Sent, Age
<1>2. \A i, j \in Nat : Sent(v, i) = Sent(v, j) => i = j
  <2> SUFFICES ASSUME NEW i \in Nat, NEW j \in Nat, Sent(v, i) = Sent(v, j), i # j
               PROVE  FALSE
    OBVIOUS
  <2>1. Age(v, i) = Age(v, j)
    BY DEF Sent
  <2>2. i * Renew \in Int /\ j * Renew \in Int /\ page[v].timer \in 0..Renew
    BY Multiples, Ages
  <2>3. i * Renew = j * Renew
    BY <2>1, <2>2 DEF Age
  <2>4. \A m, n \in Nat : m < n => m * Renew < n * Renew
    <3> TAKE m, n \in Nat
    <3> HAVE m < n
    <3>1. m + 1 <= n /\ m + 1 \in Int /\ n \in Int /\ m \in Int
      OBVIOUS
    <3>2. (m + 1) * Renew <= n * Renew /\ (m + 1) * Renew = m * Renew + Renew
      BY <3>1, Multiples
    <3> QED  BY <3>1, <3>2, Multiples
  <2>5. i < j \/ j < i
    OBVIOUS
  <2> QED  BY <2>2, <2>3, <2>4, <2>5
<1>3. CASE \E k \in 1..J : Sent(v, k) = r
  <2>1. PICK k \in 1..J : Sent(v, k) = r
    BY <1>3
  <2>2. Gone(v, J)' \subseteq Gone(v, J) \cup {k}
    BY <1>1, <1>2, <2>1 DEF Gone
  <2>3. /\ IsFiniteSet(Gone(v, J) \cup {k})
        /\ Cardinality(Gone(v, J) \cup {k}) <= Cardinality(Gone(v, J)) + 1
    BY GoneFinite, FS_AddElement
  <2>4. /\ Cardinality(Gone(v, J)') <= Cardinality(Gone(v, J) \cup {k})
        /\ Cardinality(Gone(v, J) \cup {k}) \in Nat
        /\ IsFiniteSet(Gone(v, J)')
    BY <2>2, <2>3, FS_Subset, FS_CardinalityType
  <2>5. Cardinality(Gone(v, J)') \in Nat /\ Cardinality(Gone(v, J)) \in Nat
    BY <2>4, GoneFinite, FS_CardinalityType
  <2> QED  BY <2>3, <2>4, <2>5
<1>4. CASE ~\E k \in 1..J : Sent(v, k) = r
  <2>1. Gone(v, J)' \subseteq Gone(v, J)
    BY <1>1, <1>4 DEF Gone
  <2>2. Cardinality(Gone(v, J)') <= Cardinality(Gone(v, J)) /\ Cardinality(Gone(v, J)) \in Nat
        /\ IsFiniteSet(Gone(v, J)')
    BY <2>1, GoneFinite
  <2> QED  BY <2>2, FS_CardinalityType
<1> QED  BY <1>3, <1>4

\* A page or a server changes its mind.
LEMMA ChangeKeeps ==
  ASSUME Inv, RenewalInv, PageInv', TimerInv', setting' = setting, lost' = lost, settled' = 0,
         marker' = marker, cache' = cache, posts \subseteq posts', posts' \subseteq Posts,
         \A u \in Viewers : Wanting(u)' =>
           \/ page'[u] = page[u] /\ Wanting(u)
           \/ page'[u].timer = Renew /\ [owner |-> u, active |-> TRUE, age |-> 0] \in posts'
  PROVE  RenewalInv'
<1>1. setting \in Settings /\ PageInv /\ TimerInv /\ MarkerTypes
  BY DEF Inv, PlayerInv, RenewalInv
<1>2. MarkerTypes'
  BY <1>1 DEF MarkerTypes
<1>3. setting' \in Settings
  BY <1>1
<1>4. PostInv'
  BY DEF PostInv, Posts
<1>6. UnlinkInv'
  <2>1. lost \in Nat
    BY <1>1 DEF MarkerTypes
  <2>2. lost * Renew \in Nat
    BY <2>1, Multiples
  <2> QED  BY <2>2, Multiples DEF UnlinkInv
<1>7. ASSUME NEW u \in Viewers, Wanting(u)'
      PROVE  Early(u)'
  <2>1. page'[u].timer \in 0..Renew
    BY <1>7 DEF Wanting, PageInv, TimerInv, Pages
  <2>2. Gone(u, 0)' = {} /\ Cardinality({}) = 0
    BY FS_EmptySet DEF Gone
  <2>3. Age(u, 0 + 1 + 0)' = Renew - page'[u].timer
    BY Multiples DEF Age
  <2>4. lost' \in Nat
    BY <1>2 DEF MarkerTypes
  <2>5. Cardinality(Gone(u, 0)') = 0
    BY <2>2, Zenon
  <2>6. Cardinality(Gone(u, 0)') + 0 <= lost'
    BY <2>4, <2>5
  <2>7. Renew \in Nat /\ MaxDelay \in Nat
    BY Multiples, Zenon
  <2>8. Renew - page'[u].timer >= 0
    BY <2>1, <2>7
  <2>9. Age(u, 0 + 1 + 0)' + MaxDelay >= settled'
    BY <2>1, <2>3, <2>7, <2>8
  <2> QED  BY <2>6, <2>9 DEF Early
<1>8. ASSUME NEW u \in Viewers, Wanting(u)', marker' # NoMarker
      PROVE  Undelivered(u)' \/ Held(u)'
  <2>1. CASE page'[u] = page[u] /\ Wanting(u)
    <3>1. Wants(page[u]) /\ (Undelivered(u) \/ Held(u))
      BY <1>8, <2>1 DEF Wanting, RenewalInv, RenewedInv
    <3>2. page'[u].timer = page[u].timer /\ lost' >= lost /\ settled' <= settled
      BY <1>1, <2>1 DEF MarkerTypes
    <3>3. ASSUME NEW J \in Nat
          PROVE  Cardinality(Gone(u, J)') + lost <= Cardinality(Gone(u, J)) + lost'
      <4>1. Cardinality(Gone(u, J)') <= Cardinality(Gone(u, J))
        BY <3>2, GoneSame
      <4>2. Cardinality(Gone(u, J)') \in Nat /\ Cardinality(Gone(u, J)) \in Nat
        <5>1. Cardinality(Gone(u, J)) \in Nat
          BY GoneFinite
        <5>2. Gone(u, J)' \subseteq 1..J
          BY Zenon DEF Gone
        <5>3. J \in Int /\ 1 \in Int
          OBVIOUS
        <5>4. IsFiniteSet(1..J)
          BY <5>3, FS_Interval
        <5> QED  BY <5>1, <5>2, <5>4, FS_Subset, FS_CardinalityType
      <4> QED  BY <1>1, <4>1, <4>2 DEF MarkerTypes
    <3> QED  BY <1>1, <1>2, <3>1, <3>2, <3>3, Carry
  <2>2. CASE page'[u].timer = Renew /\ [owner |-> u, active |-> TRUE, age |-> 0] \in posts'
    <3>1. Age(u, 1)' = 0
      BY <2>2, Multiples DEF Age
    <3>2. Sent(u, 1)' \in posts'
      BY <2>2, <3>1 DEF Sent
    <3>3. Gone(u, 1)' = {}
      BY <3>2 DEF Gone
    <3>4. Cardinality(Gone(u, 1)') = 0 /\ lost' \in Nat
      BY <1>2, <3>3, FS_EmptySet DEF MarkerTypes
    <3>5. Cardinality(Gone(u, 1)') <= lost' /\ Age(u, 1)' >= settled'
      BY <3>1, <3>4
    <3> QED  BY <3>5 DEF Undelivered
  <2> QED  BY <1>8, <2>1, <2>2
<1>9. RenewedInv'
  BY <1>7, <1>8 DEF RenewedInv
<1>10. CacheInv'
  <2>1. setting.lost \in Nat /\ (setting.lost + 1) * Renew \in Nat /\ MaxDelay \in Nat
    <3>1. setting.lost \in Nat
      BY <1>1, SettingsAssumption
    <3>2. setting.lost + 1 \in Nat
      BY <3>1
    <3>3. (setting.lost + 1) * Renew \in Nat
      BY <3>2, Multiples, Zenon
    <3>4. MaxDelay \in Nat
      BY Multiples, Zenon
    <3> QED  BY <3>1, <3>3, <3>4
  <2>2. Settling >= 0 /\ Settling' = Settling
    BY <2>1 DEF Settling
  <2>3. Settling \in Nat
    BY <2>1 DEF Settling
  <2> QED  BY <2>2, <2>3 DEF CacheInv
<1>11. ExpireInv'
  <2>1. marker # NoMarker => marker.left \in 0..Ttl
    BY <1>1 DEF MarkerTypes, Markers
  <2>2. cache.left \in 0..Ttl
    BY <1>1 DEF MarkerTypes
  <2> QED  BY <2>1, <2>2, Multiples DEF ExpireInv
<1> QED  BY <1>2, <1>4, <1>6, <1>9, <1>10, <1>11 DEF RenewalInv

\* Nothing happens between pages, servers and the marker.
LEMMA QuietKeeps ==
  ASSUME Inv, RenewalInv, PageInv', setting' = setting, posts' = posts, lost' = lost,
         settled' = settled, markerVars' = markerVars,
         \A u \in Viewers : /\ page'[u].timer = page[u].timer /\ Wants(page'[u]) = Wants(page[u])
                            /\ page[u].state = "open" => page'[u].state = "open"
                            /\ server'[u].up = server[u].up
  PROVE  RenewalInv'
<1>1. setting \in Settings /\ PageInv /\ TimerInv /\ MarkerTypes
  BY DEF Inv, PlayerInv, RenewalInv
<1>2. \A u \in Viewers : Wanting(u)' <=> Wanting(u)
  BY <1>1 DEF Wanting, Open, TimerInv
<1>3. Wanted' <=> Wanted
  BY <1>2 DEF Wanted
<1>4. \A u \in Viewers : /\ \A j : Age(u, j)' = Age(u, j)
                         /\ \A J : Gone(u, J)' = Gone(u, J)
  BY DEF Age, Gone, Sent
<1>5. \A u \in Viewers : /\ (Undelivered(u)' <=> Undelivered(u)) /\ (Early(u)' <=> Early(u))
                         /\ (Held(u)' <=> Held(u))
  BY <1>4 DEF Undelivered, Early, Held, markerVars
<1>6. MarkerTypes'
  BY <1>1 DEF MarkerTypes, markerVars
<1>7. TimerInv'
  BY <1>1 DEF TimerInv, Open
<1>8. PostInv'
  BY <1>1 DEF PostInv, RenewalInv, MarkerTypes, Posts
<1>9. RenewedInv'
  BY <1>2, <1>5 DEF RenewalInv, RenewedInv, markerVars
<1>10. UnlinkInv' /\ CacheInv' /\ ExpireInv'
  BY <1>3 DEF RenewalInv, UnlinkInv, CacheInv, ExpireInv, markerVars, Settling
<1> QED  BY <1>6, <1>7, <1>8, <1>9, <1>10 DEF RenewalInv

-----------------------------------------------------------------------------
(* The steps, one by one. *)

\* A page updates or clears the suppression.
LEMMA SaysKeeps ==
  ASSUME Inv, RenewalInv, PageInv', setting' = setting, lost' = lost, markerVars' = markerVars,
         server' = server, NEW v \in Viewers, NEW p \in Pages,
         \/ UpdateSuppression(v, p) /\ p.state = "open"
         \/ ClearSuppression(v, p) /\ ~p.playing
         \/ /\ page' = [page EXCEPT ![v] = [p EXCEPT !.timer = NoTimer]]
            /\ settled' = 0 /\ posts' = posts /\ ~p.playing
  PROVE  RenewalInv'
<1>1. PageInv /\ TimerInv /\ MarkerTypes
  BY DEF Inv, RenewalInv
<1>2. settled' = 0 /\ posts \subseteq posts' /\ posts' \subseteq Posts
  <2>1. Wants(p) \in BOOLEAN /\ 0 \in 0..MaxDelay
    BY Multiples DEF Wants, Pages
  <2>2. \A b \in BOOLEAN : [owner |-> v, active |-> b, age |-> 0] \in Posts
    BY <2>1 DEF Posts
  <2>3. /\ settled' = 0
        /\ \/ posts' = posts
           \/ \E b \in BOOLEAN : posts' = posts \cup {[owner |-> v, active |-> b, age |-> 0]}
    BY <2>1 DEF UpdateSuppression, ClearSuppression, Post
  <2>4. posts \subseteq Posts
    BY <1>1 DEF MarkerTypes
  <2> QED  BY <2>2, <2>3, <2>4
<1>3. PICK t \in {Renew, NoTimer} :
        /\ page' = [page EXCEPT ![v] = [p EXCEPT !.timer = t]]
        /\ Wants(p) => t = Renew /\ p.state = "open"
                       /\ [owner |-> v, active |-> TRUE, age |-> 0] \in posts'
        /\ ~Wants(p) => t = NoTimer
  <2>1. CASE UpdateSuppression(v, p) /\ p.state = "open"
    <3>1. CASE Wants(p)
      BY <2>1, <3>1 DEF UpdateSuppression, Post
    <3>2. CASE ~Wants(p)
      BY <2>1, <3>2 DEF UpdateSuppression, Post
    <3> QED  BY <3>1, <3>2
  <2>2. CASE ~p.playing /\ page' = [page EXCEPT ![v] = [p EXCEPT !.timer = NoTimer]]
    BY <2>2 DEF Wants
  <2> QED  BY <2>1, <2>2 DEF ClearSuppression
<1>4. /\ page'[v] = [p EXCEPT !.timer = t] /\ page'[v].timer = t /\ page'[v].state = p.state
      /\ Wants(page'[v]) = Wants(p)
      /\ \A u \in Viewers : u # v => page'[u] = page[u]
  BY <1>1, <1>3 DEF PageInv, Pages, Wants
<1>5. Renew # NoTimer
  BY TimesAssumption
<1>6. TimerInv'
  <2> SUFFICES ASSUME NEW u \in Viewers
               PROVE  /\ (page'[u].timer # NoTimer) <=> Wants(page'[u])
                      /\ Wants(page'[u]) => page'[u].state = "open"
    BY DEF TimerInv, Open
  <2>1. CASE u = v
    BY <1>3, <1>4, <1>5, <2>1
  <2>2. CASE u # v
    BY <1>1, <1>4, <2>2 DEF TimerInv, Open
  <2> QED  BY <2>1, <2>2
<1>7. \A u \in Viewers : Wanting(u)' =>
        \/ page'[u] = page[u] /\ Wanting(u)
        \/ page'[u].timer = Renew /\ [owner |-> u, active |-> TRUE, age |-> 0] \in posts'
  <2> SUFFICES ASSUME NEW u \in Viewers, Wanting(u)'
               PROVE  \/ page'[u] = page[u] /\ Wanting(u)
                      \/ page'[u].timer = Renew
                         /\ [owner |-> u, active |-> TRUE, age |-> 0] \in posts'
    OBVIOUS
  <2>1. CASE u = v
    BY <1>3, <1>4, <2>1 DEF Wanting
  <2>2. CASE u # v
    BY <1>4, <2>2 DEF Wanting, Open
  <2> QED  BY <2>1, <2>2
<1> QED  BY <1>2, <1>6, <1>7, ChangeKeeps DEF markerVars

\* The user, and the page when its range ends or another one is loaded.
LEMMA UserKeeps ==
  ASSUME Inv, RenewalInv, PageInv', NEW v \in Viewers,
         Play(v) \/ Pause(v) \/ ToggleAudio(v) \/ ToggleSuppress(v) \/ Seek(v) \/ Load(v)
           \/ LeavePage(v)
  PROVE  RenewalInv'
<1>1. page[v] \in Pages
  BY OfViewer
<1>2. PausedPage(v) \in Pages /\ ~PausedPage(v).playing
  BY <1>1 DEF PausedPage, Pages
<1>3. CASE Play(v) \/ ToggleAudio(v) \/ ToggleSuppress(v) \/ Seek(v)
  <2>1. setting' = setting /\ lost' = lost /\ markerVars' = markerVars /\ server' = server
    BY <1>3 DEF Play, ToggleAudio, ToggleSuppress, Seek
  <2>2. PICK p \in Pages : UpdateSuppression(v, p) /\ p.state = "open"
    <3>1. CASE Play(v)
      <4>1. [page[v] EXCEPT !.playing = TRUE] \in Pages
            /\ [page[v] EXCEPT !.playing = TRUE].state = page[v].state
        BY <1>1 DEF Pages
      <4> QED  BY <3>1, <4>1 DEF Play, Open
    <3>2. CASE ToggleAudio(v)
      <4>1. [page[v] EXCEPT !.audio = ~@] \in Pages
            /\ [page[v] EXCEPT !.audio = ~@].state = page[v].state
        BY <1>1 DEF Pages
      <4> QED  BY <3>2, <4>1 DEF ToggleAudio, Open
    <3>3. CASE ToggleSuppress(v)
      <4>1. [page[v] EXCEPT !.suppress = ~@] \in Pages
            /\ [page[v] EXCEPT !.suppress = ~@].state = page[v].state
        BY <1>1 DEF Pages
      <4> QED  BY <3>3, <4>1 DEF ToggleSuppress, Open
    <3>4. CASE Seek(v)
      BY <1>1, <3>4 DEF Seek, Open
    <3> QED  BY <1>3, <3>1, <3>2, <3>3, <3>4
  <2> QED  BY <2>1, <2>2, SaysKeeps
<1>4. CASE Pause(v) \/ Load(v)
  <2>1. setting' = setting /\ lost' = lost /\ markerVars' = markerVars /\ server' = server
        /\ ClearSuppression(v, PausedPage(v))
    BY <1>4 DEF Pause, Load
  <2> QED  BY <1>2, <2>1, SaysKeeps
<1>5. CASE LeavePage(v)
  <2> DEFINE p == [page[v] EXCEPT !.state = "gone", !.playing = FALSE]
  <2>1. p \in Pages /\ ~p.playing
    BY <1>1 DEF Pages
  <2>2. setting' = setting /\ lost' = lost /\ markerVars' = markerVars /\ server' = server
    BY <1>5 DEF LeavePage
  <2>3. \/ ClearSuppression(v, p)
        \/ /\ page' = [page EXCEPT ![v] = [p EXCEPT !.timer = NoTimer]]
           /\ settled' = 0 /\ posts' = posts
    BY <1>5 DEF LeavePage
  <2> HIDE DEF p
  <2> QED  BY <2>1, <2>2, <2>3, SaysKeeps
<1> QED  BY <1>3, <1>4, <1>5

\* Every server is known, and knows the blobs of a load or of none.
ServerInv == server \in [Viewers -> [up : BOOLEAN, blobs : Loads \cup {NoLoad}]]

\* A frame that is not the last one, and what only concerns the audio.
LEMMA ViewKeeps ==
  ASSUME Inv, RenewalInv, ServerInv, PageInv', NEW v \in Viewers,
         Frame(v) \/ OpenPage(v) \/ AnswerLoad(v) \/ Loaded(v) \/ Decoded(v) \/ NodeEnds(v)
  PROVE  RenewalInv'
<1>1. page[v] \in Pages /\ page \in [Viewers -> Pages]
  BY OfViewer DEF Inv, PageInv
<1>2. CASE page' = page /\ posts' = posts /\ settled' = settled /\ setting' = setting
           /\ lost' = lost /\ markerVars' = markerVars
           /\ \A u \in Viewers : server'[u].up = server[u].up
  BY <1>2, QuietKeeps
<1>3. CASE Frame(v)
  <2>1. setting' = setting /\ lost' = lost /\ markerVars' = markerVars /\ server' = server
    BY <1>3 DEF Frame
  <2>2. ClearSuppression(v, PausedPage(v)) \/ UNCHANGED <<page, posts, settled>>
    BY <1>3 DEF Frame
  <2>3. PausedPage(v) \in Pages /\ ~PausedPage(v).playing
    BY <1>1 DEF PausedPage, Pages
  <2>4. CASE ClearSuppression(v, PausedPage(v))
    BY <2>1, <2>3, <2>4, SaysKeeps
  <2> QED  BY <1>2, <2>1, <2>2, <2>4
<1>4. CASE OpenPage(v)
  <2>1. page' = [page EXCEPT ![v].state = "open"] /\ setting' = setting /\ posts' = posts
        /\ lost' = lost /\ settled' = settled /\ markerVars' = markerVars /\ server' = server
    BY <1>4 DEF OpenPage
  <2>2. \A u \in Viewers : /\ page'[u].timer = page[u].timer /\ Wants(page'[u]) = Wants(page[u])
                           /\ page[u].state = "open" => page'[u].state = "open"
    BY <1>1, <2>1 DEF Pages, Wants
  <2> QED  BY <2>1, <2>2, QuietKeeps
<1>5. CASE AnswerLoad(v)
  <2>1. page' = page /\ posts' = posts /\ settled' = settled /\ setting' = setting
        /\ lost' = lost /\ markerVars' = markerVars
    BY <1>5 DEF AnswerLoad
  <2>2. \A u \in Viewers : server'[u].up = server[u].up
    BY <1>5 DEF AnswerLoad, ServerInv
  <2> QED  BY <1>2, <2>1, <2>2
<1>6. CASE Loaded(v) \/ Decoded(v) \/ NodeEnds(v)
  <2>1. page' = page /\ posts' = posts /\ settled' = settled /\ setting' = setting
        /\ lost' = lost /\ markerVars' = markerVars /\ server' = server
    BY <1>6 DEF Loaded, Decoded, NodeEnds
  <2> QED  BY <1>2, <2>1
<1> QED  BY <1>3, <1>4, <1>5, <1>6

\* A server that ends takes its wish with it.
LEMMA CloseKeeps ==
  ASSUME Inv, RenewalInv, ServerInv, NEW v \in Viewers, CloseServer(v)
  PROVE  RenewalInv'
<1>1. page' = page /\ posts' = posts /\ setting' = setting /\ lost' = lost /\ settled' = 0
      /\ server' = [server EXCEPT ![v].up = FALSE] /\ marker' = marker /\ cache' = cache
  BY DEF CloseServer, ClearMarker
<1>2. PageInv' /\ TimerInv' /\ posts' \subseteq Posts
  BY <1>1 DEF Inv, RenewalInv, PageInv, TimerInv, Open, MarkerTypes
<1>3. \A u \in Viewers : server'[u].up => server[u].up
  BY <1>1 DEF ServerInv
<1>4. \A u \in Viewers : Wanting(u)' => page'[u] = page[u] /\ Wanting(u)
  BY <1>1, <1>3 DEF Wanting, Open
<1> QED  BY <1>1, <1>2, <1>4, ChangeKeeps

\* Late enough, the marker is there and nobody is about to remove it.
LEMMA LateHeld ==
  ASSUME Inv, RenewalInv, NEW u \in Viewers, Wanting(u), settled > Settling
  PROVE  unlinking = {} /\ Held(u) /\ marker \in Markers /\ marker.left > 0
<1>1. setting \in Settings /\ PageInv /\ TimerInv /\ MarkerTypes /\ Wants(page[u])
  BY DEF Inv, PlayerInv, RenewalInv, Wanting
<1>2. ~Early(u)
  <2>1. SUFFICES ASSUME Early(u) PROVE FALSE
    OBVIOUS
  <2>2. settled <= Settling
    BY <1>1, <2>1, EarlyEnds
  <2>3. settled \in Nat /\ Settling \in Nat
    <3>1. setting.lost + 1 \in Nat
      BY <1>1, SettingsAssumption
    <3>2. (setting.lost + 1) * Renew \in Nat
      BY <3>1, Multiples
    <3> QED  BY <1>1, <3>2, Multiples DEF MarkerTypes, Settling
  <2> QED  BY <2>2, <2>3
<1>3. unlinking = {}
  <2>1. SUFFICES ASSUME unlinking # {} PROVE FALSE
    OBVIOUS
  <2>2. settled <= MaxDelay + lost * Renew
    BY <2>1 DEF RenewalInv, UnlinkInv, Wanted
  <2> QED  BY <1>1, <1>2, <2>2, YoungEarly
<1>4. Held(u)
  BY <1>2, <1>3 DEF RenewalInv, RenewedInv
<1> QED  BY <1>1, <1>3, <1>4, HeldLasts

\* When neither the marker nor what is wanted changes, the renewals under way do what
\* they did.
LEMMA CarryAll ==
  ASSUME Inv, RenewalInv, MarkerTypes', page' = page, server' = server, setting' = setting,
         settled' = settled, marker' = marker, lost' >= lost, unlinking' = {} => unlinking = {},
         \A u \in Viewers : Wanting(u) =>
           \A J \in Nat : Cardinality(Gone(u, J)') + lost <= Cardinality(Gone(u, J)) + lost'
  PROVE  RenewedInv'
<1> SUFFICES ASSUME NEW u \in Viewers, Wanting(u)'
             PROVE  /\ marker' # NoMarker => Undelivered(u)' \/ Held(u)'
                    /\ unlinking' = {} => Early(u)' \/ Held(u)'
  BY DEF RenewedInv
<1>1. Wanting(u) /\ Wants(page[u])
  BY DEF Wanting, Open
<1>2. PageInv /\ TimerInv /\ MarkerTypes /\ settled' <= settled
  BY DEF Inv, RenewalInv, MarkerTypes
<1>3. page'[u].timer = page[u].timer
  OBVIOUS
<1>4. \A J \in Nat : Cardinality(Gone(u, J)') + lost <= Cardinality(Gone(u, J)) + lost'
  BY <1>1
<1>5. /\ Undelivered(u) => Undelivered(u)'
      /\ Early(u) => Early(u)'
      /\ Held(u) => Held(u)'
  BY <1>1, <1>2, <1>3, <1>4, Carry
<1> QED  BY <1>1, <1>5 DEF RenewalInv, RenewedInv

\* What is wanted does not change with the requests and the marker.
LEMMA SameWishes ==
  ASSUME page' = page, server' = server
  PROVE  /\ \A u \in Viewers : Wanting(u)' <=> Wanting(u)
         /\ Wanted' <=> Wanted
         /\ TimerInv' <=> TimerInv
BY DEF Wanting, Wanted, Open, TimerInv

\* Counting what is gone.
LEMMA GoneCounts ==
  ASSUME NEW u, NEW J \in Nat
  PROVE  Cardinality(Gone(u, J)) \in Nat /\ Cardinality(Gone(u, J)') \in Nat
<1>1. Cardinality(Gone(u, J)) \in Nat
  BY GoneFinite
<1>2. Gone(u, J)' \subseteq 1..J
  BY Zenon DEF Gone
<1>3. J \in Int /\ 1 \in Int
  OBVIOUS
<1>4. IsFiniteSet(1..J)
  BY <1>3, FS_Interval
<1> QED  BY <1>1, <1>2, <1>4, FS_Subset, FS_CardinalityType

\* A request arrives.
LEMMA DeliverKeeps ==
  ASSUME Inv, RenewalInv, Deliver
  PROVE  RenewalInv'
<1>1. PICK r \in posts :
        /\ posts' = posts \ {r}
        /\ \/ server[r.owner].up /\ r.active /\ SetMarker(r.owner)
           \/ server[r.owner].up /\ ~r.active /\ ClearMarker(r.owner)
           \/ ~server[r.owner].up /\ UNCHANGED markerVars
  BY DEF Deliver
<1>2. page' = page /\ server' = server /\ setting' = setting /\ lost' = lost /\ settled' = settled
  BY DEF Deliver
<1>3. PageInv /\ TimerInv /\ MarkerTypes /\ setting \in Settings
  BY DEF Inv, PlayerInv, RenewalInv
<1>4. r \in Posts /\ r.owner \in Viewers /\ r.age \in Nat /\ r.age <= MaxDelay
      /\ r.active \in BOOLEAN
  BY <1>1, <1>3, Multiples DEF MarkerTypes, Posts
<1>5. cache' = cache
  BY <1>1 DEF SetMarker, ClearMarker, markerVars
<1>6. /\ \A u \in Viewers : Wanting(u)' <=> Wanting(u)
      /\ (Wanted' <=> Wanted) /\ TimerInv'
  BY <1>2, <1>3, SameWishes
<1>7. MarkerTypes'
  <2>1. marker' \in Markers \cup {NoMarker}
    <3>1. [owner |-> r.owner, left |-> Ttl] \in Markers
      BY <1>4, Multiples DEF Markers
    <3>2. marker' = marker \/ marker' = [owner |-> r.owner, left |-> Ttl]
      BY <1>1 DEF SetMarker, ClearMarker, markerVars
    <3> QED  BY <1>3, <3>1, <3>2 DEF MarkerTypes
  <2> QED  BY <1>1, <1>2, <1>3, <1>5, <2>1 DEF MarkerTypes
<1>8. PostInv'
  BY <1>1, <1>2 DEF RenewalInv, PostInv
<1>9. CacheInv'
  BY <1>2, <1>5, <1>6 DEF RenewalInv, CacheInv, Settling
<1>10. settled \in Nat /\ lost \in Nat
  BY <1>3 DEF MarkerTypes
<1>11. lost * Renew \in Nat
  BY <1>10, Multiples
<1>12. CASE server[r.owner].up /\ r.active /\ SetMarker(r.owner)
  <2>1. marker' = [owner |-> r.owner, left |-> Ttl] /\ marker'.left = Ttl
        /\ unlinking' = unlinking /\ marker' # NoMarker
    <3>1. marker' = [owner |-> r.owner, left |-> Ttl] /\ unlinking' = unlinking
      BY <1>12 DEF SetMarker
    <3>2. [owner |-> r.owner, left |-> Ttl] # NoMarker
      BY <1>4, MarkerAssumption
    <3> QED  BY <3>1, <3>2
  <2>2. ASSUME NEW u \in Viewers, Wanting(u)
        PROVE  Held(u)'
    <3>1. Age(u, 0 + 1)' >= 0 /\ Age(u, 0 + 1)' \in Int
      <4>1. page[u].timer \in 0..Renew /\ 1 * Renew = Renew /\ Renew \in Nat
        BY <1>3, <2>2, Ages, Multiples DEF Wanting
      <4> QED  BY <1>2, <4>1 DEF Age
    <3>2. Gone(u, 0)' = {} /\ Cardinality({}) = 0
      BY FS_EmptySet DEF Gone
    <3>3. Cardinality(Gone(u, 0)') <= lost' /\ marker'.left + Age(u, 0 + 1)' >= Ttl
      BY <1>2, <1>10, <2>1, <3>1, <3>2, Multiples
    <3> QED  BY <2>1, <3>3 DEF Held
  <2>3. RenewedInv'
    BY <1>6, <2>2 DEF RenewedInv
  <2>4. UnlinkInv'
    BY <1>2, <1>6, <2>1 DEF RenewalInv, UnlinkInv
  <2>5. ExpireInv'
    <3> SUFFICES ASSUME ~Wanted'
                 PROVE  /\ marker'.left + settled' <= Ttl + MaxDelay
                        /\ cache'.left > 0 => cache'.left + settled' <= Ttl + MaxDelay
      BY DEF ExpireInv
    <3>1. ~Wants(page[r.owner])
      BY <1>3, <1>4, <1>6, <1>12 DEF Wanted, Wanting, TimerInv
    <3>2. settled <= r.age
      BY <1>1, <1>4, <1>10, <3>1 DEF RenewalInv, PostInv
    <3> QED  BY <1>2, <1>4, <1>5, <1>6, <1>10, <2>1, <3>2, Multiples DEF RenewalInv, ExpireInv
  <2> QED  BY <1>6, <1>7, <1>8, <1>9, <2>3, <2>4, <2>5 DEF RenewalInv
<1>13. ASSUME marker' = marker, unlinking' = {} => unlinking = {}, ~r.active \/ ~server[r.owner].up,
              UnlinkInv'
       PROVE  RenewalInv'
  <2>1. ASSUME NEW u \in Viewers, Wanting(u), NEW J \in Nat
        PROVE  Cardinality(Gone(u, J)') + lost <= Cardinality(Gone(u, J)) + lost'
    <3>1. \A j \in Nat : Sent(u, j) # r
      BY <1>13, <2>1 DEF Sent, Wanting
    <3>2. page'[u].timer = page[u].timer /\ \A j \in Nat : Sent(u, j) \in posts => Sent(u, j) \in posts'
      BY <1>1, <1>2, <3>1
    <3>3. Cardinality(Gone(u, J)') <= Cardinality(Gone(u, J))
      BY <3>2, GoneSame
    <3> QED  BY <1>2, <1>10, <3>3, GoneCounts
  <2>2. lost' >= lost
    BY <1>2, <1>10
  <2>3. RenewedInv'
    BY <1>2, <1>7, <1>13, <2>1, <2>2, CarryAll
  <2>4. ExpireInv'
    BY <1>2, <1>5, <1>6, <1>13 DEF RenewalInv, ExpireInv
  <2> QED  BY <1>6, <1>7, <1>8, <1>9, <1>13, <2>3, <2>4 DEF RenewalInv
<1>14. CASE server[r.owner].up /\ ~r.active /\ ClearMarker(r.owner)
  <2>1. marker' = marker /\ (unlinking' = {} => unlinking = {})
    BY <1>14 DEF ClearMarker
  <2>2. settled <= r.age
    BY <1>1, <1>4, <1>10, <1>14 DEF RenewalInv, PostInv
  <2>3. settled' <= MaxDelay + lost' * Renew
    BY <1>2, <1>4, <1>10, <1>11, <2>2, Multiples
  <2> QED  BY <1>13, <1>14, <2>1, <2>3 DEF UnlinkInv
<1>15. CASE ~server[r.owner].up /\ UNCHANGED markerVars
  <2>1. marker' = marker /\ unlinking' = unlinking
    BY <1>15 DEF markerVars
  <2>2. UnlinkInv'
    BY <1>2, <1>6, <2>1 DEF RenewalInv, UnlinkInv
  <2> QED  BY <1>13, <1>15, <2>1, <2>2
<1> QED  BY <1>1, <1>12, <1>14, <1>15

\* A request is lost, whether it renewed the marker or not.
LEMMA LoseKeeps ==
  ASSUME Inv, RenewalInv, LosePost
  PROVE  RenewalInv'
<1>1. PICK r \in posts : posts' = posts \ {r}
  BY DEF LosePost
<1>2. page' = page /\ server' = server /\ setting' = setting /\ settled' = settled
      /\ lost' = lost + 1 /\ lost < setting.lost
      /\ marker' = marker /\ cache' = cache /\ unlinking' = unlinking
  BY DEF LosePost, markerVars
<1>3. PageInv /\ TimerInv /\ MarkerTypes /\ setting \in Settings
  BY DEF Inv, PlayerInv, RenewalInv
<1>4. settled \in Nat /\ lost \in Nat /\ setting.lost \in Nat
  BY <1>3, SettingsAssumption DEF MarkerTypes
<1>5. MarkerTypes'
  BY <1>1, <1>2, <1>3, <1>4 DEF MarkerTypes
<1>6. (Wanted' <=> Wanted) /\ TimerInv'
  BY <1>2, <1>3, SameWishes
<1>7. PostInv'
  BY <1>1, <1>2 DEF RenewalInv, PostInv
<1>8. UnlinkInv'
  <2>1. lost * Renew \in Nat /\ (lost + 1) * Renew = lost * Renew + Renew
    BY <1>4, Multiples
  <2> DEFINE a == lost * Renew
             b == (lost + 1) * Renew
  <2>2. a \in Nat /\ b = a + Renew
    BY <2>1
  <2>3. (unlinking # {} /\ Wanted) => settled <= MaxDelay + a
    BY DEF RenewalInv, UnlinkInv
  <2> HIDE DEF a, b
  <2>4. (unlinking # {} /\ Wanted) => settled <= MaxDelay + b
    BY <1>4, <2>2, <2>3, Multiples
  <2> QED  BY <1>2, <1>6, <2>4 DEF UnlinkInv, b
<1>9. ASSUME NEW u \in Viewers, Wanting(u), NEW J \in Nat
      PROVE  Cardinality(Gone(u, J)') + lost <= Cardinality(Gone(u, J)) + lost'
  <2>1. Wants(page[u]) /\ page'[u].timer = page[u].timer
    BY <1>2, <1>9 DEF Wanting
  <2>2. Cardinality(Gone(u, J)') <= Cardinality(Gone(u, J)) + 1
    BY <1>1, <1>3, <2>1, GoneOne
  <2> QED  BY <1>2, <1>4, <2>2, GoneCounts
<1>10. RenewedInv'
  <2>1. lost' >= lost /\ (unlinking' = {} => unlinking = {})
    BY <1>2, <1>4
  <2> QED  BY <1>2, <1>5, <1>9, <2>1, CarryAll
<1>11. CacheInv' /\ ExpireInv'
  BY <1>2, <1>6 DEF RenewalInv, CacheInv, ExpireInv, Settling
<1> QED  BY <1>5, <1>6, <1>7, <1>8, <1>10, <1>11 DEF RenewalInv

\* The daemon looks: it unlinks only a marker that has run out.
LEMMA LookKeeps ==
  ASSUME Inv, RenewalInv, DaemonLooks
  PROVE  RenewalInv'
<1>1. page' = page /\ server' = server /\ setting' = setting /\ settled' = settled
      /\ lost' = lost /\ posts' = posts /\ marker' = marker
      /\ cache' = [left |-> IF marker = NoMarker THEN 0 ELSE marker.left, fresh |-> TRUE]
      /\ unlinking' = IF marker # NoMarker /\ marker.left = 0 THEN unlinking \cup {Daemon}
                      ELSE unlinking
  BY DEF DaemonLooks, LookAtMarker
<1>2. PageInv /\ TimerInv /\ MarkerTypes /\ setting \in Settings
  BY DEF Inv, PlayerInv, RenewalInv
<1>3. settled \in Nat /\ lost \in Nat
  BY <1>2 DEF MarkerTypes
<1>4. (Wanted' <=> Wanted) /\ TimerInv'
  BY <1>1, <1>2, SameWishes
<1>5. MarkerTypes'
  <2>1. marker # NoMarker => marker.left \in 0..Ttl
    BY <1>2 DEF MarkerTypes, Markers
  <2>2. (IF marker = NoMarker THEN 0 ELSE marker.left) \in 0..Ttl
    BY <2>1, Multiples
  <2> QED  BY <1>1, <1>2, <2>2 DEF MarkerTypes
<1>6. PostInv'
  BY <1>1 DEF RenewalInv, PostInv
<1>7. UnlinkInv'
  <2>1. CASE unlinking # {}
    BY <1>1, <1>4, <2>1 DEF RenewalInv, UnlinkInv
  <2>2. CASE unlinking = {}
    <3> SUFFICES ASSUME unlinking' # {}, Wanted
                 PROVE  settled <= MaxDelay + lost * Renew
      BY <1>1, <1>4 DEF UnlinkInv
    <3>1. marker # NoMarker /\ marker.left = 0
      BY <1>1, <2>2
    <3>2. PICK u \in Viewers : Wanting(u)
      BY DEF Wanted
    <3>3. Wants(page[u])
      BY <3>2 DEF Wanting
    <3>4. ~Held(u)
      BY <1>2, <3>1, <3>3, HeldLasts
    <3>5. Undelivered(u)
      BY <3>1, <3>2, <3>4 DEF RenewalInv, RenewedInv
    <3> QED  BY <1>2, <3>3, <3>5, UndeliveredYoung
  <2> QED  BY <2>1, <2>2
<1>8. RenewedInv'
  <2>1. lost' >= lost /\ (unlinking' = {} => unlinking = {})
    BY <1>1, <1>3
  <2>2. ASSUME NEW u \in Viewers, Wanting(u), NEW J \in Nat
        PROVE  Cardinality(Gone(u, J)') + lost <= Cardinality(Gone(u, J)) + lost'
    <3>1. Gone(u, J)' = Gone(u, J)
      BY <1>1 DEF Gone, Sent, Age
    <3> QED  BY <1>1, <1>3, <3>1, GoneCounts
  <2> QED  BY <1>1, <1>5, <2>1, <2>2, CarryAll
<1>9. CacheInv'
  <2> SUFFICES ASSUME Wanted, settled > Settling
               PROVE  cache'.left > 0
    BY <1>1, <1>4 DEF CacheInv, Settling
  <2>1. PICK u \in Viewers : Wanting(u)
    BY DEF Wanted
  <2>2. marker # NoMarker /\ marker.left > 0
    BY <2>1, LateHeld DEF Held
  <2> QED  BY <1>1, <2>2
<1>10. ExpireInv'
  BY <1>1, <1>4 DEF RenewalInv, ExpireInv
<1> QED  BY <1>4, <1>5, <1>6, <1>7, <1>8, <1>9, <1>10 DEF RenewalInv

\* The file goes, which may be another one than was looked at.
LEMMA UnlinkKeeps ==
  ASSUME Inv, RenewalInv, FileUnlinked
  PROVE  RenewalInv'
<1>1. page' = page /\ server' = server /\ setting' = setting /\ settled' = settled
      /\ lost' = lost /\ posts' = posts /\ marker' = NoMarker /\ cache' = cache
      /\ unlinking # {}
  BY DEF FileUnlinked, Unlink
<1>2. PageInv /\ TimerInv /\ MarkerTypes /\ setting \in Settings
  BY DEF Inv, PlayerInv, RenewalInv
<1>3. settled \in Nat /\ lost \in Nat
  BY <1>2 DEF MarkerTypes
<1>4. (Wanted' <=> Wanted) /\ TimerInv' /\ \A u \in Viewers : Wanting(u)' <=> Wanting(u)
  BY <1>1, <1>2, SameWishes
<1>5. MarkerTypes' /\ PostInv'
  BY <1>1, <1>2 DEF MarkerTypes, RenewalInv, PostInv
<1>6. Wanted => settled <= MaxDelay + lost * Renew
  BY <1>1 DEF RenewalInv, UnlinkInv
<1>7. UnlinkInv'
  BY <1>1, <1>4, <1>6 DEF UnlinkInv
<1>8. RenewedInv'
  <2> SUFFICES ASSUME NEW u \in Viewers, Wanting(u)
               PROVE  Early(u)'
    BY <1>1, <1>4 DEF RenewedInv
  <2>1. Wants(page[u]) /\ Wanted
    BY DEF Wanting, Wanted
  <2>2. Early(u)
    BY <1>2, <1>6, <2>1, YoungEarly
  <2> QED  BY <1>1, <2>2 DEF Early, Gone, Sent, Age
<1>9. CacheInv' /\ ExpireInv'
  BY <1>1, <1>4 DEF RenewalInv, CacheInv, ExpireInv, Settling
<1> QED  BY <1>4, <1>5, <1>7, <1>8, <1>9 DEF RenewalInv

\* The interval: one more renewal is under way, the others are one further.
LEMMA RenewKeeps ==
  ASSUME Inv, RenewalInv, PageInv', RenewSuppression
  PROVE  RenewalInv'
<1>1. PICK v \in Viewers :
        /\ page[v].timer = 0
        /\ IF Wants(page[v])
           THEN Post(v, TRUE) /\ page' = [page EXCEPT ![v].timer = Renew] /\ UNCHANGED settled
           ELSE UpdateSuppression(v, page[v])
  BY DEF RenewSuppression
<1>2. PageInv /\ TimerInv /\ MarkerTypes /\ setting \in Settings
  BY DEF Inv, PlayerInv, RenewalInv
<1>3. NoTimer # 0 /\ NoTimer # Renew
  BY TimesAssumption
<1>4. Wants(page[v]) /\ page[v].state = "open"
  BY <1>1, <1>2, <1>3 DEF TimerInv, Open
<1>5. page' = [page EXCEPT ![v].timer = Renew] /\ settled' = settled
      /\ posts' = posts \cup {[owner |-> v, active |-> TRUE, age |-> 0]}
  BY <1>1, <1>4 DEF Post
<1>6. server' = server /\ setting' = setting /\ lost' = lost
      /\ marker' = marker /\ cache' = cache /\ unlinking' = unlinking
  BY DEF RenewSuppression, markerVars
<1>7. /\ page'[v] = [page[v] EXCEPT !.timer = Renew] /\ page'[v].timer = Renew
      /\ Wants(page'[v]) /\ page'[v].state = "open"
      /\ \A u \in Viewers : u # v => page'[u] = page[u]
  BY <1>2, <1>4, <1>5 DEF PageInv, Pages, Wants
<1>8. \A u \in Viewers : (Wanting(u)' <=> Wanting(u)) /\ Wants(page'[u]) = Wants(page[u])
  <2> TAKE u \in Viewers
  <2>1. CASE u = v
    BY <1>4, <1>6, <1>7, <2>1 DEF Wanting, Open, Wants
  <2>2. CASE u # v
    BY <1>6, <1>7, <2>2 DEF Wanting, Open
  <2> QED  BY <2>1, <2>2
<1>9. Wanted' <=> Wanted
  BY <1>8 DEF Wanted
<1>10. TimerInv'
  <2> SUFFICES ASSUME NEW u \in Viewers
               PROVE  /\ (page'[u].timer # NoTimer) <=> Wants(page'[u])
                      /\ Wants(page'[u]) => page'[u].state = "open"
    BY DEF TimerInv, Open
  <2>1. CASE u = v
    BY <1>3, <1>7, <2>1
  <2>2. CASE u # v
    BY <1>2, <1>7, <2>2 DEF TimerInv, Open
  <2> QED  BY <2>1, <2>2
<1>11. settled \in Nat /\ lost \in Nat
  BY <1>2 DEF MarkerTypes
<1>12. MarkerTypes'
  <2>1. [owner |-> v, active |-> TRUE, age |-> 0] \in Posts
    BY Multiples DEF Posts
  <2> QED  BY <1>2, <1>5, <1>6, <2>1 DEF MarkerTypes
<1>13. PostInv'
  <2> SUFFICES ASSUME NEW r \in posts', ~r.active \/ ~Wants(page'[r.owner])
               PROVE  r.age >= settled'
    BY DEF PostInv
  <2>1. r \in posts
    BY <1>5, <1>7
  <2>2. r.owner \in Viewers
    BY <1>2, <2>1 DEF MarkerTypes, Posts
  <2> QED  BY <1>5, <1>8, <2>1, <2>2 DEF RenewalInv, PostInv
<1>14. UnlinkInv' /\ CacheInv' /\ ExpireInv'
  BY <1>5, <1>6, <1>9 DEF RenewalInv, UnlinkInv, CacheInv, ExpireInv, Settling
<1>15. ASSUME NEW u \in Viewers, Wanting(u), u # v
       PROVE  /\ Undelivered(u) => Undelivered(u)'
              /\ Early(u) => Early(u)'
              /\ Held(u) => Held(u)'
  <2>1. page'[u].timer = page[u].timer /\ Wants(page[u])
    BY <1>7, <1>15 DEF Wanting
  <2>2. ASSUME NEW J \in Nat
        PROVE  Cardinality(Gone(u, J)') + lost <= Cardinality(Gone(u, J)) + lost'
    <3>1. Cardinality(Gone(u, J)') <= Cardinality(Gone(u, J))
      BY <1>5, <2>1, GoneSame
    <3> QED  BY <1>6, <1>11, <3>1, GoneCounts
  <2>3. settled' <= settled /\ lost' >= lost
    BY <1>5, <1>6, <1>11
  <2> QED  BY <1>2, <1>6, <1>12, <2>1, <2>2, <2>3, Carry
<1>16. \A j \in Int : Age(v, j + 1)' = Age(v, j)
  <2> TAKE j \in Int
  <2>1. (j + 1) * Renew = j * Renew + Renew /\ j * Renew \in Int /\ Renew \in Int
    BY Multiples
  <2>2. Age(v, j) = j * Renew - 0 /\ Age(v, j + 1)' = (j + 1) * Renew - Renew
    BY <1>1, <1>7 DEF Age
  <2> QED  BY <2>1, <2>2
<1>17. ASSUME NEW J \in Nat
       PROVE  Cardinality(Gone(v, J + 1)') <= Cardinality(Gone(v, J))
  <2> DEFINE f == [j \in Gone(v, J + 1)' |-> j - 1]
  <2>1. ASSUME NEW j \in Gone(v, J + 1)'
        PROVE  j - 1 \in Gone(v, J) /\ j \in Int
    <3>1. j \in 1..(J + 1) /\ Sent(v, j)' \notin posts'
      BY DEF Gone
    <3>2. j \in Int /\ j - 1 \in Int /\ (j - 1) + 1 = j
      BY <3>1
    <3>3. Age(v, (j - 1) + 1)' = Age(v, j - 1)
      BY <1>16, <3>2
    <3>4. Age(v, j)' = Age(v, j - 1)
      BY <3>2, <3>3
    <3>5. Sent(v, j)' = Sent(v, j - 1)
      BY <3>4 DEF Sent
    <3>6. Sent(v, j - 1) \notin posts
      BY <1>5, <3>1, <3>5
    <3>7. j # 1
      <4>1. SUFFICES ASSUME j = 1 PROVE FALSE
        OBVIOUS
      <4>2. Age(v, 0) = 0
        <5>1. 0 * Renew = 0
          BY Multiples
        <5> QED  BY <1>1, <5>1 DEF Age
      <4>3. j - 1 = 0
        BY <4>1
      <4>4. Age(v, j)' = 0
        BY <3>4, <4>2, <4>3
      <4>5. Sent(v, j)' = [owner |-> v, active |-> TRUE, age |-> 0]
        BY <4>4 DEF Sent
      <4> QED  BY <1>5, <3>1, <4>5
    <3>8. j - 1 \in 1..J
      BY <3>1, <3>7
    <3> QED  BY <3>2, <3>6, <3>8 DEF Gone
  <2>2. f \in Injection(Gone(v, J + 1)', Gone(v, J))
    <3>1. f \in [Gone(v, J + 1)' -> Gone(v, J)]
      BY <2>1
    <3>2. \A i, j \in Gone(v, J + 1)' : f[i] = f[j] => i = j
      <4> SUFFICES ASSUME NEW i \in Gone(v, J + 1)', NEW j \in Gone(v, J + 1)', f[i] = f[j]
                   PROVE  i = j
        OBVIOUS
      <4>1. i \in Int /\ j \in Int
        BY <2>1
      <4>2. f[i] = i - 1 /\ f[j] = j - 1
        OBVIOUS
      <4> QED  BY <4>1, <4>2
    <3> HIDE DEF f
    <3> QED  BY <3>1, <3>2 DEF Injection, IsInjective
  <2> HIDE DEF f
  <2>3. IsFiniteSet(Gone(v, J))
    BY GoneFinite
  <2> QED  BY <2>2, <2>3, FS_Injection
<1>18. ASSUME Wanting(v)
       PROVE  /\ Undelivered(v) => Undelivered(v)'
              /\ Early(v) => Early(v)'
              /\ Held(v) => Held(v)'
  <2>1. \A J \in Nat : J + 1 \in Nat /\ Cardinality(Gone(v, J + 1)') \in Nat
                       /\ Cardinality(Gone(v, J)) \in Nat
    BY GoneCounts
  <2>2. ASSUME Undelivered(v) PROVE Undelivered(v)'
    <3>1. PICK J \in Nat : Cardinality(Gone(v, J)) <= lost /\ Age(v, J) >= settled
      BY <2>2 DEF Undelivered
    <3>2. Cardinality(Gone(v, J + 1)') <= lost'
      BY <1>6, <1>11, <1>17, <2>1, <3>1
    <3>3. Age(v, J + 1)' >= settled'
      BY <1>5, <1>16, <3>1
    <3> QED  BY <3>2, <3>3, <2>1 DEF Undelivered
  <2>3. ASSUME Early(v) PROVE Early(v)'
    <3>1. PICK J \in Nat, k \in Nat : /\ Cardinality(Gone(v, J)) + k <= lost
                                      /\ Age(v, J + 1 + k) + MaxDelay >= settled
      BY <2>3 DEF Early
    <3>2. Cardinality(Gone(v, J + 1)') + k <= lost'
      BY <1>6, <1>11, <1>17, <2>1, <3>1
    <3>3. (J + 1) + 1 + k = (J + 1 + k) + 1 /\ J + 1 + k \in Int
      OBVIOUS
    <3>4. Age(v, (J + 1) + 1 + k)' = Age(v, J + 1 + k)
      BY <1>16, <3>3
    <3>5. Age(v, (J + 1) + 1 + k)' + MaxDelay >= settled'
      BY <1>5, <3>1, <3>4
    <3>6. J + 1 \in Nat
      OBVIOUS
    <3> QED  BY <3>2, <3>5, <3>6 DEF Early
  <2>4. ASSUME Held(v) PROVE Held(v)'
    <3>1. PICK J \in Nat : Cardinality(Gone(v, J)) <= lost /\ marker.left + Age(v, J + 1) >= Ttl
      BY <2>4 DEF Held
    <3>2. Cardinality(Gone(v, J + 1)') <= lost'
      BY <1>6, <1>11, <1>17, <2>1, <3>1
    <3>3. J + 1 \in Int
      OBVIOUS
    <3>4. marker'.left + Age(v, (J + 1) + 1)' >= Ttl
      BY <1>6, <1>16, <3>1, <3>3
    <3> QED  BY <1>6, <2>1, <2>4, <3>2, <3>4 DEF Held
  <2> QED  BY <2>2, <2>3, <2>4
<1>19. RenewedInv'
  <2> SUFFICES ASSUME NEW u \in Viewers, Wanting(u)
               PROVE  /\ marker # NoMarker => Undelivered(u)' \/ Held(u)'
                      /\ unlinking = {} => Early(u)' \/ Held(u)'
    BY <1>6, <1>8 DEF RenewedInv
  <2>1. /\ marker # NoMarker => Undelivered(u) \/ Held(u)
        /\ unlinking = {} => Early(u) \/ Held(u)
    BY DEF RenewalInv, RenewedInv
  <2>2. CASE u = v
    BY <1>18, <2>1, <2>2
  <2>3. CASE u # v
    BY <1>15, <2>1, <2>3
  <2> QED  BY <2>2, <2>3
<1> QED  BY <1>10, <1>12, <1>13, <1>14, <1>19 DEF RenewalInv

\* A second passes for everyone.
LEMMA TickKeeps ==
  ASSUME Inv, RenewalInv, Tick
  PROVE  RenewalInv'
<1>1. /\ server' = server /\ setting' = setting /\ lost' = lost /\ unlinking = {}
      /\ unlinking' = unlinking
      /\ marker' = IF marker = NoMarker THEN NoMarker
                   ELSE [marker EXCEPT !.left = Decreased(marker.left)]
      /\ cache' = [left |-> Decreased(cache.left), fresh |-> FALSE]
      /\ posts' = {[r EXCEPT !.age = @ + 1] : r \in posts}
      /\ settled' = IF settled < Enough THEN settled + 1 ELSE settled
      /\ \A r \in posts : r.age < MaxDelay
      /\ \A v \in Viewers : page[v].timer # 0
  BY DEF Tick, TimePasses
<1>2. PageInv /\ TimerInv /\ MarkerTypes /\ setting \in Settings
  BY DEF Inv, PlayerInv, RenewalInv
<1>3. settled \in Nat /\ lost \in Nat /\ settled' \in Nat /\ settled' <= settled + 1
  BY <1>1, <1>2 DEF MarkerTypes
<1>4. \A v \in Viewers :
        /\ page[v].timer = NoTimer \/ page[v].timer \in 1..Renew
        /\ page'[v] = [page[v] EXCEPT !.timer = IF @ = NoTimer THEN @ ELSE @ - 1]
  BY <1>1, <1>2 DEF Tick, PageInv, Pages
<1>5. ASSUME NEW v \in Viewers
      PROVE  /\ page'[v].timer = IF page[v].timer = NoTimer THEN NoTimer ELSE page[v].timer - 1
             /\ Wants(page'[v]) = Wants(page[v]) /\ page'[v].state = page[v].state
             /\ (page'[v].timer # NoTimer) <=> (page[v].timer # NoTimer)
  <2>1. /\ page'[v].timer = IF page[v].timer = NoTimer THEN NoTimer ELSE page[v].timer - 1
        /\ Wants(page'[v]) = Wants(page[v]) /\ page'[v].state = page[v].state
    <3>1. page[v] \in Pages
      BY <1>2 DEF PageInv
    <3>2. page'[v] = [page[v] EXCEPT !.timer = IF @ = NoTimer THEN @ ELSE @ - 1]
      BY <1>4
    <3>3. page'[v].timer = IF page[v].timer = NoTimer THEN NoTimer ELSE page[v].timer - 1
      BY <3>1, <3>2 DEF Pages
    <3>4. /\ page'[v].playing = page[v].playing /\ page'[v].audio = page[v].audio
          /\ page'[v].suppress = page[v].suppress /\ page'[v].state = page[v].state
      BY <3>1, <3>2 DEF Pages
    <3>5. Wants(page'[v]) = Wants(page[v])
      BY <3>4 DEF Wants
    <3> QED  BY <3>3, <3>4, <3>5
  <2>2. NoTimer \notin Nat /\ Renew \in Nat
    BY TimesAssumption
  <2>3. page[v].timer \in 1..Renew => page[v].timer - 1 \in Nat
    BY <2>2
  <2>4. (page'[v].timer # NoTimer) <=> (page[v].timer # NoTimer)
    BY <1>4, <2>1, <2>2, <2>3
  <2> QED  BY <2>1, <2>4
<1>6. \A v \in Viewers : Wanting(v)' <=> Wanting(v)
  BY <1>1, <1>5 DEF Wanting, Open
<1>7. Wanted' <=> Wanted
  BY <1>6 DEF Wanted
<1>8. TimerInv'
  BY <1>2, <1>5 DEF TimerInv, Open
<1>9. \A r \in posts : r \in Posts /\ r.owner \in Viewers /\ r.active \in BOOLEAN
                      /\ r.age \in Nat /\ r.age + 1 \in 0..MaxDelay
  <2> TAKE r \in posts
  <2>1. r \in Posts /\ r.age < MaxDelay
    BY <1>1, <1>2 DEF MarkerTypes
  <2> QED  BY <2>1, Multiples DEF Posts
<1> DEFINE older(r) == [owner |-> r.owner, active |-> r.active, age |-> r.age + 1]
<1>9a. posts' = {older(r) : r \in posts}
  <2>1. \A r \in posts : [r EXCEPT !.age = @ + 1] = older(r)
    BY <1>9 DEF Posts
  <2> HIDE DEF older
  <2> QED  BY <1>1, <2>1
<1>10. \A n \in 0..Ttl : Decreased(n) \in 0..Ttl /\ (n > 0 => Decreased(n) = n - 1)
                         /\ (Decreased(n) > 0 => n > 0)
  BY Multiples DEF Decreased
<1>11. marker # NoMarker => marker.left \in 0..Ttl /\ marker' # NoMarker
                            /\ marker'.left = Decreased(marker.left) /\ marker' \in Markers
  <2> SUFFICES ASSUME marker # NoMarker
               PROVE  marker.left \in 0..Ttl /\ marker' # NoMarker
                      /\ marker'.left = Decreased(marker.left) /\ marker' \in Markers
    OBVIOUS
  <2>1. marker \in Markers /\ marker.left \in 0..Ttl
    BY <1>2 DEF MarkerTypes, Markers
  <2>2. marker' = [marker EXCEPT !.left = Decreased(marker.left)]
    BY <1>1
  <2>3. marker' \in Markers /\ marker'.left = Decreased(marker.left)
    BY <1>10, <2>1, <2>2 DEF Markers
  <2>4. marker' # NoMarker
    BY <2>3, MarkerAssumption DEF Markers
  <2> QED  BY <2>1, <2>3, <2>4
<1>12. MarkerTypes'
  <2>1. posts' \subseteq Posts
    <3>1. \A r \in posts : older(r) \in Posts
      BY <1>9 DEF Posts
    <3> HIDE DEF older
    <3> QED  BY <1>9a, <3>1
  <2>2. marker' \in Markers \cup {NoMarker}
    BY <1>1, <1>11
  <2>3. cache.left \in 0..Ttl
    BY <1>2 DEF MarkerTypes
  <2>4. cache' \in [left : 0..Ttl, fresh : BOOLEAN]
    BY <1>1, <1>10, <2>3
  <2> QED  BY <1>1, <1>2, <1>3, <2>1, <2>2, <2>4 DEF MarkerTypes
<1>13. PostInv'
  <2> SUFFICES ASSUME NEW q \in posts', ~q.active \/ ~Wants(page'[q.owner])
               PROVE  q.age >= settled'
    BY DEF PostInv
  <2>1. PICK r \in posts : q = older(r)
    BY <1>9a, Zenon
  <2>2. r.owner \in Viewers /\ r.age \in Nat /\ q.owner = r.owner /\ q.active = r.active
        /\ q.age = r.age + 1
    BY <1>9, <2>1
  <2>3. r.age >= settled
    BY <1>5, <2>2 DEF RenewalInv, PostInv
  <2> QED  BY <1>3, <2>2, <2>3
<1>14. UnlinkInv' /\ CacheInv'
  BY <1>1 DEF UnlinkInv, CacheInv
<1>15. ExpireInv'
  <2> SUFFICES ASSUME ~Wanted
               PROVE  /\ (marker' # NoMarker /\ marker'.left > 0) =>
                           marker'.left + settled' <= Ttl + MaxDelay
                      /\ cache'.left > 0 => cache'.left + settled' <= Ttl + MaxDelay
    BY <1>7 DEF ExpireInv
  <2>1. /\ (marker # NoMarker /\ marker.left > 0) => marker.left + settled <= Ttl + MaxDelay
        /\ cache.left > 0 => cache.left + settled <= Ttl + MaxDelay
    BY DEF RenewalInv, ExpireInv
  <2>2. cache.left \in 0..Ttl /\ cache'.left = Decreased(cache.left)
    BY <1>1, <1>2 DEF MarkerTypes
  <2>3. \A n \in 0..Ttl : (n > 0 => n + settled <= Ttl + MaxDelay) =>
                            (Decreased(n) > 0 => Decreased(n) + settled' <= Ttl + MaxDelay)
    BY <1>3, <1>10, Multiples
  <2>4. marker' # NoMarker => marker # NoMarker
    BY <1>1
  <2> QED  BY <1>11, <2>1, <2>2, <2>3, <2>4
<1>16. ASSUME NEW u \in Viewers, Wanting(u)
       PROVE  /\ Undelivered(u) => Undelivered(u)'
              /\ Early(u) => Early(u)'
              /\ Held(u) => Held(u)'
  <2>1. Wants(page[u]) /\ page[u].timer \in 0..Renew /\ page'[u].timer = page[u].timer - 1
    BY <1>2, <1>5, <1>16, Ages, TimesAssumption DEF Wanting, TimerInv
  <2>2. ASSUME NEW j \in Int
        PROVE  Age(u, j) \in Int /\ Age(u, j)' = Age(u, j) + 1
    <3>1. j * Renew \in Int /\ Renew \in Nat
      BY Multiples
    <3> QED  BY <2>1, <3>1 DEF Age
  <2>3. ASSUME NEW j \in Nat
        PROVE  Sent(u, j) \in posts => Sent(u, j)' \in posts'
    <3> SUFFICES ASSUME Sent(u, j) \in posts
                 PROVE  Sent(u, j)' \in posts'
      OBVIOUS
    <3>1. j \in Int
      OBVIOUS
    <3>2. older(Sent(u, j)) \in posts'
      BY <1>9a, Zenon
    <3>3. older(Sent(u, j)) = [owner |-> u, active |-> TRUE, age |-> Age(u, j) + 1]
      BY DEF Sent
    <3>4. Sent(u, j)' = [owner |-> u, active |-> TRUE, age |-> Age(u, j) + 1]
      BY <2>2, <3>1 DEF Sent
    <3> QED  BY <3>2, <3>3, <3>4
  <2>4. ASSUME NEW J \in Nat
        PROVE  Cardinality(Gone(u, J)') <= Cardinality(Gone(u, J))
    <3>1. Gone(u, J)' \subseteq Gone(u, J)
      BY <2>3 DEF Gone
    <3> QED  BY <3>1, GoneFinite
  <2>5. \A J \in Nat : /\ Cardinality(Gone(u, J)) \in Nat /\ Cardinality(Gone(u, J)') \in Nat
                       /\ J \in Int /\ J + 1 \in Int
    BY GoneCounts
  <2>6. ASSUME Undelivered(u) PROVE Undelivered(u)'
    <3>1. PICK J \in Nat : Cardinality(Gone(u, J)) <= lost /\ Age(u, J) >= settled
      BY <2>6 DEF Undelivered
    <3>2. Cardinality(Gone(u, J)') <= lost'
      BY <1>1, <1>3, <2>4, <2>5, <3>1
    <3>3. Age(u, J)' >= settled'
      BY <1>3, <2>2, <2>5, <3>1
    <3> QED  BY <3>2, <3>3 DEF Undelivered
  <2>7. ASSUME Early(u) PROVE Early(u)'
    <3>1. PICK J \in Nat, k \in Nat : /\ Cardinality(Gone(u, J)) + k <= lost
                                      /\ Age(u, J + 1 + k) + MaxDelay >= settled
      BY <2>7 DEF Early
    <3>2. Cardinality(Gone(u, J)') + k <= lost'
      BY <1>1, <1>3, <2>4, <2>5, <3>1
    <3>3. J + 1 + k \in Int
      OBVIOUS
    <3>4. Age(u, J + 1 + k)' + MaxDelay >= settled'
      BY <1>3, <2>2, <3>1, <3>3, Multiples
    <3> QED  BY <3>2, <3>4 DEF Early
  <2>8. ASSUME Held(u) PROVE Held(u)'
    <3>1. PICK J \in Nat : Cardinality(Gone(u, J)) <= lost /\ marker.left + Age(u, J + 1) >= Ttl
      BY <2>8 DEF Held
    <3>2. Cardinality(Gone(u, J)') <= lost'
      BY <1>1, <1>3, <2>4, <2>5, <3>1
    <3>3. marker # NoMarker /\ marker.left > 0
      BY <1>2, <2>1, <2>8, HeldLasts DEF Held
    <3>4. marker'.left = marker.left - 1 /\ marker.left \in Nat /\ marker' # NoMarker
      BY <1>10, <1>11, <3>3, Multiples
    <3>5. marker'.left + Age(u, J + 1)' >= Ttl
      BY <2>2, <2>5, <3>1, <3>4, Multiples
    <3> QED  BY <3>2, <3>4, <3>5 DEF Held
  <2> QED  BY <2>6, <2>7, <2>8
<1>17. RenewedInv'
  <2> SUFFICES ASSUME NEW u \in Viewers, Wanting(u)
               PROVE  /\ marker' # NoMarker => Undelivered(u)' \/ Held(u)'
                      /\ unlinking' = {} => Early(u)' \/ Held(u)'
    BY <1>6 DEF RenewedInv
  <2>1. /\ marker # NoMarker => Undelivered(u) \/ Held(u)
        /\ unlinking = {} => Early(u) \/ Held(u)
    BY DEF RenewalInv, RenewedInv
  <2>2. marker' # NoMarker => marker # NoMarker
    BY <1>1
  <2> QED  BY <1>1, <1>16, <2>1, <2>2
<1> QED  BY <1>8, <1>12, <1>13, <1>14, <1>15, <1>17 DEF RenewalInv

\* At the start no page plays.
LEMMA InitKeeps == Init => RenewalInv /\ ServerInv
<1> SUFFICES ASSUME Init PROVE RenewalInv /\ ServerInv
  OBVIOUS
<1>1. setting \in Settings /\ (setting.loaded => 1 \in Loads) /\ setting.lost \in Nat
  BY LoadNumbers, SettingsAssumption DEF Init
<1>2. \A v \in Viewers : ~Wants(page[v]) /\ page[v].timer = NoTimer
  BY DEF Init, Wants
<1>3. ~Wanted /\ \A v \in Viewers : ~Wanting(v)
  BY <1>2 DEF Wanted, Wanting
<1>4. MarkerTypes
  <2>1. [owner |-> "crashed", left |-> 0] \in Markers /\ 0 \in 0..Ttl
    BY Multiples DEF Markers
  <2> QED  BY <1>1, <2>1 DEF Init, MarkerInit, MarkerTypes
<1>5. TimerInv /\ PostInv
  BY <1>2 DEF Init, TimerInv, PostInv
<1>6. UnlinkInv /\ RenewedInv /\ CacheInv
  BY <1>3 DEF UnlinkInv, RenewedInv, CacheInv
<1>7. ExpireInv
  <2>1. cache.left = 0 /\ (marker # NoMarker => marker.left = 0)
    BY DEF Init, MarkerInit
  <2> QED  BY <2>1 DEF ExpireInv
<1>8. ServerInv
  BY <1>1 DEF Init, ServerInv
<1> QED  BY <1>4, <1>5, <1>6, <1>7, <1>8 DEF RenewalInv

\* Servers only end and load.
LEMMA ServerStays == Inv /\ ServerInv /\ [Next]_vars => ServerInv'
<1> SUFFICES ASSUME Inv, ServerInv, [Next]_vars PROVE ServerInv'
  OBVIOUS
<1>1. ASSUME NEW v \in Viewers, AnswerLoad(v) PROVE ServerInv'
  <2>1. PICK l \in Loads : server' = [server EXCEPT ![v].blobs = l]
    BY <1>1 DEF AnswerLoad
  <2>2. Loads' = Loads
    BY <1>1 DEF AnswerLoad, Loads
  <2> QED  BY <2>1, <2>2 DEF ServerInv
<1>2. ASSUME NEW v \in Viewers, CloseServer(v) PROVE ServerInv'
  <2>1. server' = [server EXCEPT ![v].up = FALSE] /\ Loads' = Loads
    BY <1>2 DEF CloseServer, Loads
  <2> QED  BY <2>1 DEF ServerInv
<1>3. CASE server' = server /\ setting' = setting
  BY <1>3 DEF ServerInv, Loads
<1>4. ASSUME NEW v \in Viewers, PageStep(v) PROVE server' = server /\ setting' = setting
  BY <1>4 DEF PageStep, OpenPage, Play, Pause, ToggleAudio, ToggleSuppress, Seek, Frame, Load,
              Loaded, LeavePage, Decoded, NodeEnds
<1>5. CASE RenewSuppression \/ Deliver \/ LosePost \/ DaemonLooks \/ FileUnlinked \/ Tick
           \/ UNCHANGED vars
  BY <1>3, <1>5 DEF RenewSuppression, Deliver, LosePost, DaemonLooks, FileUnlinked, Tick, vars
<1> QED  BY <1>1, <1>2, <1>3, <1>4, <1>5 DEF Next, ServerStep

\* Every step keeps what is known of the renewals.
LEMMA StepKeeps == Inv /\ Inv' /\ ServerInv /\ RenewalInv /\ [Next]_vars => RenewalInv'
<1> SUFFICES ASSUME Inv, PageInv', ServerInv, RenewalInv, [Next]_vars PROVE RenewalInv'
  BY DEF Inv
<1>1. ASSUME NEW v \in Viewers, PageStep(v) PROVE RenewalInv'
  BY <1>1, UserKeeps, ViewKeeps DEF PageStep
<1>2. ASSUME NEW v \in Viewers, ServerStep(v) PROVE RenewalInv'
  BY <1>2, CloseKeeps, ViewKeeps DEF ServerStep
<1>3. CASE RenewSuppression \/ Deliver \/ LosePost \/ DaemonLooks \/ FileUnlinked \/ Tick
  BY <1>3, RenewKeeps, DeliverKeeps, LoseKeeps, LookKeeps, UnlinkKeeps, TickKeeps
<1>4. CASE UNCHANGED vars
  <2>1. setting' = setting /\ page' = page /\ posts' = posts /\ server' = server /\ lost' = lost
        /\ settled' = settled /\ markerVars' = markerVars
    BY <1>4 DEF vars
  <2> QED  BY <2>1, QuietKeeps
<1> QED  BY <1>1, <1>2, <1>3, <1>4 DEF Next

\* The daemon does not transcribe while a replay plays whose page has wanted that for a
\* while, and transcribes again when no replay wants it any more: for any number of
\* replays and any times with (lost + 1) * Renew + MaxDelay < Ttl, which is what the
\* SUPPRESSION_ constants of replay/server.ts are for.
THEOREM RenewedInTime == Spec => []SuppressionFollowsReplay
<1>1. Spec => []Inv
  BY InitSound, StepSound, PTL DEF Spec
<1>2. Spec => []ServerInv
  BY <1>1, InitKeeps, ServerStays, PTL DEF Spec
<1>3. Spec => []RenewalInv
  BY <1>1, <1>2, InitKeeps, StepKeeps, PTL DEF Spec
<1>4. Inv /\ RenewalInv => SuppressionFollowsReplay
  <2> SUFFICES ASSUME Inv, RenewalInv
               PROVE  /\ Wanted /\ settled > Settling => Suppressed
                      /\ ~Wanted /\ settled > Ttl + MaxDelay => ~Suppressed
    BY DEF SuppressionFollowsReplay, Wanted, Wanting
  <2>1. ASSUME Wanted, settled > Settling PROVE Suppressed
    <3>1. PICK u \in Viewers : Wanting(u)
      BY <2>1 DEF Wanted
    <3>2. marker # NoMarker /\ marker.left > 0
      BY <2>1, <3>1, LateHeld DEF Held
    <3>3. cache.fresh => cache.left > 0
      BY <2>1 DEF RenewalInv, CacheInv
    <3> QED  BY <3>2, <3>3 DEF Suppressed
  <2>2. ASSUME ~Wanted, settled > Ttl + MaxDelay PROVE ~Suppressed
    <3>1. settled \in Nat /\ cache.left \in Nat /\ (marker # NoMarker => marker.left \in Nat)
      BY Multiples DEF RenewalInv, MarkerTypes, Markers
    <3>2. ~(cache.left > 0) /\ ~(marker # NoMarker /\ marker.left > 0)
      BY <2>2, <3>1, Multiples DEF RenewalInv, ExpireInv
    <3> QED  BY <3>2 DEF Suppressed
  <2> QED  BY <2>1, <2>2
<1> QED  BY <1>1, <1>3, <1>4, PTL
=============================================================================
