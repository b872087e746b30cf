----------------------------- MODULE ScreenCapture -----------------------------
(***************************************************************************)
(* The screen runner (capture/screen.ts): the images of a helper, or those *)
(* a loop takes itself on X11, are recognised, written and inserted one    *)
(* after the other.  Image n is delivered at time Interval + n - 1.        *)
(***************************************************************************)
EXTENDS CaptureHelper

CONSTANT Interval  \* cfg.interval_ms

ASSUME ScreenAssumption == Interval \in Nat \ {0}

VARIABLES
  runner,         \* "off", "starting", "capturing", "draining", "done"
  screenRunning,  \* the runner's `running` flag
  lastAccepted,   \* lastAcceptedAt
  fate            \* of every image: "none", "queued", "written" (its blob is),
                  \* "stored", "failed" (an error event names it)

screenVars == <<runner, screenRunning, lastAccepted, fate>>

ScreenInit ==
  /\ HelperInit
  /\ runner = "off"
  /\ screenRunning = TRUE
  /\ lastAccepted = 0
  /\ fate = [n \in Frames |-> "none"]

InHand == {n \in Frames : fate[n] \in {"queued", "written"}}

\* startScreenCapture.
StartScreen ==
  \/ /\ backend \in {"sck", "wlcap"}
     /\ BusStart
     /\ runner' = "starting"
     /\ UNCHANGED <<screenRunning, lastAccepted, fate>>
  \/ /\ backend \in {"x11", "off"}
     /\ runner' = IF backend = "off" THEN "done" ELSE "capturing"
     /\ UNCHANGED <<helperVars, screenRunning, lastAccepted, fate>>

\* The runner awaits frames.start(): a start that fails ends it, ...
ScreenStarted ==
  /\ Alive
  /\ runner = "starting" /\ busStart \in {"ok", "failed"}
  /\ runner' = IF busStart = "ok" /\ screenRunning THEN "capturing" ELSE "done"
  /\ UNCHANGED <<helperVars, screenRunning, lastAccepted, fate>>

\* ... and a message of the helper goes through the bus; the frame handler
\* throttles, and is subscribed only while the runner captures.
OnFrame(n) ==
  LET at == Interval + n - 1
  IN  IF runner = "capturing" /\ screenRunning /\ at - lastAccepted >= Interval
      THEN lastAccepted' = at /\ fate' = [fate EXCEPT ![n] = "queued"]
      ELSE UNCHANGED <<lastAccepted, fate>>

ReadMessage ==
  /\ Alive
  /\ busProc /\ helperOut # <<>>
  /\ LET m == Head(helperOut)
     IN  /\ HandleLine(m)
         /\ IF m.type = "frame" THEN OnFrame(m.frame) ELSE UNCHANGED <<lastAccepted, fate>>
  /\ helperOut' = Tail(helperOut)
  /\ UNCHANGED <<backend, helper, sent, busProc, runner, screenRunning>>

\* The X11 loop takes a screenshot, stores it, and then sleeps for the interval.
TakeScreenshot ==
  /\ Alive
  /\ backend = "x11" /\ runner = "capturing" /\ screenRunning
  /\ InHand = {}
  /\ sent' = IF sent = 0 THEN 1 ELSE sent + Interval
  /\ sent' \in Frames
  /\ fate' = [fate EXCEPT ![sent'] = "queued"]
  /\ UNCHANGED <<backend, helper, helperIn, helperOut, busStart, busProc, runner,
                 screenRunning, lastAccepted>>

\* processFrame and tick: OCR and blobs.write, ...
WriteImage(n) ==
  /\ Alive
  /\ InHand # {} /\ n = Min(InHand)
  /\ fate[n] = "queued"
  /\ fate' = [fate EXCEPT ![n] = "written"]
  /\ UNCHANGED <<helperVars, runner, screenRunning, lastAccepted>>

\* ... then the row, with the text that was recognised or none; a store that
\* is closed throws, like every other failure into the error event.
InsertImage(n) ==
  /\ Alive
  /\ InHand # {} /\ n = Min(InHand)
  /\ fate[n] = "written"
  /\ fate' = [fate EXCEPT ![n] = IF storeOpen THEN "stored" ELSE "failed"]
  /\ rows' \in IF storeOpen THEN {rows, rows \cup {<<"chunk", n>>}} ELSE {rows}
  /\ UNCHANGED <<helperVars, runner, screenRunning, lastAccepted>>

FrameFails(n) ==
  /\ Alive
  /\ n \in InHand /\ n = Min(InHand)
  /\ Fault("frameFails")
  /\ fate' = [fate EXCEPT ![n] = "failed"]
  /\ UNCHANGED <<helperVars, runner, screenRunning, lastAccepted>>

\* Mutant: the runner does not await the images it has accepted.
RunnerEnds_NotAwaited ==
  /\ Alive
  /\ ~screenRunning
  /\ \/ /\ runner = "capturing"
        /\ runner' = IF backend # "x11" THEN "draining" ELSE "done"
     \/ runner = "draining" /\ runner' = "done"
  /\ UNCHANGED <<helperVars, screenRunning, lastAccepted, fate>>

\* The poll of `running` every 100 ms ends the subscription, and the runner
\* awaits what it has accepted; the X11 loop ends after its tick.
RunnerEnds ==
  /\ Alive
  /\ ~screenRunning
  /\ \/ /\ runner = "capturing" /\ backend # "x11"
        /\ runner' = "draining"
     \/ /\ runner = "draining" \/ (runner = "capturing" /\ backend = "x11")
        /\ InHand = {}
        /\ runner' = "done"
  /\ UNCHANGED <<helperVars, screenRunning, lastAccepted, fate>>
=============================================================================
