----------------------------- MODULE CaptureHelper -----------------------------
(***************************************************************************)
(* The screen capture helpers and the daemon's side of them:               *)
(*   sck/src/mac.rs, wlcap/src/linux.rs   the processes hpm-sck, hpm-wlcap *)
(*   capture/sck.ts, capture/wlcap.ts     the buses that speak to them     *)
(* Both helpers read one request at a time and start the capture inside    *)
(* it: until the system has answered they read nothing else.               *)
(***************************************************************************)
EXTENDS CaptureStore

CONSTANTS
  Backends,   \* of "sck", "wlcap", "x11" and "off", those to consider
  MaxUnread   \* bound: messages the daemon has not read when a helper sends an image

ASSUME HelperAssumption ==
  /\ Backends \subseteq {"sck", "wlcap", "x11", "off"}
  /\ MaxUnread \in Nat

VARIABLES
  backend,     \* how the screen is captured
  helper,      \* the process: "none", "idle", "starting", "capturing", "down"
  helperIn,    \* requests it has not read
  helperOut,   \* messages the daemon has not read
  sent,        \* images the system has delivered
  busStart,    \* the promise start() has returned: "none", "pending", "ok", "failed"
  busProc      \* the bus's `proc` # undefined

helperVars == <<backend, helper, helperIn, helperOut, sent, busStart, busProc>>

HelperInit ==
  /\ backend \in Backends
  /\ helper = "none"
  /\ helperIn = <<>>
  /\ helperOut = <<>>
  /\ sent = 0
  /\ busStart = "none"
  /\ busProc = FALSE

Message(type) == [type |-> type, frame |-> 0]
FrameMessage(n) == [type |-> "frame", frame |-> n]

-----------------------------------------------------------------------------
(* The process. *)

NextRequest(type) == helper = "idle" /\ helperIn # <<>> /\ Head(helperIn) = type

TakeStart ==
  /\ NextRequest("start")
  /\ helper' = "starting"
  /\ helperIn' = Tail(helperIn)
  /\ UNCHANGED <<backend, helperOut, sent, busStart, busProc>>

\* start_capture returns: the portal or the user has agreed, or has not.
CaptureAnswered ==
  /\ helper = "starting"
  /\ \/ helper' = "capturing" /\ helperOut' = Append(helperOut, Message("started"))
     \/ helper' = "idle" /\ helperOut' = Append(helperOut, Message("error"))
  /\ UNCHANGED <<backend, helperIn, sent, busStart, busProc>>

SendFrame ==
  /\ helper = "capturing"
  /\ sent < MaxFrames /\ Len(helperOut) <= MaxUnread
  /\ sent' = sent + 1
  /\ helperOut' = Append(helperOut, FrameMessage(sent'))
  /\ UNCHANGED <<backend, helper, helperIn, busStart, busProc>>

\* Mutant: only a shutdown request ends the process.
HelperEnds_InputIgnored ==
  /\ helper \in {"idle", "capturing"}
  /\ helperIn # <<>> /\ Head(helperIn) = "shutdown"
  /\ helper' = "down"
  /\ UNCHANGED <<backend, helperIn, helperOut, sent, busStart, busProc>>

\* A shutdown request, or the end of the input when the daemon is gone.
HelperEnds ==
  /\ helper \in {"idle", "capturing"}
  /\ \/ helperIn # <<>> /\ Head(helperIn) = "shutdown"
     \/ helperIn = <<>> /\ ~Alive
  /\ helper' = "down"
  /\ UNCHANGED <<backend, helperIn, helperOut, sent, busStart, busProc>>

HelperDies ==
  /\ helper \in {"idle", "starting", "capturing"}
  /\ Fault("helperDies")
  /\ helper' = "down"
  /\ UNCHANGED <<backend, helperIn, helperOut, sent, busStart, busProc>>

-----------------------------------------------------------------------------
(* The bus: `start`, `handleLine`, the close handler and `stop`. *)

\* start(): spawn; the process says "ready" before it reads anything.
BusStart ==
  /\ helper' = "idle"
  /\ helperOut' = <<Message("ready")>>
  /\ busStart' = "pending"
  /\ busProc' = TRUE
  /\ UNCHANGED <<backend, helperIn, sent>>

SettleStart(result) == busStart' = IF busStart = "pending" THEN result ELSE busStart

\* Mutant: an error message does not reject start().
HandleLine_ErrorLogged(m) ==
  /\ helperIn' = IF m.type = "ready" /\ busProc THEN Append(helperIn, "start") ELSE helperIn
  /\ IF m.type = "started" THEN SettleStart("ok") ELSE UNCHANGED busStart

\* What the bus does with the next line; a frame goes to the screen runner.
HandleLine(m) ==
  /\ helperIn' = IF m.type = "ready" /\ busProc THEN Append(helperIn, "start") ELSE helperIn
  /\ CASE m.type = "started" -> SettleStart("ok")
       [] m.type = "error" -> SettleStart("failed")
       [] OTHER -> UNCHANGED busStart

\* The close event: the process has ended and its output is read.
BusClosed ==
  /\ Alive
  /\ busProc /\ helper = "down" /\ helperOut = <<>>
  /\ busProc' = FALSE
  /\ SettleStart("failed")
  /\ UNCHANGED <<backend, helper, helperIn, helperOut, sent>>

\* stop() writes a shutdown request if there is a process, ...
BusStop ==
  /\ helperIn' = IF busProc THEN Append(helperIn, "shutdown") ELSE helperIn
  /\ UNCHANGED <<backend, helper, helperOut, sent, busStart, busProc>>

\* ... and kills it after 5 s.
BusKill ==
  /\ helper' = IF helper = "none" THEN "none" ELSE "down"
  /\ UNCHANGED <<backend, helperIn, helperOut, sent, busStart, busProc>>

HelperSteps == TakeStart \/ CaptureAnswered \/ SendFrame \/ HelperEnds
=============================================================================
