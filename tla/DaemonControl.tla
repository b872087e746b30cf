---------------------------- MODULE DaemonControl ----------------------------
(***************************************************************************)
(* How `hpm start`, `hpm stop`, `hpm encrypt|decrypt` and the detached     *)
(* `_capture` worker coordinate through three files of ~/.hyprmnesia:      *)
(* daemon.pid, daemon.stop and daemon.start.lock (core/daemon.ts, cli.ts). *)
(*                                                                         *)
(* Every process below is one invocation of the CLI, and every step is one *)
(* file-system call or one `kill -0` probe: another process may run        *)
(* between any two.  A starter spawns at most one daemon, so a daemon is   *)
(* named after the starter that spawned it; InitialDaemon is one that was  *)
(* spawned before the first state.  Process ids are not reused.            *)
(***************************************************************************)
EXTENDS Naturals, FiniteSets

CONSTANTS
  Starters,       \* invocations of `hpm start` (from a shell, the TUI or the tray)
  Stoppers,       \* invocations of `hpm stop`
  Converters,     \* invocations of `hpm encrypt` or `hpm decrypt`
  InitialDaemon,  \* the daemon that may already be there
  InitialKinds,   \* which of "fresh", "running", "stale" the first state may be
  Faults,         \* the faults the environment may produce, see FaultKind
  MaxFaults,      \* bound on the number of faults of one behavior
  NoPid, TornPid  \* daemon.pid does not exist; exists but is still empty

FaultKind == {
  "daemonCrash",   \* a daemon is killed from outside, or crashes
  "daemonSignal",  \* SIGINT or SIGTERM reaches a daemon
  "startFails",    \* orch.start() rejects: the daemon exits with code 1
  "spawnFails",    \* child_process.spawn throws or yields no pid
  "starterCrash",  \* an `hpm start` dies between two steps
  "lockStall",     \* a live lock holder is delayed by more than 15 s
  "slowDrain" }    \* orch.stop() takes longer than stopDaemon's 120 s

Daemons == Starters \cup {InitialDaemon}
Procs == Starters \cup Stoppers \cup Converters
NoLock == NoPid

ASSUME ConstantsAssumption ==
  /\ Starters \cap Stoppers = {}
  /\ Starters \cap Converters = {}
  /\ Stoppers \cap Converters = {}
  /\ InitialDaemon \notin Procs
  /\ NoPid # TornPid
  /\ {NoPid, TornPid} \cap (Procs \cup {InitialDaemon}) = {}
  /\ InitialKinds \subseteq {"fresh", "running", "stale"}
  /\ Faults \subseteq FaultKind
  /\ MaxFaults \in Nat

VARIABLES
  pidFile,   \* contents of daemon.pid
  stopFile,  \* does daemon.stop exist?
  lock,      \* who created the present daemon.start.lock, or NoLock
  lockAged,  \* is that file older than DAEMON_LOCK_MAX_AGE_MS?
  daemon,    \* life cycle of every daemon process
  pc,        \* the next step of every CLI process
  seen,      \* the pid a process last read from daemon.pid
  holder,    \* starters whose acquireStartLock returned a descriptor
  outcome,   \* how a process ended
  killed,    \* daemons that stopDaemon had to SIGKILL, but for those still draining
  detached,  \* starters whose open daemon.pid was unlinked before the write
  started,   \* history: per conversion, the daemons whose start was over when it
             \* read daemon.pid
  faults     \* faults so far

records == <<killed, detached, started>>
vars == <<pidFile, stopFile, lock, lockAged, daemon, pc, seen, holder,
          outcome, records, faults>>

DaemonState ==
  {"none", "booting", "starting", "running", "draining", "exiting", "dead"}
StarterStep ==
  {"checkRead", "checkProbe", "clearStop", "statLock", "breakLock", "openLock",
   "aliveRead", "aliveProbe", "aliveUnlink", "spawn", "truncatePid",
   "writePid", "releaseLock", "done"}
StopperStep ==
  {"stopRead", "requestStop", "awaitDeath", "removePid", "clearRequest", "done"}
ConverterStep == {"checkRead", "checkProbe", "convert", "done"}

TypeOK ==
  /\ pidFile \in Daemons \cup {NoPid, TornPid}
  /\ stopFile \in BOOLEAN
  /\ lock \in Daemons \cup {NoLock}
  /\ lockAged \in BOOLEAN
  /\ daemon \in [Daemons -> DaemonState]
  /\ pc \in [Procs -> StarterStep \cup StopperStep \cup ConverterStep]
  /\ \A s \in Starters : pc[s] \in StarterStep
  /\ \A t \in Stoppers : pc[t] \in StopperStep
  /\ \A c \in Converters : pc[c] \in ConverterStep
  /\ seen \in [Procs -> Daemons \cup {NoPid, TornPid}]
  /\ holder \subseteq Starters
  /\ outcome \in [Procs -> {"pending", "already", "running", "inProgress", "failed",
                            "crashed", "nothing", "stopped", "refused", "converted"}]
  /\ killed \subseteq Daemons
  /\ detached \subseteq Starters
  /\ started \in [Converters -> SUBSET Daemons]
  /\ faults \in 0..MaxFaults

Alive(d) == daemon[d] \notin {"none", "dead"}
LiveDaemons == {d \in Daemons : Alive(d)}

Fault(kind) == kind \in Faults /\ faults < MaxFaults /\ faults' = faults + 1

\* A process moves to step `to`; one that ends records its outcome.
Goto(p, to) == pc' = [pc EXCEPT ![p] = to] /\ UNCHANGED outcome
End(p, how) == /\ pc' = [pc EXCEPT ![p] = "done"]
               /\ outcome' = [outcome EXCEPT ![p] = how]

\* unlinkSync(PID_FILE): who has the file open for writing keeps the old inode.
UnlinkPid == /\ pidFile' = NoPid
             /\ detached' = detached \cup {s \in Starters : pc[s] = "writePid"}

\* What was there before: nothing, a daemon, or the pid file of one that has died,
\* perhaps with the lock of an earlier start that has died as well.
Init ==
  /\ \E kind \in InitialKinds :
       /\ pidFile = IF kind = "fresh" THEN NoPid ELSE InitialDaemon
       /\ daemon = [d \in Daemons |->
                      IF d # InitialDaemon \/ kind = "fresh" THEN "none"
                      ELSE IF kind = "running" THEN "running" ELSE "dead"]
       /\ lock \in IF kind = "stale" THEN {NoLock, InitialDaemon} ELSE {NoLock}
  /\ stopFile = FALSE
  /\ lockAged = (lock # NoLock)
  /\ pc = [p \in Procs |-> IF p \in Stoppers THEN "stopRead" ELSE "checkRead"]
  /\ seen = [p \in Procs |-> NoPid]
  /\ holder = {}
  /\ outcome = [p \in Procs |-> "pending"]
  /\ killed = {}
  /\ detached = {}
  /\ started = [c \in Converters |-> {}]
  /\ faults = 0

-----------------------------------------------------------------------------
(* isDaemonAlive: the early exit of cmdStartDaemon and of cmdCrypto.       *)

StartOver == {InitialDaemon} \cup {s \in Starters : pc[s] = "done"}

CheckRead(p) ==
  /\ p \in Starters \cup Converters
  /\ pc[p] = "checkRead"
  /\ seen' = [seen EXCEPT ![p] = pidFile]
  /\ started' = IF p \in Converters THEN [started EXCEPT ![p] = StartOver] ELSE started
  /\ Goto(p, "checkProbe")
  /\ UNCHANGED <<pidFile, stopFile, lock, lockAged, daemon, holder, killed, detached, faults>>

\* Mutant: the two branches of the caller are swapped.
CheckProbe_Swapped(p) ==
  /\ p \in Starters \cup Converters
  /\ pc[p] = "checkProbe"
  /\ Goto(p, IF p \in Starters THEN "convert" ELSE "clearStop")
  /\ UNCHANGED <<pidFile, stopFile, lock, lockAged, daemon, seen, holder, records, faults>>

CheckProbe(p) ==
  /\ p \in Starters \cup Converters
  /\ pc[p] = "checkProbe"
  /\ IF seen[p] \in Daemons /\ Alive(seen[p])
     THEN End(p, IF p \in Starters THEN "already" ELSE "refused")
     ELSE Goto(p, IF p \in Starters THEN "clearStop" ELSE "convert")
  /\ UNCHANGED <<pidFile, stopFile, lock, lockAged, daemon, seen, holder, records, faults>>

-----------------------------------------------------------------------------
(* spawnDaemon.                                                            *)

\* clearStopRequest comes before the lock is taken.
ClearStop(s) ==
  /\ s \in Starters
  /\ pc[s] = "clearStop"
  /\ stopFile' = FALSE
  /\ Goto(s, "statLock")
  /\ UNCHANGED <<pidFile, lock, lockAged, daemon, seen, holder, records, faults>>

\* clearStaleStartLock decides on the file it stats and unlinks by path.
StatLock(s) ==
  /\ s \in Starters
  /\ pc[s] = "statLock"
  /\ Goto(s, IF lock # NoLock /\ lockAged THEN "breakLock" ELSE "openLock")
  /\ UNCHANGED <<pidFile, stopFile, lock, lockAged, daemon, seen, holder, records, faults>>

RemoveLockFile == lock' = NoLock /\ lockAged' = FALSE

BreakLock(s) ==
  /\ s \in Starters
  /\ pc[s] = "breakLock"
  /\ RemoveLockFile
  /\ Goto(s, "openLock")
  /\ UNCHANGED <<pidFile, stopFile, daemon, seen, holder, records, faults>>

\* Mutant: the lock is opened with 'w', which never fails.
OpenLock_NotExclusive(s) ==
  /\ s \in Starters
  /\ pc[s] = "openLock"
  /\ lock' = s
  /\ lockAged' = FALSE
  /\ holder' = holder \cup {s}
  /\ Goto(s, "aliveRead")
  /\ UNCHANGED <<pidFile, stopFile, daemon, seen, records, faults>>

\* Mutant: the re-check under the lock is missing.
OpenLock_NoRecheck(s) ==
  /\ s \in Starters
  /\ pc[s] = "openLock"
  /\ IF lock = NoLock
     THEN /\ lock' = s /\ lockAged' = FALSE /\ holder' = holder \cup {s}
          /\ Goto(s, "spawn")
     ELSE Goto(s, "aliveRead") /\ UNCHANGED <<lock, lockAged, holder>>
  /\ UNCHANGED <<pidFile, stopFile, daemon, seen, records, faults>>

\* openSync(path, 'wx') creates the file or fails; a loser becomes a waiter.
OpenLock(s) ==
  /\ s \in Starters
  /\ pc[s] = "openLock"
  /\ IF lock = NoLock
     THEN lock' = s /\ lockAged' = FALSE /\ holder' = holder \cup {s}
     ELSE UNCHANGED <<lock, lockAged, holder>>
  /\ Goto(s, "aliveRead")
  /\ UNCHANGED <<pidFile, stopFile, daemon, seen, records, faults>>

\* aliveDaemonPidFromFile, called once by the lock holder and in a loop by a
\* waiter (waitForDaemonStarted): read, probe, unlink if the pid is dead.
AliveRead(s) ==
  /\ s \in Starters
  /\ pc[s] = "aliveRead"
  /\ seen' = [seen EXCEPT ![s] = pidFile]
  /\ Goto(s, "aliveProbe")
  /\ UNCHANGED <<pidFile, stopFile, lock, lockAged, daemon, holder, records, faults>>

\* No live pid: a holder goes on to spawn; a waiter polls again, or reaches
\* its 5 s deadline and throws 'daemon start already in progress'.
NoLivePid(s) ==
  IF s \in holder THEN Goto(s, "spawn")
                  ELSE Goto(s, "aliveRead") \/ End(s, "inProgress")

\* Mutant: any pid found is taken for stale.
AliveProbe_NoProbe(s) ==
  /\ s \in Starters
  /\ pc[s] = "aliveProbe"
  /\ IF seen[s] \notin Daemons THEN NoLivePid(s) ELSE Goto(s, "aliveUnlink")
  /\ UNCHANGED <<pidFile, stopFile, lock, lockAged, daemon, seen, holder, records, faults>>

AliveProbe(s) ==
  /\ s \in Starters
  /\ pc[s] = "aliveProbe"
  /\ IF seen[s] \notin Daemons THEN NoLivePid(s)
     ELSE IF ~Alive(seen[s]) THEN Goto(s, "aliveUnlink")
     ELSE IF s \in holder
          THEN /\ pc' = [pc EXCEPT ![s] = "releaseLock"]
               /\ outcome' = [outcome EXCEPT ![s] = "running"]
          ELSE End(s, "running")
  /\ UNCHANGED <<pidFile, stopFile, lock, lockAged, daemon, seen, holder, records, faults>>

AliveUnlink(s) ==
  /\ s \in Starters
  /\ pc[s] = "aliveUnlink"
  /\ UnlinkPid
  /\ NoLivePid(s)
  /\ UNCHANGED <<stopFile, lock, lockAged, daemon, seen, holder, killed, started, faults>>

SpawnWorker(s) ==
  /\ s \in Starters
  /\ pc[s] = "spawn"
  /\ \/ /\ daemon' = [daemon EXCEPT ![s] = "booting"]
        /\ seen' = [seen EXCEPT ![s] = s]
        /\ Goto(s, "truncatePid")
        /\ UNCHANGED faults
     \/ /\ Fault("spawnFails")
        /\ pc' = [pc EXCEPT ![s] = "releaseLock"]
        /\ outcome' = [outcome EXCEPT ![s] = "failed"]
        /\ UNCHANGED <<daemon, seen>>
  /\ UNCHANGED <<pidFile, stopFile, lock, lockAged, holder, records>>

\* writeFileSync(PID_FILE): the file is empty between its open and its write.
TruncatePid(s) ==
  /\ s \in Starters
  /\ pc[s] = "truncatePid"
  /\ pidFile' = TornPid
  /\ Goto(s, "writePid")
  /\ UNCHANGED <<stopFile, lock, lockAged, daemon, seen, holder, records, faults>>

\* Mutant: the pid is never written.
WritePid_Missing(s) ==
  /\ s \in Starters
  /\ pc[s] = "writePid"
  /\ pc' = [pc EXCEPT ![s] = "releaseLock"]
  /\ outcome' = [outcome EXCEPT ![s] = "running"]
  /\ UNCHANGED <<pidFile, stopFile, lock, lockAged, daemon, seen, holder, records, faults>>

\* The write goes to the inode opened by the truncation: if the path was
\* unlinked in between, the pid is lost.
WritePid(s) ==
  /\ s \in Starters
  /\ pc[s] = "writePid"
  /\ pidFile' = IF s \in detached THEN pidFile ELSE s
  /\ pc' = [pc EXCEPT ![s] = "releaseLock"]
  /\ outcome' = [outcome EXCEPT ![s] = "running"]
  /\ UNCHANGED <<stopFile, lock, lockAged, daemon, seen, holder, records, faults>>

\* The `finally` of spawnDaemon unlinks the lock by path, whoever created it.
ReleaseLock(s) ==
  /\ s \in Starters
  /\ pc[s] = "releaseLock"
  /\ RemoveLockFile
  /\ holder' = holder \ {s}
  /\ Goto(s, "done")
  /\ UNCHANGED <<pidFile, stopFile, daemon, seen, records, faults>>

\* An `hpm start` dies: the lock it holds stays on disk.
StarterCrash(s) ==
  /\ s \in Starters
  /\ pc[s] # "done"
  /\ Fault("starterCrash")
  /\ holder' = holder \ {s}
  /\ End(s, "crashed")
  /\ UNCHANGED <<pidFile, stopFile, lock, lockAged, daemon, seen, records>>

\* Time passes. A lock reaches 15 s when its creator is dead, or stalled.
AgeLock ==
  /\ lock # NoLock
  /\ ~lockAged
  /\ lockAged' = TRUE
  /\ \/ lock \notin holder /\ UNCHANGED faults
     \/ lock \in holder /\ Fault("lockStall")
  /\ UNCHANGED <<pidFile, stopFile, lock, daemon, pc, seen, holder, outcome, records>>

-----------------------------------------------------------------------------
(* stopDaemon.                                                             *)

StopRead(t) ==
  /\ t \in Stoppers
  /\ pc[t] = "stopRead"
  /\ seen' = [seen EXCEPT ![t] = pidFile]
  /\ IF pidFile \in Daemons THEN Goto(t, "requestStop") ELSE End(t, "nothing")
  /\ UNCHANGED <<pidFile, stopFile, lock, lockAged, daemon, holder, records, faults>>

\* Mutant: the sentinel is not written.
RequestStop_Missing(t) ==
  /\ t \in Stoppers
  /\ pc[t] = "requestStop"
  /\ Goto(t, "awaitDeath")
  /\ UNCHANGED <<pidFile, stopFile, lock, lockAged, daemon, seen, holder, records, faults>>

RequestStop(t) ==
  /\ t \in Stoppers
  /\ pc[t] = "requestStop"
  /\ stopFile' = TRUE
  /\ Goto(t, "awaitDeath")
  /\ UNCHANGED <<pidFile, lock, lockAged, daemon, seen, holder, records, faults>>

ObserveDeath(t) ==
  /\ t \in Stoppers
  /\ pc[t] = "awaitDeath"
  /\ ~Alive(seen[t])
  /\ Goto(t, "removePid")
  /\ UNCHANGED <<pidFile, stopFile, lock, lockAged, daemon, seen, holder, records, faults>>

\* waitForPidStopped gives up after 120 s and SIGKILLs the process group. That
\* is ample for every daemon that will end by itself, so without "slowDrain" it
\* only happens to one that nothing is going to stop. A request that cannot be
\* written and a SIGKILL that fails are left out.
ForceStop(t) ==
  /\ t \in Stoppers
  /\ pc[t] = "awaitDeath"
  /\ daemon' = [daemon EXCEPT ![seen[t]] = "dead"]
  /\ \/ /\ daemon[seen[t]] = "running" /\ ~stopFile
        /\ killed' = killed \cup {seen[t]}
        /\ UNCHANGED faults
     \/ Alive(seen[t]) /\ Fault("slowDrain") /\ UNCHANGED killed
  /\ Goto(t, "removePid")
  /\ UNCHANGED <<pidFile, stopFile, lock, lockAged, seen, holder, detached, started>>

\* Unlinks daemon.pid by path, whichever daemon it names by now.
RemovePid(t) ==
  /\ t \in Stoppers
  /\ pc[t] = "removePid"
  /\ UnlinkPid
  /\ Goto(t, "clearRequest")
  /\ UNCHANGED <<stopFile, lock, lockAged, daemon, seen, holder, killed, started, faults>>

\* Mutant: the sentinel is left behind.
ClearRequest_Missing(t) ==
  /\ t \in Stoppers
  /\ pc[t] = "clearRequest"
  /\ End(t, "stopped")
  /\ UNCHANGED <<pidFile, stopFile, lock, lockAged, daemon, seen, holder, records, faults>>

ClearRequest(t) ==
  /\ t \in Stoppers
  /\ pc[t] = "clearRequest"
  /\ stopFile' = FALSE
  /\ End(t, "stopped")
  /\ UNCHANGED <<pidFile, lock, lockAged, daemon, seen, holder, records, faults>>

-----------------------------------------------------------------------------
(* cmdCrypto rewrites the index and the blobs after its one check.         *)

FinishConversion(c) ==
  /\ c \in Converters
  /\ pc[c] = "convert"
  /\ End(c, "converted")
  /\ UNCHANGED <<pidFile, stopFile, lock, lockAged, daemon, seen, holder, records, faults>>

-----------------------------------------------------------------------------
(* cmdCapture, the daemon process.                                         *)

CliUnchanged == UNCHANGED <<pidFile, lock, lockAged, pc, seen, holder, outcome, records>>
DaemonGoto(d, old, new) == daemon[d] = old /\ daemon' = [daemon EXCEPT ![d] = new]

\* clearStopRequest at boot, before the orchestrator starts.
CaptureBoot(d) ==
  DaemonGoto(d, "booting", "starting") /\ stopFile' = FALSE /\ CliUnchanged /\ UNCHANGED faults

\* The stop watch is only installed once orch.start() has resolved.
CaptureStarted(d) ==
  DaemonGoto(d, "starting", "running") /\ CliUnchanged /\ UNCHANGED <<stopFile, faults>>

CaptureStartFails(d) ==
  DaemonGoto(d, "starting", "dead") /\ Fault("startFails") /\ CliUnchanged /\ UNCHANGED stopFile

\* Mutant: the daemon only listens to signals.
CaptureShutdown_NoWatch(d) ==
  /\ DaemonGoto(d, "running", "draining")
  /\ Fault("daemonSignal")
  /\ CliUnchanged
  /\ UNCHANGED stopFile

\* The 250 ms poll finds daemon.stop, or a signal arrives: shutdown, once.
CaptureShutdown(d) ==
  /\ DaemonGoto(d, "running", "draining")
  /\ \/ stopFile /\ UNCHANGED faults
     \/ Fault("daemonSignal")
  /\ CliUnchanged
  /\ UNCHANGED stopFile

\* orch.stop() is over: clear the request, then process.exit.
CaptureDrained(d) ==
  DaemonGoto(d, "draining", "exiting") /\ stopFile' = FALSE /\ CliUnchanged /\ UNCHANGED faults

CaptureExit(d) ==
  DaemonGoto(d, "exiting", "dead") /\ CliUnchanged /\ UNCHANGED <<stopFile, faults>>

CaptureCrash(d) ==
  /\ Alive(d)
  /\ Fault("daemonCrash")
  /\ daemon' = [daemon EXCEPT ![d] = "dead"]
  /\ CliUnchanged
  /\ UNCHANGED stopFile

-----------------------------------------------------------------------------

StarterNext(s) ==
  \/ CheckRead(s) \/ CheckProbe(s) \/ ClearStop(s) \/ StatLock(s) \/ BreakLock(s)
  \/ OpenLock(s) \/ AliveRead(s) \/ AliveProbe(s) \/ AliveUnlink(s)
  \/ SpawnWorker(s) \/ TruncatePid(s) \/ WritePid(s) \/ ReleaseLock(s)
StopperNext(t) ==
  \/ StopRead(t) \/ RequestStop(t) \/ ObserveDeath(t) \/ ForceStop(t)
  \/ RemovePid(t) \/ ClearRequest(t)
ConverterNext(c) == CheckRead(c) \/ CheckProbe(c) \/ FinishConversion(c)
CaptureNext(d) ==
  \/ CaptureBoot(d) \/ CaptureStarted(d) \/ CaptureShutdown(d)
  \/ CaptureDrained(d) \/ CaptureExit(d)

\* Every process has ended: the files rest until the next invocation.
AllDone == (\A p \in Procs : pc[p] = "done") /\ UNCHANGED vars

Next ==
  \/ \E s \in Starters : StarterNext(s) \/ StarterCrash(s)
  \/ \E t \in Stoppers : StopperNext(t)
  \/ \E c \in Converters : ConverterNext(c)
  \/ \E d \in Daemons : CaptureNext(d) \/ CaptureStartFails(d) \/ CaptureCrash(d)
  \/ AgeLock
  \/ AllDone

Spec == Init /\ [][Next]_vars

\* A process that can take its next step eventually does: these are operating
\* system processes, each running straight-line code between its steps.
FairSpec ==
  /\ Spec
  /\ \A s \in Starters : WF_vars(StarterNext(s))
  /\ \A t \in Stoppers : WF_vars(StopperNext(t))
  /\ \A c \in Converters : WF_vars(ConverterNext(c))
  /\ \A d \in Daemons : WF_vars(CaptureNext(d))

-----------------------------------------------------------------------------
(* Properties.                                                             *)

\* At most one `hpm start` is between acquireStartLock and releaseStartLock,
\* and the lock file on disk is its own (daemon.ts: acquireStartLock, wx).
StartLockExclusive ==
  /\ \A s1, s2 \in holder : s1 = s2
  /\ \A s \in holder : lock = s

\* README: "concurrent invocations converge on one running daemon instead of
\* spawning duplicates": no two capture processes are ever alive together.
AtMostOneDaemon == \A d1, d2 \in LiveDaemons : d1 = d2

\* Every `hpm start` that reports a pid reports the one daemon that daemon.pid
\* names and that is alive, once no start is in its critical section.
StartersConverge ==
  holder = {} =>
    \A s \in Starters :
      pc[s] = "done" /\ outcome[s] \in {"already", "running"} =>
        Alive(seen[s]) /\ pidFile = seen[s]

\* cli.ts, shutdown: "Stops captures exactly once, whether triggered by a
\* process signal or by the daemon stop sentinel written by `hpm stop`": the
\* sentinel is enough, nobody has to be killed without a drain, unless a start
\* that has found no daemon takes it back (section 4 of the README).
NeverForced ==
  (\A s \in Starters : pc[s] \in {"checkRead", "checkProbe"} \/ outcome[s] = "already")
    => killed = {}

\* cmdCrypto "refuses to run while the daemon is alive to avoid racing on the
\* files it has open". It looks once: what it can meet is the daemon of a start
\* that was not over when it looked (section 4 of the README), and no other.
ConversionExcludesStarted ==
  \A c \in Converters : pc[c] = "convert" => started[c] \cap LiveDaemons = {}

\* `hpm stop` says "daemon stopped" of a dead process only, and the sentinel of
\* the last one that ends does not outlive it and stop the next daemon.
StopIsTrue ==
  /\ \A t \in Stoppers : outcome[t] = "stopped" => seen[t] \notin LiveDaemons
  /\ (\A t \in Stoppers : pc[t] = "done") => ~stopFile

\* A stop whose daemon was running brings it down and returns.
StopCompletes ==
  \A t \in Stoppers :
    pc[t] = "requestStop" ~> pc[t] = "done" /\ seen[t] \notin LiveDaemons

\* daemon.pid never changes from a live daemon's pid to something else: a
\* daemon keeps the name by which `hpm stop` will find it.
PidFileFaithful ==
  [][(pidFile \in Daemons /\ Alive(pidFile)) => (pidFile' = pidFile)]_vars
=============================================================================
