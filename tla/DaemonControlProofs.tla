------------------------- MODULE DaemonControlProofs -------------------------
(***************************************************************************)
(* What TLAPS proves of DaemonControl, for any number of invocations:      *)
(* the types; that the start lock is exclusive through crashes and stalls  *)
(* until a start unlinks the lock of a live holder; that, while no daemon  *)
(* dies, concurrent starts leave at most one daemon, and a conversion      *)
(* meets none that was started when it looked; that a daemon reported      *)
(* stopped is dead; and that, until a start finds no daemon, a stop never  *)
(* kills a daemon that drains in time.                                     *)
(***************************************************************************)
EXTENDS DaemonControl, TLAPS

\* No lock file outlives its holder, and none grows old under it.
NoStaleLock == {"starterCrash", "lockStall"} \cap Faults = {}

\* Nothing ends a daemon, and no dead one has left its pid behind.
DaemonsSurvive ==
  /\ Stoppers = {}
  /\ Faults \subseteq {"spawnFails"}
  /\ InitialKinds \subseteq {"fresh", "running"}

CriticalStep == {"spawn", "truncatePid", "writePid", "releaseLock"}
OutsideStep == {"checkRead", "checkProbe", "clearStop", "statLock", "openLock", "done"}

\* The start lock's inductive invariant: holding the descriptor and owning the
\* file on disk are the same thing, and nobody is about to unlink it.
LockInv ==
  /\ StartLockExclusive
  /\ lock # NoLock => lock \in holder
  /\ ~lockAged
  /\ \A s \in Starters :
       /\ pc[s] # "breakLock"
       /\ pc[s] \in CriticalStep => s \in holder
       /\ pc[s] \in OutsideStep => s \notin holder

\* What daemon.pid knows of the live daemons. A daemon is either named by the
\* file or still being entered into it by the lock holder that spawned it.
PidInv ==
  /\ ~stopFile
  /\ detached = {}
  /\ \A d \in Daemons : daemon[d] \in {"none", "booting", "starting", "running"}
  /\ pidFile \in Daemons => Alive(pidFile)
  /\ \A d \in LiveDaemons :
       pidFile = d \/ (d \in Starters /\ pc[d] \in {"truncatePid", "writePid"})
  /\ \A s \in Starters :
       /\ pc[s] # "aliveUnlink"
       /\ pc[s] \in {"spawn", "truncatePid", "writePid"} => pidFile \notin Daemons
       /\ pc[s] \in {"truncatePid", "writePid"} => Alive(s)
       /\ pc[s] = "aliveProbe" /\ seen[s] \in Daemons => Alive(seen[s])
       /\ pc[s] = "aliveProbe" /\ seen[s] \notin Daemons /\ s \in holder
            => pidFile \notin Daemons

-----------------------------------------------------------------------------

\* A stopper that has gone past its read has read a pid: what it waits for and
\* may SIGKILL is a daemon. TypeOK is not inductive without it.
StopperInv ==
  \A t \in Stoppers :
    pc[t] \in {"requestStop", "awaitDeath", "removePid", "clearRequest"} =>
      seen[t] \in Daemons

TypeInv == TypeOK /\ StopperInv

\* TypeInv is inductive.
LEMMA TypeInvariant == Spec => []TypeInv
<1>1. Init => TypeInv
  <2> SUFFICES ASSUME Init
               PROVE  TypeInv
    OBVIOUS
  <2> USE ConstantsAssumption DEF ConstantsAssumption, Daemons, Procs, NoLock
  <2>1. PICK kind \in InitialKinds :
          /\ pidFile = IF kind = "fresh" THEN NoPid ELSE InitialDaemon
          /\ daemon = [d \in Daemons |->
                         IF d # InitialDaemon \/ kind = "fresh" THEN "none"
                         ELSE IF kind = "running" THEN "running" ELSE "dead"]
    BY DEF Init
  <2>2. pidFile \in Daemons \cup {NoPid, TornPid} /\ daemon \in [Daemons -> DaemonState]
    BY <2>1 DEF DaemonState
  <2>3. pc = [p \in Procs |-> IF p \in Stoppers THEN "stopRead" ELSE "checkRead"]
    BY DEF Init
  <2>4. /\ pc \in [Procs -> StarterStep \cup StopperStep \cup ConverterStep]
        /\ \A s \in Starters : pc[s] \in StarterStep
        /\ \A t \in Stoppers : pc[t] \in StopperStep
        /\ \A c \in Converters : pc[c] \in ConverterStep
    <3>1. \A p \in Procs : pc[p] = IF p \in Stoppers THEN "stopRead" ELSE "checkRead"
      BY <2>3
    <3>2. pc \in [Procs -> {"stopRead", "checkRead"}]
      BY <2>3
    <3>3. QED
      BY <3>1, <3>2 DEF StarterStep, StopperStep, ConverterStep
  <2>5. StopperInv
    BY <2>3 DEF StopperInv
  <2>6. /\ stopFile \in BOOLEAN /\ lock \in Daemons \cup {NoLock} /\ lockAged \in BOOLEAN
        /\ started \in [Converters -> SUBSET Daemons] /\ holder \subseteq Starters
        /\ killed \subseteq Daemons /\ detached \subseteq Starters
        /\ faults \in 0..MaxFaults
    <3>1. /\ ~stopFile /\ lock \in {NoLock, InitialDaemon} /\ holder = {}
          /\ killed = {} /\ detached = {} /\ faults = 0
          /\ started = [c \in Converters |-> {}]
      BY DEF Init
    <3>2. stopFile \in BOOLEAN /\ lockAged \in BOOLEAN
      BY DEF Init
    <3>3. MaxFaults \in Nat
      OBVIOUS
    <3>4. QED
      BY <3>1, <3>2, <3>3
  <2>7. seen \in [Procs -> Daemons \cup {NoPid, TornPid}]
    BY DEF Init
  <2>8. outcome \in [Procs -> {"pending", "already", "running", "inProgress", "failed",
                               "crashed", "nothing", "stopped", "refused", "converted"}]
    BY DEF Init
  <2>9. QED
    BY <2>2, <2>4, <2>5, <2>6, <2>7, <2>8 DEF TypeInv, TypeOK
<1>2. TypeInv /\ [Next]_vars => TypeInv'
  <2> SUFFICES ASSUME TypeInv, [Next]_vars
               PROVE  TypeInv'
    OBVIOUS
  <2> USE ConstantsAssumption
      DEF ConstantsAssumption, TypeInv, TypeOK, StopperInv, Daemons, Procs,
          NoLock, DaemonState,
          StarterStep, StopperStep, ConverterStep, Goto, End, records, StartOver
  <2>1. ASSUME NEW s \in Starters, CheckRead(s)
        PROVE  TypeInv'
    BY <2>1 DEF CheckRead
  <2>2. ASSUME NEW s \in Starters, CheckProbe(s)
        PROVE  TypeInv'
    BY <2>2 DEF CheckProbe
  <2>3. ASSUME NEW s \in Starters, ClearStop(s)
        PROVE  TypeInv'
    BY <2>3 DEF ClearStop
  <2>4. ASSUME NEW s \in Starters, StatLock(s)
        PROVE  TypeInv'
    BY <2>4 DEF StatLock
  <2>5. ASSUME NEW s \in Starters, BreakLock(s)
        PROVE  TypeInv'
    BY <2>5 DEF BreakLock, RemoveLockFile
  <2>6. ASSUME NEW s \in Starters, OpenLock(s)
        PROVE  TypeInv'
    <3>1. /\ lock' \in Daemons \cup {NoLock} /\ lockAged' \in BOOLEAN
          /\ holder' \subseteq Starters
      <4>1. CASE lock = NoLock
        <5>1. lock' = s /\ lockAged' = FALSE /\ holder' = holder \cup {s}
          BY ONLY <2>6, <4>1 DEF OpenLock
        <5>2. QED
          BY <5>1
      <4>2. CASE lock # NoLock
        BY <2>6, <4>2 DEF OpenLock
      <4>3. QED
        BY <4>1, <4>2
    <3>2. /\ pc' = [pc EXCEPT ![s] = "aliveRead"]
          /\ UNCHANGED <<outcome, pidFile, stopFile, daemon, seen, records, faults>>
      BY <2>6 DEF OpenLock
    <3>3. QED
      BY <3>1, <3>2
  <2>7. ASSUME NEW s \in Starters, AliveRead(s)
        PROVE  TypeInv'
    BY <2>7 DEF AliveRead
  <2>8. ASSUME NEW s \in Starters, AliveProbe(s)
        PROVE  TypeInv'
    BY <2>8 DEF AliveProbe, NoLivePid
  <2>9. ASSUME NEW s \in Starters, AliveUnlink(s)
        PROVE  TypeInv'
    BY <2>9 DEF AliveUnlink, NoLivePid, UnlinkPid
  <2>10. ASSUME NEW s \in Starters, SpawnWorker(s)
        PROVE  TypeInv'
    BY <2>10 DEF SpawnWorker, Fault
  <2>11. ASSUME NEW s \in Starters, TruncatePid(s)
        PROVE  TypeInv'
    BY <2>11 DEF TruncatePid
  <2>12. ASSUME NEW s \in Starters, WritePid(s)
        PROVE  TypeInv'
    BY <2>12 DEF WritePid
  <2>13. ASSUME NEW s \in Starters, ReleaseLock(s)
        PROVE  TypeInv'
    BY <2>13 DEF ReleaseLock, RemoveLockFile
  <2>14. ASSUME NEW s \in Starters, StarterCrash(s)
        PROVE  TypeInv'
    BY <2>14 DEF StarterCrash, Fault
  <2>15. ASSUME NEW t \in Stoppers, StopRead(t)
        PROVE  TypeInv'
    BY <2>15 DEF StopRead
  <2>16. ASSUME NEW t \in Stoppers, RequestStop(t)
        PROVE  TypeInv'
    BY <2>16 DEF RequestStop
  <2>17. ASSUME NEW t \in Stoppers, ObserveDeath(t)
        PROVE  TypeInv'
    BY <2>17 DEF ObserveDeath
  <2>18. ASSUME NEW t \in Stoppers, ForceStop(t)
        PROVE  TypeInv'
    BY <2>18 DEF ForceStop, Fault, Alive
  <2>19. ASSUME NEW t \in Stoppers, RemovePid(t)
        PROVE  TypeInv'
    BY <2>19 DEF RemovePid, UnlinkPid
  <2>20. ASSUME NEW t \in Stoppers, ClearRequest(t)
        PROVE  TypeInv'
    BY <2>20 DEF ClearRequest
  <2>21. ASSUME NEW c \in Converters, CheckRead(c)
        PROVE  TypeInv'
    BY <2>21 DEF CheckRead
  <2>22. ASSUME NEW c \in Converters, CheckProbe(c)
        PROVE  TypeInv'
    BY <2>22 DEF CheckProbe
  <2>23. ASSUME NEW c \in Converters, FinishConversion(c)
        PROVE  TypeInv'
    BY <2>23 DEF FinishConversion
  <2>24. ASSUME NEW d \in Daemons, CaptureBoot(d)
        PROVE  TypeInv'
    BY <2>24 DEF CaptureBoot, DaemonGoto, CliUnchanged, Fault
  <2>25. ASSUME NEW d \in Daemons, CaptureStarted(d)
        PROVE  TypeInv'
    BY <2>25 DEF CaptureStarted, DaemonGoto, CliUnchanged, Fault
  <2>26. ASSUME NEW d \in Daemons, CaptureShutdown(d)
        PROVE  TypeInv'
    BY <2>26 DEF CaptureShutdown, DaemonGoto, CliUnchanged, Fault
  <2>27. ASSUME NEW d \in Daemons, CaptureDrained(d)
        PROVE  TypeInv'
    BY <2>27 DEF CaptureDrained, DaemonGoto, CliUnchanged, Fault
  <2>28. ASSUME NEW d \in Daemons, CaptureExit(d)
        PROVE  TypeInv'
    BY <2>28 DEF CaptureExit, DaemonGoto, CliUnchanged, Fault
  <2>29. ASSUME NEW d \in Daemons, CaptureStartFails(d)
        PROVE  TypeInv'
    BY <2>29 DEF CaptureStartFails, DaemonGoto, CliUnchanged, Fault
  <2>30. ASSUME NEW d \in Daemons, CaptureCrash(d)
        PROVE  TypeInv'
    BY <2>30 DEF CaptureCrash, CliUnchanged, Fault
  <2>31. CASE AgeLock
    BY <2>31 DEF AgeLock, Fault
  <2>32. CASE UNCHANGED vars
    BY <2>32 DEF vars
  <2>33. QED
    BY <2>1, <2>2, <2>3, <2>4, <2>5, <2>6, <2>7, <2>8, <2>9, <2>10, <2>11, <2>12, <2>13, <2>14,
       <2>15, <2>16, <2>17, <2>18, <2>19, <2>20, <2>21, <2>22, <2>23, <2>24, <2>25, <2>26, <2>27,
          <2>28, <2>29, <2>30, <2>31, <2>32
       DEF Next, StarterNext, StopperNext, ConverterNext, CaptureNext, AllDone
<1>3. QED
  BY <1>1, <1>2, PTL DEF Spec

\* Every variable keeps its type: each CLI invocation stays on the steps of
\* its own command, and the fault budget is respected.
THEOREM TypeCorrect == Spec => []TypeOK
<1>1. TypeInv => TypeOK
  BY DEF TypeInv
<1>2. QED
  BY <1>1, TypeInvariant, PTL

-----------------------------------------------------------------------------

\* What LockInv speaks of is untouched by stoppers, converters and daemons.
LockFrame ==
  UNCHANGED <<lock, lockAged, holder>> /\ \A s \in Starters : pc'[s] = pc[s]

LEMMA OthersLeaveLock ==
  ASSUME TypeInv,
         \/ \E t \in Stoppers : StopperNext(t)
         \/ \E c \in Converters : ConverterNext(c)
         \/ \E d \in Daemons : CaptureNext(d) \/ CaptureStartFails(d) \/ CaptureCrash(d)
  PROVE  LockFrame
<1> USE ConstantsAssumption
    DEF ConstantsAssumption, TypeInv, TypeOK, Procs, LockFrame, Goto, End, records
<1>1. ASSUME NEW t \in Stoppers, StopperNext(t)
      PROVE  LockFrame
  BY <1>1 DEF StopperNext, StopRead, RequestStop, ObserveDeath, ForceStop,
              RemovePid, ClearRequest
<1>2. ASSUME NEW c \in Converters, ConverterNext(c)
      PROVE  LockFrame
  BY <1>2 DEF ConverterNext, CheckRead, CheckProbe, FinishConversion
<1>3. ASSUME NEW d \in Daemons,
             CaptureNext(d) \/ CaptureStartFails(d) \/ CaptureCrash(d)
      PROVE  LockFrame
  BY <1>3 DEF CaptureNext, CaptureBoot, CaptureStarted, CaptureShutdown,
              CaptureDrained, CaptureExit, CaptureStartFails, CaptureCrash,
              DaemonGoto, CliUnchanged
<1>4. QED
  BY <1>1, <1>2, <1>3

\* The lock's invariant is inductive as long as no lock outlives its holder.
LEMMA LockStep ==
  ASSUME NoStaleLock, TypeInv, LockInv, [Next]_vars
  PROVE  LockInv'
<1> USE ConstantsAssumption
    DEF ConstantsAssumption, TypeInv, TypeOK, Procs, NoLock, LockInv,
        StartLockExclusive, CriticalStep, OutsideStep, Goto, End, records
<1>1. ASSUME NEW s \in Starters, CheckRead(s)
      PROVE  LockInv'
  BY <1>1 DEF CheckRead
<1>2. ASSUME NEW s \in Starters, CheckProbe(s)
      PROVE  LockInv'
  BY <1>2 DEF CheckProbe
<1>3. ASSUME NEW s \in Starters, ClearStop(s)
      PROVE  LockInv'
  BY <1>3 DEF ClearStop
<1>4. ASSUME NEW s \in Starters, StatLock(s)
      PROVE  LockInv'
  BY <1>4 DEF StatLock
<1>5. ASSUME NEW s \in Starters, BreakLock(s)
      PROVE  LockInv'
  BY <1>5 DEF BreakLock, RemoveLockFile
<1>6. ASSUME NEW s \in Starters, OpenLock(s)
      PROVE  LockInv'
  BY <1>6 DEF OpenLock
<1>7. ASSUME NEW s \in Starters, AliveRead(s)
      PROVE  LockInv'
  BY <1>7 DEF AliveRead
<1>8. ASSUME NEW s \in Starters, AliveProbe(s)
      PROVE  LockInv'
  BY <1>8 DEF AliveProbe, NoLivePid
<1>9. ASSUME NEW s \in Starters, AliveUnlink(s)
      PROVE  LockInv'
  BY <1>9 DEF AliveUnlink, NoLivePid, UnlinkPid
<1>10. ASSUME NEW s \in Starters, SpawnWorker(s)
      PROVE  LockInv'
  BY <1>10 DEF SpawnWorker, Fault
<1>11. ASSUME NEW s \in Starters, TruncatePid(s)
      PROVE  LockInv'
  BY <1>11 DEF TruncatePid
<1>12. ASSUME NEW s \in Starters, WritePid(s)
      PROVE  LockInv'
  BY <1>12 DEF WritePid
<1>13. ASSUME NEW s \in Starters, ReleaseLock(s)
      PROVE  LockInv'
  BY <1>13 DEF ReleaseLock, RemoveLockFile
<1>14. ASSUME NEW s \in Starters, StarterCrash(s)
      PROVE  LockInv'
  BY <1>14 DEF StarterCrash, Fault, NoStaleLock
<1>15. CASE AgeLock
  BY <1>15 DEF AgeLock, Fault, NoStaleLock
<1>16. CASE LockFrame
  BY <1>16 DEF LockFrame
<1>17. CASE UNCHANGED vars
  BY <1>17 DEF vars
<1>18. QED
  BY OthersLeaveLock, <1>1, <1>2, <1>3, <1>4, <1>5, <1>6, <1>7, <1>8, <1>9, <1>10, <1>11, <1>12,
     <1>13, <1>14, <1>15, <1>16, <1>17
     DEF Next, StarterNext, AllDone

-----------------------------------------------------------------------------

\* A start unlinks no lock whose holder is alive: the stale lock that it has found is
\* that of a dead one, and is still there. The code cannot tell (section 4 of the README).
BreaksOnlyOrphans == \A s \in Starters : BreakLock(s) => lock \notin holder

\* What is left of LockInv when holders die and their locks are broken: a lock file may
\* have no holder, and grow old, but a holder has the file.
OwnerInv ==
  /\ StartLockExclusive
  /\ \A s \in Starters :
       /\ pc[s] \in CriticalStep => s \in holder
       /\ pc[s] \in OutsideStep \cup {"breakLock"} => s \notin holder

\* Every step that unlinks no live holder's lock keeps it.
LEMMA OwnerStep ==
  ASSUME TypeInv, OwnerInv, [Next]_vars, [BreaksOnlyOrphans]_vars
  PROVE  OwnerInv'
<1> USE ConstantsAssumption
    DEF ConstantsAssumption, TypeInv, TypeOK, Procs, Daemons, NoLock, OwnerInv,
        StartLockExclusive, CriticalStep, OutsideStep, Goto, End, records
<1>1. ASSUME NEW s \in Starters, CheckRead(s)
      PROVE  OwnerInv'
  BY <1>1 DEF CheckRead
<1>2. ASSUME NEW s \in Starters, CheckProbe(s)
      PROVE  OwnerInv'
  BY <1>2 DEF CheckProbe
<1>3. ASSUME NEW s \in Starters, ClearStop(s)
      PROVE  OwnerInv'
  BY <1>3 DEF ClearStop
<1>4. ASSUME NEW s \in Starters, StatLock(s)
      PROVE  OwnerInv'
  BY <1>4 DEF StatLock
<1>5. ASSUME NEW s \in Starters, BreakLock(s)
      PROVE  OwnerInv'
  BY <1>5 DEF BreakLock, RemoveLockFile, BreaksOnlyOrphans, vars
<1>6. ASSUME NEW s \in Starters, OpenLock(s)
      PROVE  OwnerInv'
  BY <1>6 DEF OpenLock
<1>7. ASSUME NEW s \in Starters, AliveRead(s)
      PROVE  OwnerInv'
  BY <1>7 DEF AliveRead
<1>8. ASSUME NEW s \in Starters, AliveProbe(s)
      PROVE  OwnerInv'
  BY <1>8 DEF AliveProbe, NoLivePid
<1>9. ASSUME NEW s \in Starters, AliveUnlink(s)
      PROVE  OwnerInv'
  BY <1>9 DEF AliveUnlink, NoLivePid, UnlinkPid
<1>10. ASSUME NEW s \in Starters, SpawnWorker(s)
      PROVE  OwnerInv'
  BY <1>10 DEF SpawnWorker, Fault
<1>11. ASSUME NEW s \in Starters, TruncatePid(s)
      PROVE  OwnerInv'
  BY <1>11 DEF TruncatePid
<1>12. ASSUME NEW s \in Starters, WritePid(s)
      PROVE  OwnerInv'
  BY <1>12 DEF WritePid
<1>13. ASSUME NEW s \in Starters, ReleaseLock(s)
      PROVE  OwnerInv'
  BY <1>13 DEF ReleaseLock, RemoveLockFile
<1>14. ASSUME NEW s \in Starters, StarterCrash(s)
      PROVE  OwnerInv'
  BY <1>14 DEF StarterCrash, Fault
<1>15. CASE AgeLock
  BY <1>15 DEF AgeLock, Fault
<1>16. CASE LockFrame
  BY <1>16 DEF LockFrame
<1>17. CASE UNCHANGED vars
  BY <1>17 DEF vars
<1>18. QED
  BY OthersLeaveLock, <1>1, <1>2, <1>3, <1>4, <1>5, <1>6, <1>7, <1>8, <1>9, <1>10, <1>11, <1>12,
     <1>13, <1>14, <1>15, <1>16, <1>17
     DEF Next, StarterNext, AllDone

\* The start lock excludes (README: "start lock to prevent duplicate daemons") for any
\* number of starts and stops: also when starts die with the lock or stall, and others
\* break what they leave, for as long as what is unlinked is no live holder's lock.
THEOREM LockExcludes ==
  Spec /\ [][BreaksOnlyOrphans]_vars => []StartLockExclusive
<1>1. Init => OwnerInv
  BY ConstantsAssumption
     DEF ConstantsAssumption, Init, OwnerInv, StartLockExclusive, Procs, CriticalStep, OutsideStep
<1>2. TypeInv /\ OwnerInv /\ [Next]_vars /\ [BreaksOnlyOrphans]_vars => OwnerInv'
  BY OwnerStep
<1>3. Spec => []TypeInv
  BY TypeInvariant
<1>4. OwnerInv => StartLockExclusive
  BY DEF OwnerInv
<1>5. QED
  BY <1>1, <1>2, <1>3, <1>4, PTL DEF Spec

-----------------------------------------------------------------------------

\* Two live daemons would both be named by daemon.pid, or be spawned by two
\* holders of the lock, or be one of each while the file is not yet written.
LEMMA PidInvGivesOneDaemon ==
  ASSUME TypeInv, LockInv, PidInv
  PROVE  AtMostOneDaemon
<1> SUFFICES ASSUME NEW d1 \in LiveDaemons, NEW d2 \in LiveDaemons
             PROVE  d1 = d2
  BY DEF AtMostOneDaemon
<1> DEFINE Entering(d) == d \in Starters /\ pc[d] \in {"truncatePid", "writePid"}
<1>1. d1 \in Daemons /\ d2 \in Daemons
  BY DEF LiveDaemons
<1>2. (pidFile = d1 \/ Entering(d1)) /\ (pidFile = d2 \/ Entering(d2))
  BY DEF PidInv
<1>3. \A d \in Daemons : Entering(d) => d \in holder /\ pidFile \notin Daemons
  BY DEF LockInv, CriticalStep, PidInv
<1>4. QED
  BY <1>1, <1>2, <1>3 DEF LockInv, StartLockExclusive

LEMMA PidStep ==
  ASSUME DaemonsSurvive, TypeInv, LockInv, PidInv, [Next]_vars
  PROVE  PidInv'
<1> USE ConstantsAssumption
    DEF ConstantsAssumption, TypeInv, TypeOK, Procs, Daemons, NoLock, LockInv,
        StartLockExclusive, CriticalStep, OutsideStep, PidInv, LiveDaemons,
        Alive, Goto, End, records
<1>1. ASSUME NEW s \in Starters, CheckRead(s)
      PROVE  PidInv'
  BY <1>1 DEF CheckRead
<1>2. ASSUME NEW s \in Starters, CheckProbe(s)
      PROVE  PidInv'
  BY <1>2 DEF CheckProbe
<1>3. ASSUME NEW s \in Starters, ClearStop(s)
      PROVE  PidInv'
  BY <1>3 DEF ClearStop
<1>4. ASSUME NEW s \in Starters, StatLock(s)
      PROVE  PidInv'
  BY <1>4 DEF StatLock
<1>5. ASSUME NEW s \in Starters, BreakLock(s)
      PROVE  PidInv'
  BY <1>5 DEF BreakLock, RemoveLockFile
<1>6. ASSUME NEW s \in Starters, OpenLock(s)
      PROVE  PidInv'
  BY <1>6 DEF OpenLock
<1>7. ASSUME NEW s \in Starters, AliveRead(s)
      PROVE  PidInv'
  BY <1>7 DEF AliveRead
<1>8. ASSUME NEW s \in Starters, AliveProbe(s)
      PROVE  PidInv'
  BY <1>8 DEF AliveProbe, NoLivePid
<1>9. ASSUME NEW s \in Starters, AliveUnlink(s)
      PROVE  PidInv'
  BY <1>9 DEF AliveUnlink, NoLivePid, UnlinkPid
<1>10. ASSUME NEW s \in Starters, SpawnWorker(s)
      PROVE  PidInv'
  BY <1>10 DEF SpawnWorker, Fault
<1>11. ASSUME NEW s \in Starters, TruncatePid(s)
      PROVE  PidInv'
  BY <1>11 DEF TruncatePid
<1>12. ASSUME NEW s \in Starters, WritePid(s)
      PROVE  PidInv'
  <2>1. /\ pc[s] = "writePid" /\ s \in holder /\ s \notin detached
        /\ pidFile' = s /\ pc' = [pc EXCEPT ![s] = "releaseLock"]
        /\ UNCHANGED <<stopFile, lock, daemon, seen, holder, detached>>
    BY <1>12 DEF WritePid
  <2>2. \A r \in Starters : r \in holder => r = s
    BY <2>1
  <2>3. \A d \in LiveDaemons : d = s
    BY <2>1, <2>2
  <2>4. \A r \in Starters : pc[r] \in {"spawn", "truncatePid", "writePid"} => r = s
    BY <2>2
  <2>5. QED
    BY <2>1, <2>2, <2>3, <2>4
<1>13. ASSUME NEW s \in Starters, ReleaseLock(s)
      PROVE  PidInv'
  BY <1>13 DEF ReleaseLock, RemoveLockFile
<1>14. ASSUME NEW c \in Converters, ConverterNext(c)
      PROVE  PidInv'
  BY <1>14 DEF ConverterNext, CheckRead, CheckProbe, FinishConversion
<1>15. ASSUME NEW d \in Daemons, CaptureNext(d)
      PROVE  PidInv'
  BY <1>15 DEF CaptureNext, CaptureBoot, CaptureStarted, CaptureShutdown,
              CaptureDrained, CaptureExit, DaemonGoto, CliUnchanged, Fault, DaemonsSurvive
<1>16. ASSUME NEW s \in Starters, StarterCrash(s)
      PROVE  FALSE
  BY <1>16 DEF StarterCrash, Fault, DaemonsSurvive
<1>17. ASSUME NEW d \in Daemons, CaptureStartFails(d) \/ CaptureCrash(d)
      PROVE  FALSE
  BY <1>17 DEF CaptureStartFails, CaptureCrash, Fault, DaemonsSurvive
<1>18. ASSUME NEW t \in Stoppers
      PROVE  FALSE
  BY <1>18 DEF DaemonsSurvive
<1>19. CASE AgeLock
  BY <1>19 DEF AgeLock, Fault
<1>20. CASE UNCHANGED vars
  BY <1>20 DEF vars
<1>21. QED
  BY <1>1, <1>2, <1>3, <1>4, <1>5, <1>6, <1>7, <1>8, <1>9, <1>10, <1>11, <1>12, <1>13, <1>14,
     <1>15, <1>16, <1>17, <1>18, <1>19, <1>20
     DEF Next, StarterNext, AllDone

LEMMA OneDaemonInvariant ==
  ASSUME DaemonsSurvive
  PROVE  Spec => [](LockInv /\ PidInv)
<1>1. NoStaleLock
  BY DEF DaemonsSurvive, NoStaleLock
<1>2. Init => LockInv /\ PidInv
  <2> SUFFICES ASSUME Init
               PROVE  LockInv /\ PidInv
    OBVIOUS
  <2>7. lock = NoLock /\ ~lockAged
    BY DEF Init, DaemonsSurvive
  <2>8. LockInv
    BY <2>7, ConstantsAssumption
       DEF ConstantsAssumption, Init, LockInv, StartLockExclusive, Procs, NoLock,
           CriticalStep, OutsideStep
  <2>1. \A s \in Starters : pc[s] = "checkRead"
    BY ConstantsAssumption DEF ConstantsAssumption, Init, Procs
  <2>2. ~stopFile /\ detached = {}
    BY DEF Init
  <2>3. PICK kind \in {"fresh", "running"} :
          /\ pidFile = IF kind = "fresh" THEN NoPid ELSE InitialDaemon
          /\ daemon = [d \in Daemons |->
                         IF d # InitialDaemon \/ kind = "fresh" THEN "none"
                         ELSE IF kind = "running" THEN "running" ELSE "dead"]
    BY DEF Init, DaemonsSurvive
  <2>4. CASE kind = "fresh"
    BY <2>8, <2>1, <2>2, <2>3, <2>4, ConstantsAssumption
       DEF ConstantsAssumption, PidInv, Alive, LiveDaemons, Daemons, Procs
  <2>5. CASE kind = "running"
    BY <2>8, <2>1, <2>2, <2>3, <2>5, ConstantsAssumption
       DEF ConstantsAssumption, PidInv, Alive, LiveDaemons, Daemons, Procs
  <2>6. QED
    BY <2>3, <2>4, <2>5
<1>3. TypeInv /\ LockInv /\ PidInv /\ [Next]_vars => (LockInv /\ PidInv)'
  BY <1>1, LockStep, PidStep
<1>4. Spec => []TypeInv
  BY TypeInvariant
<1>5. QED
  BY <1>2, <1>3, <1>4, PTL DEF Spec

\* Concurrent invocations of `hpm start` "converge on one running daemon instead
\* of spawning duplicates" (README), however many there are, as long as no daemon
\* dies or is stopped meanwhile.
THEOREM OneDaemon ==
  ASSUME DaemonsSurvive
  PROVE  Spec => []AtMostOneDaemon
<1>1. TypeInv /\ LockInv /\ PidInv => AtMostOneDaemon
  BY PidInvGivesOneDaemon
<1>2. Spec => []TypeInv
  BY TypeInvariant
<1>3. Spec => [](LockInv /\ PidInv)
  BY OneDaemonInvariant
<1>4. QED
  BY <1>1, <1>2, <1>3, PTL

-----------------------------------------------------------------------------

\* A start that reports a pid has seen it alive, or has spawned it itself.
ReportInv ==
  \A s \in Starters :
    /\ outcome[s] \in {"already", "running"} =>
         /\ pc[s] \in {"releaseLock", "done"}
         /\ seen[s] \in Daemons
         /\ Alive(seen[s])
    /\ pc[s] \in {"truncatePid", "writePid"} => seen[s] = s

LEMMA ReportStep ==
  ASSUME DaemonsSurvive, TypeInv, LockInv, PidInv, ReportInv, [Next]_vars
  PROVE  ReportInv'
<1> USE ConstantsAssumption
    DEF ConstantsAssumption, TypeInv, TypeOK, Procs, Daemons, NoLock, PidInv,
        ReportInv, LiveDaemons, Alive, Goto, End, records
<1>1. ASSUME NEW s \in Starters, CheckRead(s)
      PROVE  ReportInv'
  BY <1>1 DEF CheckRead
<1>2. ASSUME NEW s \in Starters, CheckProbe(s)
      PROVE  ReportInv'
  BY <1>2 DEF CheckProbe
<1>3. ASSUME NEW s \in Starters, ClearStop(s)
      PROVE  ReportInv'
  BY <1>3 DEF ClearStop
<1>4. ASSUME NEW s \in Starters, StatLock(s)
      PROVE  ReportInv'
  BY <1>4 DEF StatLock
<1>5. ASSUME NEW s \in Starters, BreakLock(s)
      PROVE  ReportInv'
  BY <1>5 DEF BreakLock, RemoveLockFile
<1>6. ASSUME NEW s \in Starters, OpenLock(s)
      PROVE  ReportInv'
  BY <1>6 DEF OpenLock
<1>7. ASSUME NEW s \in Starters, AliveRead(s)
      PROVE  ReportInv'
  BY <1>7 DEF AliveRead
<1>8. ASSUME NEW s \in Starters, AliveProbe(s)
      PROVE  ReportInv'
  BY <1>8 DEF AliveProbe, NoLivePid
<1>9. ASSUME NEW s \in Starters, AliveUnlink(s)
      PROVE  ReportInv'
  BY <1>9 DEF AliveUnlink, NoLivePid, UnlinkPid
<1>10. ASSUME NEW s \in Starters, SpawnWorker(s)
      PROVE  ReportInv'
  BY <1>10 DEF SpawnWorker, Fault
<1>11. ASSUME NEW s \in Starters, TruncatePid(s)
      PROVE  ReportInv'
  BY <1>11 DEF TruncatePid
<1>12. ASSUME NEW s \in Starters, WritePid(s)
      PROVE  ReportInv'
  BY <1>12 DEF WritePid
<1>13. ASSUME NEW s \in Starters, ReleaseLock(s)
      PROVE  ReportInv'
  BY <1>13 DEF ReleaseLock, RemoveLockFile
<1>14. ASSUME NEW c \in Converters, ConverterNext(c)
      PROVE  ReportInv'
  BY <1>14 DEF ConverterNext, CheckRead, CheckProbe, FinishConversion
<1>15. ASSUME NEW d \in Daemons, CaptureNext(d)
      PROVE  ReportInv'
  BY <1>15 DEF CaptureNext, CaptureBoot, CaptureStarted, CaptureShutdown,
              CaptureDrained, CaptureExit, DaemonGoto, CliUnchanged, Fault, DaemonsSurvive
<1>16. ASSUME NEW s \in Starters, StarterCrash(s)
      PROVE  FALSE
  BY <1>16 DEF StarterCrash, Fault, DaemonsSurvive
<1>17. ASSUME NEW d \in Daemons, CaptureStartFails(d) \/ CaptureCrash(d)
      PROVE  FALSE
  BY <1>17 DEF CaptureStartFails, CaptureCrash, Fault, DaemonsSurvive
<1>18. ASSUME NEW t \in Stoppers
      PROVE  FALSE
  BY <1>18 DEF DaemonsSurvive
<1>19. CASE AgeLock
  BY <1>19 DEF AgeLock, Fault
<1>20. CASE UNCHANGED vars
  BY <1>20 DEF vars
<1>21. QED
  BY <1>1, <1>2, <1>3, <1>4, <1>5, <1>6, <1>7, <1>8, <1>9, <1>10, <1>11, <1>12, <1>13, <1>14,
     <1>15, <1>16, <1>17, <1>18, <1>19, <1>20
     DEF Next, StarterNext, AllDone

\* Under the same assumption every `hpm start` that reports a pid reports the
\* daemon that daemon.pid names: the invocations converge on it.
THEOREM StartsConverge ==
  ASSUME DaemonsSurvive
  PROVE  Spec => []StartersConverge
<1>1. Init => ReportInv
  BY ConstantsAssumption
     DEF ConstantsAssumption, Init, ReportInv, Procs
<1>2. TypeInv /\ LockInv /\ PidInv /\ ReportInv /\ [Next]_vars => ReportInv'
  BY ReportStep
<1>3. TypeInv /\ LockInv /\ PidInv /\ ReportInv => StartersConverge
  BY DEF LockInv, CriticalStep, PidInv, ReportInv, StartersConverge, LiveDaemons
<1>4. Spec => []TypeInv
  BY TypeInvariant
<1>5. Spec => [](LockInv /\ PidInv)
  BY OneDaemonInvariant
<1>6. QED
  BY <1>1, <1>2, <1>3, <1>4, <1>5, PTL DEF Spec

-----------------------------------------------------------------------------

LEMMA PidFileStep ==
  ASSUME DaemonsSurvive, PidInv, Next, pidFile \in Daemons
  PROVE  pidFile' = pidFile
<1> USE DEF PidInv, DaemonsSurvive
<1>1. ASSUME NEW s \in Starters, StarterNext(s)
      PROVE  pidFile' = pidFile
  BY <1>1 DEF StarterNext, CheckRead, CheckProbe, ClearStop, StatLock, BreakLock, OpenLock,
              AliveRead, AliveProbe, AliveUnlink, SpawnWorker, TruncatePid, WritePid, ReleaseLock
<1>2. ASSUME NEW s \in Starters, StarterCrash(s)
      PROVE  FALSE
  BY <1>2 DEF StarterCrash, Fault
<1>3. ASSUME NEW c \in Converters, ConverterNext(c)
      PROVE  pidFile' = pidFile
  BY <1>3 DEF ConverterNext, CheckRead, CheckProbe, FinishConversion
<1>4. ASSUME NEW d \in Daemons, CaptureNext(d) \/ CaptureStartFails(d) \/ CaptureCrash(d)
      PROVE  pidFile' = pidFile
  BY <1>4 DEF CaptureNext, CaptureBoot, CaptureStarted, CaptureShutdown, CaptureDrained,
              CaptureExit, CaptureStartFails, CaptureCrash, CliUnchanged
<1>5. CASE AgeLock \/ AllDone
  BY <1>5 DEF AgeLock, AllDone, vars
<1>6. QED
  BY <1>1, <1>2, <1>3, <1>4, <1>5 DEF Next

\* Under the same assumption the pid file, once it names a daemon, keeps naming
\* it: no start unlinks or overwrites it (daemon.ts, aliveDaemonPidFromFile).
THEOREM PidFileIsFaithful ==
  ASSUME DaemonsSurvive
  PROVE  Spec => PidFileFaithful
<1>1. PidInv /\ [Next]_vars =>
        [(pidFile \in Daemons /\ Alive(pidFile)) => (pidFile' = pidFile)]_vars
  BY PidFileStep DEF vars
<1>2. Spec => [](LockInv /\ PidInv)
  BY OneDaemonInvariant
<1>3. QED
  BY <1>1, <1>2, PTL DEF Spec, PidFileFaithful

-----------------------------------------------------------------------------

\* A conversion that goes on has seen no live pid; under DaemonsSurvive daemon.pid names
\* every daemon whose start is over, and those that were not there do not come later.
CheckInv ==
  \A c \in Converters :
    /\ started[c] \subseteq StartOver
    /\ pc[c] = "checkProbe" /\ started[c] \cap LiveDaemons # {} => seen[c] \in LiveDaemons
    /\ pc[c] = "convert" => started[c] \cap LiveDaemons = {}

\* What CheckInv reads, and a step that spawns nothing, only moves starts on and looks at
\* no converter.
CheckFrame ==
  /\ LiveDaemons' = LiveDaemons
  /\ started' = started
  /\ \A c \in Converters : pc'[c] = pc[c] /\ seen'[c] = seen[c]
  /\ \A s \in Starters : pc[s] = "done" => pc'[s] = "done"

\* Every step keeps it.
LEMMA CheckStep ==
  ASSUME DaemonsSurvive, TypeInv, LockInv, PidInv, CheckInv, [Next]_vars
  PROVE  CheckInv'
<1> USE ConstantsAssumption
    DEF ConstantsAssumption, TypeInv, TypeOK, Procs, Daemons, StartOver, CheckFrame, Goto, End,
        records
<1>1. ASSUME CheckFrame  PROVE CheckInv'
  BY <1>1 DEF CheckInv
<1>2. ASSUME NEW s \in Starters, StarterNext(s), ~SpawnWorker(s)  PROVE CheckFrame
  <2>1. daemon' = daemon /\ started' = started
    BY <1>2 DEF StarterNext, CheckRead, CheckProbe, ClearStop, StatLock, BreakLock, OpenLock,
                AliveRead, AliveProbe, AliveUnlink, UnlinkPid, TruncatePid, WritePid, ReleaseLock
  <2>2. \A p \in Procs \ {s} : pc'[p] = pc[p] /\ seen'[p] = seen[p]
    BY <1>2 DEF StarterNext, CheckRead, CheckProbe, ClearStop, StatLock, BreakLock, OpenLock,
                AliveRead, AliveProbe, NoLivePid, AliveUnlink, TruncatePid, WritePid, ReleaseLock
  <2>3. pc[s] # "done"
    BY <1>2 DEF StarterNext, CheckRead, CheckProbe, ClearStop, StatLock, BreakLock, OpenLock,
                AliveRead, AliveProbe, AliveUnlink, TruncatePid, WritePid, ReleaseLock
  <2> QED  BY <2>1, <2>2, <2>3 DEF LiveDaemons, Alive
<1>3. ASSUME NEW s \in Starters, SpawnWorker(s)  PROVE CheckInv'
  <2>1. pc[s] = "spawn" /\ started' = started /\ s \notin StartOver
    BY <1>3 DEF SpawnWorker
  <2>2. \A c \in Converters : pc'[c] = pc[c] /\ seen'[c] = seen[c]
    BY <1>3 DEF SpawnWorker
  <2>3. StartOver \subseteq StartOver'
    BY <1>3 DEF SpawnWorker
  <2>4. LiveDaemons \subseteq LiveDaemons' /\ LiveDaemons' \subseteq LiveDaemons \cup {s}
    BY <1>3 DEF SpawnWorker, LiveDaemons, Alive
  <2> QED  BY <2>1, <2>2, <2>3, <2>4 DEF CheckInv
<1>4. ASSUME NEW c \in Converters, CheckRead(c)  PROVE CheckInv'
  <2>1. /\ seen' = [seen EXCEPT ![c] = pidFile] /\ started' = [started EXCEPT ![c] = StartOver]
        /\ pc' = [pc EXCEPT ![c] = "checkProbe"] /\ daemon' = daemon
    BY <1>4 DEF CheckRead
  <2>2. LiveDaemons' = LiveDaemons /\ StartOver' = StartOver
    BY <2>1 DEF LiveDaemons, Alive
  <2>3. StartOver \cap LiveDaemons # {} => pidFile \in LiveDaemons
    BY DEF PidInv
  <2> QED  BY <2>1, <2>2, <2>3 DEF CheckInv
<1>5. ASSUME NEW c \in Converters, CheckProbe(c)  PROVE CheckInv'
  <2>1. LiveDaemons' = LiveDaemons /\ StartOver' = StartOver /\ started' = started /\ seen' = seen
    BY <1>5 DEF CheckProbe, LiveDaemons, Alive
  <2>2. pc[c] = "checkProbe" /\ \A b \in Converters \ {c} : pc'[b] = pc[b]
    BY <1>5 DEF CheckProbe
  <2>3. pc'[c] = "done" \/ (pc'[c] = "convert" /\ seen[c] \notin LiveDaemons)
    BY <1>5 DEF CheckProbe, LiveDaemons
  <2> QED  BY <2>1, <2>2, <2>3 DEF CheckInv
<1>6. ASSUME NEW c \in Converters, FinishConversion(c)  PROVE CheckInv'
  <2>1. LiveDaemons' = LiveDaemons /\ StartOver' = StartOver /\ started' = started /\ seen' = seen
    BY <1>6 DEF FinishConversion, LiveDaemons, Alive
  <2>2. pc'[c] = "done" /\ \A b \in Converters \ {c} : pc'[b] = pc[b]
    BY <1>6 DEF FinishConversion
  <2> QED  BY <2>1, <2>2 DEF CheckInv
<1>7. ASSUME NEW d \in Daemons, CaptureNext(d)  PROVE CheckFrame
  <2>1. CASE CaptureBoot(d) \/ CaptureStarted(d)
    BY <2>1 DEF CaptureBoot, CaptureStarted, DaemonGoto, CliUnchanged, LiveDaemons, Alive
  <2>2. CASE CaptureShutdown(d) \/ CaptureDrained(d) \/ CaptureExit(d)
    BY <2>2 DEF CaptureShutdown, CaptureDrained, CaptureExit, DaemonGoto, Fault, DaemonsSurvive,
                PidInv
  <2> QED  BY <1>7, <2>1, <2>2 DEF CaptureNext
<1>8. ASSUME NEW s \in Starters, StarterCrash(s)  PROVE FALSE
  BY <1>8 DEF StarterCrash, Fault, DaemonsSurvive
<1>9. ASSUME NEW d \in Daemons, CaptureStartFails(d) \/ CaptureCrash(d)  PROVE FALSE
  BY <1>9 DEF CaptureStartFails, CaptureCrash, Fault, DaemonsSurvive
<1>10. ASSUME NEW t \in Stoppers  PROVE FALSE
  BY <1>10 DEF DaemonsSurvive
<1>11. CASE AgeLock
  <2>1. CheckFrame
    BY <1>11 DEF AgeLock, LiveDaemons, Alive
  <2> QED  BY <1>1, <2>1
<1>12. CASE UNCHANGED vars
  <2>1. CheckFrame
    BY <1>12 DEF vars, LiveDaemons, Alive
  <2> QED  BY <1>1, <2>1
<1> QED
  BY <1>1, <1>2, <1>3, <1>4, <1>5, <1>6, <1>7, <1>8, <1>9, <1>10, <1>11, <1>12
     DEF Next, ConverterNext, AllDone

\* cmdCrypto "refuses to run while the daemon is alive": however many starts and
\* conversions interleave, a conversion never runs beside a daemon whose start was over
\* when it looked, as long as no daemon dies or is stopped meanwhile.
THEOREM ConversionsAlone ==
  ASSUME DaemonsSurvive
  PROVE  Spec => []ConversionExcludesStarted
<1>1. Init => CheckInv
  BY ConstantsAssumption DEF ConstantsAssumption, Init, CheckInv, Procs
<1>2. TypeInv /\ LockInv /\ PidInv /\ CheckInv /\ [Next]_vars => CheckInv'
  BY CheckStep
<1>3. CheckInv => ConversionExcludesStarted
  BY DEF CheckInv, ConversionExcludesStarted
<1>4. Spec => []TypeInv
  BY TypeInvariant
<1>5. Spec => [](LockInv /\ PidInv)
  BY OneDaemonInvariant
<1>6. QED
  BY <1>1, <1>2, <1>3, <1>4, <1>5, PTL DEF Spec

-----------------------------------------------------------------------------

BeforeSpawn == {"checkRead", "checkProbe", "clearStop", "statLock", "breakLock", "openLock",
                "aliveRead", "aliveProbe", "aliveUnlink", "spawn"}
AfterRequest == {"awaitDeath", "removePid", "clearRequest"}

\* StopIsTrue is not inductive: a pid that is known is that of a process which was
\* spawned, so it is dead for good once it is not alive; and a stop request that is
\* there has an author who has still to clear it.
DeathInv ==
  /\ pidFile \in Daemons => daemon[pidFile] # "none"
  /\ \A p \in Procs : seen[p] \in Daemons => daemon[seen[p]] # "none"
  /\ \A s \in Starters :
       /\ pc[s] \in BeforeSpawn => daemon[s] = "none"
       /\ pc[s] \in {"truncatePid", "writePid"} => daemon[s] # "none"
  /\ \A t \in Stoppers :
       /\ pc[t] \in {"removePid", "clearRequest"} => daemon[seen[t]] = "dead"
       /\ outcome[t] = "stopped" =>
            pc[t] = "done" /\ seen[t] \in Daemons /\ daemon[seen[t]] = "dead"
  /\ stopFile => \E t \in Stoppers : pc[t] \in AfterRequest

\* Every step keeps it, whatever dies, stalls or is started meanwhile.
LEMMA DeathStep ==
  ASSUME TypeInv, DeathInv, [Next]_vars
  PROVE  DeathInv'
<1> USE ConstantsAssumption
    DEF ConstantsAssumption, TypeInv, TypeOK, StopperInv, Procs, Daemons, DaemonState,
        StarterStep, StopperStep, ConverterStep, DeathInv, BeforeSpawn, AfterRequest, Goto, End,
        records
<1>1. ASSUME NEW s \in Starters, CheckRead(s)
      PROVE  DeathInv'
  BY <1>1 DEF CheckRead
<1>2. ASSUME NEW s \in Starters, CheckProbe(s)
      PROVE  DeathInv'
  BY <1>2 DEF CheckProbe
<1>3. ASSUME NEW s \in Starters, ClearStop(s)
      PROVE  DeathInv'
  BY <1>3 DEF ClearStop
<1>4. ASSUME NEW s \in Starters, StatLock(s)
      PROVE  DeathInv'
  BY <1>4 DEF StatLock
<1>5. ASSUME NEW s \in Starters, BreakLock(s)
      PROVE  DeathInv'
  BY <1>5 DEF BreakLock, RemoveLockFile
<1>6. ASSUME NEW s \in Starters, OpenLock(s)
      PROVE  DeathInv'
  BY <1>6 DEF OpenLock
<1>7. ASSUME NEW s \in Starters, AliveRead(s)
      PROVE  DeathInv'
  BY <1>7 DEF AliveRead
<1>8. ASSUME NEW s \in Starters, AliveProbe(s)
      PROVE  DeathInv'
  BY <1>8 DEF AliveProbe, NoLivePid
<1>9. ASSUME NEW s \in Starters, AliveUnlink(s)
      PROVE  DeathInv'
  BY <1>9 DEF AliveUnlink, NoLivePid, UnlinkPid
<1>10. ASSUME NEW s \in Starters, SpawnWorker(s)
      PROVE  DeathInv'
  BY <1>10 DEF SpawnWorker, Fault
<1>11. ASSUME NEW s \in Starters, TruncatePid(s)
      PROVE  DeathInv'
  BY <1>11 DEF TruncatePid
<1>12. ASSUME NEW s \in Starters, WritePid(s)
      PROVE  DeathInv'
  BY <1>12 DEF WritePid
<1>13. ASSUME NEW s \in Starters, ReleaseLock(s)
      PROVE  DeathInv'
  BY <1>13 DEF ReleaseLock, RemoveLockFile
<1>14. ASSUME NEW s \in Starters, StarterCrash(s)
      PROVE  DeathInv'
  BY <1>14 DEF StarterCrash, Fault
<1>15. ASSUME NEW t \in Stoppers, StopRead(t)
      PROVE  DeathInv'
  BY <1>15 DEF StopRead
<1>16. ASSUME NEW t \in Stoppers, RequestStop(t)
      PROVE  DeathInv'
  BY <1>16 DEF RequestStop
<1>17. ASSUME NEW t \in Stoppers, ObserveDeath(t)
      PROVE  DeathInv'
  BY <1>17 DEF ObserveDeath, Alive
<1>18. ASSUME NEW t \in Stoppers, ForceStop(t)
      PROVE  DeathInv'
  BY <1>18 DEF ForceStop, Fault, Alive
<1>19. ASSUME NEW t \in Stoppers, RemovePid(t)
      PROVE  DeathInv'
  BY <1>19 DEF RemovePid, UnlinkPid
<1>20. ASSUME NEW t \in Stoppers, ClearRequest(t)
      PROVE  DeathInv'
  BY <1>20 DEF ClearRequest
<1>21. ASSUME NEW c \in Converters, CheckRead(c)
      PROVE  DeathInv'
  BY <1>21 DEF CheckRead
<1>22. ASSUME NEW c \in Converters, CheckProbe(c)
      PROVE  DeathInv'
  BY <1>22 DEF CheckProbe
<1>23. ASSUME NEW c \in Converters, FinishConversion(c)
      PROVE  DeathInv'
  BY <1>23 DEF FinishConversion
<1>24. ASSUME NEW d \in Daemons, CaptureBoot(d)
      PROVE  DeathInv'
  BY <1>24 DEF CaptureBoot, DaemonGoto, CliUnchanged
<1>25. ASSUME NEW d \in Daemons, CaptureStarted(d)
      PROVE  DeathInv'
  BY <1>25 DEF CaptureStarted, DaemonGoto, CliUnchanged
<1>26. ASSUME NEW d \in Daemons, CaptureShutdown(d)
      PROVE  DeathInv'
  BY <1>26 DEF CaptureShutdown, Fault, DaemonGoto, CliUnchanged
<1>27. ASSUME NEW d \in Daemons, CaptureDrained(d)
      PROVE  DeathInv'
  BY <1>27 DEF CaptureDrained, DaemonGoto, CliUnchanged
<1>28. ASSUME NEW d \in Daemons, CaptureExit(d)
      PROVE  DeathInv'
  BY <1>28 DEF CaptureExit, DaemonGoto, CliUnchanged
<1>29. ASSUME NEW d \in Daemons, CaptureStartFails(d)
      PROVE  DeathInv'
  BY <1>29 DEF CaptureStartFails, Fault, DaemonGoto, CliUnchanged
<1>30. ASSUME NEW d \in Daemons, CaptureCrash(d)
      PROVE  DeathInv'
  BY <1>30 DEF CaptureCrash, Fault, Alive, CliUnchanged
<1>31. CASE AgeLock
  BY <1>31 DEF AgeLock, Fault
<1>32. CASE UNCHANGED vars
  BY <1>32 DEF vars
<1>33. QED
  BY <1>1, <1>2, <1>3, <1>4, <1>5, <1>6, <1>7, <1>8, <1>9, <1>10, <1>11, <1>12, <1>13, <1>14,
     <1>15, <1>16, <1>17, <1>18, <1>19, <1>20, <1>21, <1>22, <1>23, <1>24, <1>25, <1>26, <1>27,
     <1>28, <1>29, <1>30, <1>31, <1>32
     DEF Next, StarterNext, StopperNext, ConverterNext, CaptureNext, AllDone

\* It holds from the first state on.
LEMMA DeathInvariant == Spec => []DeathInv
<1>1. Init => DeathInv
  <2> SUFFICES ASSUME Init
               PROVE  DeathInv
    OBVIOUS
  <2> USE ConstantsAssumption DEF ConstantsAssumption, Daemons, Procs
  <2>1. PICK kind \in InitialKinds :
          /\ pidFile = IF kind = "fresh" THEN NoPid ELSE InitialDaemon
          /\ daemon = [d \in Daemons |->
                         IF d # InitialDaemon \/ kind = "fresh" THEN "none"
                         ELSE IF kind = "running" THEN "running" ELSE "dead"]
    BY DEF Init
  <2>2. /\ \A p \in Procs : /\ seen[p] = NoPid /\ outcome[p] = "pending"
                            /\ pc[p] \in {"stopRead", "checkRead"}
        /\ ~stopFile
    BY DEF Init
  <2>3. QED
    BY <2>1, <2>2 DEF DeathInv
<1>2. TypeInv /\ DeathInv /\ [Next]_vars => DeathInv'
  BY DeathStep
<1>3. QED
  BY <1>1, <1>2, TypeInvariant, PTL DEF Spec

\* `hpm stop` says "daemon stopped" of a dead process only, and no stop request outlives
\* the last `hpm stop`: for any number of starts and stops, and all their failures
\* (stopDaemon; clearStopRequest).
THEOREM StoppedIsDead ==
  Spec => []StopIsTrue
<1>1. TypeInv /\ DeathInv => StopIsTrue
  BY DEF DeathInv, AfterRequest, StopIsTrue, LiveDaemons, Alive
<1>2. QED
  BY <1>1, TypeInvariant, DeathInvariant, PTL

-----------------------------------------------------------------------------

\* No start has got past its check: all that are over have found a daemon.
Quiet == \A s \in Starters : pc[s] \in {"checkRead", "checkProbe"} \/ outcome[s] = "already"

\* Until then the only daemon is named by daemon.pid for as long as it lives, and a stop
\* that waits for it has left its request where the daemon looks.
AloneInv ==
  /\ \A s \in Starters : outcome[s] = "already" => pc[s] = "done" /\ daemon[s] = "none"
  /\ Quiet =>
       /\ killed = {}
       /\ Alive(InitialDaemon) =>
            /\ pidFile = InitialDaemon
            /\ daemon[InitialDaemon] \in {"running", "draining", "exiting"}
       /\ daemon[InitialDaemon] = "running" =>
            \A t \in Stoppers : pc[t] = "awaitDeath" => stopFile

\* While it is quiet, whoever has read a pid has read that of the first daemon.
LEMMA OnlyInitial ==
  ASSUME TypeInv, DeathInv, AloneInv, Quiet
  PROVE  /\ \A s \in Starters : daemon[s] = "none"
         /\ \A p \in Procs : seen[p] \in Daemons => seen[p] = InitialDaemon
<1>1. \A s \in Starters : daemon[s] = "none"
  BY DEF AloneInv, Quiet, DeathInv, BeforeSpawn
<1> QED  BY <1>1 DEF DeathInv, Daemons

\* Every step keeps it.
LEMMA AloneStep ==
  ASSUME TypeInv, DeathInv, AloneInv, [Next]_vars
  PROVE  AloneInv'
<1> USE ConstantsAssumption
    DEF ConstantsAssumption, TypeInv, TypeOK, StopperInv, Procs, Daemons, DaemonState,
        StarterStep, StopperStep, ConverterStep, AfterRequest, Alive, Goto, End, records
<1>1. ASSUME NEW s \in Starters, StarterNext(s) \/ StarterCrash(s),
             ~CheckRead(s), ~CheckProbe(s)
      PROVE  AloneInv'
  <2>1. pc[s] # "done" /\ ~Quiet'
    <3>1. CASE StarterCrash(s)
      BY <3>1 DEF StarterCrash, Quiet
    <3>2. CASE ClearStop(s) \/ StatLock(s) \/ BreakLock(s) \/ OpenLock(s) \/ AliveRead(s)
      BY <3>2 DEF ClearStop, StatLock, BreakLock, OpenLock, AliveRead, AloneInv, Quiet
    <3>3. CASE AliveProbe(s) \/ AliveUnlink(s)
      BY <3>3 DEF AliveProbe, NoLivePid, AliveUnlink, AloneInv, Quiet
    <3>4. CASE SpawnWorker(s) \/ TruncatePid(s) \/ WritePid(s) \/ ReleaseLock(s)
      BY <3>4 DEF SpawnWorker, TruncatePid, WritePid, ReleaseLock, AloneInv, Quiet
    <3> QED  BY <1>1, <3>1, <3>2, <3>3, <3>4 DEF StarterNext
  <2>2. outcome[s] # "already" /\ outcome'[s] # "already"
    BY <1>1, <2>1 DEF AloneInv, StarterNext, StarterCrash, ClearStop, StatLock, BreakLock,
          OpenLock, AliveRead, AliveProbe, NoLivePid, AliveUnlink, SpawnWorker, TruncatePid,
          WritePid, ReleaseLock
  <2>3. \A r \in Starters \ {s} :
          pc'[r] = pc[r] /\ outcome'[r] = outcome[r] /\ daemon'[r] = daemon[r]
    BY <1>1 DEF StarterNext, StarterCrash, ClearStop, StatLock, BreakLock, OpenLock, AliveRead,
          AliveProbe, NoLivePid, AliveUnlink, SpawnWorker, TruncatePid, WritePid, ReleaseLock
  <2> QED  BY <2>1, <2>2, <2>3 DEF AloneInv
<1>2. ASSUME NEW p \in Starters \cup Converters, CheckRead(p)  PROVE AloneInv'
  BY <1>2 DEF CheckRead, AloneInv, Quiet
<1>3. ASSUME NEW p \in Starters \cup Converters, CheckProbe(p)  PROVE AloneInv'
  BY <1>3 DEF CheckProbe, AloneInv, Quiet, DeathInv, BeforeSpawn
<1>4. ASSUME NEW t \in Stoppers, StopperNext(t)  PROVE AloneInv'
  <2> USE DEF AloneInv
  <2>1. \A s \in Starters : pc'[s] = pc[s] /\ outcome'[s] = outcome[s]
    BY <1>4 DEF StopperNext, StopRead, RequestStop, ObserveDeath, ForceStop, RemovePid,
                ClearRequest
  <2>2. \A d \in Daemons : daemon[d] = "none" => daemon'[d] = "none"
    <3>1. CASE ForceStop(t)
      BY <3>1 DEF ForceStop, DeathInv
    <3> QED  BY <1>4, <3>1 DEF StopperNext, StopRead, RequestStop, ObserveDeath, RemovePid,
                               ClearRequest
  <2>3. Quiet' <=> Quiet
    BY <2>1 DEF Quiet
  <2>4. \A s \in Starters : outcome'[s] = "already" => pc'[s] = "done" /\ daemon'[s] = "none"
    BY <2>1, <2>2
  <2>5. CASE ~Quiet
    BY <2>3, <2>4, <2>5
  <2>6. CASE Quiet
    <3>1. seen[t] \in Daemons => seen[t] = InitialDaemon
      BY <2>6, OnlyInitial
    <3>2. CASE StopRead(t)
      BY <2>3, <2>4, <2>6, <3>2 DEF StopRead
    <3>3. CASE RequestStop(t)
      BY <2>3, <2>4, <2>6, <3>3 DEF RequestStop
    <3>4. CASE ObserveDeath(t)
      BY <2>3, <2>4, <2>6, <3>4 DEF ObserveDeath
    <3>5. CASE ForceStop(t)
      BY <2>3, <2>4, <2>6, <3>1, <3>5 DEF ForceStop, Fault
    <3>6. CASE RemovePid(t)
      BY <2>3, <2>4, <2>6, <3>1, <3>6 DEF RemovePid, UnlinkPid, DeathInv
    <3>7. CASE ClearRequest(t)
      BY <2>3, <2>4, <2>6, <3>1, <3>7 DEF ClearRequest, DeathInv
    <3> QED  BY <1>4, <3>2, <3>3, <3>4, <3>5, <3>6, <3>7 DEF StopperNext
  <2> QED  BY <2>5, <2>6
<1>5. ASSUME NEW c \in Converters, FinishConversion(c)  PROVE AloneInv'
  BY <1>5 DEF FinishConversion, AloneInv, Quiet
<1>6. ASSUME NEW d \in Daemons, CaptureNext(d) \/ CaptureStartFails(d) \/ CaptureCrash(d)
      PROVE  AloneInv'
  <2> USE DEF AloneInv
  <2>1. /\ pc' = pc /\ outcome' = outcome /\ killed' = killed /\ pidFile' = pidFile
        /\ Alive(d) /\ \A e \in Daemons \ {d} : daemon'[e] = daemon[e]
    BY <1>6 DEF CaptureNext, CaptureBoot, CaptureStarted, CaptureShutdown, CaptureDrained,
                CaptureExit, CaptureStartFails, CaptureCrash, DaemonGoto, CliUnchanged
  <2>2. Quiet' <=> Quiet
    BY <2>1 DEF Quiet
  <2>3. \A s \in Starters : outcome'[s] = "already" => pc'[s] = "done" /\ daemon'[s] = "none"
    BY <2>1
  <2>4. CASE ~Quiet
    BY <2>2, <2>3, <2>4
  <2>5. CASE Quiet
    <3>1. d = InitialDaemon
      BY <2>1, <2>5, OnlyInitial
    <3> QED
      BY <1>6, <2>1, <2>2, <2>3, <2>5, <3>1
         DEF CaptureNext, CaptureBoot, CaptureStarted, CaptureShutdown, CaptureDrained,
             CaptureExit, CaptureStartFails, CaptureCrash, DaemonGoto
  <2> QED  BY <2>4, <2>5
<1>7. CASE AgeLock
  BY <1>7 DEF AgeLock, AloneInv, Quiet
<1>8. CASE UNCHANGED vars
  BY <1>8 DEF vars, AloneInv, Quiet
<1> QED
  BY <1>1, <1>2, <1>3, <1>4, <1>5, <1>6, <1>7, <1>8 DEF Next, ConverterNext, AllDone

\* "Stops captures exactly once, whether triggered by a process signal or by the daemon stop
\* sentinel": no `hpm stop` has to kill a daemon that drains in time, however many run and
\* whatever else happens to it, until a start finds no daemon (cli.ts, shutdown; stopDaemon).
THEOREM StopIsEnough == Spec => []NeverForced
<1>1. Init => AloneInv
  BY ConstantsAssumption
     DEF ConstantsAssumption, Init, AloneInv, Daemons, Procs, Alive
<1>2. TypeInv /\ DeathInv /\ AloneInv /\ [Next]_vars => AloneInv'
  BY AloneStep
<1>3. AloneInv => NeverForced
  BY DEF AloneInv, Quiet, NeverForced
<1>4. QED
  BY <1>1, <1>2, <1>3, TypeInvariant, DeathInvariant, PTL DEF Spec
=============================================================================
