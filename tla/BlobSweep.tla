------------------------------ MODULE BlobSweep ------------------------------
(***************************************************************************)
(* Screenshots and audio files at rest: blobs.write, the sweep that turns  *)
(* plaintext blobs into encrypted ones (store/blob_migrate.ts), the daemon *)
(* that starts it in the background (core/orchestrator.ts) and `hpm        *)
(* encrypt|decrypt --blobs` (cli.ts, cmdCrypto).                           *)
(*                                                                         *)
(* One process runs at a time, the daemon or one command (DaemonControl    *)
(* says when that is so).  Within the daemon the sweep and the captures    *)
(* interleave at every await, except that the directories are listed in    *)
(* one step.  A temporary file of an interrupted sweep is never read again *)
(* and is left out.                                                        *)
(***************************************************************************)
EXTENDS Naturals

CONSTANTS
  Blobs,
  Capturing,   \* may the daemon capture new blobs?
  Commands,    \* which of "encrypt", "decrypt" the user may run
  FlagEdits,   \* may the user edit storage.encryption.blobs between two runs?
  Faults,      \* see FaultKind
  MaxFaults,   \* bound on their number
  NoBlob

FaultKind == {
  "crash",         \* the running process dies
  "ioError",       \* a call of the sweep on a file, or on the marker, fails
  "readdirError" } \* the sweep cannot list some of the directories

ASSUME BlobAssumption ==
  /\ NoBlob \notin Blobs
  /\ Commands \subseteq {"encrypt", "decrypt"}
  /\ Capturing \in BOOLEAN /\ FlagEdits \in BOOLEAN
  /\ Faults \subseteq FaultKind
  /\ MaxFaults \in Nat

VARIABLES
  file,     \* contents of every blob's path, see Content
  captured, \* blobs whose write has resolved
  marker,   \* does .blobs-migrated-v1 exist?
  flag,     \* storage.encryption.blobs in config.yaml
  proc,     \* the process that runs: "none", "daemon", "encrypt", "decrypt"
  keyed,    \* the daemon's blobKey # undefined
  writer,   \* per blob, the writeFile under way: "idle", "open", or "stale" when
            \* the path has been renamed over since
  step,     \* where the sweep is
  todo,     \* blobs listed and not visited yet
  at,       \* the blob it is at
  held,     \* what it has read of it
  errors,   \* has the sweep counted an error?
  cut,      \* history: blobs a sweep has replaced by the conversion of an empty file
  unlisted, \* history: plaintext blobs that a listing left out, and no sweep converted since
  bared,    \* history: blobs that became plaintext while the marker was there
  faults

sweepVars == <<step, todo, at, held, errors>>
history == <<cut, unlisted, bared>>
outside == <<captured, flag, proc, keyed>>
vars == <<file, captured, marker, flag, proc, keyed, writer, sweepVars, history, faults>>

\* "empty" is a file that is open for writing, or was when its writer died;
\* "hollow" is the encryption of an empty file.
Content == {"none", "empty", "plain", "cipher", "hollow"}
HasMagic(x) == x \in {"cipher", "hollow"}

TypeOK ==
  /\ file \in [Blobs -> Content]
  /\ captured \subseteq Blobs
  /\ marker \in BOOLEAN /\ flag \in BOOLEAN /\ keyed \in BOOLEAN /\ errors \in BOOLEAN
  /\ proc \in {"none", "daemon", "encrypt", "decrypt"}
  /\ writer \in [Blobs -> {"idle", "open", "stale"}]
  /\ step \in {"off", "list", "next", "sniff", "read", "writeTmp", "rename", "saveConfig"}
  /\ todo \subseteq Blobs
  /\ at \in Blobs \cup {NoBlob}
  /\ held \in Content
  /\ cut \cup unlisted \cup bared \subseteq Blobs
  /\ faults \in 0..MaxFaults
  /\ proc = "none" => step = "off"
  /\ step \in {"sniff", "read", "writeTmp", "rename"} => at \in Blobs

Fault(kind) == kind \in Faults /\ faults < MaxFaults /\ faults' = faults + 1

\* Captures of the time before encryption, and none of later.
Init ==
  /\ file \in [Blobs -> {"none", "plain"}]
  /\ captured = {b \in Blobs : file[b] = "plain"}
  /\ marker = FALSE
  /\ flag \in BOOLEAN
  /\ proc = "none"
  /\ keyed = FALSE
  /\ writer = [b \in Blobs |-> "idle"]
  /\ step = "off" /\ todo = {} /\ at = NoBlob /\ held = "none" /\ errors = FALSE
  /\ cut = {} /\ unlisted = {} /\ bared = {}
  /\ faults = 0

-----------------------------------------------------------------------------
(* The processes. *)

Idle == step' = "off" /\ todo' = {} /\ at' = NoBlob /\ held' = "none" /\ errors' = FALSE
BeginSweep == step' = "list" /\ todo' = {} /\ at' = NoBlob /\ held' = "none" /\ errors' = FALSE

\* Mutant: new captures are encrypted, but nothing looks at the old ones.
StartDaemon_NoSweep ==
  /\ proc = "none"
  /\ proc' = "daemon"
  /\ keyed' = flag
  /\ Idle
  /\ UNCHANGED <<file, captured, marker, flag, writer, history, faults>>

\* makeOrchestrator and migrateBlobsIfNeeded.
StartDaemon ==
  /\ proc = "none"
  /\ proc' = "daemon"
  /\ keyed' = flag
  /\ IF flag /\ ~marker THEN BeginSweep ELSE Idle
  /\ UNCHANGED <<file, captured, marker, flag, writer, history, faults>>

\* Mutant: the sweep outlives the daemon.
StopDaemon_SweepGoesOn ==
  /\ proc = "daemon"
  /\ \A b \in Blobs : writer[b] = "idle"
  /\ proc' = "none"
  /\ UNCHANGED <<file, captured, marker, flag, keyed, writer, sweepVars, history, faults>>

\* The daemon stops, its captures finished and its sweep wherever it is.
StopDaemon ==
  /\ proc = "daemon"
  /\ \A b \in Blobs : writer[b] = "idle"
  /\ proc' = "none"
  /\ Idle
  /\ UNCHANGED <<file, captured, marker, flag, keyed, writer, history, faults>>

StartCommand(mode) ==
  /\ proc = "none"
  /\ proc' = mode
  /\ BeginSweep
  /\ UNCHANGED <<file, captured, marker, flag, keyed, writer, history, faults>>

\* cmdCrypto writes the configuration last, errors or not.
SaveConfig ==
  /\ step = "saveConfig"
  /\ flag' = (proc = "encrypt")
  /\ proc' = "none"
  /\ Idle
  /\ UNCHANGED <<file, captured, marker, keyed, writer, history, faults>>

EditFlag ==
  /\ FlagEdits /\ proc = "none"
  /\ flag' = ~flag
  /\ UNCHANGED <<file, captured, marker, proc, keyed, writer, sweepVars, history, faults>>

Crash ==
  /\ proc # "none"
  /\ Fault("crash")
  /\ proc' = "none"
  /\ writer' = [b \in Blobs |-> "idle"]
  /\ Idle
  /\ UNCHANGED <<file, captured, marker, flag, keyed, history>>

\* blobs.write: writeFile opens the file, emptying it, and fills it later.
OpenBlob(b) ==
  /\ Capturing /\ proc = "daemon" /\ file[b] = "none"
  /\ file' = [file EXCEPT ![b] = "empty"]
  /\ writer' = [writer EXCEPT ![b] = "open"]
  /\ UNCHANGED <<outside, marker, sweepVars, history, faults>>

FillBlob(b) ==
  /\ writer[b] # "idle"
  /\ file' = [file EXCEPT ![b] =
                IF writer[b] = "stale" THEN @ ELSE IF keyed THEN "cipher" ELSE "plain"]
  /\ bared' = IF marker /\ file'[b] = "plain" THEN bared \cup {b} ELSE bared
  /\ captured' = captured \cup {b}
  /\ writer' = [writer EXCEPT ![b] = "idle"]
  /\ UNCHANGED <<marker, flag, proc, keyed, sweepVars, cut, unlisted, faults>>

-----------------------------------------------------------------------------
(* migrateBlobsToEncrypted and decryptBlobsToPlaintext. *)

Encrypting == proc # "decrypt"
Converted(x) == HasMagic(x) = Encrypting

\* walkFiles.  A directory that cannot be read counts as one that is not there:
\* what is in it is left out, and no error is counted.
List ==
  /\ step = "list"
  /\ step' = "next"
  /\ LET there == {b \in Blobs : file[b] # "none"} IN
     \E missing \in SUBSET there :
       /\ IF missing = {} THEN UNCHANGED faults ELSE Fault("readdirError")
       /\ todo' = there \ missing
       /\ unlisted' = unlisted \cup {b \in missing : file[b] = "plain"}
  /\ UNCHANGED <<file, outside, marker, writer, at, held, errors, cut, bared>>

Visit(b) ==
  /\ step = "next" /\ b \in todo
  /\ step' = "sniff"
  /\ at' = b
  /\ todo' = todo \ {b}
  /\ UNCHANGED <<file, outside, marker, writer, held, errors, history, faults>>

\* encryptInPlace and decryptInPlace: sniff the header, ...
Sniff ==
  /\ step = "sniff"
  /\ step' = IF Converted(file[at]) THEN "next" ELSE "read"
  /\ UNCHANGED <<file, outside, marker, writer, todo, at, held, errors, history, faults>>

\* ... read the file, which another capture may have filled by now, ...
ReadBlob ==
  /\ step = "read"
  /\ step' = IF Converted(file[at]) THEN "next" ELSE "writeTmp"
  /\ held' = file[at]
  /\ UNCHANGED <<file, outside, marker, writer, todo, at, errors, history, faults>>

\* Mutant: the conversion is written over the file it was read from.
WriteTmp_InPlace ==
  /\ step = "writeTmp"
  /\ step' = "rename"
  /\ file' = [file EXCEPT ![at] = "empty"]
  /\ UNCHANGED <<outside, marker, writer, todo, at, held, errors, history, faults>>

\* ... write the conversion to a sibling ...
WriteTmp ==
  /\ step = "writeTmp"
  /\ step' = "rename"
  /\ UNCHANGED <<file, outside, marker, writer, todo, at, held, errors, history, faults>>

Conversion(x) ==
  CASE x = "plain"  -> "cipher"
    [] x = "empty"  -> "hollow"
    [] x = "cipher" -> "plain"
    [] x = "hollow" -> "empty"

\* ... and rename it over the original, whatever that has become.
Rename ==
  /\ step = "rename"
  /\ step' = "next"
  /\ file' = [file EXCEPT ![at] = Conversion(held)]
  /\ writer' = [writer EXCEPT ![at] = IF @ = "open" THEN "stale" ELSE @]
  /\ cut' = IF held = "empty" THEN cut \cup {at} ELSE cut
  /\ unlisted' = unlisted \ {at}
  /\ bared' = IF marker /\ Conversion(held) = "plain" THEN bared \cup {at} ELSE bared \ {at}
  /\ UNCHANGED <<outside, marker, todo, at, held, errors, faults>>

\* A failure is counted and the sweep goes on with the next file.
StepFails ==
  /\ step \in {"sniff", "read", "writeTmp", "rename"}
  /\ Fault("ioError")
  /\ step' = "next"
  /\ errors' = TRUE
  /\ UNCHANGED <<file, outside, marker, writer, todo, at, held, history>>

\* Mutant: the marker is written although files have failed.
EndSweep_DespiteErrors ==
  /\ step = "next" /\ todo = {}
  /\ marker' = Encrypting
  /\ step' = IF proc = "daemon" THEN "off" ELSE "saveConfig"
  /\ UNCHANGED <<file, outside, writer, todo, at, held, errors, history, faults>>

\* The marker says that a sweep met no error; a decryption removes it in any case.
EndSweep ==
  /\ step = "next" /\ todo = {}
  /\ marker' = IF Encrypting THEN marker \/ ~errors ELSE FALSE
  /\ step' = IF proc = "daemon" THEN "off" ELSE "saveConfig"
  /\ UNCHANGED <<file, outside, writer, todo, at, held, errors, history, faults>>

\* The marker cannot be written or removed: the sweep is rejected, and a command
\* dies of it before it saves the configuration.
EndFails ==
  /\ step = "next" /\ todo = {}
  /\ Encrypting => ~errors
  /\ Fault("ioError")
  /\ step' = "off"
  /\ errors' = (proc = "daemon")
  /\ proc' = IF proc = "daemon" THEN "daemon" ELSE "none"
  /\ at' = NoBlob /\ held' = "none"
  /\ UNCHANGED <<file, captured, marker, flag, keyed, writer, todo, history>>

SweepStep ==
  \/ List \/ (\E b \in Blobs : Visit(b)) \/ Sniff \/ ReadBlob \/ WriteTmp \/ Rename \/ EndSweep

Next ==
  \/ StartDaemon \/ StopDaemon \/ (\E mode \in Commands : StartCommand(mode))
  \/ SweepStep \/ StepFails \/ EndFails \/ SaveConfig \/ EditFlag \/ Crash
  \/ \E b \in Blobs : OpenBlob(b) \/ FillBlob(b)

Spec == Init /\ [][Next]_vars

\* The event loop goes on with the sweep.
FairSpec == Spec /\ WF_vars(SweepStep)

-----------------------------------------------------------------------------
(* Properties. *)

\* "an interrupted sweep is safe and resumable" (blob_migrate.ts): no capture
\* whose write has resolved is ever lost or cut, wherever a sweep is interrupted,
\* but for one that the sweep read while it was being written.
BlobsSurvive == \A b \in captured \ cut : file[b] \in {"plain", "cipher"}

\* What the marker cannot know of: blobs in a directory that a sweep could not
\* list, and those written or decrypted while the marker was there.
Unvouched == unlisted \cup bared

\* blobsMigrated: "True once a full sweep has completed (every plaintext blob
\* encrypted)".  That is so for all that the sweep has listed, however captures,
\* commands, failures and crashes interleave with it.
MarkerIsTrue == marker => \A b \in captured : file[b] = "plain" => b \in Unvouched

\* config.ts: "When a flag is on, existing plaintext data is migrated in place on
\* start": once the sweep of a daemon with the flag on has ended without an
\* error, or was not needed, every capture that was listed is encrypted.
MigratedOnStart ==
  (proc = "daemon" /\ keyed /\ step = "off" /\ ~errors)
    => \A b \in captured : file[b] = "plain" => b \in Unvouched

\* Resumable: a daemon with the flag on that stays up and whose sweep meets no
\* error gets every capture encrypted that it lists, whatever interrupted the
\* sweeps before it.
Resumes ==
  <>[](proc = "daemon" /\ keyed /\ ~errors)
    => <>(\A b \in captured : file[b] = "plain" => b \in Unvouched)

\* "True once a full sweep has completed (every plaintext blob encrypted)", as the
\* comment on blobsMigrated says it.
EveryBlobMigrated == marker => \A b \in captured : file[b] # "plain"
=============================================================================
