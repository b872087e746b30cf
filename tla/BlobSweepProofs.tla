--------------------------- MODULE BlobSweepProofs ---------------------------
(***************************************************************************)
(* What TLAPS proves of BlobSweep, for any set of blobs and any number of  *)
(* faults, with captures, commands and edits of the flag between any two   *)
(* steps: the types; that a sweep loses no capture but one that it has     *)
(* read while it was being written; and that the marker, and the end of a  *)
(* daemon's sweep, speak for every blob that the sweep has listed.         *)
(***************************************************************************)
EXTENDS BlobSweep, TLAPS

\* A sweep only works on files that are there, and holds something to write.
FoundInv ==
  /\ \A b \in todo : file[b] # "none"
  /\ step \in {"sniff", "read", "writeTmp", "rename"} => file[at] # "none"
  /\ step \in {"writeTmp", "rename"} => held # "none"

Inv == TypeOK /\ FoundInv

\* BlobsSurvive is not inductive: what a rename puts in place was read two steps
\* before. In between the file is as it was read, or has been filled by the capture
\* that had emptied it, and then the rename is the cut.
WholeInv ==
  /\ \A b \in Blobs : writer[b] = "open" => file[b] = "empty" /\ b \notin captured
  /\ \A b \in Blobs : writer[b] = "stale" => b \in cut /\ file[b] # "none"
  /\ \A b \in captured \ cut : file[b] \in {"plain", "cipher"}
  /\ \A b \in captured : file[b] # "none"
  /\ step \in {"writeTmp", "rename"} => held = file[at] \/ held = "empty"

-----------------------------------------------------------------------------

LEMMA InvInit == Init => Inv
<1> SUFFICES ASSUME Init PROVE Inv
  OBVIOUS
<1>1. file \in [Blobs -> Content]
  BY DEF Init, Content
<1>2. faults \in 0..MaxFaults
  BY BlobAssumption DEF Init, BlobAssumption
<1> QED BY <1>1, <1>2 DEF Init, Inv, TypeOK, FoundInv, Content

LEMMA InvStep == Inv /\ [Next]_vars => Inv'
<1> SUFFICES ASSUME Inv, [Next]_vars PROVE Inv'
  OBVIOUS
<1> USE BlobAssumption DEF BlobAssumption, Inv, TypeOK, FoundInv, Content, Idle, BeginSweep,
      sweepVars, history, outside, Fault
<1>1. CASE UNCHANGED vars
  BY <1>1 DEF vars
<1>2. CASE StartDaemon
  BY <1>2 DEF StartDaemon
<1>3. CASE StopDaemon
  BY <1>3 DEF StopDaemon
<1>4. ASSUME NEW mode \in Commands, StartCommand(mode) PROVE Inv'
  BY <1>4 DEF StartCommand
<1>5. CASE SweepStep
  <2>1. CASE List
    BY <2>1 DEF List
  <2>2. ASSUME NEW b \in Blobs, Visit(b) PROVE Inv'
    BY <2>2 DEF Visit
  <2>3. CASE Sniff
    BY <2>3 DEF Sniff
  <2>4. CASE ReadBlob
    BY <2>4 DEF ReadBlob, Converted, HasMagic
  <2>5. CASE WriteTmp
    BY <2>5 DEF WriteTmp
  <2>6. CASE Rename
    <3>1. Conversion(held) \in Content \ {"none"}
      BY <2>6 DEF Rename, Conversion
    <3> QED BY <2>6, <3>1 DEF Rename
  <2>7. CASE EndSweep
    BY <2>7 DEF EndSweep
  <2> QED BY <1>5, <2>1, <2>2, <2>3, <2>4, <2>5, <2>6, <2>7 DEF SweepStep
<1>6. CASE StepFails
  BY <1>6 DEF StepFails
<1>12. CASE EndFails
  BY <1>12 DEF EndFails, Encrypting
<1>7. CASE SaveConfig
  BY <1>7 DEF SaveConfig
<1>8. CASE EditFlag
  BY <1>8 DEF EditFlag
<1>9. CASE Crash
  <2>1. writer' \in [Blobs -> {"idle", "open", "stale"}]
    BY <1>9 DEF Crash
  <2>2. faults' \in 0..MaxFaults
    BY <1>9 DEF Crash
  <2> QED BY <1>9, <2>1, <2>2 DEF Crash
<1>10. ASSUME NEW b \in Blobs, OpenBlob(b) PROVE Inv'
  BY <1>10 DEF OpenBlob
<1>11. ASSUME NEW b \in Blobs, FillBlob(b) PROVE Inv'
  BY <1>11 DEF FillBlob
<1> QED
  BY <1>1, <1>2, <1>3, <1>4, <1>5, <1>6, <1>7, <1>8, <1>9, <1>10, <1>11, <1>12 DEF Next

LEMMA Invariant == Spec => []Inv
<1> QED BY InvInit, InvStep, PTL DEF Spec

\* Every variable of the sweep keeps its type, and a sweep never outlives the
\* process that runs it (store/blob_migrate.ts, core/orchestrator.ts).
THEOREM TypeCorrect == Spec => []TypeOK
<1>1. Inv => TypeOK
  BY DEF Inv
<1> QED BY <1>1, Invariant, PTL

-----------------------------------------------------------------------------

\* Every step keeps it: a file is replaced by its own conversion, or cut.
LEMMA WholeStep ==
  ASSUME Inv, WholeInv, [Next]_vars
  PROVE  WholeInv'
<1> USE DEF Inv, TypeOK, FoundInv, WholeInv, Idle, BeginSweep, sweepVars, history, outside
<1>1. CASE UNCHANGED vars
  BY <1>1 DEF vars
<1>2. CASE StartDaemon \/ StopDaemon \/ SaveConfig \/ EditFlag
  BY <1>2 DEF StartDaemon, StopDaemon, SaveConfig, EditFlag
<1>3. CASE Crash \/ StepFails \/ EndFails
  BY <1>3 DEF Crash, StepFails, EndFails
<1>4. ASSUME NEW mode \in Commands, StartCommand(mode) PROVE WholeInv'
  BY <1>4 DEF StartCommand
<1>5. CASE SweepStep
  <2>1. CASE List \/ Sniff \/ WriteTmp \/ EndSweep
    BY <2>1 DEF List, Sniff, WriteTmp, EndSweep
  <2>2. ASSUME NEW b \in Blobs, Visit(b) PROVE WholeInv'
    BY <2>2 DEF Visit
  <2>3. CASE ReadBlob
    BY <2>3 DEF ReadBlob
  <2>4. CASE Rename
    <3>1. at \in Blobs
      BY <2>4 DEF Rename
    <3>2. held \in {"plain", "cipher"} => Conversion(held) \in {"plain", "cipher"}
      BY DEF Conversion
    <3>3. held = "hollow" => file[at] = "hollow"
      BY <2>4 DEF Rename
    <3>4. at \in captured \ cut' => held \in {"plain", "cipher"}
      <4> SUFFICES ASSUME at \in captured \ cut' PROVE held \in {"plain", "cipher"}
        OBVIOUS
      <4>1. held # "empty" /\ at \notin cut
        BY <2>4 DEF Rename
      <4> QED  BY <2>4, <4>1 DEF Rename
    <3>5. writer[at] = "open" => held = "empty"
      <4> SUFFICES ASSUME writer[at] = "open" PROVE held = "empty"
        OBVIOUS
      <4> QED  BY <2>4, <3>1 DEF Rename
    <3>6. \A b \in Blobs : writer'[b] = "open" => b # at /\ writer[b] = "open"
      BY <2>4, <3>1 DEF Rename
    <3>7. \A b \in Blobs : writer'[b] = "stale" => b \in cut' /\ file'[b] # "none"
      <4>1. Conversion(held) # "none"
        BY <2>4 DEF Rename, Conversion, Content
      <4> QED  BY <2>4, <3>1, <3>5, <4>1 DEF Rename
    <3>8. \A b \in captured' \ cut' : file'[b] \in {"plain", "cipher"}
      <4> SUFFICES ASSUME NEW b \in captured' \ cut' PROVE file'[b] \in {"plain", "cipher"}
        OBVIOUS
      <4>1. b \in captured \ cut
        BY <2>4 DEF Rename
      <4>2. CASE b = at
        BY <2>4, <3>1, <3>2, <3>4, <4>1, <4>2 DEF Rename
      <4>3. CASE b # at
        BY <2>4, <4>1, <4>3 DEF Rename
      <4> QED  BY <4>2, <4>3
    <3>9. \A b \in Blobs : writer'[b] = "open" => file'[b] = "empty" /\ b \notin captured'
      BY <2>4, <3>6 DEF Rename
    <3>10. step' = "next"
      BY <2>4 DEF Rename
    <3>11. \A b \in captured' : file'[b] # "none"
      <4>1. Conversion(held) # "none"
        BY <2>4 DEF Rename, Conversion, Content
      <4> QED  BY <2>4, <3>1, <4>1 DEF Rename
    <3> QED BY <3>7, <3>8, <3>9, <3>10, <3>11
  <2> QED BY <1>5, <2>1, <2>2, <2>3, <2>4 DEF SweepStep
<1>6. ASSUME NEW b \in Blobs, OpenBlob(b) PROVE WholeInv'
  BY <1>6 DEF OpenBlob
<1>7. ASSUME NEW b \in Blobs, FillBlob(b) PROVE WholeInv'
  <2>1. CASE writer[b] = "stale"
    <3>1. file' = file /\ cut' = cut /\ b \in cut
      BY <1>7, <2>1 DEF FillBlob
    <3>2. file[b] # "none"
      BY <2>1
    <3>3. captured' = captured \cup {b} /\ step' = step /\ at' = at /\ held' = held
      BY <1>7 DEF FillBlob
    <3> QED  BY <1>7, <3>1, <3>2, <3>3 DEF FillBlob
  <2>2. CASE writer[b] = "open"
    <3>1. file[b] = "empty" /\ file'[b] \in {"plain", "cipher"}
      BY <1>7, <2>2 DEF FillBlob
    <3>2. \A c \in Blobs \ {b} : file'[c] = file[c] /\ writer'[c] = writer[c]
      BY <1>7 DEF FillBlob
    <3>3. writer'[b] = "idle" /\ captured' = captured \cup {b} /\ cut' = cut
      BY <1>7 DEF FillBlob
    <3>4. step' = step /\ held' = held /\ at' = at
      BY <1>7 DEF FillBlob
    <3>5. step \in {"writeTmp", "rename"} => held = file'[at] \/ held = "empty"
      BY <3>1, <3>2
    <3> QED  BY <3>1, <3>2, <3>3, <3>4, <3>5
  <2> QED  BY <1>7, <2>1, <2>2 DEF FillBlob
<1> QED BY <1>1, <1>2, <1>3, <1>4, <1>5, <1>6, <1>7 DEF Next

\* Conversions in both directions, crashes and failing calls never lose or cut a capture
\* whose write has resolved, but one that was being written when a sweep read it
\* (store/blob_migrate.ts).
THEOREM BlobsAreKept == Spec => []BlobsSurvive
<1>1. Init => WholeInv
  <2> SUFFICES ASSUME Init PROVE WholeInv
    OBVIOUS
  <2> QED BY DEF Init, WholeInv
<1>2. WholeInv => BlobsSurvive
  BY DEF WholeInv, BlobsSurvive
<1>3. Inv /\ WholeInv /\ [Next]_vars => WholeInv'
  BY WholeStep
<1> QED BY <1>1, <1>2, <1>3, Invariant, PTL DEF Spec

-----------------------------------------------------------------------------

\* What a sweep has still to convert, besides what it has listed.
InHand == IF step \in {"sniff", "read", "writeTmp", "rename"} THEN {at} ELSE {}
Sweeping == step \in {"next", "sniff", "read", "writeTmp", "rename"}

\* MarkerIsTrue is not inductive: the marker tells of a sweep that has seen every plain
\* file it does not excuse, while the captures of its daemon go on and are encrypted.
MarkerInv ==
  /\ proc # "daemon" => \A b \in Blobs : writer[b] = "idle"
  /\ proc = "daemon" /\ step # "off" => keyed
  /\ step = "off" => proc \in {"none", "daemon"}
  /\ step = "saveConfig" => proc # "daemon"
  /\ Encrypting /\ step \in {"writeTmp", "rename"} => ~HasMagic(held)
  /\ Encrypting /\ Sweeping /\ ~errors =>
       \A b \in Blobs : file[b] = "plain" => b \in todo \cup InHand \cup Unvouched
  /\ marker => \A b \in Blobs : file[b] = "plain" => b \in Unvouched
  /\ proc = "daemon" /\ keyed /\ step = "off" /\ ~errors =>
       \A b \in Blobs : file[b] = "plain" => b \in Unvouched

\* Every step keeps it.
LEMMA MarkerStep ==
  ASSUME Inv, MarkerInv, [Next]_vars
  PROVE  MarkerInv'
<1> USE DEF Inv, TypeOK, FoundInv, MarkerInv, InHand, Sweeping, Unvouched, Idle, BeginSweep,
      Encrypting, sweepVars, history, outside
<1>1. CASE UNCHANGED vars
  BY <1>1 DEF vars
<1>2. CASE StartDaemon
  BY <1>2 DEF StartDaemon
<1>3. CASE StopDaemon
  BY <1>3 DEF StopDaemon
<1>4. ASSUME NEW mode \in Commands, StartCommand(mode)  PROVE MarkerInv'
  <2>1. mode \in {"encrypt", "decrypt"}
    BY BlobAssumption DEF BlobAssumption
  <2> QED  BY <1>4, <2>1 DEF StartCommand
<1>5. CASE SweepStep
  <2>1. CASE List
    BY <2>1 DEF List
  <2>2. ASSUME NEW b \in Blobs, Visit(b)  PROVE MarkerInv'
    BY <2>2 DEF Visit
  <2>3. CASE Sniff
    BY <2>3 DEF Sniff, Converted, HasMagic
  <2>4. CASE ReadBlob
    BY <2>4 DEF ReadBlob, Converted, HasMagic
  <2>5. CASE WriteTmp
    BY <2>5 DEF WriteTmp
  <2>6. CASE Rename
    <3>1. Encrypting => held \in {"plain", "empty"}
      BY <2>6 DEF Rename, HasMagic, Content
    <3>2. Encrypting => Conversion(held) # "plain"
      BY <3>1 DEF Conversion
    <3>3. at \in Blobs
      BY <2>6 DEF Rename
    <3>4. \A b \in Blobs \ {at} : file'[b] = file[b] /\ (b \in Unvouched <=> b \in Unvouched')
      BY <2>6 DEF Rename
    <3>5. file'[at] = Conversion(held)
      BY <2>6, <3>3 DEF Rename
    <3>6. marker /\ file'[at] = "plain" => at \in Unvouched'
      BY <2>6, <3>5 DEF Rename
    <3>7. (marker => \A b \in Blobs : file[b] = "plain" => b \in Unvouched)'
      BY <2>6, <3>4, <3>6 DEF Rename
    <3>8. (Encrypting /\ Sweeping /\ ~errors =>
             \A b \in Blobs : file[b] = "plain" => b \in todo \cup InHand \cup Unvouched)'
      <4> SUFFICES ASSUME Encrypting', ~errors', NEW b \in Blobs, file'[b] = "plain"
                   PROVE  b \in (todo \cup InHand \cup Unvouched)'
        OBVIOUS
      <4>1. b # at
        BY <2>6, <3>2, <3>5 DEF Rename
      <4>2. file[b] = "plain" /\ b \notin InHand
        BY <2>6, <3>4, <4>1
      <4>3. b \in todo \cup Unvouched
        BY <2>6, <4>2 DEF Rename
      <4> QED  BY <2>6, <3>4, <4>1, <4>3 DEF Rename
    <3>9. \A b \in Blobs : writer[b] = "idle" => writer'[b] = "idle"
      BY <2>6, <3>3 DEF Rename
    <3> QED  BY <2>6, <3>7, <3>8, <3>9 DEF Rename
  <2>7. CASE EndSweep
    BY <2>7 DEF EndSweep
  <2> QED  BY <1>5, <2>1, <2>2, <2>3, <2>4, <2>5, <2>6, <2>7 DEF SweepStep
<1>6. CASE StepFails
  BY <1>6 DEF StepFails
<1>7. CASE EndFails
  BY <1>7 DEF EndFails
<1>8. CASE SaveConfig
  BY <1>8 DEF SaveConfig
<1>9. CASE EditFlag
  BY <1>9 DEF EditFlag
<1>10. CASE Crash
  BY <1>10 DEF Crash
<1>11. ASSUME NEW b \in Blobs, OpenBlob(b)  PROVE MarkerInv'
  BY <1>11 DEF OpenBlob
<1>12. ASSUME NEW b \in Blobs, FillBlob(b)  PROVE MarkerInv'
  <2>1. proc = "daemon"
    BY <1>12 DEF FillBlob
  <2>2. \A c \in Blobs : file'[c] = "plain" => file[c] = "plain" \/ (c = b /\ ~keyed)
    BY <1>12 DEF FillBlob
  <2>3. (marker => \A c \in Blobs : file[c] = "plain" => c \in Unvouched)'
    <3> SUFFICES ASSUME marker', NEW c \in Blobs, file'[c] = "plain"  PROVE c \in Unvouched'
      OBVIOUS
    <3>1. CASE c = b
      BY <1>12, <3>1 DEF FillBlob
    <3>2. CASE c # b
      BY <1>12, <3>2 DEF FillBlob
    <3> QED  BY <3>1, <3>2
  <2>4. keyed => \A c \in Blobs : file'[c] = "plain" => file[c] = "plain"
    BY <2>2
  <2>5. Unvouched \subseteq Unvouched'
    BY <1>12 DEF FillBlob
  <2> QED  BY <1>12, <2>1, <2>3, <2>4, <2>5 DEF FillBlob
<1> QED
  BY <1>1, <1>2, <1>3, <1>4, <1>5, <1>6, <1>7, <1>8, <1>9, <1>10, <1>11, <1>12 DEF Next

\* It holds from the first state on.
LEMMA MarkerInvariant == Spec => [](Inv /\ MarkerInv)
<1>1. Init => MarkerInv
  BY DEF Init, MarkerInv, Sweeping
<1>2. Inv /\ MarkerInv /\ [Next]_vars => MarkerInv'
  BY MarkerStep
<1> QED  BY <1>1, <1>2, Invariant, PTL DEF Spec

\* "True once a full sweep has completed (every plaintext blob encrypted)", of the blobs
\* that a sweep has listed: whatever captures, commands, failing calls, crashes and edits
\* of the flag come between (blobsMigrated, migrateBlobsToEncrypted).
THEOREM MarkerTold == Spec => []MarkerIsTrue
<1>1. Inv /\ MarkerInv => MarkerIsTrue
  BY DEF Inv, TypeOK, MarkerInv, MarkerIsTrue
<1> QED  BY <1>1, MarkerInvariant, PTL

\* "existing plaintext data is migrated in place on start": what a daemon with the flag on
\* has swept without an error, or finds marked, is encrypted as far as it was listed
\* (migrateBlobsIfNeeded).
THEOREM StartMigrates == Spec => []MigratedOnStart
<1>1. Inv /\ MarkerInv => MigratedOnStart
  BY DEF Inv, TypeOK, MarkerInv, MigratedOnStart
<1> QED  BY <1>1, MarkerInvariant, PTL
=============================================================================
