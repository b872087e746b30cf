--------------------------- MODULE IndexSwapProofs ---------------------------
(***************************************************************************)
(* What TLAPS proves of IndexSwap, for any rows, keys, commands and any    *)
(* number of faults: all five properties that the run checks.              *)
(***************************************************************************)
EXTENDS IndexSwap, TLAPS

\* What the copy is to become.
Target == IF Encrypting THEN key ELSE NoKey

\* Where a conversion is, what it holds and what it has made so far.
SwapInv ==
  /\ step \in Converting \cup {"probe", "rename", "saveConfig"} => key # NoKey
  /\ step \in Converting => main.key \in {NoKey, key}
  /\ step \in {"rmWal", "rmMain", "rename"} => tmp.key = Target
  /\ step = "rename" => ~main.there
  /\ step = "saveConfig" => proc \in {"encrypt", "decrypt"}
  /\ step = "saveConfig" /\ main.there => main.key = Target
  /\ step \in {"open", "up"} => (flag => key # NoKey)
  /\ step = "up" => main.there /\ main.key = key

Inv == TypeOK /\ SwapInv

\* Where every committed row is. HistoryKept alone is not inductive: it does not
\* say that the copy that a conversion has made holds what the original does, nor
\* that a file that is not there holds nothing.
NoLoss == {"crashInSwap", "busyReader"} \cap happened = {}
RowsInv ==
  /\ ~main.there => main.rows = {}
  /\ ~tmp.there => tmp.rows = {}
  /\ NoLoss =>
       /\ committed \subseteq History
       /\ step \in {"copy", "rekey", "rmWal", "rmMain"} => committed \subseteq main.rows
       /\ step \in {"rekey", "rmWal", "rmMain"} => committed \subseteq tmp.rows

\* Every key that is in use is stored.
Stored(k) == k \in {NoKey, keychain, keyFile}
KeyInv ==
  "keychainUnreadable" \notin happened => Stored(main.key) /\ Stored(tmp.key) /\ Stored(key)

-----------------------------------------------------------------------------

LEMMA InvInit == Init => Inv
<1> SUFFICES ASSUME Init PROVE Inv
  OBVIOUS
<1>1. PICK present \in BOOLEAN, old \in SUBSET Rows :
        /\ main = IF present THEN [there |-> TRUE, key |-> NoKey, rows |-> old] ELSE Absent
        /\ committed = main.rows
  BY DEF Init
<1>2. main \in Database /\ tmp \in Database /\ committed \subseteq Rows
  BY <1>1 DEF Init, Database, Absent
<1>3. TypeOK
  BY <1>2, IndexAssumption DEF Init, TypeOK, Step, Converting, IndexAssumption
<1>4. SwapInv
  BY DEF Init, SwapInv, Converting
<1> QED BY <1>3, <1>4 DEF Inv

LEMMA InvStep == Inv /\ [Next]_vars => Inv'
<1> SUFFICES ASSUME Inv, [Next]_vars PROVE Inv'
  OBVIOUS
<1> USE IndexAssumption DEF IndexAssumption, Inv, TypeOK, SwapInv, Step, Converting, Target,
      Encrypting, Exit, Goto, fileVars, keyVars, procVars, faultVars, Fault
<1>1. CASE UNCHANGED vars
  BY <1>1 DEF vars
<1>2. ASSUME NEW p \in {"daemon", "encrypt", "decrypt"}, Start(p) PROVE Inv'
  BY <1>2 DEF Start
<1>3. CASE KeyStep
  <2>1. CASE ReadKey
    BY <1>3, <2>1 DEF ReadKey, StoredKey
  <2>2. CASE CreateKey
    BY <1>3, <2>2 DEF CreateKey, StoreKey
  <2>3. CASE ReplaceKey
    BY <1>3, <2>3 DEF ReplaceKey, StoreKey
  <2>4. CASE NoStoredKey
    BY <1>3, <2>4 DEF NoStoredKey
  <2> QED BY <1>3, <2>1, <2>2, <2>3, <2>4 DEF KeyStep
<1>4. CASE SwapStep
  <2>1. CASE ProbeThrows
    BY <2>1 DEF ProbeThrows, Refuse
  <2>2. CASE Probe
    BY <2>2 DEF Probe, Refuse, Foreign, NeedsConversion, Encrypted
  <2>3. CASE Checkpoint
    BY <2>3 DEF Checkpoint, Database
  <2>4. CASE Copy
    BY <2>4 DEF Copy
  <2>5. CASE Rekey
    BY <2>5 DEF Rekey, Database
  <2>6. CASE RekeyFails
    BY <2>6 DEF RekeyFails, Database, Absent
  <2>7. CASE RemoveWal
    BY <2>7 DEF RemoveWal
  <2>8. CASE RemoveMain
    BY <2>8 DEF RemoveMain, Database, Absent
  <2>9. CASE RenameTmp
    BY <2>9 DEF RenameTmp, Database, Absent
  <2> QED BY <1>4, <2>1, <2>2, <2>3, <2>4, <2>5, <2>6, <2>7, <2>8, <2>9 DEF SwapStep
<1>5. CASE StoreStep
  <2>1. CASE Open
    BY <2>1 DEF Open, Database
  <2>2. CASE OpenThrows
    BY <2>2 DEF OpenThrows
  <2>3. ASSUME NEW r \in Rows, Commit(r) PROVE Inv'
    BY <2>3 DEF Commit
  <2>4. CASE AutoCheckpoint
    BY <2>4 DEF AutoCheckpoint, Database
  <2>5. CASE StopDaemon
    BY <2>5 DEF StopDaemon, Database
  <2> QED BY <1>5, <2>1, <2>2, <2>3, <2>4, <2>5 DEF StoreStep
<1>6. CASE SaveConfig
  BY <1>6 DEF SaveConfig
<1>7. CASE EditFlag
  BY <1>7 DEF EditFlag
<1>8. CASE KeychainChanges
  BY <1>8 DEF KeychainChanges
<1>9. CASE Crash
  BY <1>9 DEF Crash
<1> QED BY <1>1, <1>2, <1>3, <1>4, <1>5, <1>6, <1>7, <1>8, <1>9 DEF Next

LEMMA Invariant == Spec => []Inv
<1> QED BY InvInit, InvStep, PTL DEF Spec

\* Every variable of the index at rest keeps its type, and every step of a
\* conversion finds what it works on (store/index_db.ts).
THEOREM TypeCorrect == Spec => []TypeOK
<1>1. Inv => TypeOK
  BY DEF Inv
<1> QED BY <1>1, Invariant, PTL

\* After a conversion the index is what the saved flag says, and a daemon writes
\* into an encrypted index when its flag is on (cli.ts, cmdCrypto; store/db.ts).
THEOREM ConversionIsDone == Spec => []ConversionDone
<1>1. Inv => ConversionDone
  BY DEF Inv, SwapInv, TypeOK, Target, Encrypting, ConversionDone, Converting
<1> QED BY <1>1, Invariant, PTL

\* An index under another key is not changed (store/index_db.ts, probe).
THEOREM ForeignIsUntouched == Spec => ForeignUntouched
<1>1. Inv /\ [Next]_vars => [Foreign => main' = main]_vars
  <2> SUFFICES ASSUME Inv, Next, Foreign PROVE main' = main
    BY DEF vars
  <2> USE DEF Inv, SwapInv, TypeOK, Foreign, Converting, fileVars, keyVars, procVars
  <2>1. ASSUME NEW p \in {"daemon", "encrypt", "decrypt"}, Start(p) PROVE main' = main
    BY <2>1 DEF Start
  <2>2. CASE KeyStep
    BY <2>2 DEF KeyStep, ReadKey, CreateKey, ReplaceKey, NoStoredKey
  <2>3. CASE SwapStep
    BY <2>3, IndexAssumption DEF SwapStep, ProbeThrows, Probe, Checkpoint, Copy, Rekey,
         RekeyFails, RemoveWal, RemoveMain, RenameTmp
  <2>4. CASE StoreStep
    BY <2>4 DEF StoreStep, Open, OpenThrows, Commit, AutoCheckpoint, StopDaemon
  <2>5. CASE SaveConfig \/ EditFlag \/ KeychainChanges \/ Crash
    BY <2>5 DEF SaveConfig, EditFlag, KeychainChanges, Crash
  <2> QED BY <2>1, <2>2, <2>3, <2>4, <2>5 DEF Next
<1> QED BY <1>1, Invariant, PTL DEF Spec, ForeignUntouched

-----------------------------------------------------------------------------

LEMMA RowsStep == Inv /\ RowsInv /\ [Next]_vars => RowsInv'
<1> SUFFICES ASSUME Inv, RowsInv, [Next]_vars PROVE RowsInv'
  OBVIOUS
<1> USE DEF RowsInv, NoLoss, History, Goto, Exit, fileVars, keyVars, procVars, faultVars
<1>1. CASE UNCHANGED vars
  BY <1>1 DEF vars
<1>2. ASSUME NEW p \in {"daemon", "encrypt", "decrypt"}, Start(p) PROVE RowsInv'
  BY <1>2 DEF Start, Inv, TypeOK
<1>3. CASE KeyStep
  BY <1>3 DEF KeyStep, ReadKey, CreateKey, ReplaceKey, NoStoredKey, StoreKey, Fault
<1>4. CASE SwapStep
  <2>1. CASE ProbeThrows
    BY <2>1 DEF ProbeThrows, Refuse
  <2>2. CASE Probe
    BY <2>2 DEF Probe
  <2>3. CASE Checkpoint
    <3>1. main.there /\ main \in Database
      BY <2>3 DEF Checkpoint, Inv, TypeOK, Converting
    <3>2. CASE main' = [main EXCEPT !.rows = @ \cup wal] /\ wal' = {} /\ UNCHANGED faultVars
      BY <2>3, <3>1, <3>2 DEF Checkpoint, Database
    <3>3. CASE Fault("busyReader") /\ UNCHANGED <<main, wal>>
      BY <2>3, <3>1, <3>3 DEF Checkpoint, Fault
    <3> QED BY <2>3, <3>2, <3>3 DEF Checkpoint
  <2>4. CASE Copy
    BY <2>4 DEF Copy
  <2>5. CASE Rekey
    BY <2>5 DEF Rekey, Inv, TypeOK, Database
  <2>6. CASE RekeyFails
    BY <2>6 DEF RekeyFails, Absent, Fault
  <2>7. CASE RemoveWal
    BY <2>7 DEF RemoveWal
  <2>8. CASE RemoveMain
    BY <2>8 DEF RemoveMain, Absent
  <2>9. CASE RenameTmp
    BY <2>9 DEF RenameTmp, Absent
  <2> QED BY <1>4, <2>1, <2>2, <2>3, <2>4, <2>5, <2>6, <2>7, <2>8, <2>9 DEF SwapStep
<1>5. CASE StoreStep
  <2>1. CASE Open
    BY <2>1 DEF Open
  <2>2. CASE OpenThrows
    BY <2>2 DEF OpenThrows
  <2>3. ASSUME NEW r \in Rows, Commit(r) PROVE RowsInv'
    BY <2>3 DEF Commit
  <2>4. CASE AutoCheckpoint
    BY <2>4 DEF AutoCheckpoint, Inv, TypeOK, SwapInv, Database
  <2>5. CASE StopDaemon
    BY <2>5 DEF StopDaemon, Inv, TypeOK, SwapInv, Database
  <2> QED BY <1>5, <2>1, <2>2, <2>3, <2>4, <2>5 DEF StoreStep
<1>6. CASE SaveConfig
  BY <1>6 DEF SaveConfig
<1>7. CASE EditFlag
  BY <1>7 DEF EditFlag
<1>8. CASE KeychainChanges
  BY <1>8 DEF KeychainChanges, Fault
<1>9. CASE Crash
  BY <1>9 DEF Crash, Fault
<1> QED BY <1>1, <1>2, <1>3, <1>4, <1>5, <1>6, <1>7, <1>8, <1>9 DEF Next

\* No committed row is lost, however often conversions are interrupted or fail,
\* unless a process dies between removing and renaming, or a reader blocks the
\* checkpoint (store/index_db.ts, ensureEncrypted and ensureDecrypted).
THEOREM HistoryIsKept == Spec => []HistoryKept
<1>1. Init => RowsInv
  <2> SUFFICES ASSUME Init PROVE RowsInv
    OBVIOUS
  <2>1. PICK present \in BOOLEAN, old \in SUBSET Rows :
          /\ main = IF present THEN [there |-> TRUE, key |-> NoKey, rows |-> old] ELSE Absent
          /\ committed = main.rows
    BY DEF Init
  <2> QED BY <2>1 DEF Init, RowsInv, History, Absent
<1>2. RowsInv => HistoryKept
  BY DEF RowsInv, HistoryKept, NoLoss
<1> QED BY <1>1, <1>2, RowsStep, Invariant, PTL DEF Spec

-----------------------------------------------------------------------------

LEMMA KeyStepKeeps == Inv /\ KeyInv /\ [Next]_vars => KeyInv'
<1> SUFFICES ASSUME Inv, KeyInv, [Next]_vars PROVE KeyInv'
  OBVIOUS
<1> USE DEF KeyInv, Stored, Goto, Exit, fileVars, keyVars, procVars, faultVars
<1>1. CASE UNCHANGED vars
  BY <1>1 DEF vars
<1>2. ASSUME NEW p \in {"daemon", "encrypt", "decrypt"}, Start(p) PROVE KeyInv'
  BY <1>2 DEF Start
<1>3. CASE KeyStep
  BY <1>3, IndexAssumption
     DEF IndexAssumption, KeyStep, ReadKey, CreateKey, ReplaceKey, NoStoredKey, StoreKey,
         StoredKey, Fault
<1>4. CASE SwapStep
  BY <1>4 DEF SwapStep, ProbeThrows, Probe, Checkpoint, Copy, Rekey, RekeyFails, RemoveWal,
       RemoveMain, RenameTmp, Absent, Inv, TypeOK, Database, Fault
<1>5. CASE StoreStep
  BY <1>5 DEF StoreStep, Open, OpenThrows, Commit, AutoCheckpoint, StopDaemon, Inv, TypeOK,
       Database
<1>6. CASE SaveConfig \/ EditFlag \/ KeychainChanges \/ Crash
  BY <1>6 DEF SaveConfig, EditFlag, KeychainChanges, Crash, Fault
<1> QED BY <1>1, <1>2, <1>3, <1>4, <1>5, <1>6 DEF Next

\* The key of an encrypted index is never thrown away, unless the keychain
\* refuses a read and takes the write that follows (store/db_key.ts).
THEOREM KeyIsKept == Spec => []KeyKept
<1>1. Init => KeyInv
  <2> SUFFICES ASSUME Init PROVE KeyInv
    OBVIOUS
  <2>1. main.key = NoKey
    BY DEF Init, Absent
  <2> QED BY <2>1 DEF Init, KeyInv, Stored, Absent
<1>2. KeyInv => KeyKept
  BY DEF KeyInv, KeyKept, Stored
<1> QED BY <1>1, <1>2, KeyStepKeeps, Invariant, PTL DEF Spec
=============================================================================
