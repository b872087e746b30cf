------------------------------ MODULE IndexSwap ------------------------------
(***************************************************************************)
(* The index database at rest: how `hpm encrypt|decrypt --db` (cli.ts,     *)
(* cmdCrypto) and the daemon at its start (core/orchestrator.ts) find the  *)
(* key (store/db_key.ts, util/secret_store.ts), convert index.db by copy,  *)
(* rekey and replace (store/index_db.ts) and open it (store/db.ts).        *)
(*                                                                         *)
(* One process runs at a time, the daemon or one command (DaemonControl    *)
(* says when that is so); readers may hold a connection of their own.  A   *)
(* step is one file system or SQLite call; a crash may come before any.    *)
(* What a crash leaves in the temporary file is removed before the next    *)
(* use and never read.  Its -wal and -journal are not removed, and SQLite  *)
(* would read those of a rekey that crashed half-way when it opens the     *)
(* next copy: a rekey is one step here, so that it leaves none.            *)
(***************************************************************************)
EXTENDS Naturals

CONSTANTS
  Rows,       \* what the daemon may commit
  Keys,       \* the keys randomBytes may yield, each once; TLC is given enough of them
  NoKey,
  Commands,   \* which of "encrypt", "decrypt" the user may run
  Faults,     \* see FaultKind
  MaxFaults   \* bound on their number

FaultKind == {
  "crash",               \* the running process dies
  "crashInSwap",         \* ... with index.db removed and the copy not yet renamed
  "busyReader",          \* a reader's transaction keeps the checkpoint from moving rows
  "rekeyFails",          \* PRAGMA rekey throws
  "keychainChanges",     \* the OS keychain becomes reachable, or unreachable
  "keychainUnreadable" } \* it refuses one read, and takes the write that follows

ASSUME IndexAssumption ==
  /\ NoKey \notin Keys
  /\ Commands \subseteq {"encrypt", "decrypt"}
  /\ Faults \subseteq FaultKind
  /\ MaxFaults \in Nat

VARIABLES
  main,      \* index.db
  wal,       \* rows committed to index.db-wal only
  tmp,       \* index.db.enc.tmp or index.db.dec.tmp
  committed, \* every row ever committed
  keychain, keyFile, \* the key in the OS keychain and in the fallback file
  reachable, \* does the keychain answer?
  made,      \* keys generated so far
  flag,      \* storage.encryption.database in config.yaml
  proc,      \* the process that runs: "none", "daemon", "encrypt", "decrypt"
  step,      \* its next step
  key,       \* the key it holds
  faults,    \* how many faults there were, ...
  happened   \* ... and which kinds

fileVars == <<main, wal, tmp, committed>>
keyVars == <<keychain, keyFile, reachable, made>>
procVars == <<proc, step, key>>
faultVars == <<faults, happened>>
vars == <<fileVars, keyVars, flag, procVars, faultVars>>

\* A database file: plaintext when its key is NoKey.
Absent == [there |-> FALSE, key |-> NoKey, rows |-> {}]
Database == [there : BOOLEAN, key : Keys \cup {NoKey}, rows : SUBSET Rows]

Step == {"off", "key", "probe", "checkpoint", "copy", "rekey", "rmWal", "rmMain", "rename",
         "open", "up", "saveConfig"}
\* The steps of a conversion that has not removed index.db yet.
Converting == {"checkpoint", "copy", "rekey", "rmWal", "rmMain"}

TypeOK ==
  /\ main \in Database /\ tmp \in Database
  /\ wal \subseteq Rows /\ committed \subseteq Rows
  /\ {keychain, keyFile, key} \subseteq Keys \cup {NoKey}
  /\ made \subseteq Keys
  /\ reachable \in BOOLEAN /\ flag \in BOOLEAN
  /\ proc \in {"none", "daemon", "encrypt", "decrypt"}
  /\ step \in Step
  /\ faults \in 0..MaxFaults /\ happened \subseteq Faults
  /\ (proc = "none") = (step = "off")
  /\ step \in {"up", "open"} => proc = "daemon"
  /\ step \in Converting => main.there

Fault(kind) ==
  /\ kind \in Faults /\ faults < MaxFaults
  /\ faults' = faults + 1
  /\ happened' = happened \cup {kind}

\* An index written before encryption was there, or none yet.
Init ==
  /\ \E present \in BOOLEAN, old \in SUBSET Rows :
       /\ main = IF present THEN [there |-> TRUE, key |-> NoKey, rows |-> old] ELSE Absent
       /\ committed = main.rows
  /\ wal = {} /\ tmp = Absent
  /\ keychain = NoKey /\ keyFile = NoKey /\ made = {}
  /\ reachable \in BOOLEAN
  /\ flag \in BOOLEAN
  /\ proc = "none" /\ step = "off" /\ key = NoKey
  /\ faults = 0 /\ happened = {}

-----------------------------------------------------------------------------
(* The processes. *)

Goto(next) == step' = next /\ UNCHANGED proc
Exit == proc' = "none" /\ step' = "off" /\ key' = NoKey

Start(p) ==
  /\ proc = "none"
  /\ p \in Commands \cup {"daemon"}
  /\ proc' = p /\ step' = "key"
  /\ UNCHANGED <<fileVars, keyVars, flag, key, faultVars>>

\* The daemon encrypts when its configuration says so; a command as it is named.
Encrypting == proc = "encrypt" \/ (proc = "daemon" /\ flag)

Crash ==
  /\ proc # "none"
  /\ Fault(IF step = "rename" THEN "crashInSwap" ELSE "crash")
  /\ Exit
  /\ UNCHANGED <<fileVars, keyVars, flag>>

EditFlag ==
  /\ proc = "none"
  /\ flag' = ~flag
  /\ UNCHANGED <<fileVars, keyVars, procVars, faultVars>>

\* cmdCrypto persists the flag last.
SaveConfig ==
  /\ step = "saveConfig"
  /\ flag' = (proc = "encrypt")
  /\ Exit
  /\ UNCHANGED <<fileVars, keyVars, faultVars>>

-----------------------------------------------------------------------------
(* getOrCreateIndexKey, readIndexKey and CompositeSecretStore. *)

\* Mutant: only the first backend that answers is asked.
StoredKey_FirstOnly == IF reachable THEN keychain ELSE keyFile

\* read: the first backend that has a value.
StoredKey == IF reachable /\ keychain # NoKey THEN keychain ELSE keyFile

\* write: to the keychain, clearing the file, or to the file.
StoreKey(k) ==
  /\ made' = made \cup {k}
  /\ keychain' = IF reachable THEN k ELSE keychain
  /\ keyFile' = IF reachable THEN NoKey ELSE k
  /\ key' = k
  /\ Goto("probe")

ReadKey ==
  /\ step = "key" /\ StoredKey # NoKey
  /\ key' = StoredKey
  /\ Goto("probe")
  /\ UNCHANGED <<fileVars, keyVars, flag, faultVars>>

CreateKey ==
  /\ step = "key" /\ StoredKey = NoKey /\ Encrypting
  /\ \E k \in Keys \ made : StoreKey(k)
  /\ UNCHANGED <<fileVars, reachable, flag, faultVars>>

\* The read of the keychain fails, which is taken for an empty one.
ReplaceKey ==
  /\ step = "key" /\ Encrypting
  /\ reachable /\ keychain # NoKey /\ keyFile = NoKey
  /\ Fault("keychainUnreadable")
  /\ \E k \in Keys \ made : StoreKey(k)
  /\ UNCHANGED <<fileVars, reachable, flag>>

\* Without a key the daemon opens the index as it is; `hpm decrypt` gives up.
NoStoredKey ==
  /\ step = "key" /\ StoredKey = NoKey /\ ~Encrypting
  /\ IF proc = "daemon" THEN Goto("open") /\ UNCHANGED key ELSE Exit
  /\ UNCHANGED <<fileVars, keyVars, flag, faultVars>>

KeychainChanges ==
  /\ Fault("keychainChanges")
  /\ reachable' = ~reachable
  /\ UNCHANGED <<fileVars, keychain, keyFile, made, flag, procVars>>

-----------------------------------------------------------------------------
(* ensureEncrypted, ensureDecrypted and isIndexDbEncrypted. *)

\* The index opens with the key, without one, or not at all.
Foreign == main.there /\ main.key \notin {NoKey, key}
Encrypted == main.there /\ main.key = key

\* Mutant: what the key does not open is taken for plaintext.
Refuse_Never == FALSE

Refuse == step = "probe" /\ Foreign

\* probe throws: the index is encrypted with a different key.
ProbeThrows ==
  /\ Refuse
  /\ Exit
  /\ UNCHANGED <<fileVars, keyVars, flag, faultVars>>

\* Mutant: whether there is an index is not looked at.
NeedsConversion_Unseen == IF Encrypting THEN ~Encrypted ELSE proc = "decrypt" /\ Encrypted

\* probe, and what the three callers make of it: convert, or go on with the
\* index as it is. The daemon drops a key it does not need.
NeedsConversion ==
  main.there /\ (IF Encrypting THEN ~Encrypted ELSE proc = "decrypt" /\ Encrypted)

Probe ==
  /\ step = "probe" /\ ~Refuse
  /\ IF NeedsConversion THEN Goto("checkpoint") /\ UNCHANGED key
     ELSE /\ Goto(IF proc = "daemon" THEN "open" ELSE "saveConfig")
          /\ key' = IF proc # "daemon" \/ Encrypting \/ Encrypted THEN key ELSE NoKey
  /\ UNCHANGED <<fileVars, keyVars, flag, faultVars>>

\* Mutant: the copy is made without a checkpoint.
Checkpoint_Missing ==
  /\ step = "checkpoint"
  /\ Goto("copy")
  /\ UNCHANGED <<fileVars, keyVars, flag, key, faultVars>>

\* PRAGMA wal_checkpoint(TRUNCATE) moves the rows of the WAL into index.db. If it
\* is blocked it says so in a result row that is not looked at.
Checkpoint ==
  /\ step = "checkpoint"
  /\ Goto("copy")
  /\ \/ /\ main' = [main EXCEPT !.rows = @ \cup wal] /\ wal' = {}
        /\ UNCHANGED faultVars
     \/ Fault("busyReader") /\ UNCHANGED <<main, wal>>
  /\ UNCHANGED <<tmp, committed, keyVars, flag, key>>

\* Remove the copy that an earlier conversion left (not its -wal and -journal,
\* see above), then copyFileSync.
Copy ==
  /\ step = "copy"
  /\ tmp' = main
  /\ Goto("rekey")
  /\ UNCHANGED <<main, wal, committed, keyVars, flag, key, faultVars>>

Rekey ==
  /\ step = "rekey"
  /\ tmp' = [tmp EXCEPT !.key = IF Encrypting THEN key ELSE NoKey]
  /\ Goto("rmWal")
  /\ UNCHANGED <<main, wal, committed, keyVars, flag, key, faultVars>>

\* Mutant: the exception is swallowed.
RekeyFails_Swallowed ==
  /\ step = "rekey"
  /\ Fault("rekeyFails")
  /\ Goto("rmWal")
  /\ UNCHANGED <<fileVars, keyVars, flag, key>>

\* The copy is removed and the exception ends the process.
RekeyFails ==
  /\ step = "rekey"
  /\ Fault("rekeyFails")
  /\ tmp' = Absent
  /\ Exit
  /\ UNCHANGED <<main, wal, committed, keyVars, flag>>

RemoveWal ==
  /\ step = "rmWal"
  /\ wal' = {}
  /\ Goto("rmMain")
  /\ UNCHANGED <<main, tmp, committed, keyVars, flag, key, faultVars>>

\* rmFileWithRetry(path), and renameSync(tmp, path) in a call of its own.
RemoveMain ==
  /\ step = "rmMain"
  /\ main' = Absent
  /\ Goto("rename")
  /\ UNCHANGED <<wal, tmp, committed, keyVars, flag, key, faultVars>>

RenameTmp ==
  /\ step = "rename"
  /\ main' = tmp
  /\ tmp' = Absent
  /\ Goto(IF proc = "daemon" THEN "open" ELSE "saveConfig")
  /\ UNCHANGED <<wal, committed, keyVars, flag, key, faultVars>>

-----------------------------------------------------------------------------
(* openChunkStore and the daemon's writes. *)

\* openIndexDb with create: true makes an empty index where there is none.
Open ==
  /\ step = "open"
  /\ main.there => main.key = key
  /\ main' = IF main.there THEN main ELSE [there |-> TRUE, key |-> key, rows |-> {}]
  /\ Goto("up")
  /\ UNCHANGED <<wal, tmp, committed, keyVars, flag, key, faultVars>>

\* The first statement throws SQLITE_NOTADB.
OpenThrows ==
  /\ step = "open"
  /\ main.there /\ main.key # key
  /\ Exit
  /\ UNCHANGED <<fileVars, keyVars, flag, faultVars>>

Commit(r) ==
  /\ step = "up" /\ r \notin committed
  /\ wal' = wal \cup {r}
  /\ committed' = committed \cup {r}
  /\ UNCHANGED <<main, tmp, keyVars, flag, procVars, faultVars>>

\* SQLite moves the WAL into the database now and then, ...
AutoCheckpoint ==
  /\ step = "up" /\ wal # {}
  /\ main' = [main EXCEPT !.rows = @ \cup wal]
  /\ wal' = {}
  /\ UNCHANGED <<tmp, committed, keyVars, flag, procVars, faultVars>>

\* ... and when the last connection is closed, which a reader's may be.
StopDaemon ==
  /\ step = "up"
  /\ Exit
  /\ \/ main' = [main EXCEPT !.rows = @ \cup wal] /\ wal' = {}
     \/ UNCHANGED <<main, wal>>
  /\ UNCHANGED <<tmp, committed, keyVars, flag, faultVars>>

-----------------------------------------------------------------------------

KeyStep == ReadKey \/ CreateKey \/ ReplaceKey \/ NoStoredKey
SwapStep ==
  \/ ProbeThrows \/ Probe \/ Checkpoint \/ Copy \/ Rekey \/ RekeyFails
  \/ RemoveWal \/ RemoveMain \/ RenameTmp
StoreStep == Open \/ OpenThrows \/ (\E r \in Rows : Commit(r)) \/ AutoCheckpoint \/ StopDaemon

Next ==
  \/ \E p \in {"daemon", "encrypt", "decrypt"} : Start(p)
  \/ KeyStep \/ SwapStep \/ StoreStep \/ SaveConfig
  \/ EditFlag \/ KeychainChanges \/ Crash

Spec == Init /\ [][Next]_vars

-----------------------------------------------------------------------------
(* Properties. *)

\* "copy -> rekey -> atomic replace" (ensureEncrypted): wherever a conversion is
\* interrupted or fails, every row ever committed is in the index or its WAL, or,
\* while there is no index, in the copy that takes its place. Two faults break it.
History == IF step = "rename" THEN tmp.rows ELSE main.rows \cup wal
HistoryKept == {"crashInSwap", "busyReader"} \cap happened = {} => committed \subseteq History

\* The key of an encrypted index is never thrown away: it stays in the keychain
\* or in the file, whichever of them answered when it was made and since
\* (db_key.ts: "so the background daemon can re-open the DB on restart"). Only
\* a read that is refused while the write is not replaces it.
KeyKept ==
  "keychainUnreadable" \notin happened =>
    (main.key # NoKey => main.key \in {keychain, keyFile})

\* "Refusing to touch it" (probe): an index that the process cannot read is not
\* changed, by whatever was started with the wrong key.
ForeignUntouched == [][Foreign => main' = main]_vars

\* cmdCrypto "persists the matching config flags so the daemon keeps the chosen
\* state": the index is what the flag that is about to be saved says, and a
\* daemon with the flag on writes into an encrypted one.
ConversionDone ==
  /\ (step = "saveConfig" /\ main.there) => (main.key # NoKey) = (proc = "encrypt")
  /\ step = "up" => main.key = key /\ (flag => key # NoKey)
=============================================================================
