# hyprmnesia in TLA+

This directory holds TLA+ models of hyprmnesia, the TLC configurations that
check them on small instances, and proofs that TLAPS checks for instances of
any size. It describes the code under `src/` (the daemon, its workers, the
readers and the CLI), file by file; a file is named as under `src/src/`, and
where a line is quoted it is a line of that tree.

To run it: `tlc -config daemon_start.cfg MCDaemonControl` (each configuration
and its module are in the table under *Runs*), `tlapm DaemonControlProofs.tla`,
and so on.
`PROJECT.json` maps every definition to the lines it models.

## 1. The system

hyprmnesia records the screen, the microphone and the system's audio,
transcribes and reads them locally, and makes the result searchable. One
detached daemon (`hpm _capture`) does the recording. The CLI, the tray and the
terminal UI start and stop it through files; MCP clients and the replay viewer
only read what it wrote.

| component | state it keeps | operations | talks to | model |
|---|---|---|---|---|
| Daemon control (`core/daemon.ts`, `cli.ts`) | `daemon.pid`, `daemon.stop`, `daemon.start.lock` on disk | `spawnDaemon`, `stopDaemon`, `cmdCapture`, the check in `cmdCrypto` | each other, only through those three files and `kill` | DaemonControl |
| Orchestrator (`core/orchestrator.ts`) | which runners are up | `start`, `stop` | all components of the daemon | Lifecycle |
| Screen capture (`capture/screen.ts`) | last accepted image, chain of pending inserts | frame handler or screenshot loop, `stop` | a helper, OCR, blobs, store | ScreenCapture |
| Capture helpers (`sck`, `wlcap`, `capture/sck.ts`, `wlcap.ts`) | one capture, the promise of `start()` | start, frames, errors, shutdown | screen and audio capture | CaptureHelper |
| Audio capture (`capture/audio.ts`) | per source: the open chunk, the ASR frame being filled, the queue of chunks to encode | `startStream`, `startSckSystemStream`, `appendPcm`, `rotate`, `stop` | ffmpeg / hpm-wasapi / SCK, blobs, store, transcription queue | AudioPipeline |
| Transcription queue, Parakeet client (`process/transcription*`) | unanswered flushes, sources suppressed by a replay | `submitPcm`, `flush`, `stop`, `handleMessage` | hpm-asr over stdin and stdout, store | AudioPipeline |
| ASR worker (`asr/src/main.rs`) | a `SourceVad` per source, the model | `audio`, `flush`, `shutdown` | the client | AsrWorker, SourceVad |
| Embedding (`process/embedding_queue.ts`, `embeddings/local.ts`, `embed/src/main.rs`) | the batch that is awaited, the `pending` map, timers | `tick`, `drain`, `embed`, `stop` | store, hpm-embed | Embedding |
| Chunk store (`store/db.ts`, `vec.ts`) | the index: chunks, segments, vectors, schema version | `insert`, `finalizeAudioChunk`, `insertTranscriptSegment`, `insertEmbedding`, `close`, migrations | all writers of the daemon | CaptureStore, with the parts of AudioPipeline and HistoryViews |
| Blob encryption (`store/blob_migrate.ts`, `blobs.ts`, `blob_crypto.ts`) | blob files, `.blobs-migrated-v1` | `migrateBlobsToEncrypted`, `decryptBlobsToPlaintext`, `write` | orchestrator, `cmdCrypto` | BlobSweep |
| Index encryption (`store/index_db.ts`, `db_key.ts`, `util/secret_store.ts`) | the index file, its temporary, the key | `ensureEncrypted`, `ensureDecrypted`, `openIndexDb` | `cmdCrypto`, every opener | IndexSwap |
| MCP server (`mcp/server.ts`, `protocol.ts`) | the shared query encoder, the cached verifier | requests, batches, `tools/call`, shutdown | access control, read store, hpm-embed | McpServer |
| MCP access control (`mcp/auth.ts`) | the token's verifier, in the keychain or a file | `setup`, `rotate`, `check` | MCP server | McpAuth |
| MCP read store (`mcp/read_store/*`) | none: queries of the index | `search`, `recent_activity`, `timeline`, `recall` | store | HistoryViews |
| Replay suppression (`core/transcription_suppression.ts`) | a marker file with an owner and a time to live, the daemon's cached look | set, clear, `isSuppressed` | replay servers write, the daemon reads | Suppression |
| Replay viewer (`replay/*`) | the page's player, its audio, timers; the server's `activeBlobs` | play, pause, seek, load, close | store, marker | ReplayViewer, HistoryViews |
| OCR (`process/ocr/*`, `ocr/src/main.rs`) | a process per call | `ready`, recognise | screen capture | a choice in ScreenCapture |
| WASAPI capture (`wasapi/src/*`) | the device's clock | render loop, silence for gaps | audio capture | an input of AudioPipeline |
| Window tracker, event bus, update check, configuration | small caches | | daemon | not modelled |
| Tray (`tray/src/main.rs`, `core/tray.ts`), terminal UI (`tui/*`) | instance lock; log position, status | menu actions; start, stop, restart | CLI | not modelled |

### What is hard about it, and what makes each part right

* **Daemon control** has no server and no lock that the kernel releases. Any
  number of CLI processes interleave at every file-system call; a pid file is
  read, probed and unlinked in three steps; the start lock is broken by age.
  It is right when at most one daemon lives, a start that reports a pid is
  telling the truth, a stop ends the daemon without killing it and leaves
  nothing behind that would stop the next one, and a conversion never overlaps
  a daemon whose start is over.
* **The orchestrator** starts and stops child processes and
  queues that run on while it waits for others. Helpers answer late, never or
  with an error, workers die, a text poisons its batch, and the daemon may be
  killed. It is right when every stop ends, empties the pipeline into the index
  from its source to its end, writes nothing after the store is closed, and
  leaves no child behind.
* **Audio** runs per source as an asynchronous loop, a chain of finalizations,
  a worker process with its own queue, and a shutdown that must wait for all
  of them in the right order, whatever has failed. It is right when what was
  said lands once, in order, in its chunk; when a replay is not transcribed;
  when `stop()` always returns; and when nothing is written to a closed store
  or left half finished.
* **Blobs** are rewritten in place while the daemon captures, and the sweep may
  die at any call. It is right when no capture is ever lost and the marker
  never vouches for a plaintext file; the code keeps the second promise for what
  it could list.
* **Index encryption** replaces the one file that holds all history. It is
  right when the rows committed before are recoverable at every moment.
* **The MCP server** encodes every query under one id, with one process and one
  timeout each, while other calls come in and the token is rotated by processes
  that overlap. It is right when every message is answered, a search gets a vector
  of its own text or none, and the token stored last is the one that counts. The
  code keeps the second promise for a search that meets no other, neither one that
  overlaps it nor the late answer of one that was given up.
* **The read store** cuts, ranks, fuses and groups rows that arrive in the order
  of their completion and not of their time. It is right when nothing is shown
  twice or lost between two pages or two groups.
* **A replay** must be heard by the user and not by the daemon, which learns of
  it through a file with a time to live that several servers write, over
  requests that are delayed, reordered or lost. It is right when the marker
  follows what plays, when audio decoded late does not sound where it is no
  longer wanted, and when what is shown and played is of the same moment.

`PROJECT.json` lists each hazard at the line where it bites, with the
properties that watch it.

## 2. Modules

```
DaemonControl ── MCDaemonControl              daemon life cycle, CLI, files
      └───────── DaemonControlProofs          its theorems

SourceVad ── AsrWorker ── AudioPipeline       segmenter, worker process, daemon
                              │        └───── AudioPipelineProofs
                              │ implements
                          Transcript          what the index promises about audio

CaptureStore ─┬─ CaptureHelper ─ ScreenCapture ─┬─ Lifecycle ── MCLifecycle
              └─ Embedding ─────────────────────┘      │  └──── LifecycleProofs
                                                       │ implements
                                                  SemanticIndex

BlobSweep ── MCBlobSweep                      blobs at rest
      └───── BlobSweepProofs                  its theorems
IndexSwap ── MCIndexSwap                      the index at rest, and its key
      └───── IndexSwapProofs                  its theorems

McpAuth ── McpServer ── MCMcpServer           tokens; calls and the query encoder
               └─────── McpServerProofs       its theorems
HistoryViews ── MCHistoryViews                what the readers make of the rows
      └──────── HistoryViewsProofs            its theorems
Suppression ── ReplayViewer ── MCReplayViewer the marker; pages and servers
                    └───────── ReplayViewerProofs
```

Interleavings are at the granularity the program has: one system call for
processes that share files, one turn of the event loop inside a process, one
message between two processes. Where several calls are one step, nothing that
another process does in between makes a difference to the properties: a check that
a file is there with the read that follows, the creation of a directory with the
file in it, the listing of all directories of a sweep.

**DaemonControl.** One process per CLI invocation and per daemon; one step per
file-system call or `kill -0` probe, because another process may run between
any two. `pc` is the position in `spawnDaemon`, `stopDaemon` or `cmdCrypto`;
`daemon[d]` is the position of daemon `d` in `cmdCapture`. `writeFileSync` is
two steps (`TruncatePid`, `WritePid`), since a reader can see the file empty,
and a write to a path that has been unlinked in between is lost (`detached`).
The faults of the environment (`FaultKind`) are chosen by the configuration
and bounded by `MaxFaults`. Timeouts have no clock: a waiter may give up at
any poll (`NoLivePid`), while the 120 s of a stop only run out on a daemon that
nothing is going to stop, or with the fault `slowDrain`. A stop whose request
cannot be written, and a SIGKILL that fails, are left out. `started[c]` is a
history variable: the daemons whose start was over when conversion `c` read
`daemon.pid`.

**SourceVad, AsrWorker.** `Push`, `Take`, `Flush` are the methods of
`SourceVad` on whole frames; whether a frame is speech is an input. The worker
reads one request after the other; a flush transcribes the open segments of
the sources it concerns in any order (a `HashMap` in the code) and is then
answered. A transcription may yield no text. Audio before the model is loaded
is dropped.

**AudioPipeline** EXTENDS AsrWorker with the daemon's side. A unit of audio is
half an ASR frame, so that a chunk may end in the middle of one. `Read` is what
`appendPcm` does for a unit: `ensureChunk`, the row with its first unit,
`feedAsr` through echo and replay suppression, rotation when the chunk is full.
`phase[s]` is the position of the promise behind `runner.done`: `resolving` the
device, `reading`, `late` (spawned after `stop()`), `draining` the finalize
queue, `flushing`, `exiting` (awaiting the process), `done`. `orch` is the
position in `orchestrator.stop()`. Rows, segments and `storeOpen` are the index
as far as audio is concerned.

**Transcript** is the abstract specification of the same index, with no streams
and no worker: chunks are added in order, rows only become final, a segment is
added to a chunk that is there, inside it and after the source's earlier ones,
and nothing changes after `Close`. `AudioPipeline!ImplementsTranscript` is the
refinement, by the identity on `rows`, `segments`, `storeOpen`.

**BlobSweep.** Every blob is a path whose contents are one of `Content`;
AES-GCM is a tag on it. The sweep is one file-system call per step, captures
interleave with it in the daemon (`OpenBlob`, `FillBlob` are the two halves of
`writeFile`), and a rename over an open file makes the writer's inode `stale`.
`List` is all of `walkFiles`: directories that cannot be listed are left out
without an error being counted. A call on a file that fails is `StepFails`, one on
the marker `EndFails`. Three history variables say what a capture may owe its state
to: `cut` (a sweep has replaced it while it was being written), `unlisted` (its
directory could not be listed) and `bared` (it became plaintext under the marker).

**IndexSwap.** `step` is the position in `cmdCrypto` or `makeOrchestrator`: look
for the key, `probe`, checkpoint, copy, rekey, remove the WAL, remove the index,
rename, open or save the flag; one SQLite or file-system call each. `main`,
`wal` and `tmp` are the files with the rows in them and the key they are under
(`NoKey` is plaintext); `committed` is what the daemon was told is stored.
`keychain`, `keyFile`, `reachable` are the two backends of
`CompositeSecretStore`; `made` keeps generated keys distinct. `happened` records
which kinds of faults there were, since two of them break a promise and the
properties say which. The configuration is edited only between two processes.

**CaptureStore** is the index as a daemon's queues share it: the schema version
and whether there are vector tables, the rows with a text, those with a vector,
whether it is open. An index of an earlier version, with segments nobody has
embedded, is an initial state.

**CaptureHelper, ScreenCapture.** hpm-sck and hpm-wlcap read one request at a
time and start the capture inside it (`helper = "starting"` for as long as the
person or the portal takes); `busStart` is the promise the bus has returned.
An image is a number, the moment of its delivery, and `fate` says how far it
has come: accepted, its blob written, its row inserted, or failed. The chain
of `processFrame` is that images are taken up one after the other. The backend
"x11" is the loop that takes screenshots itself, on X11 and on Windows.

**Embedding.** `loop` is the position of the polling loop, `batch` what
`drainKind` awaits. The engine's `pending` map is `asked`; an entry or a timer
is of the batch that is awaited or is left over from one that failed, because
`Promise.all` rejects with the first error and forgets the rest.

**Lifecycle** composes these: `orch` is the position in `cmdCapture`, `start()`
and `stop()`. The audio side is a source of segments here, since AudioPipeline
has its shutdown in detail.

**SemanticIndex** is the abstract specification of that pipeline: texts are
captured, screenshots until the first stage of the stop and segments until the
second, vectors are added for texts that are there, once each, until the third.
`Lifecycle!ImplementsIndex` is the refinement, with `captured` and `embedded`
the rows and the vectors, and the stage read off `orch`.

**McpAuth.** A token is a number in the order of creation, and its verifier the
same number. Each invocation of `setup` or `rotate` is a process, `admin[a]` its
position: look into the keychain, look into the file, write the keychain, write or
delete the file. A keychain may fail at every read and write, and the file may refuse
a write or a deletion. `newest` is a history variable, the token stored last; one
that goes to the file because the keychain refused it does not count while the
keychain holds another. Printing the token, at the end of an invocation, changes
nothing: of two invocations that overlap, the one that stored first may print last,
so that the token a user sees last need not be the one that counts. A write of the
file that fails leaves it as it was here (`writeFileSync` may leave it empty), and a
server looks into keychain and file in one step.

**McpServer.** A slot is one message of a call; its `reply` says how it was
answered: with a vector's help (`"answered"`), without (`"lexical"`), with the
vector of another search (`"crossed"`), or not at all because a signal closed its
HTTP connection (`"closed"`). Handlers run without a pause up to the query's vector.
Since every query has the id `'query'`, the engine's map has one `entry`, but there is
a timeout per search. Two history variables say which searches may be degraded:
`excused` (overlapped by another one, or refused, failed or kept waiting by hpm-embed)
may go without a vector, `mixed` (overlapped, or asked while hpm-embed still has the
query of a search that was given up) may get another one's.

**HistoryViews.** The actions are what capture does to the rows, the readers are
operators on them: `Selected` and `ActivityGroups` for `recent_activity`,
`FtsResults`, `VectorResults`, `Fused` and `Search` for `search`, `Screenshots`,
`AudioOf`, `BlobPosition` and `PlayLength` for a replay. A text is a constant
with a rank and a distance to the query, so the two rankings are arbitrary. An
`ORDER BY` or `sort` is the set of pairs of its order: `Ordered` lists what it puts
into order, `Best` is what a `LIMIT` keeps. Where the code leaves rows of equal
`at` or score as they come, the order says how that is: by the rowid, or against
it on the way back through the index on `at`. The two loops of
`buildActivityGroups` are functions of the number of rows they have placed.

**Suppression, ReplayViewer.** `marker` is the file, with the time that remains
to it, `cache` what the daemon remembers of it. An unlink is a step of its own
after the read that decided it. `page`, `player` and `server` are the state of
the page's script, of its `audioEngine` with the loads under way, and of the
server; `posts` are the requests under way, delivered in any order. `settled`
counts the seconds since anybody changed their mind, which is how long the
properties give the marker to follow.

## 3. Runs

| run (module) | instance | shows |
|---|---|---|
| `daemon_start` (MCDaemonControl) | 4 concurrent starts, symmetric, and a conversion; fresh or running; one spawn may fail | `StartLockExclusive`, `AtMostOneDaemon`, `StartersConverge`, `ConversionExcludesStarted`, and `PidFileFaithful`: no step takes a live daemon's name away |
| `daemon_stop` (MCDaemonControl) | a start and 2 stops, 3 faults of any kind, from fresh, running or stale (with or without the lock of a dead start); fair | `TypeOK`, `StopIsTrue`, `NeverForced`, `StopCompletes` |
| `capture_life` (MCLifecycle) | screen capture over SCK, Wayland or the loop; 3 images, one segment, a screenshot the model always fails on, one fault of any kind at any point, `kill -9` included; fair | `ChildrenStopped`, `ImplementsIndex`, `StopCompletes`, `ChildrenEnd`, `SegmentsUnblocked` |
| `audio_transcript` (AudioPipeline) | the microphone, chunks of 3.5 frames, 4.5 frames of audio, one replay, a worker that loads late, crashes or is too slow; fair | `TranscriptOrdered`, `SegmentsSkipReplay`, `RotationKeepsSpeech`, `FlushesAnswered`, `StopCompletes`, `TypeOK` |
| `audio_faults` (AudioPipeline) | microphone process with echoes and SCK system stream, every single fault at every point, from before the devices are resolved | `NothingLost`, `ImplementsTranscript` |
| `blob_sweep` (MCBlobSweep) | 2 blobs, a daemon that captures during its sweep, encrypt and decrypt commands, flag edits, 2 crashes, I/O errors or directories that cannot be listed; fair | `TypeOK`, `BlobsSurvive`, `MarkerIsTrue`, `MigratedOnStart`, `Resumes` |
| `blob_marker` (MCBlobSweep) | one `hpm encrypt --blobs`, one directory that cannot be listed | **violates** `EveryBlobMigrated` (section 4) |
| `index_swap` (MCIndexSwap) | 3 rows, 4 keys, both commands, flag edits, 3 faults of any kind | `HistoryKept`, `KeyKept`, `ForeignUntouched`, `ConversionDone`, `TypeOK` |
| `mcp_server` (MCMcpServer) | 2 calls, one of them possibly a batch of two, over stdio or HTTP; an encoder that is missing, loads, fails, dies or is slow; a setup and a rotation with and without a keychain; fair | `SearchIsSemantic`, `RequestsAnswered`, `NewestTokenStored` |
| `mcp_crossed` (MCMcpServer) | one batch of two searches over HTTP | **violates** `EncodesOwnQuery` (section 4) |
| `history_views` (MCHistoryViews) | every history of 3 rows: two windows and a desktop over 3 moments; three texts which the two rankings order differently, with and without filters | `ActivityCovers`, `PagesFollowRanking`, `ReplayInSync` |
| `replay_viewer` (MCReplayViewer) | one replay and a request that is lost; two replays side by side; one that loads two ranges that share an item | `SuppressionFollowsReplay`, `NoStraySound` |

`ImplementsTranscript` and `ImplementsIndex` are refinements: the abstract
specification is the property.

### Bounds, and why they are enough

* Starts, stops, conversions: the protocol compares pids and files only, so
  what matters is how many processes can be at different places at once. A
  duplicate daemon needs three starts (one that saw the stale pid, one that
  holds the lock, one that finds neither); four is more than any path needs.
  Starters are interchangeable, which is why symmetry is sound where no liveness
  is checked. A pid is not reused. In `daemon_stop` one start is enough to erase a
  request, to take a lock over and to give a stop another daemon to wait for.
* `MaxFaults = 1` in `daemon_start`, the capture and the audio runs: each fault
  alone, at each point. Faults combine in `daemon_stop` (3), in the index run (3) and
  in the blob run (2, a sweep that is interrupted, resumed and interrupted again).
* `capture_life`: three images and an `Interval` of two make one accepted, one
  throttled and one accepted again; a batch of two holds a good and a poisoned
  row; `MaxAsked = 1` lets a round begin while an unanswered request of a failed
  batch is still at the worker. `MaxUnread = 0` is a helper that sends its next
  image when the last was read: more unread ones only repeat.
* Audio: `ChunkUnits` is odd, so a chunk ends inside a frame; three frames fit
  into it, so that a replay can come and go inside a segment; 9 units are a full
  chunk, its rotation and a frame of the next. A source of one segment would
  not exercise order; `TargetSegment = 4` of two frames makes two segments in
  the first chunk possible. `MinSegment = 3` makes a single frame too short,
  which is what gets lost when a flush is missing.
* `audio_faults` has shorter audio (one chunk per source) and no replay: its
  subject is the order of the shutdown across two sources.
* Index: what is committed before, between and after two conversions is three
  rows; a key is made at most once per fault and once more, hence four. Rows and
  keys are interchangeable.
* Two blobs: one the sweep is at, and one it is done with or has not seen.
* `mcp_server`: what meets in the map is an entry and the one that replaces it;
  a batch of two and another call are three searches at once, one after the
  other or both. A setup that finds nothing goes on like a rotation, so that a setup
  and a rotation are two writers that overlap or follow each other.
* `history_views`: three rows are two of one group and one between them, or two
  pages of two and one. The 30 s, 60, 5, 50 and the length of a chunk are
  scaled down (`SessionGap`, `RrfK0`, `OverFetch`, `MinFetch`, `ChunkMs`), so
  that each is smaller than what there is to cut and to join. Window names of
  the first world are interchangeable.
* `replay_viewer` has the page's own times, a renewal every 3 s and 8 s to live,
  and a request takes at most a second. One lost renewal is made up for; two in
  a row would not be, and `TimesAssumption` says just that. Time passes in the
  settings that are about the marker and stands still in the one about sound,
  where every order is possible without it.

Deadlock is checked except where the system really stops: in `audio_faults`, a
stream whose `store.insert` threw waits for a process that nobody stops
(`capture/audio.ts:672`); in `capture_life` and `mcp_server` when the process
has ended; in `history_views` when the bound on the rows is reached; in
`replay_viewer` when pages and servers are gone.

### Fairness

* Daemon: weak fairness of every process. They are operating-system processes
  that run straight-line code between two steps; a waiter's loop polls forever.
* Audio: weak fairness of the daemon's event loop and its timers, and of the
  operating system ending a process that has been killed. **Nothing** is assumed
  of the worker: `StopCompletes` holds because the flush and shutdown timeouts
  and the worker's exit do. A source may stop delivering audio.
* `capture_life`: weak fairness of what the daemon and its helper do once
  (`OneTimeStep`: start, stop, each image), of the polling loop, of the worker's
  answers and of timeouts that are due. The worker does answer or end: a row it
  never answers is the fault `embedSlow`. **Nothing** is assumed of the portal or
  the person who has to agree to the capture, of the frames the system delivers,
  or of the download of the model.
* `mcp_server`: hpm-embed answers once it has its model, and timeouts fire. Clients,
  the model's loading, faults and the stop of the server are free.
* Blobs: the event loop goes on with a sweep that has begun. No fairness of
  captures, commands or restarts.
* `replay_viewer` needs none: its clock does not pass a renewal or a request
  that is due, which turns "in time" into a safety property.

## 4. What the runs say about the code

Two runs show the code at odds with a comment of its own:

* **A marker that is not true.** `walkFiles` returns when `readdir` fails
  (`store/blob_migrate.ts:40`), no error is counted, and the marker is written over
  plaintext blobs that no later start looks at; `blobsMigrated` is "True once a full
  sweep has completed (every plaintext blob encrypted)". (`blob_marker`)
* **Another query's vector.** All searches ask under the id `'query'`
  (`mcp/server.ts:239`), so that the answer to one resolves another that overlaps it,
  or that follows one which was given up; the late answer of that one shifts those of
  all that follow before the previous answer is there. `QueryEncoder` "Encodes a search
  query into an embedding, or undefined when semantic search is unavailable".
  (`mcp_crossed`, with an overlap)

Each of the following is behaviour of the code that a run avoids by its
configuration or a property excuses, and that TLC finds with the change named with
it. The first four contradict what the documentation says.

* **A second daemon.** A waiter in `spawnDaemon` that has probed a stale pid
  unlinks `daemon.pid` by path (`core/daemon.ts:87`) after the lock holder has
  written the new pid. The next start finds no daemon and spawns a second one,
  while the repository's README says of the lock (lines 264-265) that "concurrent
  invocations converge on one running daemon instead of spawning duplicates".
  (`daemon_start` with `InitialKinds = {"stale"}` and 3 starters;
  `AtMostOneDaemon`)
* **A stop that is erased.** A stop that arrives while the daemon boots is erased
  by the daemon's own `clearStopRequest` (`cli.ts:217`), waits 120 s and kills it
  undrained; `cli.ts:234` promises to stop "exactly once, whether triggered by a
  process signal or by the daemon stop sentinel written by `hpm stop`".
  (`daemon_stop` with `killed = {}` for `NeverForced`)
* **A stop that hangs.** A `stop()` while `startStream` still resolves its device
  finds no process to kill (`capture/audio.ts:622`); the process is spawned
  afterwards and `stop()` waits for it for ever. (`audio_transcript` with
  `Resolving = {mic}`, `MaxUnits = 0`; `StopCompletes`)
* **A blob that is lost.** The background sweep reads a blob that a capture has
  opened but not written, and renames the encryption of the empty file over it
  (`store/blob_migrate.ts:66`); "New captures are already written encrypted, so
  this only needs to catch up" (`core/orchestrator.ts:137`) does not hold in that
  instant. (`blob_sweep`; `BlobsSurvive` without `cut`)

Starting and stopping:

* `stopDaemon` unlinks `daemon.pid` by path (`core/daemon.ts:264`) and can take
  away the name of a daemon started while it waited. (`daemon_stop` with
  `Starters = {s1}`; `PidFileFaithful`)
* Two starters can both decide that a lock is stale, and the second breaks the
  lock the first has just taken (`core/daemon.ts:130`). (`daemon_start` with the
  fault `starterCrash`; `StartLockExclusive`)
* A conversion checks for a daemon once, and one whose start was not over then may
  come up during it (`cli.ts:467`). (`daemon_start`; `ConversionExcludesStarted` of
  all live daemons)

So `daemon_start` is about starts and conversions among themselves, and
`daemon_stop` is where starts, stops and faults mix.

A daemon's pipeline:

* A capture request that the person or the portal never answers makes `stop()`
  hang, since the screen runner awaits `frames.start()`; `hpm stop` then kills the
  daemon. (`StopCompletes` of Lifecycle without `helper = "starting"`)
* A helper or worker that dies is not started again before the next daemon, and
  hpm-wlcap is never stopped by the orchestrator: it ends by the end of its input.
* One text the model fails on rejects its whole batch each time it is drawn; a
  segment of that kind keeps every screenshot from being embedded, because the
  drain of segments throws first. (`capture_life` with a segment in `Poison`, and
  `SegmentsUnblocked` stated of screenshots.) The 60 s timer of a failed batch
  deletes the entry of the same row when it has been asked for again, so that its
  answer is ignored and its batch fails once more (`local.ts:133`).
* `start()` that fails half way stops nothing but the store; the rest ends with
  the process (`ChildrenEnd`).

Encryption at rest:

* The marker of a sweep stays when encryption is turned off in the
  configuration; what is captured then is plaintext under the marker, and is
  not looked at when encryption is turned on again. The same follows from an
  interrupted `decrypt`, which removes the marker last, and from an `encrypt`
  that dies between the sweep and `saveConfig`. (`blob_sweep`; `MarkerIsTrue` and
  `MigratedOnStart` without `bared`) So the two properties speak of the blobs that
  were plaintext before the marker, and no more.
* A conversion of the index is "copy -> rekey -> atomic replace"
  (`index_db.ts:129`, `170`), but the replacement is `rmFileWithRetry(path)` and
  then `renameSync(tmp, path)`. A process that dies between the two leaves no
  index, and the next daemon creates an empty one beside the copy, which the
  next conversion removes. (`index_swap` without the condition on `crashInSwap`
  in `HistoryKept`)
* `PRAGMA wal_checkpoint(TRUNCATE)` reports a blocking reader in a result row,
  which `run` discards; the conversion then copies without the WAL's rows and
  removes the WAL (`index_db.ts:180`). The same, with `busyReader`.
* A keychain read that fails counts as "no key" (`secret_store.ts:186`); if the
  write that follows succeeds, the key of an encrypted index is replaced
  (`db_key.ts:33`). The same, with `keychainUnreadable` and `KeyKept`.

MCP:

* Searches that overlap share one entry: an answer goes to the search that came
  last, the others wait for their 60 s and are answered lexically, and an earlier
  timeout deletes a later entry. (`SearchIsSemantic` without `Crowded`, or without
  `Following` for the late answers)
* A signal closes the connections of an HTTP server with searches under way
  (`server.stop(true)`, `mcp/server.ts:698`): these are never answered.
  (`RequestsAnswered` without `"closed"`)
* A running server keeps the verifier it has read first, so that a rotation
  elsewhere does not invalidate the old token there before its restart.
* A keychain that refuses a write while it still holds an older verifier makes
  the printed token useless: the new verifier is in the file, and the keychain is
  read first. (`NewestTokenStored` with `made[a]` for `Stored(a)`)
* The index key is read once at start (`mcp/server.ts:718`,
  `replay/server.ts:897`): after a later `hpm encrypt` each call of a server that
  runs on fails.

Search and replay:

* Rows of equal rank are cut by rowid and shown by time, so that they may repeat
  or vanish from page to page, and a fused ranking has no pages at all in this
  sense: each page fuses longer lists. Nearest neighbours are cut before the
  filter by application. (`PagesFollowRanking` of results instead of scores, of
  the hybrid mode, or of such a filter)
* A replay whose server has been closed, by Ctrl-C or because the machine slept,
  plays on in its page and is transcribed. Of two replays, one that ends may take
  the marker of the other away for up to a renewal. (`SuppressionFollowsReplay`
  without `server[v].up`, or with a shorter `Settling`)
* Two loads that overlap: the first answer may come last and replace the
  manifest, and what was scheduled of the other sounds on. (`NoStraySound` without
  `overlapped`)

## 5. Proofs

`DaemonControlProofs` proves, for any number of processes:

* `TypeCorrect`: `Spec => []TypeOK`, under the constants' assumption alone.
  `TypeOK` is not inductive: `ForceStop` indexes `daemon` with the pid the stopper
  has read, which is a daemon only because `StopRead` looked. `TypeInv` adds that.
* `LockExcludes`: `[]StartLockExclusive` as long as every start that breaks a lock
  breaks that of a dead one (`BreaksOnlyOrphans`), through starts that die with the
  lock or stall, locks that grow old and are broken by others, daemon crashes, stops
  and signals. So the unlink by path after the check of the age (`core/daemon.ts:130`)
  is the only way to lose the lock. `StartLockExclusive` alone is not inductive:
  `BreakLock` and `ReleaseLock` unlink by path. `OwnerInv` says that who holds the
  descriptor has the file on disk, and where each starter is when it holds it.
* `OneDaemon`: under `DaemonsSurvive` (no stopper, no fault but a failing spawn, no
  stale pid file), `[]AtMostOneDaemon`. `PidInv` says that every live daemon is
  named by `daemon.pid` or is being entered by the lock holder that spawned it.
* `StartsConverge`: under the same assumption, `[]StartersConverge`: every start
  that reports a pid reports the live daemon that `daemon.pid` names.
* `PidFileIsFaithful`: under the same assumption, no step takes the name of a live
  daemon out of `daemon.pid`.

* `StoppedIsDead`: `[]StopIsTrue`, with no hypothesis. `DeathInv` says that a pid
  that a file or a process knows is of a daemon that was spawned, so that "not
  alive" is "dead for good", and that a stop request which is there has a stopper
  that has still to clear it.
* `StopIsEnough`: `[]NeverForced`, with no hypothesis. `AloneInv` says what is so until
  a start has found no daemon (`Quiet`): the daemon that lives is named by
  `daemon.pid`, and while it runs, a stop that waits for it has its request on disk.
* `ConversionsAlone`: under `DaemonsSurvive`, `[]ConversionExcludesStarted`, for any
  number of starts and conversions. `CheckInv`: a conversion that goes on has seen no
  live pid, while `PidInv` has every daemon whose start is over in `daemon.pid`.

The assumptions are what the observations of section 4 show to be necessary:
with a stale pid file, a stop, or a starter that dies, `OneDaemon`,
`StartsConverge`, `PidFileIsFaithful` and `ConversionsAlone` fail.

`AudioPipelineProofs` proves every safety property of the audio runs, for any
sources, lengths, replays and faults. Its theorems are about `Spec`, which
`FairSpec` implies. The invariant is `SpeechInv`, and its core `OrderInv`: a source's
audio is a line, along which what is stored comes before what is on the worker's
stdout, that before the open segment, that before the frames on its stdin, and
these before what is read next (`Heard`).

* `StoredInOrder` (`TranscriptOrdered`) follows from `OrderInv` and `InsideInv` (each
  frame and segment lies in the chunk it names). `Fits` is what both ask of a
  segment that is open or about to be said, and the lemmas of the worker's steps
  show that `Push`, `Take` and a flush make only such.
* `RotationSafe` (`RotationKeepsSpeech`) needs `RotationInv`: between two frames of
  different chunks there is a flush of their source on stdin. `ReplaySkipped`
  (`SegmentsSkipReplay`) needs the same of a moment that was suppressed
  (`MutedInv`), since that flush is all that ends a segment which a replay
  interrupts.
* `FlushesKept` (`FlushesAnswered`): `AnswersInv`, a flush the daemon waits for is on
  stdin or its answer on stdout.
* `AllKept` (`NothingLost`): the order of `stop()` (`StopInv`: no source reads once
  the worker is asked to end, and the store is closed when there is nothing left to
  read of the worker or a timer has given it up) and `KnownInv` (whatever is under
  way has its chunk's row).
* `IndexAsPromised` (`ImplementsTranscript`): with these, every step is a step of
  `Transcript` or leaves the index as it was.

Assumed is what the modules state of their constants (`SourcesAssumption`,
`VadAssumption`, `PipelineAssumption`), among it that "no chunk" is no number.

`LifecycleProofs` proves `NoChildIsLeft` (`[]ChildrenStopped`) for every backend
and any number of images, segments, faults and poisoned texts. `ChildrenStopped`
speaks of one place of the stop; `ChildInv` carries it there. `HelperInv` says
that a helper is started at its place in `start()` and not before, that the bus
only forgets a process that has ended, and that it is ended from `BusStopped`
on; `WorkerInv` says the same of hpm-embed and `EngineStopped`. That an ended
child is not started again is what makes these facts last.

It also proves the refinement, `PipelineRunsDry`
(`FairSpec => ImplementsIndex`): a daemon's life implements `SemanticIndex` for every
backend, batch size and text the model fails on, and any number of images,
segments and faults. `PipelineInv` ties the places of the actors together:
`RunnerInv` (the screen runner holds images only between its start and its end, and
the stop does not go on before that end), `TranscriptionInv` (segments come only up
to `StopTranscription`), `LoopInv` (the embedding loop has a batch only while it
drains, and is over before the engine stops), `EngineInv` (whatever is registered or
timed for the awaited batch is a row of it that has no answer yet, so that nothing
can end a batch that is over) and `RowsInv` (a batch is of rows without a vector, and
no other step gives them one). On these, each step of `Next` is shown to be a step of
`SemanticIndex` or to leave it unchanged. That there are finitely many rows,
which `SetToSeq` needs to be a sequence of the batch, follows from `CaptureAssumption`.

`McpServerProofs` proves `NewestIsStored` (`[]NewestTokenStored`) for any number of
setups, rotations and calls, whatever keychain and file refuse. `KeyInv` adds where
the invocations are: one that is about to delete the file has left a verifier in the
keychain, so that the deletion takes nothing that counts, and one that goes to the
file without a refusal has no keychain. `ServerKeepsStores` shows that nothing a server
does touches either place. And it proves `SearchesAreSemantic` (`[]SearchIsSemantic`)
for any calls, batches of two and failures, from `SlotAssumption` and
`KindsAssumption`. The strengthening is `AloneInv`: a waiting search that is not
excused is the only one that waits, the entry is its own, hpm-embed runs and has its
query; one that is not mixed has the only query there is. `EntryInv` adds that entries
and timeouts are of searches that wait or whose connection is closed, which is what
the cleared timer of an answer is for, and `ClosedInv` that nobody waits beside a closed
one. A call can disturb this only by asking for vectors, and `Crowded` and `Following`
then mark whoever is concerned (`NotCrowded`, `CallKeepsSearchInv`).

`IndexSwapProofs` proves all five properties of IndexSwap (`TypeCorrect`,
`HistoryIsKept`, `KeyIsKept`, `ForeignIsUntouched`, `ConversionIsDone`), for any
rows, keys, commands and any number of faults, from the constants' assumption
alone. `SwapInv` says where a conversion is: it holds a key, the index is
under that key or plaintext, the copy is under its target key. On it rests
`ForeignIsUntouched`, since every step that changes the index is taken with the
right key. `RowsInv` adds that the copy holds every committed row from the copy
to the rename, which is why nothing is lost before or after the one step where
neither file is in place; `KeyInv` that every key in use, also the one a process
or a copy holds, is stored.

`BlobSweepProofs` proves all four safety properties of `blob_sweep`, for any blobs,
commands and number of faults, from the constants' assumption alone.

* `BlobsAreKept` (`[]BlobsSurvive`): `WholeInv` says that what a sweep holds is still what
  the file contains when it renames, or that it has read the file empty while a capture
  was writing it, and then the rename is the one that `cut` records.
* `MarkerTold` and `StartMigrates` (`[]MarkerIsTrue`, `[]MigratedOnStart`): `MarkerInv`
  follows the sweep. A plaintext blob is one that the sweep has still to see or holds, or
  it was left out of a listing or became plaintext under the marker (`Unvouched`), however
  captures, commands, failures, crashes and edits of the flag come between.

`ReplayViewerProofs` proves both safety properties of `replay_viewer`.

* `OnlyWhatIsShown` (`[]NoStraySound`), for any ranges, orders of answers and
  decodings. `Tuned` says that what waits to be decoded under the present
  generation is of the manifest the page has, which is why `scheduleItem` need not
  look at more than the generation; and that no more than one load is under way,
  unless loads have overlapped.
* `RenewedInTime` (`[]SuppressionFollowsReplay`), for any number of replays that share
  the marker, and any times with `(lost + 1) * Renew + MaxDelay < Ttl`
  (`TimesAssumption`), which the page's 8 s and 3 s satisfy for one lost request and
  a second of delay. The renewals of a page are counted backwards from its timer,
  and `Gone` are those of them that are not under way. `RenewedInv` bounds how long
  ago the last one arrived: as long as none has since the last change of mind, all
  that are gone were lost (`Undelivered`), and otherwise the marker is at least as
  young as that one, and all that are gone since were lost (`Held`); and `lost` says
  how many that can be. Another replay that ends may unlink the marker, but only
  soon after the change of mind (`UnlinkInv`, `Early`), and the next renewal that
  arrives puts it back. `ExpireInv` is the other half: when nobody wants the marker,
  what is on disk, under way or remembered runs out within `Ttl` and `MaxDelay`.

`HistoryViewsProofs` proves all three properties of HistoryViews, for any history,
windows, texts, ranks, distances and filters, from `HistoryAssumption` (the bounds
and scores are natural numbers, and a vector search fetches more than nothing).
They are about one state, so that the invariant is only what that state is like:
`HistoryInv` (rows have their types, end when they began or later and begin in the
past, a screenshot ends when it is taken, what has a vector is there). The work is
in what the operators compute, and rests on two ideas.

* *Places are counted.* The n-th of `Ordered` is the one with n - 1 others before
  it. That there is just one for each place (`EachPlace`) and that lists have
  everything once and in order (`OrderedLists`) follow from cardinalities alone
  (`FewerAhead`), and so does which score stands in a place (`ScoreInPlace`).
* *Loops are inductions over numbers.* The library's induction takes what is proved
  as an operator, which no installed prover can instantiate; `SetInduction` takes it
  as the set of the numbers it holds of, and is proved from the well-foundedness
  of `<` on the natural numbers. `WindowSteps` and `AudioSteps` show by it that the
  recursive functions of the two loops exist.

The theorems:

* `ReplayStaysInSync` (`[]ReplayInSync`): the screenshot before a range and those in
  it are one list by time (`ScreenshotList`), so that the last of them begun by a
  moment is the last one taken until then (`ShownIsLast`), and a chunk's place in
  the range and in its blob differ by the moment it began (`AudioInStep`).
* `PagesAreOfRanking` (`[]PagesFollowRanking`): the first n of each table are, of both
  tables together, enough for the first n places (`TopOfBoth`), and what is in a
  place is decided by how many have a score up to a value (`SameScores`); hence the
  pages of queries with growing limits are the pages of one ranking by score
  (`SamePages`). A fused list orders entries by a sum of fractions, then time, then
  the order of entry, which is an order since no two results enter at one place
  (`GreaterIsAnOrder`, `EntriesDiffer`), so that it has every result once.
* `ActivityIsCovered` (`[]ActivityCovers`): `GroupsOf` says that the groups have every
  row placed so far once and span what they have, and every step of the loops adds
  one row to that (`AddedToGroups`). That rows of one window are together
  (`Together`) is not inductive: a row goes into the *latest* group in reach, and an
  earlier group of the window might reach it too. `WindowInv` adds that groups of
  one window are more than `SessionGap` apart, in the order of their creation,
  which only holds because the rows come by time. `AudioInv` keeps it while the
  second loop adds audio, which may make a group longer.

Out of the prover's reach and only checked by TLC is liveness (`StopCompletes` in
three models, `ChildrenEnd`, `SegmentsUnblocked`, `RequestsAnswered`, `Resumes`).
Every other property of a run is a theorem.

## 6. Plan

The order is by what is lost when it goes wrong. Modelled and checked: daemon
control, the audio pipeline, blobs and the index at rest, the daemon's life with
screen capture and embedding, the MCP server and its tokens, the readers, replay
and its suppression. The safety properties of the runs are proved. To be proved
next:

1. Weaker hypotheses where a theorem has one: `NeverForced` also after a start that
   has ended before the first stop, `OneDaemon` with stops that have ended before the
   first start.
2. The types of the daemon's composition (CaptureHelper, ScreenCapture, Embedding)
   and the order in which screenshots are stored.

Modelling that is left: the tray's instance lock, the terminal UI's log position,
readers that hold an index open during a conversion.

## 7. Not modelled

* *For good*: formats and wording, the configuration file, FFI calls of the
  SQLCipher binding, ffmpeg device parsing, logging and events, packaging, the
  update check. They keep no state that the properties speak of.
* *Abstractions in what is modelled*: the Windows branch of `spawnDaemon` and log
  rotation; engine selection (`auto`, `noop`); the recogniser, OCR and audio
  decoding (inputs); temporary files of an interrupted sweep (never read again);
  the contents of ciphertext; the hash of a token; the framing of MCP messages
  and the arguments of its tools; `timeline` and `recall` (one query each); the
  byte ranges of a blob; which window a row gets, a free choice. Audio is
  counted in units, so that a read of an odd number of bytes, which loses half a
  sample (`capture/audio.ts:439`), does not happen; the silence hpm-wasapi writes
  into gaps is audio like any other.
* *Cut short by the readers*: `recent_activity` returns the latest groups only
  (`read_store/index.ts:409`), and a page so far on that `k` exceeds what sqlite-vec
  takes (4096) has no vector results; both come after what `ActivityCovers` and
  `PagesFollowRanking` speak of.
* *Left behind by a rekey*: the `-wal` and `-journal` of a temporary index whose rekey
  crashed half-way are not removed before the next copy (`store/index_db.ts:187`), and
  SQLite would read them with it; a rekey is one step in IndexSwap, which leaves none.
* *No property covers*: a daemon whose starter died between the spawn and the
  pid write, which no later command finds (`core/daemon.ts:241`), and a server
  that keeps the index key it has read (section 4).
* *Not yet*: the window tracker, the tray and the terminal UI.
