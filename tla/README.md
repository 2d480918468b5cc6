# Optsidian in TLA+

Optsidian searches Obsidian vaults. A command line and an MCP server talk over a
local socket to a background daemon, one per user and protocol. The daemon keeps
per vault a chain of published *editions* (a lexical index and, when an
embedding model is configured, a dense arm), watches the vault, answers
queries, and hands over to a newer daemon when one is installed. Most of what
can go wrong lies between processes and between awaits: two daemons share the
cache directory while one replaces the other, and inside a daemon builds take
minutes while files change and requests come in.

This directory models what is committed, what is acknowledged, who may commit,
who waits for what, and what is in memory or on disk when somebody relies on
it. Paths below are relative to the root of the TypeScript sources (`src/src`
in the repository checkout).

## 1. The system: components, state, operations

| Component | State | Operations | Interacts with | Hard behaviour | What makes it correct |
|---|---|---|---|---|---|
| **Edition ledger** (`daemon/search-store/publisher.ts`, `publication.ts`) | `publications/<n>.json`, one file per edition | commit (read token, read head, validate, link exclusively), history, sweep of incomplete files | journal, snapshot store, reclamation | two processes link at once; the token is lost inside a commit | append-only; one frontier names one corpus; a fresh dense arm belongs to its corpus |
| **Frontier journal** (`core/lifecycle/frontier-journal.ts`) | `frontier-journal.jsonl` and each publisher's copy of it | append, scan boundary, covered/ack/fail, replay | ledger, watcher | crash between two records; two appenders | a mark is forgotten only after an edition accounts for it |
| **Structural lane** (`VaultPublisher`, `core/lifecycle/level-reconciler.ts`) | intent queues, running attempt, waiters | enqueue, act, coalesce, retry on `not-head`, drain, stop, clear | ledger, builder, pools | clear or stop while a build runs; fold onto another daemon's edition | every intent settles exactly once; nothing runs after stop |
| **Exclusive claim** (`core/lifecycle/exclusive-claim.ts`, `process-token.ts`) | a directory with `owner.json` | acquire, reclaim dead or expired, rebind, release | spawn of daemons | reclaimers race; holder dies between mkdir and write | at most one holder; a dead holder does not block for ever |
| **Tenancy** (`daemon/owner-registry.ts`, `server.ts`, `client.ts`) | socket endpoint, owner record, pulse, supersession sentinel, breaker, reaped markers | ensureReady, spawn, bind, publish, heartbeat, drain, supersede, reap | clients, model loading | a wedged predecessor; claim expiry; owner poll against takeover; reused process ids | one bound daemon per endpoint; a superseded one goes away; the model is loaded once |
| **Calls** (`daemon/client.ts`, `transport.ts`) | connections, pending calls, retries | connect, request, cancel, time out, retry, drain | tenancy, server | a lost reply is sent again to another daemon | a call settles once, by the daemon it was meant for |
| **Requests, profiles** (`daemon/server.ts`, `profile-manager.ts`, `vault-registry.ts`, `scheduler.ts`) | runtimes, idle timer, remembered cancellations, vault states | admit, run, cancel, report, drain, close | calls, stores | requests share ids and connections; drain against creation | stores outlive their work; a vault at rest is shown at rest |
| **Snapshot store** (`daemon/search-store/snapshot-store.ts`) | loaded snapshots, pins, publisher leases, files | load, pin, refresh, compact, save, clear, sweep | publisher, builder, queries | pin against sweep; damaged files; an upgraded program | a pinned edition's files stay; a request is answered with the vault as it was |
| **Cache catalog** (`daemon/search-store/cache-catalog.ts`) | `store.json` per store, `catalog.json` | touch, repair, list, prune | snapshot store of every daemon | unlocked read-change-write by several daemons | only what is unused is pruned |
| **Index builder** (`daemon/search-store/builder.ts`, `pools.ts`) | scan, plan, contributions | scan, analyse, fold, publish, fall back to a full build | worker pool, snapshot store | files change between scan and analysis; long chains of bases | a build without edits is the full build of the vault |
| **Segment file** (`core/search/segments/canonical.ts`) | bytes | encode, decode, look up in place | builder, queries | truncation; an index that trusts offsets | decodes to what was encoded or is rejected |
| **Embedding set builder** (`daemon/search-store/snapshot-store.ts`) | work sets per lane, documents that wait | build, fold, requeue | save loop, encoder | a text changes while an older one is in flight | a dense set is of its corpus |
| **Profile manager, save watcher** (`daemon/profile-manager.ts`, `daemon/vector-store/watcher.ts`) | known hashes, pending marks, save queue, fold chain | watch, reconcile, flush, journal, drain, fold | publisher | an event arrives while a batch is flushed | every change of the vault is published in the end |
| **Query path** (`daemon/search-execution.ts`, `pools.ts`, `search-store/query-planner.ts`, `query-scheduler.ts`, `search-execution-state.ts`, `service.ts`) | sessions, leased slots, kept snapshots | plan, run, merge, time out, cancel, fall back, warm | snapshot store, workers, embedder | fairness between queries; a worker's snapshot against the planned one; edits between two reads of a request | each query is answered once, from one edition, and sharding does not show |
| **Embedding, model session** (`daemon/embed-scheduler.ts`, `model-session/`, `core/lifecycle/conditional-commit.ts`) | flights, device queue, resident model, attempts, idle timer | encode, join, load, install, unload, close | worker pool, query path | last waiter leaves while the model loads; close between two encodes | no batch runs on an unloaded model; none is resident without an owner |
| **Korean analyser** (`core/kiwi/manager.ts`, `daemon/pools.ts`) | handles with leases, worker warm-ups, labels | load, lease, evict, analyse | builder | a load for another directory; builds that share one value | a snapshot's label tells how it was analysed |
| **Worker pool** (`daemon/worker-pool.ts`) | slots, queue, restarts | enqueue, lease, cancel, restart, give up | embedder, builder, queries | a worker dies with a job; a late answer | each job settles once; vaults take turns |
| **Vector store** (`daemon/vector-store/pool.ts`) | generations, handles, leases | build, promote, lease, open, close, sweep | snapshot store | eviction against lease; two revisions in one directory | what is named or leased stays |
| **Artifacts** (`core/lifecycle/artifact-install.ts`, `core/kiwi/`, `daemon/vector-store/artifact.ts`) | staging namespaces, final directory, claim | stage, activate by rename, repair, sweep | loaders | crash between steps, two installers | the final name is complete or absent |
| **Download, update** (`net/github.ts`, `update/`) | temporary files, cache, manifest, executables | download, verify, copy, register | command line | redirect chains, truncated bodies, two updaters, crashes | what is installed was verified |
| **Vault files** (`core/edit.ts`, `apply-patch.ts`, `write-file.ts`, ...) | the vault | write, edit, patch, set fields | command line, MCP, the editor | one of several files fails; the editor saves in between | a dry run tells what the real one does; no note is lost on its way |
| **Plugin installation** (`cli/commands/plugin.ts`) | plugin directory, backup, list of plugins | stage, swap, enable | Obsidian | a swap fails half-way beside Obsidian | the plugin is of one source, its settings survive |
| **Settings, recent vaults** (`core/settings.ts`, `vault-access.ts`) | settings of the user and of a project; the record of last uses | read, change, write; rank | command line, daemons | two writers, a death in a write, damage | only an overlap loses a setting or a use; a get tells what was set |
| **Command line, MCP, native, tokenisation, inference** | none of their own | parse, format, launch, compute | daemon client | I/O | outside the models |

`PROJECT.json` lists the forty hazards the properties are aimed at, each at its
line; the ones beyond that number are in section 5.

## 2. The modules

Three groups. The *core* are the modules of publication, claim, lane and tenancy;
each has its own runs, and they abstract one another where they meet. The
*services and stores* are components that meet only through values the core
already has; each is a module of its own and TLC checks them in one sum
(`MC_Services`, section 3). The rest are abstract specifications, proofs and small
instances.

| Module | Models | Composes with |
|---|---|---|
| `EditionLedger` | the frontier journal as a value (`frontier-journal.ts`, `validateCorpusAdvance`); publishers, their journal copies, daemons with the owner record, commits one file operation at a time (`publisher.ts` 281-485 and the lane around it) | implements `PublicationLog` |
| `PublicationLog` | abstract: an append-only log whose corpus only moves forward | |
| `ExclusiveClaim` | the claim directory, one file operation at a time (`exclusive-claim.ts`, `process-token.ts`) | an atomic lock in `OwnerTenancy`, `SuccessorBreaker`, `ArtifactInstall` |
| `PublisherLane` | the structural lane and the level reconciler of one publisher (`publisher.ts` 487-1187, `level-reconciler.ts`) | implements `IntentDesk`; abstracts the ledger to its head |
| `IntentDesk` | abstract: accepted intents are answered once, in turn, in the end | |
| `OwnerTenancy` | the slot of a daemon: verdict, claim, boot, publication, supersession, drain, reaping (`client.ts`, `owner-registry.ts`, `server.ts`) | abstracts `ExclusiveClaim` to who holds it |
| `RuntimeDir` | owner records, socket files and process ids that outlive those they were for | the files below `OwnerTenancy` |
| `SuccessorBreaker` | the count of starts in the breaker file, under the successor claim | `client.ts` and `owner-registry.ts`, beside `OwnerTenancy` |
| `RpcCalls` | one client call over attempts, connections and daemons | the wire between `OwnerTenancy` and `RequestDesk` |
| `RequestDesk`, `VaultStates` | requests, cancellation, idle timer, drain and runtime of a daemon; what it says of a vault | |
| `SnapshotGc`, `StoreRefresh`, `Retrieve`, `EmbedQueue`, `CacheCatalog` | the snapshot store: files and pins against the sweep; answering or publishing anew over damage and upgrades; one request from pin to answer; the embedding set builder; last use and pruning | each takes the lane of `PublisherLane` as one job at a time |
| `IndexBuild`, `SegmentCodec` | a build of a snapshot beside edits; the file of a segment and its readers | a snapshot of `IndexBuild` is a value in the store's modules |
| `ShardedSearch`, `QueryScheduler`, `SearchState`, `WorkerPool` | one ranked search, sharded against unsharded; sessions sharing slots; the snapshots each process keeps; the pool below them | |
| `EmbedScheduler`, `ModelSession` | flights, device and lanes; the resident model and the attempts that load it | |
| `KiwiManager`, `AnalyzerPool` | leases of the Korean analyser in a thread; builds over a pool of such threads | |
| `VectorPool` | generations, handles and their reclamation | `SnapshotGc` is its lexical counterpart |
| `SaveWatcher`, `SaveQueue` | from an edit to a mark; from a batch of marks to an edition | `EditionLedger` has the journal they write to |
| `ArtifactInstall`, `Download`, `UpdateInstaller`, `PluginInstall` | what is brought to the disk in steps that can fail | |
| `SettingsFile`, `VaultAccess` | the settings of a user and a project; the record of the vaults used last | small files that are read, changed and written without a lock |
| `VaultFiles` | commands that change notes beside the editor; what they do to a text | |
| `EditionLedgerProofs`, `PublisherLaneProofs`, `ArtifactProofs`, `StoreProofs`, `ServiceProofs` | theorems (those of `MC_ExclusiveClaim`, `OwnerTenancy` and `SnapshotGc` are at their ends) | |
| `MC_...` | small instances for TLC | |

### EditionLedger

`mem[p]` is the in-memory journal of `VaultPublisher` p (`FrontierJournal`: the
operations with their states, the next sequence numbers), `disk` what replaying
the file would give; every append changes both. `editions` is the directory
`publications/`, `owner` the incarnation that the owner record names. The lane of
p is `phase[p]` and `job[p]`: it folds the head (`Fold`), builds
(`BuildSnapshot`, `BuildDense`, `BuildFails`), and commits in the order of
`EditionLedger.commit`: the head is read, compared with the expected one, the
writer token compared with the record (`CheckFence`), the candidate validated and linked exclusively
(`CommitAdvance`, `CommitSameFrontier`, `CommitRejected`), acknowledgements are
appended one at a time (`Ack`, `CommitThrows`). Between any two of these, other
publishers, other daemons, crashes and takeovers act. A corpus is a function from
documents to file states; what a build scans is any corpus, because the vault is
edited by other programs at any time. `MarkDirty` journals a mark with the state
the file had when it was read, `RequestSave` is a save of all unsaved marks,
`MarkFailed` the failure record of a failed save.

### ExclusiveClaim

`dir` is the claim directory: does it exist, which acquire created it, what
`owner.json` says, which temporary files are in it, is it older than the time to
live. `pc[p]` says where a process stands between two file operations of
`acquire`, `rebindToken` and `release`. `Spawn` hands the claim to a child by
its claim id, as `spawnOwner` does; the parent goes on. `ReusePid` makes the pid
of a dead process run again.

### PublisherLane and IntentDesk

`queue` is `structuralIntentQueue`, `folded` and `group` the batch and the build
group that are worked on, `buffered` the debounced marks, `answer[i]` the promise
of an envelope. `Caller` gathers enqueue, debounce, flush, drain, stop; the actions
in `Loop` are the turns of `runLoop` between two awaits. A build answers or
throws at will (`BuildReady`, `BuildDrops`, `BuildThrows`); the commit compares
the head with the expected one, retries up to `MaxRetries` and re-evaluates the
group against the new head (`Remaining`, `Filtered`). `SiblingCommit` is a
publisher that overlaps with this one, `Supersede` the takeover of the owner
record.

### OwnerTenancy, SuccessorBreaker, RuntimeDir

In `OwnerTenancy` a member of `Daemon` is one incarnation together with the pass of `ensureReady`
that spawns it, or one that is started by hand (`StandAlone`); `life[d]` runs from
the first look of the client over the stages of `SearchDaemon.start` to the stages of
`drain` and death. Each stage ends where other processes can act: `Look` reads the
record, the pulse and the startup grace, which decide what a missing answer will
mean (`patient`, `doubtful`), and `Judge` is the answer to the Heartbeat; `Acquire` takes the claim and
`Admit` checks the need for a successor under it; `Recheck` asks a wedged predecessor
once more before `PreSignal` signals it; `WritePulse` and `Publish` are the two files
of `writeOwnerAndPulse`; `Relinquish` and `RemoveOwner`, and the two steps of
`Withdraw`, keep the read and the removal of `removeOwnerFile` apart. A boot can be
refused or fail at each stage (`BootFails`), also after its publication
(`ServeFails`): then it takes back its record and its claim, if they are its own.

The owner record, the pulse file, the sentinel and the reaped markers are variables that every daemon
reads and writes. Time is abstracted to events: a pulse gets older than the
staleness window (`PulseAges`, never for a daemon that serves and whose event
loop runs), the startup grace of the record ends (`GraceEnds`), a claim reaches its time to live
(`Takes`, only for a holder whose start identity is not authoritative), a wait for
proof ends (`ToTermination`, `Kill`).

`SuccessorBreaker` has a clock: `file` is the breaker file, `Charge` the attempt a
client writes before it starts a process, `Publish` the removal by the daemon.
`RuntimeDir` has the files as files: `record` per slot, `socket` per path with who
bound it, `proc` per process id. Probing a path and unlinking it are two steps
(`SweepProbe`, `SweepRemove`, `ClearStale`), as are reading and removing a record.
What the code cannot help is recorded in `past` and named in the property:
somebody *lost* a record in those two steps, a socket was bound *over* another one
at the fixed path, a probe *raced* with a bind.

### RpcCalls, RequestDesk, VaultStates

`RpcCalls`: `att[<<c, n>>]` is the n-th attempt of call c with its connection and
its request at the daemon; frames arrive in one or two pieces, a daemon drains or
crashes at any time, the caller or its time limit may go first.
`RequestDesk`: `req[r]` is where a request is, `told` the requests whose work was
asked to stop, `remembered` the cancelled ids, `step` the step of the drain; each
action is a turn of the event loop. `VaultStates`: builds are shared by requests
and left behind at deadlines, and go on reporting.

### SnapshotGc, StoreRefresh, Retrieve, EmbedQueue, CacheCatalog

`SnapshotGc` has the files and their readers at each await: `lane` writes a build
step by step, `sweep` examines a file and has it unlinked by a thread afterwards;
`raced` names the files whose use and examination overlapped. `StoreRefresh` has
what is on disk with its damage, what is in memory, the build of the program
(`impl`) and the head; its actions are the entry points `pin`, `compact`,
`refresh`, `rebuild`, `warm`, `clear` and the turns of the lane. `Retrieve` is one
search or retrieve request, from the choice of its snapshot to what it gives back;
between its awaits `Edit`, `DenseEdition` and `Sweep` move the vault on. Which notes
are best is left open (`Best`), what may be found at all is not (`Found`).
`EmbedQueue` has the work sets of `createWorkerEmbeddingSetBuilder` (one per lane of
a profile), the documents that wait, and the save loop of `profile-manager.ts` that
folds into them. `CacheCatalog` has a clock in half days, both files of the
catalog and the memory of touches of each process.

### IndexBuild, SegmentCodec, ShardedSearch, QueryScheduler, SearchState, WorkerPool

`IndexBuild` scans, plans on a base (`ScanUpon`), reads every file again to analyse
it (`Parse`) while it is edited, and folds (`Finish`) or fails and starts over in full
(`Again`). `SegmentCodec` has a file as cells: `Encode`, the checking decoder and
the readers in place, with files that were cut, grown or changed in one cell.
`ShardedSearch` computes the plan, each shard's ranking and the merge, with the
unsharded execution as the reference `Whole`. `QueryScheduler` has sessions in
their order, `slot` with the job that runs, and the drain that follows each
message. `SearchState` keeps what each process keeps: snapshots and bounds, oldest
first; a task is answered from there or from a load. `WorkerPool` has the slots
with their timers and the queue; every handler is one action.

### EmbedScheduler, ModelSession, KiwiManager, AnalyzerPool, VectorPool

`flight` are the encodes under way that queries share, `dev` the device with its
lanes, `stage` the steps of closing. `ModelSession` has the attempts of
`conditional-commit.ts` with their waiters (`attempt`), the pointer that decides who
may install (`owner`), what is open in memory (`open`) and the idle timer.
`KiwiManager` has the same questions for the analyser of a thread, with leases;
`AnalyzerPool` the one value that all builds of a pool compare with (`shared`).
`VectorPool` has generations and directories apart, because two revisions of one
corpus share a directory. What a directory holds is a record (`there`, `db`, `meta`):
a build renames its vectors into place and stores the metadata after them, a request
pins a generation by its metadata alone and looks for the vectors only when it has to
open them, and the removal of a root takes one entry after another while builds and
requests go on.

### SaveWatcher, SaveQueue

`SaveWatcher`: `events` are notifications on their way, `scan` how far a
reconciliation is; a folder that appears after its parent was listed and before
its watcher is open is in `late`. `SaveQueue`: `marks`, `seqs`, `chain`, `folds` and
`drain` are the fields of the profile's save state; `early` are batches whose marks
the drain took before they were journaled.

### ArtifactInstall, Download, UpdateInstaller, PluginInstall, VaultFiles

Each has one action per file operation that another process, or a crash, can come
after. `Download` has the chain of redirects with its temporary files and the hosts
that were sent the token. `UpdateInstaller` has the check and the install, step by step in the
order of each (a check asks for the release before it reads the manifest, an install after
it), with three kinds of bytes: genuine, altered, which still report their version, and broken,
which cannot be run. `PluginInstall` and `VaultFiles` have the other program,
Obsidian, saving in between. The roll-back of a plugin install is four actions, one per call of
the `catch` block (`Fail`, `Unstage`, `RemoveNew`, `Restore`): the new files go one by one, seen by
Obsidian and by another install, and a call that fails, like a kill, is `Crash`: the calls behind it
are not made. Operators of `VaultFiles` say what the chunks of a patch do to a
text (`ApplyChunks`) and, apart from it, what they should do (`ChunksDoAsTheySay`).

### SettingsFile, VaultAccess

In `SettingsFile`, `file` is `settings.json` as the settings it holds, its length in
settings, and whether it parses; `Empty` and `WriteText` are the two halves of
`writeFileSync`, so that two commands can write over each other and a death leaves it
empty. `op[c]` is a command with its copy; `wanted` is what the commands would have made
of the settings had none overlapped, and `excused` the keys that one has set back.
`Accepts` has one table for each kind of value in place of the normalisers; values of
one key have one length. In `VaultAccess`, `file` is the set of entries (their order is
computed at every reading), replaced in one step by a rename; `AgeOf` differs between
processes because it is read from their environment. `Ranked` is what a daemon that
starts would read: it orders the eviction of snapshots in `SnapshotGc`.

## 3. What the runs check

Bounds are named constants and appear in guards only. In every run a daemon may
crash, drain or be superseded and simply stop, and the bounded behaviours end,
so deadlock is not checked; what must go on is stated as a liveness property.

A run often joins instances: the initial state chooses a *scene* or *part* in a
variable that never changes, and a property speaks of the scenes it names. A
behaviour of the sum is a behaviour of one part.

| Run | Instance | Shows |
|---|---|---|
| `publication` | `saves`, `dense saves`: two daemons after one another, one publisher each, 2 operations, 2 frontiers, 2 editions, failing saves among refreshes or dense builds. `takeover`: the two overlap; no marks; refresh and dense requests | `AckedCovered`: a mark is acknowledged only when an edition accounts for it; `PublishedCovered`: a caller is told "published" only then; `BoundaryMonotone` (these three are about publishers that follow one another; the takeover has no marks). `PublishesInOrder`: the ledger implements `PublicationLog`; `FrontierDecidesCorpus`: two editions of one frontier carry one corpus |
| `drain_loses_marks` | one daemon, a released publisher that drains beside its successor | violation of `AckedCovered` |
| `late_commit` | two daemons | violation of `NoCommitAfterTakeover` |
| `claim_platforms` | three processes, one of them spawned. Trusted platform: 4 acquires, 2 deaths, authoritative start times, nobody stalls past the time to live. Hostile one (`hostile`): stalls, reused process ids, no start times, one death already | `HolderIsRecorded` and `ExclusiveAmongLiving` until the first death; `RebindTakesOwn` on both: deaths and reclaims fall between the compare and the rename, which still lands in the directory that was compared; `DeadYieldsAnywhere`: on the hostile platform the dead do not block for ever |
| `claim_two_reclaimers`, `claim_abandoned` | three processes, one death | violations of `AtMostOneHolder` and `AbandonedYields` |
| `lane_scenes` | `pair`: two intents (lexical, dense, forced dense) with two commits of a sibling; `three`: two lexical ones and a dense one with one commit; `callers`: a lexical intent, debounced marks, a clear, drain and stop in every order | `PublishedIsCovered`: an answer that reports a publication is covered by the head; `IsDesk`: the lane implements `IntentDesk`; `QuietAfterClear`, `DrainKeepsWord`, `CallsEnd` |
| `tenancy` | a daemon b1 of another binary serves; two clients of one binary and their daemons a1 (no authoritative start time) and a2; one mishap (crash, stall, shutdown, a failure of a boot, or a claim that reaches its time to live) | `HealthyKept`: while no claim was reclaimed from a live successor, nobody takes the slot from a daemon of its binary that serves and never blocked, whoever overwrote its pulse; `ModelAfterTeardown`: no successor has its model in memory beside that of the predecessor it has seen torn down; `WedgedIsReaped`: a successor that runs on gets its proof |
| `tenancy_replaced` | the same with one client | violation of `ReplacedIsReaped` |
| `services` | the forty-four parts below | the nineteen promises below |
| `stale_vectors` | `shared folds`: two vaults of a profile with a document id in common | violation of `SharedSetIsOfItsCorpus` |
| `root_removed` | `vectors` | violation of `InFlightSurvives` |

### The sum `services`

Each line is one property of the run; the definitions it joins are stated and
explained in the modules.

| Property | Parts and their instances | Promise |
|---|---|---|
| `WorkersServe` | `pool`: 2 slots, 3 calls of 2 vaults, a queue of 2, 2 faults | no call is lost, doubled or left with a worker (`EveryCallHasOnePlace`); vaults take turns (`VaultTakesTurn`) |
| `EncodesServe` | `queries`: 3 queries of one text; `encodes`: a query and 2 save builds | no waiter is forgotten with its flight, one encode per text, closing waits for open scopes |
| `ModelIsOwned` | `shared loads`: 2 callers; `own loads`: one that changes its device policy | no model in memory without an owner; one at rest is timed |
| `QueriesShareSlots` | `fair queries`: 3 on 2 slots; `wide queries`: 2 on 3; a time budget, 2 faults | whole answers, each unit once; seen idle slots are used; no second slot before everybody has one |
| `SearchIsWhole` | `searches`: 3 documents, 2 segments, 2 channels, 2 fields, links, dense agreement; `warm snapshots`: 3 editions, 2 workers, room for one | shards answer what the unsharded search answers, exact titles first, base ranks are a ranking; a task is answered from the snapshot it was planned for |
| `RetrievalIsSound` | `retrieves`: 3 notes, 2 path filters, room for one match, 2 events during a request; `tagged retrieves`: a tag filter as well, 1 event | no match scored with the vector of another content, nothing held at the end, text falls back to words |
| `SegmentsAreRead` | `segment files`: 3 segments; cut, grown or changed in one cell | decodes to what was encoded or is rejected; lookups in the bytes find what is there |
| `BuildIsTheVault` | `builds`: 3 files in 2 partitions, chains of bases, damaged segments, edits | segments and statistics are of their documents; a quiet build is the full build |
| `SnapshotsSurvive` | `gc`, `pins`: 2 snapshots that share a segment, a budget of one | only a race on one file's use and examination loses it; pinned snapshots stay |
| `StoreAnswers` | `refreshes`, `rivals`: 1-2 requests, edits, a damage, a restart as another build of the program; `one cache`, `two caches`: 2 processes, 1-2 stores; `recent vaults`: 3 vaults, room for 2; `faulty vaults`: 2, room for 1, one fault | a request is answered with the vault as it was during it and fails only by what was lost; publishing repairs; only the unused is pruned; the vaults used last are found in their order |
| `DenseSetIsSound` | `folds`: one vault, 3 edits; `shared folds`: two vaults | every document once with its last text; a lane has a work set exactly while it builds; the set at rest is of its corpus (one vault) |
| `VectorsSurvive` | `vectors`, `shared vectors`: 3 generations, 2 of them of one directory; one reader and 2 events, or 2 readers and one | what an edition names or a reader uses stays on disk; leased handles are open |
| `AnalysisIsTrue` | `kiwi`: 2 callers, 2 directories; `lone builds`, `rival builds`: 1-2 vaults and workers | no analyser in use is disposed of, none lost, idle ones are timed; labels tell the truth unless another build ran |
| `EditsAreSaved` | `watching`: a note in the root and in a folder, 3 edits; `saves`: 3 batches, 2 faults; `note texts`: every text of up to 3 lines; `note files`: 2 commands on 2 notes, one save of the editor; `settings`: 2 processes, 3 commands, 1 hand edit or death | no edit unnoticed; nothing left in between at rest; patches do what they say, a dry run ends as the real one would, no note is lost on its way; only an overlap loses a setting |
| `DownloadIsSafe` | `download`: 2 hosts, 5 redirects, bodies under, at and over the limit; `plugins`, `lone plugin`: 2 commands beside Obsidian and 1 trouble, or one command and 3 | whole within the limit or not at all, the token stays at its host; the plugin is of one source, its settings and the list survive |
| `UpdateIsTrue` | `update`: 2 updaters without attestation, 2 releases, one agent, 1 fault; `lone update`: one updater, three modes of verification, any agents, 2 faults | what is installed was verified; success is true |
| `ArtifactIsKept` | `installs`: 3 threads of 2 processes; `bad installs`, `bindings`: 2 processes, 2 events | loads fail only by a fault they met; only a forced install removes a good artifact |
| `RegistryIsSound` | `churn`: 2 clients, 3 claims, a clock of 4; `upgrades`: 2 daemons, 2 ids; `shared paths`: 3 daemons at 2 kinds of path | starts are bounded in every window, whoever dies; files and ids are lost in named moments only |
| `RequestsAreSound` | `requests`: 4 requests on 3 connections, 2 share an id; `calls`, `own calls`: one call, 3 incarnations, 2 tries; `status`: 3 requests of a vault | stores outlive work, the idle timer runs exactly at rest, cancellation by one's own; a call settles once, by whom it was meant for; a vault at rest is shown at rest |

### Why these bounds

Two publishers are enough for every conflict of a commit: it
compares one head, one owner record and one link. Two frontiers give a repeated,
an older and a newer one; two operations give one that is covered beside one that
is not, and one file state besides absence tells a mark that fits a corpus from
one that does not. Every documented race of the claim takes at most three parties:
a holder and two that decide on what they read. In the lane two lexical intents
are a group with a representative, a dense one between them is a barrier. In the
tenancy a wedged owner, a successor and a second client are three daemons; the
one of the other binary makes both verdicts of the client reachable. One mishap
per behaviour leads to every action and to every verdict. The instance starts
with b1 serving, the state it reaches when it finds the slot empty; a1 and a2
still start cold when b1 shuts down or crashes.

In the services a race takes two parties and one shared thing, so most parts have
two actors, one resource fewer than actors, and a fault or two: a second fault
meets the handling of the first. Where two actors and two faults are too many states
(`plugins`, `update`, `vectors`), one part has two actors and one fault, and another
one actor and more faults. Where a position counts (slots, sessions, units,
partitions) there are three, so that one is neither first nor last. The limits
(`Limit`, `CountCap`, `MaxQueueSize`, `Retention`) are one below what the actors
want at once, so that eviction and refusal happen. Some numbers of the code are
smaller here: a day of the cache catalog is two ticks, the churn budget is one
failure, a process keeps one snapshot instead of two. No property depends on their
size. Every action of every module fires in some run.

`publication` explores only states in which `d1` is not behind `d2` in
starting (`CONSTRAINT FirstDaemonFirst`): a daemon never becomes "new" again, the
two differ only in their names, and every behaviour in which `d2` starts first is
such a behaviour with the names exchanged. The run checks safety only.

### Fairness

- `ExclusiveClaim`: weak fairness of each process inside a call (a live process
  runs on) and of `Age` (time passes). Nobody has to acquire or release.
- `PublisherLane`: weak fairness of the loop of the reconciler and of the two
  calls that await it, `drain` and `stop`: the event loop runs on and each build
  attempt has a deadline. Callers need not call; siblings need not commit.
- `OwnerTenancy`: weak fairness of the background reaping of each daemon. No
  fairness for clients, for the resumption of a stalled daemon, for a drain, or
  for the reaction to SIGTERM.
- The services state none. What could be left for ever is stated as a condition on
  rest instead: when nothing is under way, nobody waits, no timer is missing and
  nothing is unpublished (`NobodyLeftBehind`, `SeenSlotsAreUsed`, `IdleIsTimed`,
  `RestIsTimed`, `SavesAreSettled`, `EditsAreSeen`). That those resting states are
  reached is up to timers and other processes.

### Where the code and its documentation disagree

Each has a run whose property TLC violates; `PROJECT.json` quotes the line.

- `drain_loses_marks`: two publishers of one daemon append to one journal from
  their own counters; the acknowledgement of one forgets the mark of the other.
- `late_commit`: the owner record may change between the fence check and the
  link of an edition.
- `claim_two_reclaimers`: reclaiming decides on an owner it read before; two
  reclaimers of one dead holder can both come to hold the claim.
- `claim_abandoned`: a child that dies before it rebinds leaves a claim that names
  its living parent.
- `tenancy_replaced`: the identity check of an upgrade within one slot reads the
  record that the successor has overwritten itself; it gives up before SIGTERM and
  its model-load barrier rejects for ever.
- `stale_vectors`: the work sets of the embedding builder are keyed by document id,
  which two vaults of a profile can share; a dense edition is committed as fresh
  with the text of another vault.
- `root_removed`: the sweep of vector generations removes the root of an embedding
  set without asking for the reservation of the build that stages in it.

### Exceptions that the properties name

Where the code is known to lose and says nothing else, the property names the
moment in a history variable, so that it cannot hide anything more:

- `AnalysisIsTrue`: two builds at once can publish a mixed snapshot labelled "ko"
  (`raced`). This is what can go wrong at `pools.ts:262` itself: the property says that
  it stays with builds that overlapped another, and catches mixes in all the others.
- `RegistryIsSound`: `lost`, `over`, `raced` (section 2). A foreign process that took
  the pid of a predecessor before it was looked up is hit by the signal
  (`owner-registry.ts:793`).
- `RequestsAreSound`: a build left behind at its deadline reports late and puts its
  vault back to "updating" until the next request ends (`late`).
- `SnapshotsSurvive`: a file that a build took as stored while the sweep had
  examined it (`raced`).
- `EditsAreSaved`: the folders in `late`, the batches in `early`; of the settings, the
  keys a command wrote back as it had read them (`excused`), and a file torn by a death
  in a write or by two writes at once (`mishap`).
- `StoreAnswers`: a use by another process at the time of the pruning, a damaged
  `store.json` with a stale catalog, an old record written back (`hurt`); of the recent
  vaults, those that an overlapping recording or damage took (`excused`).
- `SearchIsWhole`: a command that warms all workers while one dies (`disturbed`).
- `DownloadIsSafe`, plugins: `half` (a partly removed backup is put back), `cut` (the
  removal of the new files at `plugin.ts:357` failed or was killed half-way, so that the
  restore at line 358 is never made and some of the new files stay, or another install took the directory
  meanwhile), `gone` (died or failed with the plugin aside), `late` (settings saved after they were
  copied, or while the new files were removed), `two` (two installs at once), `overwritten`, `torn` (the list of enabled
  plugins is read before the install and written in place after it), `unreported`. `PluginIsWhole` says
  nothing while a command is at that removal (step `clear`): the swap is atomic, the
  roll-back is not, and Obsidian can load a plugin of which half is gone.

## 4. What is proved

`EditionLedgerProofs`, for every set of daemons, publishers, documents and contents
and for every bound, from the assumptions stated with the constants of
`EditionLedger`:

- `TypeCorrect`: `Spec => []TypeOK`
- `FrontierCorrect`: `Spec => []FrontierDecidesCorpus`
- `LedgerImplementsLog`: `Spec => PublishesInOrder`, every step of the detailed
  commit is a publication of the abstract log or leaves it alone

They share one inductive invariant, `Inv == TypeOK /\ LanesFollowLedger /\
FrontierDecidesCorpus`. `FrontierDecidesCorpus` alone is not inductive: a commit
validates its candidate against the head it has read, and a dense arm travels
with a lane for a long time before it is published. `LanesFollowLedger` says that
what a lane remembers of the ledger is a prefix of it (editions are only appended,
so an exclusive link of number n + 1 succeeds only if n is still the last one and
is the edition that was validated against), and that a fresh dense arm on its way
was embedded from the corpus it will be published with. `TypeStep`, `LaneStep` and `FrontierStep` prove the three
parts, one step per action; `LinkPublishes` and `StepPublishes` map each step to the
abstract log.

The second part of `EditionLedgerProofs`, for every value of the constants with `~Overlap`, that is
when a publisher opens only when no other one lives (daemons may still crash, be
superseded and lose their record at any moment):

- `NothingForgotten`: `Spec => []AckedCovered`
- `ToldIsPublished`: `Spec => []PublishedCovered`
- `BoundariesGrow`: `Spec => []BoundaryMonotone`

`drain_loses_marks` shows that the assumption is needed. The invariant `AloneInv` adds
to `Inv`: the copy of the publisher that lives is the journal, and the others are at
rest (`Alone`); every number in use, in marks, editions and answers, is below the next
one of the journal (`Numbered`), which a restart must not undo; a lexical intent is
ahead of every edition in frontier and not behind any in boundary, and a dense one
stays at those of its base (`OnWay`), so `PublishesKind` can tell that what advances
the frontier is lexical and what repeats it is dense; acknowledgements that are due
are accounted for (`DueCovered`), as is everything below the boundary of an edition
(`BoundaryCovered`). The last one needs `AckedCovered`: a commit validates only marks
that are not acknowledged yet. The journal itself goes through four operators, each
of which continues it (`Continues`), and a mark that is accounted for stays so in all
that follows (`AccountedStep`).

Its third part is about `Retrieve`, for any notes, links, filters, limit above 0 and
number of events during the request:

- `RetrievalStaysSound`: `Spec => [](NoStaleVectors /\ HoldsWhatItUses /\ TextFallsBack)`

`ReadInv` says of each stage exactly what the request holds (`Holds`), and that the
generation it holds is on disk, which is what the pin of `Retain` is for: it is
taken while the generation is known to be there, and the sweep spares it. Every end goes through `RequestEnds`, which needs
that nothing but the attached generation is held by then: `retained`, where a generation is
pinned and not yet attached, has ends of its own. An answer fits (`AnswerFits`) because dense hits pass
through `Contributes`, and the best of something is something (`BestIsSome`).

`PublisherLaneProofs`, for any set of intents of any kinds, any calls of drain and stop,
any retry cap and any number of commits of other publishers:

- `LaneTypes`: `Spec => []TypeOK`
- `LaneDrains`: `Spec => []DrainKeepsWord`
- `LanePublishes`: `Spec => PublishedIsCovered`
- `LaneIsQuiet`: `Spec => QuietAfterClear`
- `LaneIsDesk`: `Spec => Desk!Init /\ [][Desk!Next]_(Desk!vars)`, the safety part of
  `IsDesk`

The invariant is `Inv == TypeOK /\ Held /\ Buffered /\ Stages /\ Woken /\ Awaited /\
Boundaries` (theorem `LaneInvariant`). `Held` is the centre: what is accepted and not
answered is what the group, the batch and the queue hold in a row, each once. It
depends on `Buffered` (the debounced intent has not been enqueued) and on `Stages`
(what the loop has in hand where it stands; a group is never empty and of one lane, and
nothing is built once a clear has begun). Each step is shown to do one of four things to
that row (`EachDeskStep`): accept an intent at its end, turn one away, leave out those
that are answered (`Leaves`), or nothing; `Held` and the refinement of `IntentDesk`
both follow from this. `DrainKeepsWord` needs `Woken`: a reconciler that is idle has
seen all that is queued. `PublishedIsCovered` needs `Boundaries`: scan boundaries grow
along the queue, so the last intent of a group covers the others, and the head that the
lane remembers is not ahead of the ledger's. Filtering a group is `Without`, which
numbers the members that stay by their rank; the facts about it (`WithoutIs`) come from
cardinalities, without an induction.

`MC_ExclusiveClaim`, second part, for any number of processes, acquires and deaths; the last two
from `Authoritative` and `~MayStall`, the first two on every platform:

- `ClaimTypes`: `Spec => []TypeOK`
- `RebindIsOwn`: `TrustedSpec => RebindTakesOwn` (`TrustedSpec` is `Spec` with the history
  of compares; the platform is whatever the constants say)
- `ClaimKept`: `Spec => []HolderIsRecorded`
- `ClaimExclusive`: `Spec => []ExclusiveAmongLiving`

The invariant `Inv` says that at most one process *stands for* the directory (has
created it, holds it, is removing its own, or is the child it was handed to), that
what such a process knows of the directory is so, and that the recorded owner is
alive, so that no reclaim begins. It is inductive as long as nobody dies
(`StepInv`); `Until` carries it past the first death, after which nothing is
claimed. `RebindIsOwn` needs no more than `StagedWhereCompared`: a file staged by a child that has
compared is in the directory it compared, since directories are created without staged files.

`OwnerTenancy`, second part, for any number of daemons and mishaps, from a cold start (the
run `tenancy` starts with a daemon that serves):

- `TenancyTypeCorrect`: `Spec => []TypeOK`
- `NoModelBesidePredecessor`: `Spec => []ModelAfterTeardown`
- `HealthyOwnerStays`: `Spec => HealthyKept`

The invariant is `IInv == TypeOK /\ Stages /\ Teardown /\ Obs /\ Exclusive`. `Stages`
says that the record names somebody who has published itself, whether it serves, has
drained or is about to take its publication back. `Teardown` says that a
daemon which holds the teardown of its predecessor for proven replaced one that is
gone or has unloaded: this is what `ModelAfterTeardown` rests on, and it lasts because
nobody comes back from the stages after serving (`PastStays`), nor from a failed boot. `HealthyKept` is about
clients that act on what they saw long ago, so `Obs` says what an observation still
proves: who was seen draining is past serving, who was seen with another identity is
another binary. `Exclusive` says that there is one claimed
successor between its claim and its service, and that the replacement of an owner of
its own binary is justified by such an observation from the second Heartbeat
(`Recheck`) until it publishes, although every step between them leaves time for the
owner to recover: an owner that was blocked once counts as faltered for good. A claim that is reclaimed by age from a live successor breaks that, so this
part holds only until `expired`, and so does the theorem.

`ArtifactProofs`, for any number of callers, calls and load attempts, when all calls
ask for one device policy or there is one caller:

- `SessionIsOwned`: `Spec => []ModelIsOwned`

The hypothesis is what the code's callers guarantee: the policy a worker hands to
`ModelLifecycle` is fixed by the device of its slot (`deviceLoadPolicyForPayload`,
`worker-entry.ts`), and a pool sends a worker one call at a time. `lifecycle.ts` alone
does not guarantee it, and without it `NoSessionIsLost` is false: a call that closes the
resident session because its policy does not admit it awaits the close
(`retireResidentSession`); a second call may load and install a session meanwhile, and
the first then starts a load whose installation overwrites that session without closing
it. TLC shows this with two callers and three policies. In the invariant, `WaitersWait`
says that a load which has not been aborted has callers that wait for it (so whoever ends
last arms the timer), `ReplacesNone` that a load which may still be installed finds no
resident session, `LoadsFit` that under one policy nothing is ever retired, and
`RetiredIsGone` that one caller who retires finds nothing when it goes on.

`StoreProofs`, for any finite set of readers and any generations, whichever of them
share a directory (`None` is no generation):

- `VectorsStay`: `Spec => []VectorsSurvive`

`VectorsSurvive` is what the run `services` checks of `VectorPool`: as long as the removal of
a root has taken nothing (the finding `root_removed`), what an edition names or a reader
pins is whole on disk; and a leased handle is counted, of its generation and open, unless
the lease came from a lost open. The invariant has six more parts. `AbsentIsEmpty`: a
directory that is not there holds nothing. `FoundIsWhole`: a request pins what it finds by
the metadata alone, so whoever has a generation in hand and reads its metadata must find the
vectors too; only a build writes metadata, into a directory that has the vectors, and what an
earlier daemon left damaged no edition names. `BuildIsKept`: from the
reservation to the end a build finds in its directory what it wrote, because the sweep reads
the reservations under the claim and the pins before it. `RequestsFit`: a lease is of a
handle of the generation asked for. `LeasesAreCounted`: the counter of a handle is the
cardinality of its holders, and a handle that closed has only holders that came late; this
is what makes `closeWhenDrained` close neither too early nor twice. `SlotsFit`: the active
handle does not drain, and an open that yields does so to a handle of its own generation.

`SnapshotGc`, second part, for any finite set of readers and any contents and segments:

- `SnapshotsStay`: `Spec => []SnapshotsSurvive`

`SnapshotsSurvive` is `LossNeedsARace /\ PinnedStaysLoaded`, which the run `services` checks
on two instances. For the files the invariant follows one of them through both sides.
`WrittenIsKept`: what a build has written is on disk and not about to be removed, unless
the lane met it while the sweep was examining it, since the sweep reads the reservations
last. `EditionIsRoot`: while a file of the edition is examined, all files of the edition are
among the roots, or the edition's own build raced. Neither needs to know which manifests the
retention keeps. For the pins, `RefsIn` follows the count of one snapshot through use and
eviction, and `Pins` is counted by adding or removing one reader.

`ServiceProofs` takes each of the smaller services as an instance, and so do `ArtifactProofs` for the
downloads, the self-update and the installation of artifacts and plugins, and `StoreProofs` for the
cache catalog and the refresh of snapshots; their theorems state for all values of the constants what the run `services` checks of
that service:

- `DownloadStaysSafe`: `Files!Spec => [](WholeOrNothing /\ TokenStaysAtItsHost)` of `Download`.
  A request has one temporary file, and only a host that still is the first one is authorized
  (`TokensFit`).
- `DeskIsOrderly`: `Desk!Spec => [](StoresOutliveWork /\ IdleIsTimed /\ CancelledByItsOwn)` of
  `RequestDesk`, for every connection and cancellation id a request may have. It needs that the
  way of the drain is fixed once it has begun (`DrainFits`), and that every remembered id is that
  of a lost connection (`RememberedFits`).
- `StatusStaysTrue`: `Status!Spec => []StatusIsTrue` of `VaultStates`. Only a load, an update or a
  clear unsettles the record, and each settles it when it ends (`RestFits`); a late report comes
  from a build whose leader has ended (`BuildsFit`).
- `CallsStayAnswered`: `Calls!Spec => []CallsAreAnswered` of `RpcCalls`, from a deadline that
  leaves time for one attempt. `AttemptFits` says of every attempt how far it came and which
  fault explains a retry; `CallFits` that a call refers to its last attempt.
- `KiwiStaysLeased`: `Kiwi!Spec => []Leased` of `KiwiManager`. A handle counts exactly the callers
  that lease it, and somebody waits for every load that is under way (`HandleFits`): that is why
  a handle is never installed for nobody, which would leave it without a timer.
- `LabelsStayTrue`: `Pool!Spec => []LabelIsTrue` of `AnalyzerPool`. Until it has raced, the value
  that the answers of a build are compared with is its own label (`LabelFits`). With
  `KiwiStaysLeased` this is all of `AnalysisIsTrue`.
- `InstallsStayVerified`, `SuccessStaysTrue`: `Update!Spec => []InstallsWhatItVerified` and
  `Update!Spec => [][SuccessIsTrue]_vars` of `UpdateInstaller`. As long as no updater has met
  another, one runs at a time, and each stage says what it may rely on of the cache, the
  executables, the manifest and the agents it has registered (`Fits`, `AgentFits`).
- `SavesStaySettled`: `Saves!Spec => []SavesAreSettled` of `SaveQueue`, part of `EditsAreSaved`.
  That every batch is settled at rest is far from inductive. The invariant follows each one from
  the chain to the end of its round: the chain holds exactly what waits (`ChainFits`), an entry of
  the lane is for the head of the chain or for the phase of the drain, one of each
  (`EntryFits`, `OneEach`), and a batch that is neither published nor excused is carried by
  the drain up to its build or to the record of its failure, or its file is still marked for
  another round (`BatchFits`).
- `RecordsKeepUp`, `RemovesOnlyUnused`: `Caches!Spec => []RecordKeepsUp` and
  `Caches!Spec => [][RemovesTheUnused]_vars` of `CacheCatalog`, both parts of `StoreAnswers`. A
  process remembers of a store at most what the store says of itself (`StoreFits`), at most one
  chain of calls without an await runs in a process (`OneChain`), and the stores that a prune has
  yet to judge are unprotected when it judges them (`PruneFits`). The first attempt failed for a
  reason the small instances had not shown: a process that writes a newer record between the
  judgement and the removal loses it, and a touch that follows trusts its memory of it. The model now
  counts such a store among those a race has hurt, as it did a use at the moment of the removal.
- `ChurnStaysBounded`, `OnlyHoldersClear`: `Churn!Spec => []ChurnBounded` and
  `Churn!Spec => [][OnlyHolderClears]_vars` of `SuccessorBreaker`, both parts of `RegistryIsSound`.
  The bound speaks of pairs of starts that are twice the budget apart; the invariant ties them to
  the one number that is on disk. Of a count with first attempt `f` and `n` attempts,
  `Before(f, n)` says that all but the last `n` starts were no later than `f`, and those that are a whole
  budget older a whole window before `f`. A client between the charge and the start is one
  attempt ahead (`StarterCounts`), and there is only one of them (`StarterHolds`, `BootHolds`), unless a
  claim was stolen. `OnlyHoldersClear` needs no such exception.
- `FilesStayTheirs`: `Owners!Spec => []FilesAreTheirs` of `RuntimeDir`, part of `RegistryIsSound`. Here the
  races have names (a file taken for stale between bind and listen, or one that came after the look;
  a record published over, or while a predecessor was between its look and its removal), and the theorem
  says that there are no others, whichever daemons share a slot or a path. Whoever has bound its path has
  its file or has lost it (`SocketsFit`), and what a probe found refused has departed for good
  (`SweepsFit`): only therefore does the removal that comes later hit nobody. A start of a process id
  belongs to one daemon (`IdsFit`), so a token that is still alive is either of the predecessor or of a start
  that was not its own when the token was made (`HitsFit`).
- `EditsStaySeen`: `Watch!Spec => []EditsAreSeen` of `SaveWatcher`, part of `EditsAreSaved`. The
  property speaks of the moments between two reconciliations; the invariant (`WatchInv`) says how it
  comes to hold again at the end of each. While one goes on, each directory that exists is watched, is
  about to be (`RootFits`, `ListFits`: the list that is about to be opened misses only what came
  since), or will be heard of from the root (`Watched`); each file that is not as it was told is to be
  reported, was heard of, or lies below the directory that is being looked at (`Noticed`). Closing
  a watcher drops what it had to say, so a notification counts only while its directory is there. What
  is known and not yet told is always waiting for the pause: that is why a scan that finds a file as
  it is known need not report it.
- `FailuresHaveCauses`, `GoodArtifactsStay`: `Install!Spec => []FailureHasACause` and
  `Install!Spec => [][GoodStays]_vars` of `ArtifactInstall`, both parts of `ArtifactIsKept`. A load between
  its claim and the release of it has the claim and lives (`Inside`), so two loads of one artifact are never
  inside together (`OneInside`); from its look under the claim to the removal, one that was not forced
  has nothing good to lose (`Preparing`); and one that met no fault still has its owner file, its
  staged files and, after the rename, the good artifact (`EffortFits`). Every step of another process
  that could take one of these away is a step that puts the load among those with a cause.
- `PluginStaysWhole`: `Plugin!Spec => [](PluginIsWhole /\ ReportedIsInstalled /\ SettingsSurvive /\
  ListIsKept)` of `PluginInstall`, for any commands, sources and contents of files. Two of these speak of
  the moments when no command runs; `AloneFits` says for each step of a command that runs alone which
  directory has the code that was reported last and the settings that were saved last: the plugin's until
  it is moved, then the backup, and the settings in the staged files too from the copy on. A directory that is not of one source is
  one from which a command is removing files, or what such a removal left: of a backup that was put back, or of
  the new files when the roll-back ended half-way (`DirsFit`). Until Obsidian
  writes the list under a command that enables, what that command will write is the list and its plugin
  (`ListFits`). `ReleaseFirst` depends on the constants and stays with the run.
- `StoreStaysSound`, `PublishingStaysWhole`: `Store!Spec => []Sound` and
  `Store!Spec => [][PublishingRepairs]_vars` of `StoreRefresh`, both parts of `StoreAnswers`, for any
  partitions, requests, edits, damage and restarts as other builds. `Sound` is four properties. That a
  manifest names the program of all its segments needs `MadeFits`: also the base of a build that goes on was
  made by the program that runs: a restart ends it. Answers are current because whoever waits for a job has
  seen the vault that it publishes (`LaneFits`), and fail only when hurt because one that was not can
  load what it was given (`RequestFits`). `VectorsFit` is what makes the promise of a refresh inductive: its
  head stays readable, and has vectors, or has failed to get them, or a publication that is forced or not
  covered waits in the queue for it, or a warm request that holds it is about to ask. The last
  is needed because a build without a wish for vectors may replace the head only for a pin, a compaction
  or a warm request, and the first two end the promise.

### Model-checked only

Everything with fairness (`DeadYieldsAnywhere`, `CallsEnd`, the liveness part of
`IsDesk`, `WedgedIsReaped`): the proof system has no reasoning about `ENABLED`. `NoCommitAfterTakeover`
and `AckedCovered` with overlap do not hold (section 3). The replay of the journal needs an induction over a sequence, which the
installed provers cannot do. Of the services, the
model session, the vector generations, the lexical snapshots, the downloads, the requests, the calls,
the states of vaults, the Korean analyser, the analyser pool, the self-update, the queue of saves, the watcher of
edits, the installation of artifacts and plugins, the refresh of snapshots, the cache catalog, the churn breaker and the runtime directory have proofs; the others are checked on the instances of the runs.

## 5. What is not modelled, what was observed, and the plan

### Not modelled

By choice: what tokenisation, inference and the native vector index compute (an
edition is its corpus and its arms; `ShardedSearch` takes the postings as given);
framing and validation of messages; argument parsing and rendering of the command
line, the MCP server and the native launcher; file permissions, links and fsync, with
the one exception that a rename or a link is atomic; the choices of the runtime
profile and the metrics, which have no history; the evaluation scripts.

Left out of what is modelled:

- `EditionLedger`: clear and groups of more than one intent (the lane has both), torn
  tails of the journal, the sweep of incomplete ledger files.
- `PublisherLane`: the inside of a build attempt, which is a choice among its outcomes;
  so a deadline or a cancellation id that one caller lends to its group is not seen.
- `OwnerTenancy`: slots of other protocol versions and the boot responder; process ids
  that are reused (`RuntimeDir` and the claim have them); the first steps of a teardown
  in a boot that fails after the release of its claim; a pulse file that cannot be
  written.
- `ModelSession`: the promotion of a CPU session, which the worker always suppresses.
- `SegmentCodec`: widths of numbers, hashes of documents, sections that are only read
  whole. `ShardedSearch`: snippets, debug output, coverage, tag-only searches.
- `ArtifactInstall`: the archive formats; the ONNX model, which uses the same steps
  with sizes instead of digests and no repair.
- `VaultFiles`: making of directories, resolution of paths and links, listing, reading
  and grep. `CacheCatalog`: the catalog of vector stores, whose writers have no callers.
- `SettingsFile`: which file applies by environment and directory, types of JSON values.
- `SearchState`: the job type `search` of the worker pool, which the daemon does not use.

### Observed while modelling

Places where the code does something a reader might not expect and no line of the
documentation is definite enough to be contradicted by a run:

- A comment at `daemon/server.ts:747` says that a drain waits for the builds in flight;
  `relinquish` destroys the connections first, and their close cancels those builds.
- A process whose new claim directory a second reclaimer has removed writes its owner
  file into the directory of the next process, and may hand that one over to a child
  (four processes; the child then compares the claim id it was given, and finds it).
- A comment at `core/vault-access.ts:71` says that missing vaults disappear from the
  record with the next write; only their age removes them (a test at
  `tests/core.test.mjs:1520` has one still there). A process with a short age drops the
  entries that others with a longer one would use.
- `config set` and `unset` write `settings.json` in place: after a death in the write, or
  with one value that is not accepted, every command fails, the `unset` of that very key
  included; keys that are not known are dropped. A command beside another may fail
  because it reads the emptied file.
- A Shutdown whose reply is lost is sent again and may start a new daemon. Whether the
  server's `DEADLINE_EXCEEDED` or the client's own timeout comes first, at the same
  deadline, decides whether a call is reported or retried.
- Errors are never cleared from a vault's record; a rebuild that fails for a vault that
  was never loaded shows it as "ready"; a load that fails or is cancelled stops the
  watcher of a vault that others are served from.
- A failed load of the Korean analyser leaves the idle timer of the active one off. The
  answer of a warm-up is kept: when the model appears or vanishes, builds fail as
  "diverged", or label an incremental build with less than it was, until the worker restarts.
- Two or more bare insertions of one patch come out in reverse order; a bare insertion
  ignores its context; a blank line at the very end of a file is lost by a patch; files
  with CRLF do not match; a dry run refuses a patch whose later hunk uses a file that an
  earlier one makes; hunks before a failing one stay written; `replace` accepts a needle
  that overlaps itself.
- A touch of a store is written once a day, so pruning with n unused days removes what
  was unused for more than n - 1.
- A metadata search counts its total after cutting the list to the limit
  (`search-execution.ts:584`), and runs in the daemon, not in a worker as `docs/search.md:318` says.
- A worker that dies while all are warmed hands its job to another, which warms twice
  while its successor stays cold.
- Temporary and backup directories of a plugin install that was killed are never swept;
  the documentation says the plugin directory is copied, the code copies four files.
- "already fresh" is answered while a segment on disk is damaged, as long as the snapshot
  is in memory. A pin publishes a lexical edition without vectors, which come back with
  the next refresh or save.
- A rejected model-load barrier is kept for the life of the daemon
  (`embed-scheduler.ts:625`); a restarted slot of the worker pool is put back by a position
  that was read before the back-off (`worker-pool.ts:588`).

### Plan

1. `JournalFile`: the frontier journal as records on disk, with torn tails, appenders
   that interleave and clear; `PublisherRegistry`: leases, retirement by clear. To be
   composed with `EditionLedger`, whose `disk` it implements.
2. The inside of a build attempt in `PublisherLane`: deadlines, cancellation ids and
   abort signals of a group, and marks that are debounced after a stop
   (`publisher.ts:568`, `:986`, `:1064`); the draining predecessor that nobody finds
   (`owner-registry.ts:646`).
3. The projection stores and coverage of `search-execution.ts`, snippets, the
   result shaping; the child process that holds a vector index.
4. Liveness of the services under the fairness of the event loop, part by part: the
   worker pool and the query scheduler first.

Theorems, in order: `SettingsAreKept` of `SettingsFile` and the recent vaults of `VaultAccess`, whose
invariants relate one file to what each writer has read. `EmbedQueue` folds over its queues, so
that what it keeps would need an induction over a sequence: it stays with the run.

Abstract specifications worth stating: a durable set of marks for `JournalFile`; a job
desk for the worker pool; a lease table for pins.

### Further hazards

`PROJECT.json` lists forty. These are further places, by the property that would catch them:

- `AnalysisIsTrue`: `pools.ts:217`, `manager.ts:267`, `manager.ts:183`, `manager.ts:192`.
- `ArtifactIsKept`: `artifact.ts:218`, `artifact-install.ts:170`, `artifact.ts:604`, `loader.ts:186`.
- `BuildIsTheVault`: `builder.ts:277`, `builder.ts:1012`, `builder.ts:867`, `builder.ts:1076`.
- `DeadYieldsAnywhere`: `process-token.ts:48`.
- `DenseSetIsSound`: `snapshot-store.ts:2975`, `snapshot-store.ts:2753`, `snapshot-store.ts:3090`, `profile-manager.ts:446`, `snapshot-store.ts:1526`.
- `DownloadIsSafe`: `github.ts:304`, `github.ts:468`, `github.ts:273`, `plugin.ts:345`, `plugin.ts:379`, `plugin.ts:349`.
- `EditsAreSaved`: `apply-patch.ts:184`, `apply-patch.ts:275`, `watcher.ts:391`, `watcher.ts:189`, `watcher.ts:297`, `profile-manager.ts:440`, `profile-manager.ts:403`, `profile-manager.ts:427`, `settings.ts:106`, `private-path.ts:43`.
- `EncodesServe`: `embed-scheduler.ts:722`, `embed-scheduler.ts:601`.
- `HealthyKept`: `server.ts:1013`.
- `IsDesk`: `publisher.ts:1130`, `publisher.ts:708`.
- `ModelAfterTeardown`: `server.ts:773`.
- `ModelIsOwned`: `lifecycle.ts:309`.
- `PublishedCovered`: `publisher.ts:942`.
- `PublishesInOrder`: `publisher.ts:875`.
- `QueriesShareSlots`: `query-scheduler.ts:125`, `query-scheduler.ts:377`, `query-scheduler.ts:389`, `query-scheduler.ts:438`, `query-scheduler.ts:216`.
- `RegistryIsSound`: `owner-registry.ts:518`, `owner-registry.ts:464`, `owner-registry.ts:836`, `owner-registry.ts:298`, `transport.ts:311`.
- `ReplacedIsReaped`: `server.ts:1386`.
- `RequestsAreSound`: `server.ts:446`, `server.ts:461`, `scheduler.ts:87`, `server.ts:730`, `transport.ts:246`, `transport.ts:185`, `server.ts:971`, `server.ts:573`.
- `RetrievalIsSound`: `service.ts:1043`, `snapshot-store.ts:940`, `snapshot-store.ts:889`, `snapshot-store.ts:843`, `service.ts:161`.
- `SearchIsWhole`: `search-execution-state.ts:73`, `pools.ts:392`, `query-planner.ts:148`, `query-planner.ts:115`, `score.ts:241`, `result-shaping.ts:278`.
- `SegmentsAreRead`: `canonical.ts:776`, `canonical.ts:319`.
- `SnapshotsSurvive`: `snapshot-store.ts:1409`, `snapshot-store.ts:1851`.
- `StoreAnswers`: `cache-catalog.ts:75`, `cache-catalog.ts:219`, `cache-catalog.ts:183`, `cache-catalog.ts:79`, `snapshot-store.ts:2256`, `snapshot-store.ts:1241`, `vault-access.ts:38`.
- `TypeOK`: `publisher.ts:817`.
- `UpdateIsTrue`: `installer.ts:361`.
- `VectorsSurvive`: `snapshot-store.ts:2135`, `pool.ts:370`, `pool.ts:473`, `pool.ts:171`.
- `WedgedIsReaped`: `server.ts:723`.
- `WorkersServe`: `worker-pool.ts:688`.

No property covers these yet:

- `core/search/dense/artifacts.ts:305`: An ONNX model whose files have the right sizes is accepted without a digest each time, and nothing repairs it: files that were renamed but not synced before a power loss stay damaged until the user removes them. Kiwi and the vector binding repair themselves in the model; no text claims it of the ONNX model.
- `daemon/owner-registry.ts:829`: Two versions of the program that take turns each set the other's count aside, so that replacing one another is never held up. ChurnBounded starts afresh when a count is set aside; whether two versions may alternate without end is left open by the code.
- `daemon/server.ts:306`: The count is cleared when the owner record is published, before the daemon is ready: a daemon that fails between the two is restarted without limit. ChurnBounded counts only starts that did not get as far as publishing, as the code does.
- `core/search/segments/canonical.ts:1704`: The decoder compares the projection with the documents only, not with the field texts and the BM25 rows that it was made of (both arguments are ignored): tags or lengths that differ are accepted. The segment hash covers the bytes when a snapshot is loaded; the model has no encoder that writes a wrong projection.
- `daemon/embed-scheduler.ts:575`: A flight is scheduled with the deadline of the caller that started it; a caller that joins later with more time is refused when the first one's time is up. The model does the same (IsLate); the joined caller is answered with an error, and the code promises no more.
- `core/apply-patch.ts:228`: What a patch remembers of a path it has touched is not read again: a save of the editor between two of its hunks is overwritten. The commands take no lock and the editor would not know of it: named in VaultFiles and the README, with no promise to check.
- `daemon/search-store/snapshot-store.ts:1346`: Every error of a build upon a base leads to a full build, the deadline and the cancellation of the request included: a build that was cancelled starts again with the identifier that was cancelled. The model has the second build (Abort, ScanAll); that it should not start is promised nowhere.
- `daemon/search-store/publisher.ts:986`: A coalesced build runs with the earliest deadline of its group and the first cancellation id that is found: one caller's deadline fails the others. Deadlines and cancellation belong to the build attempt, which is planned.
- `daemon/search-store/publisher.ts:1064`: A group whose first signal is already aborted when the attempt is joined aborts its siblings. Planned with the build attempt.
- `daemon/search-store/publisher.ts:568`: Marks that are debounced after stop has flushed are dropped without an answer.
- `daemon/model-session/lifecycle.ts:326`: A call retires a session that its policy does not admit; while that session closes another call loads one, and the first call then starts a load whose installation overwrites it unclosed. NoSessionIsLost is violated when two calls run at once and the policy changes from the call before (seen in TLC with two callers and three policies). A worker is sent one call at a time, so the run has two callers under one policy, and one caller under three.
- `daemon/worker-pool.ts:588`: The position of a restarting slot is read before the back-off timer and used after it; a slot removed meanwhile shifts the others, so that the new slot is written over another one (three slots) or behind the old one, which then stays in the pool and keeps it from being recreated. Modelled (Ended, Replace) and met by the run: with two slots it leaves a slot without a worker and loses no call, so the properties of the run hold; no document of the repository says what the list must look like.
- `daemon/worker-pool.ts:541`: The job of a crashed worker is put back in the queue without a look at the other slots: while they are idle it waits for the replacement, and when the slot is given up for its deadline. The model does the same; the deadline is what bounds the wait and the code promises no more.
- `daemon/search-store/snapshot-store.ts:1761`: A head that is in memory is answered as already fresh although a segment of it is damaged on disk: the damage is found after the next restart only. Nothing in the code or the docs promises that a refresh looks at segments that are loaded.
- `daemon/search-store/service.ts:525`: The vector search takes the nearest 4*limit vectors of the whole vault before path, tags and content hash are looked at: a filtered request finds fewer than there are. A matter of recall; TextFallsBack covers the case where it finds none.
- `daemon/search-store/service.ts:353`: The vector-only answer is returned without the filter by minScore that the other answers pass. Scores are not in the model of the request.
- `daemon/server.ts:729`: The comment at server.ts:747 says that a drain waits for the builds in flight; relinquish destroys the connections first, whose close cancels those builds. The drain waits, for work that it has cancelled; RpcCalls models it so (Drain), the comment is listed as an observation.
- `daemon/vault-registry.ts:36`: An error that was once recorded for a vault is shown with every later state of it. The record carries it by its spread; no code or doc says when an error should go.
- `daemon/profile-manager.ts:404`: Marks whose journal append failed are never journaled again: the watcher has already stored the new content hash as known. The model has it (batch "refused"); only a search that scans the vault, or the next edit of the file, makes up for it.
- `daemon/search-store/snapshot-store.ts:753`: Between reading a snapshot into memory and counting the pin there is an await: when everything else is pinned and the cap is exceeded, another request evicts it there, and the pin that is handed out is unknown to the store. The model has the outcome (reader "detached"); the code has no promise about it to check, and the request that hits it fails.
- `daemon/owner-registry.ts:646`: A predecessor that drains has removed its record and is found by nobody, while its model stays in memory and the successor loads its own. ModelAfterTeardown speaks of the targets a successor has found; no line of the repository promises more.
- `update/installer.ts:377`: Two updaters of one tag share the cache directory: one downloads a file again after the other has verified it and before it copies it. Nothing in the code keeps them apart; the properties speak of updaters that met no other.
- `update/installer.ts:198`: The manifest is written in place: a crash during the write leaves a file that every later update refuses to read. The model has the state (a torn manifest ends every later command as invalid); the way out is install.sh, which is not modelled.
- `update/installer.ts:771`: A repair that dies between removing and adding the registration leaves a sound install that is reported as current and registered. SuccessIsTrue leaves the registration out for "current": the code reports what the manifest remembers.
- `daemon/vector-store/pool.ts:699`: The generation id holds the corpus revision and the directory only the vectors: after a change of settings or of the segment layout the same documents are refused ("manifest-directory-conflict") while an edition names the other revision, although docs/lifecycle.md:684 says that identical corpora yield an identical generation. The model has the outcome (build "refused"); the dense edition fails until the documents change, and no invariant of the code is about it.
- `daemon/vector-store/pool.ts:327`: A lazy open or a promotion that is under way when the pool closes installs its handle and its child process afterwards, and nobody closes them. The model has it (OpenTakesSlot after ClosePool); the process exits soon after and takes the child along.
- `daemon/vector-store/process-instance.ts:137`: The close request of a child that hangs has no time limit: a retired handle and the closing of the pool wait for ever. The child process is not modelled; a close always answers.
