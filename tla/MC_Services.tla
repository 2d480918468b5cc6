------------------------------ MODULE MC_Services ------------------------------
(***************************************************************************)
(* Small instances of the services and stores for TLC.  They do not meet in *)
(* these models, so one run checks them all: the initial state chooses the  *)
(* part, which runs alone, and the parts use the variables v1, v2, ...      *)
(* under the names that they have in their own modules.                     *)
(***************************************************************************)
EXTENDS Naturals, Sequences, TLC

VARIABLES part, v1, v2, v3, v4, v5, v6, v7, v8, v9

vars == <<part, v1, v2, v3, v4, v5, v6, v7, v8, v9>>

\* A part that uses the first n variables leaves the others alone.
InitRest(n) ==
  /\ IF n < 4 THEN v4 = 0 ELSE TRUE
  /\ IF n < 5 THEN v5 = 0 ELSE TRUE
  /\ IF n < 6 THEN v6 = 0 ELSE TRUE
  /\ IF n < 7 THEN v7 = 0 ELSE TRUE
  /\ IF n < 8 THEN v8 = 0 ELSE TRUE
  /\ IF n < 9 THEN v9 = 0 ELSE TRUE

KeepRest(n) ==
  /\ IF n < 4 THEN v4' = v4 ELSE TRUE
  /\ IF n < 5 THEN v5' = v5 ELSE TRUE
  /\ IF n < 6 THEN v6' = v6 ELSE TRUE
  /\ IF n < 7 THEN v7' = v7 ELSE TRUE
  /\ IF n < 8 THEN v8' = v8 ELSE TRUE
  /\ IF n < 9 THEN v9' = v9 ELSE TRUE

PoolVault == "a1" :> "A" @@ "a2" :> "A" @@ "b1" :> "B"
PoolReach == "a1" :> {"any"} @@ "a2" :> {"id"} @@ "b1" :> {"any"}

Pool ==
  INSTANCE WorkerPool WITH
    slots <- v1, slot <- v2, queue <- v3, job <- v4, last <- v5, nextSlot <- v6,
    revival <- v7, closed <- v8, faults <- v9,
    Job <- {"a1", "a2", "b1"}, VaultOf <- PoolVault, Reach <- PoolReach,
    Size <- 2, MaxQueueSize <- 2, MaxCrashRetries <- 1, MaxRestarts <- 1,
    MaxFaults <- 2, MaxId <- 5

OneText == [q \in {"q1", "q2", "q3"} |-> "t"]

Queries ==
  INSTANCE EmbedScheduler WITH
    call <- v1, flight <- v2, current <- v3, dev <- v4, loaded <- v5, stage <- v6, faults <- v7,
    Query <- {"q1", "q2", "q3"}, TextOf <- OneText,
    Bulk <- {}, LaneOf <- << >>, ProfileOf <- << >>, MaxFlight <- 3, MaxFaults <- 1

SaveLane == [b \in {"b1", "b2"} |-> "save"]
OwnProfile == [b \in {"b1", "b2"} |-> b]

Encodes ==
  INSTANCE EmbedScheduler WITH
    call <- v1, flight <- v2, current <- v3, dev <- v4, loaded <- v5, stage <- v6, faults <- v7,
    Query <- {"q1"}, TextOf <- OneText,
    Bulk <- {"b1", "b2"}, LaneOf <- SaveLane, ProfileOf <- OwnProfile,
    MaxFlight <- 1, MaxFaults <- 1

\* Two calls share their loads; one caller changes the device policy from call to call.
SharedLoads ==
  INSTANCE ModelSession WITH
    session <- v1, current <- v2, owner <- v3, attempt <- v4, open <- v5, op <- v6,
    timer <- v7, unloading <- v8, env <- v9,
    Caller <- {"c1", "c2"}, Policies <- {"auto"}, MaxAttempt <- 3, MaxCalls <- 3

OwnLoads ==
  INSTANCE ModelSession WITH
    session <- v1, current <- v2, owner <- v3, attempt <- v4, open <- v5, op <- v6,
    timer <- v7, unloading <- v8, env <- v9,
    Caller <- {"c1"}, Policies <- {"auto", "gpu", "cpu"}, MaxAttempt <- 3, MaxCalls <- 3

Update ==
  INSTANCE UpdateInstaller WITH
    bin <- v1, manifest <- v2, registered <- v3, cache <- v4, run <- v5, faults <- v6,
    Updater <- {"u1", "u2"}, Release <- {1, 2}, Installed <- 1,
    Mode <- {"checksum"}, Present <- {{"claude"}}, MaxFaults <- 1

\* One command, in each mode of verification, with any agents and with two faults.
LoneUpdate ==
  INSTANCE UpdateInstaller WITH
    bin <- v1, manifest <- v2, registered <- v3, cache <- v4, run <- v5, faults <- v6,
    Updater <- {"u1"}, Release <- {1, 2}, Installed <- 1,
    Mode <- {"required", "best-effort", "checksum"}, Present <- SUBSET {"claude", "codex"}, MaxFaults <- 2

\* Two snapshots that share a segment.
GcSegments(s) == IF s = "A" THEN {1, 2} ELSE {2, 3}

Gc ==
  INSTANCE SnapshotGc WITH
    disk <- v1, order <- v2, vault <- v3, loaded <- v4, lane <- v5, reader <- v6,
    sweep <- v7, queued <- v8, raced <- v9,
    Content <- {"A", "B"}, SegmentsOf <- GcSegments, Reader <- {"r1"},
    Retention <- 1, CountCap <- 1, MaxEvents <- 1, None <- "none"

Pins ==
  INSTANCE SnapshotGc WITH
    disk <- v1, order <- v2, vault <- v3, loaded <- v4, lane <- v5, reader <- v6,
    sweep <- v7, queued <- v8, raced <- v9,
    Content <- {"A", "B"}, SegmentsOf <- GcSegments, Reader <- {"r1", "r2"},
    Retention <- 1, CountCap <- 1, MaxEvents <- 0, None <- "none"

\* Three generations; the first two have the same vectors, and so the same directory.  One reader
\* meets two events, or two readers one.
VectorDir(g) == IF g = "v3" THEN "d2" ELSE "d1"

Vectors ==
  INSTANCE VectorPool WITH
    disk <- v1, tree <- v2, ledger <- v3, build <- v4, handles <- v5, active <- v6,
    opening <- v7, reader <- v8, sweep <- v9,
    Gen <- {"v1", "v2", "v3"}, DirOf <- VectorDir, Reader <- {"r1"},
    MaxHandles <- 3, MaxEvents <- 2, None <- "none"

SharedVectors ==
  INSTANCE VectorPool WITH
    disk <- v1, tree <- v2, ledger <- v3, build <- v4, handles <- v5, active <- v6,
    opening <- v7, reader <- v8, sweep <- v9,
    Gen <- {"v1", "v2", "v3"}, DirOf <- VectorDir, Reader <- {"r1", "r2"},
    MaxHandles <- 3, MaxEvents <- 1, None <- "none"

\* Two threads of a process and one of another load the Kiwi files.
LoadProc(t) == IF t = "m2" THEN "p2" ELSE "p1"
LoadKind(t) == IF t = "w1" THEN "wasm" ELSE "model"
LoadDepth(k) == "metadata"

Installs ==
  INSTANCE ArtifactInstall WITH
    dir <- v1, claim <- v2, task <- v3, ns <- v4, alive <- v5, excused <- v6, events <- v7,
    Task <- {"m1", "w1", "m2"}, ProcOf <- LoadProc, KindOf <- LoadKind, DepthOf <- LoadDepth,
    MaxEvents <- 0, None <- "none"

BadInstalls ==
  INSTANCE ArtifactInstall WITH
    dir <- v1, claim <- v2, task <- v3, ns <- v4, alive <- v5, excused <- v6, events <- v7,
    Task <- {"m1", "m2"}, ProcOf <- LoadProc, KindOf <- LoadKind, DepthOf <- LoadDepth,
    MaxEvents <- 2, None <- "none"

\* Two processes install the vector binding, which is always checked by its digest.
BindingDepth(k) == "digest"

Bindings ==
  INSTANCE ArtifactInstall WITH
    dir <- v1, claim <- v2, task <- v3, ns <- v4, alive <- v5, excused <- v6, events <- v7,
    Task <- {"m1", "m2"}, ProcOf <- LoadProc, KindOf <- LoadKind, DepthOf <- BindingDepth,
    MaxEvents <- 2, None <- "none"

\* Three queries on two slots, and two on three; one of them has a time budget.
ThreeUnits(q) == IF q = "c" THEN 3 ELSE 2
TimeBudgeted(q) == q = "c"

FairQueries ==
  INSTANCE QueryScheduler WITH
    order <- v1, next <- v2, session <- v3, slot <- v4, retry <- v5, missed <- v6, faults <- v7,
    Query <- {"a", "b", "c"}, Units <- ThreeUnits, IsTimed <- TimeBudgeted, Slot <- 1..2, MaxFaults <- 2

WideQueries ==
  INSTANCE QueryScheduler WITH
    order <- v1, next <- v2, session <- v3, slot <- v4, retry <- v5, missed <- v6, faults <- v7,
    Query <- {"a", "c"}, Units <- ThreeUnits, IsTimed <- TimeBudgeted, Slot <- 1..3, MaxFaults <- 2

\* A note in the root of a vault and one in a folder.
HomeOf(f) == IF f = "n" THEN "root" ELSE "d"

Watching ==
  INSTANCE SaveWatcher WITH
    disk <- v1, watch <- v2, events <- v3, known <- v4, pending <- v5, told <- v6, scan <- v7,
    late <- v8, edits <- v9,
    Doc <- {"n", "d/n"}, Folder <- {"d"}, Home <- HomeOf, Content <- {"x", "y"}, MaxEdits <- 3

\* Two saves of one file and one of another.
SavedFile(b) == IF b = "b3" THEN "g" ELSE "f"

Saves ==
  INSTANCE SaveQueue WITH
    batch <- v1, early <- v2, marks <- v3, seqs <- v4, chain <- v5, folds <- v6, drain <- v7,
    lane <- v8, faults <- v9,
    Batch <- {"b1", "b2", "b3"}, Key <- SavedFile, MaxFaults <- 2

Sizes == {0, 1, 3}
Host == {"api", "cdn"}
Files == INSTANCE Download WITH MaxBytes <- 2, MaxRedirects <- 5,
  mode <- v1, hop <- v2, server <- v3, phase <- v4, got <- v5, files <- v6, target <- v7, tokens <- v8

\* Two partitions; a note in a folder, one in the root and a namesake in another folder.
PartitionOf == <<0, 0, 1>>
DirOf == <<"a", "", "b">>
NameOf == <<"n", "m", "n">>
TokensOf == [x |-> <<"t", "u">>, y |-> <<"t", "t">>]
LinkOf == [x |-> "n", y |-> "m"]

Builds ==
  INSTANCE IndexBuild WITH
    vault <- v1, base <- v2, torn <- v3, mode <- v4, phase <- v5, scan <- v6, todo <- v7,
    parsed <- v8, touched <- v9,
    File <- 1..3, Partition <- PartitionOf, Dir <- DirOf, Name <- NameOf,
    Content <- {"x", "y"}, Text <- TokensOf, Link <- LinkOf

SearchLayouts == {<<1, 1, 2>>, <<1, 2, 1>>}
SearchPostings == {{}, {<<"ngram", "body">>}, {<<"morph", "title">>},
                   {<<"ngram", "title">>, <<"ngram", "body">>, <<"morph", "body">>}}
SearchScopes == {[excluded |-> {}, path |-> 1..3], [excluded |-> {1}, path |-> 1..3],
                 [excluded |-> {}, path |-> {2, 3}]}

Searches ==
  INSTANCE ShardedSearch WITH
    corpus <- v1, query <- v2, plan <- v3, shards <- v4, answer <- v5,
    Docs <- 1..3, Segments <- {1, 2}, Layouts <- SearchLayouts, Postings <- SearchPostings,
    Channels <- {"ngram", "morph"}, Fields <- {"title", "body"}, Edges <- {<<1, 3>>, <<2, 1>>},
    DenseResults <- {<<1, 0, 2>>, <<0, 0, 0>>}, Scopes <- SearchScopes, Limit <- 2

\* Three notes; a request filters by path and meets two events, or by tag and meets one.
Retrieves ==
  INSTANCE Retrieve WITH
    head <- v1, gen <- v2, dirs <- v3, pins <- v4, request <- v5, events <- v6,
    Note <- {"a", "b", "c"}, Source <- "a", Right <- "b", Matching <- {"b", "c"}, Linked <- {"b"},
    Paths <- {{"a", "b", "c"}, {"b"}}, Tagged <- {{"a", "b", "c"}},
    Versions <- 0..2, Limit <- 1, MaxEvents <- 2

TaggedRetrieves ==
  INSTANCE Retrieve WITH
    head <- v1, gen <- v2, dirs <- v3, pins <- v4, request <- v5, events <- v6,
    Note <- {"a", "b", "c"}, Source <- "a", Right <- "b", Matching <- {"b", "c"}, Linked <- {"b"},
    Paths <- {{"a", "b", "c"}, {"b"}}, Tagged <- {{"c"}},
    Versions <- 0..2, Limit <- 1, MaxEvents <- 1

Posted(t, f, d, a) == [term |-> t, field |-> f, doc |-> d, at |-> a]
Texted(d, f, t)    == [doc |-> d, field |-> f, text |-> t]
Measured(d, f, n)  == [doc |-> d, field |-> f, length |-> n]
FileSegments ==
  {[postings |-> <<Posted(<<2>>, 1, 2, {1}), Posted(<<1, 2>>, 1, 1, {1, 3}), Posted(<<1>>, 2, 1, {2}),
                   Posted(<<1>>, 1, 2, {3}), Posted(<<1>>, 1, 2, {1}), Posted(<<2>>, 1, 1, {})>>,
    docs |-> {<<2>>, <<1, 1>>},
    texts |-> {Texted(1, 1, <<2>>), Texted(2, 1, <<1, 2>>), Texted(2, 2, <<3>>), Texted(1, 2, <<1>>)},
    lengths |-> {Measured(1, 1, 2), Measured(2, 1, 1), Measured(1, 3, 1)}],
   [postings |-> <<Posted(<<1>>, 1, 1, {1})>>, docs |-> {<<1>>, <<2>>},
    texts |-> {Texted(2, 1, <<1>>)}, lengths |-> {Measured(1, 1, 1), Measured(2, 1, 3)}],
   [postings |-> <<>>, docs |-> {<<1>>}, texts |-> {}, lengths |-> {}]}

SegmentFiles ==
  INSTANCE SegmentCodec WITH
    segment <- v1, file <- v2, damage <- v3,
    Segments <- FileSegments, Terms <- {<<0>>, <<1>>, <<1, 1>>, <<1, 2>>, <<2>>, <<3>>},
    Title <- 1, Tags <- 2

\* One version of the program, or two that take turns.
OneBinary == "c1" :> "new" @@ "c2" :> "new"
TwoBinaries == "c1" :> "new" @@ "c2" :> "old"

Churn ==
  INSTANCE SuccessorBreaker WITH
    now <- v1, file <- v2, claim <- v3, client <- v4, daemon <- v5, taken <- v6, spawns <- v7,
    stolen <- v8,
    Client <- {"c1", "c2"}, Binaries <- {OneBinary, TwoBinaries},
    MaxFailures <- 1, Window <- 2, Base <- 1, MaxDelay <- 2, Ttl <- 3, MaxClaims <- 3, MaxNow <- 4

\* Two requests share a cancellation id, two share a connection.
RequestConn == "r1" :> "k1" @@ "r2" :> "k2" @@ "r3" :> "k1" @@ "r4" :> "k3"
RequestId == "r1" :> "a" @@ "r2" :> "a" @@ "r3" :> "b" @@ "r4" :> "c"

Desk ==
  INSTANCE RequestDesk WITH
    step <- v1, mode <- v2, conn <- v3, req <- v4, told <- v5, remembered <- v6, runtime <- v7,
    idle <- v8, marker <- v9,
    Req <- {"r1", "r2", "r3", "r4"}, Conn <- {"k1", "k2", "k3"},
    ConnOf <- RequestConn, IdOf <- RequestId, RuntimeTries <- 2

OneVaultDocs == "A" :> <<"p", "q", "r">>
TwoVaultDocs == "A" :> <<"p", "q">> @@ "B" :> <<"p">>

\* One vault with three edits; two vaults that have a document id in common.
Folds ==
  INSTANCE EmbedQueue WITH
    file <- v1, corpus <- v2, save <- v3, rebuild <- v4, target <- v5, work <- v6, next <- v7, set <- v8,
    Vault <- {"A"}, DocsOf <- OneVaultDocs, Batch <- 2, Rebuilding <- {}, MaxEdits <- 3

SharedFolds ==
  INSTANCE EmbedQueue WITH
    file <- v1, corpus <- v2, save <- v3, rebuild <- v4, target <- v5, work <- v6, next <- v7, set <- v8,
    Vault <- {"A", "B"}, DocsOf <- TwoVaultDocs, Batch <- 2, Rebuilding <- {"B"}, MaxEdits <- 3

\* One request upon two notes, with edits before and after a restart; two requests upon one note.
Refreshes ==
  INSTANCE StoreRefresh WITH
    file <- v1, impl <- v2, disk <- v3, head <- v4, loaded <- v5, op <- v6, lane <- v7, dense <- v8, faults <- v9,
    Part <- {"a", "b"}, Op <- {"o1"}, MaxEdits <- 2, MaxFaults <- 1, MaxImpl <- 2

Rivals ==
  INSTANCE StoreRefresh WITH
    file <- v1, impl <- v2, disk <- v3, head <- v4, loaded <- v5, op <- v6, lane <- v7, dense <- v8, faults <- v9,
    Part <- {"a"}, Op <- {"o1", "o2"}, MaxEdits <- 1, MaxFaults <- 1, MaxImpl <- 1

Kiwi == INSTANCE KiwiManager WITH
  Caller <- {"c1", "c2"}, Env <- {"e1", "e2"}, MaxLoad <- 3, MaxCalls <- 4,
  active <- v1, pending <- v2, owner <- v3, load <- v4, timer <- v5, closed <- v6, op <- v7, count <- v8
LoneBuilds == INSTANCE AnalyzerPool WITH
  Worker <- {1}, Vault <- {"v"}, Doc <- {"d1", "d2"}, MaxChange <- 4, MaxBuild <- 3,
  loads <- v1, worker <- v2, shared <- v3, build <- v4, snapshot <- v5, changed <- v6, spent <- v7
RivalBuilds == INSTANCE AnalyzerPool WITH
  Worker <- {1, 2}, Vault <- {"v", "u"}, Doc <- {"d1", "d2"}, MaxChange <- 1, MaxBuild <- 2,
  loads <- v1, worker <- v2, shared <- v3, build <- v4, snapshot <- v5, changed <- v6, spent <- v7

SlotOfUpgrade == "a" :> 1 @@ "b" :> 2
PathOfUpgrade == "a" :> "pa" @@ "b" :> "pb"
SlotOfPaths == "b" :> 2 @@ "c" :> 2 @@ "e" :> 2
PathOfPaths == "b" :> "pb" @@ "c" :> "pc" @@ "e" :> "pc"

\* A daemon upgrades another; ids are reused.
Upgrades ==
  INSTANCE RuntimeDir WITH
    record <- v1, socket <- v2, proc <- v3, stage <- v4, pid <- v5, torn <- v6, reap <- v7, sweep <- v8, past <- v9,
    Daemon <- {"a", "b"}, SlotOf <- SlotOfUpgrade, PathOf <- PathOfUpgrade, Pid <- {1, 2}, MaxFaults <- 2

\* Three daemons of one slot, two of them at the fixed path.
SharedPaths ==
  INSTANCE RuntimeDir WITH
    record <- v1, socket <- v2, proc <- v3, stage <- v4, pid <- v5, torn <- v6, reap <- v7, sweep <- v8, past <- v9,
    Daemon <- {"b", "c", "e"}, SlotOf <- SlotOfPaths, PathOf <- PathOfPaths, Pid <- {1, 2}, MaxFaults <- 1

\* All daemons bind one path, or each its own.
Calls ==
  INSTANCE RpcCalls WITH
    life <- v1, call <- v2, att <- v3, faults <- v4,
    Call <- {"c"}, MaxInc <- 3, MaxTry <- 2, FixedPath <- TRUE, MaxFaults <- 3

OwnCalls ==
  INSTANCE RpcCalls WITH
    life <- v1, call <- v2, att <- v3, faults <- v4,
    Call <- {"c"}, MaxInc <- 3, MaxTry <- 2, FixedPath <- FALSE, MaxFaults <- 3

Status ==
  INSTANCE VaultStates WITH
    rec <- v1, watcher <- v2, op <- v3, builds <- v4, reports <- v5, past <- v6,
    Op <- {"a", "b", "c"}, MaxReport <- 2

CacheProcess == "a" :> "P" @@ "b" :> "P" @@ "c" :> "Q"

\* Two requests of one daemon on one store, and one request each of two daemons on two stores.
OneCache ==
  INSTANCE CacheCatalog WITH
    now <- v1, disk <- v2, catalog <- v3, memo <- v4, loaded <- v5, op <- v6,
    last <- v7, hurt <- v8, spent <- v9,
    Process <- {"P", "Q"}, Actor <- {"a", "b"}, ProcessOf <- CacheProcess, Stores <- 1,
    Day <- 2, UnusedDays <- 1, MaxTime <- 5, MaxEdition <- 1, MaxOps <- 3, MaxFaults <- 1

TwoCaches ==
  INSTANCE CacheCatalog WITH
    now <- v1, disk <- v2, catalog <- v3, memo <- v4, loaded <- v5, op <- v6,
    last <- v7, hurt <- v8, spent <- v9,
    Process <- {"P", "Q"}, Actor <- {"a", "c"}, ProcessOf <- CacheProcess, Stores <- 2,
    Day <- 2, UnusedDays <- 1, MaxTime <- 4, MaxEdition <- 1, MaxOps <- 2, MaxFaults <- 0

\* What is asked of the notes: texts, patches of one note, and commands that meet on two notes.
Cut(context, old, new, eof) == [context |-> context, old |-> old, new |-> new, eof |-> eof]
Patched(hunks, dry) == [do |-> "patch", hunks |-> hunks, dry |-> dry]
Updating(p, chunks) == [kind |-> "update", path |-> p, chunks |-> chunks]
Moving(p, q) == [kind |-> "move", path |-> p, to |-> q, chunks |-> <<Cut(<< >>, <<"a">>, <<"b">>, FALSE)>>]
Cuts == {Cut(<< >>, <<"a">>, <<"b">>, FALSE), Cut(<< >>, <<"a">>, <<"b", "a">>, TRUE), Cut(<<"b">>, <<"a">>, << >>, FALSE),
         Cut(<< >>, << >>, <<"b">>, FALSE), Cut(<< >>, <<"a", "">>, <<"b", "">>, FALSE), Cut(<< >>, <<"b">>, <<"">>, FALSE)}
ShortTexts == UNION {[1..n -> {"a", "b", ""}] : n \in 1..3}
TextCommands ==
  {Patched(<<Updating(1, cuts)>>, FALSE) : cuts \in UNION {[1..n -> Cuts] : n \in 1..2}} \union
  {[do |-> "edit", by |-> "text", path |-> 1, needle |-> needle, new |-> <<"b">>, all |-> all, dry |-> FALSE] :
     needle \in {<<"a">>, <<"a", "a">>}, all \in BOOLEAN}
OneCut == <<Cut(<< >>, <<"a">>, <<"b">>, FALSE)>>
FileCommands ==
  {Patched(<<Moving(1, 2), [kind |-> "add", path |-> 1, text |-> <<"a", "">>]>>, dry) : dry \in BOOLEAN} \union
  {Patched(hunks, FALSE) : hunks \in {
     <<[kind |-> "add", path |-> 2, text |-> <<"a", "">>], Updating(2, OneCut)>>,
     <<Updating(1, OneCut), Moving(2, 1)>>, <<[kind |-> "delete", path |-> 1], Moving(2, 1)>>,
     <<Moving(1, 1), Updating(1, OneCut)>>}} \union
  {[do |-> do, path |-> 1, tag |-> 1, dry |-> FALSE] : do \in {"set", "add", "remove", "delete"}} \union
  {[do |-> "copy", path |-> 1, to |-> 2, overwrite |-> FALSE, dry |-> FALSE],
   [do |-> "write", path |-> 2, text |-> <<"b", "">>, overwrite |-> FALSE, dry |-> FALSE],
   [do |-> "edit", by |-> "text", path |-> 1, needle |-> <<"a">>, new |-> <<"b">>, all |-> FALSE, dry |-> FALSE],
   [do |-> "edit", by |-> "lines", path |-> 1, from |-> 1, to |-> 1, new |-> <<"a", "b">>, dry |-> FALSE]}

NoteTexts ==
  INSTANCE VaultFiles WITH
    files <- v1, op <- v2, spent <- v3,
    Path <- {1}, Actor <- {"a"}, Texts <- ShortTexts, Commands <- TextCommands, MaxOps <- 0, MaxSaves <- 0

NoteFiles ==
  INSTANCE VaultFiles WITH
    files <- v1, op <- v2, spent <- v3,
    Path <- {1, 2}, Actor <- {"a", "b"}, Texts <- {<<"a", "">>}, Commands <- FileCommands, MaxOps <- 2, MaxSaves <- 1

\* One snapshot is kept at a time; two of the editions differ in their link graph alone.
WarmEditions ==
  {[id |-> "s1", graph |-> "g1"], [id |-> "s1", graph |-> "g2"], [id |-> "s2", graph |-> "g1"]}
WarmSegments == "s1" :> {"a", "b"} @@ "s2" :> {"b", "c"}

Prepared ==
  INSTANCE SearchState WITH
    active <- v1, states <- v2, bounds <- v3, recent <- v4, ready <- v5, queue <- v6, call <- v7, crashes <- v8,
    SlotCount <- 2, Editions <- WarmEditions, SegmentsOf <- WarmSegments,
    Limit <- 1, Callers <- {1, 2}, MaxCrashes <- 1

PluginOf(code, styles, data) == [manifest |-> code, main |-> code, styles |-> styles, data |-> data]

PluginRequests ==
  {[type |-> "git", dir |-> FALSE, enable |-> TRUE], [type |-> "local", dir |-> FALSE, enable |-> FALSE]}

\* Two commands that meet one trouble, and one command that meets three.
PluginCommands ==
  INSTANCE PluginInstall WITH
    target <- v1, temp <- v2, backup <- v3, list <- v4, op <- v5, wanted <- v6, mishap <- v7, spent <- v8,
    Installer <- {"a", "b"}, Requests <- PluginRequests,
    Released <- {PluginOf("v2", "no", "no")}, Cloned <- {PluginOf("v3", "no", "no")},
    Local <- {PluginOf("v4", "no", "shipped")},
    Installed <- {PluginOf("no", "no", "no"), PluginOf("v1", "v1", "mine")}, MaxTrouble <- 1

LonePlugin ==
  INSTANCE PluginInstall WITH
    target <- v1, temp <- v2, backup <- v3, list <- v4, op <- v5, wanted <- v6, mishap <- v7, spent <- v8,
    Installer <- {"a"}, Requests <- PluginRequests,
    Released <- {PluginOf("v2", "no", "no")}, Cloned <- {PluginOf("v3", "no", "no")},
    Local <- {PluginOf("v4", "no", "shipped"), PluginOf("v4", "v4", "no")},
    Installed <- {PluginOf("no", "no", "no"), PluginOf("v1", "v1", "mine")}, MaxTrouble <- 3

\* Commands that set, unset and ask, in a project with and without settings of its own.
SettingRequests ==
  {[do |-> "set", key |-> "analyzer", raw |-> " Kiwi"], [do |-> "set", key |-> "ngram", raw |-> "on"],
   [do |-> "unset", key |-> "analyzer", raw |-> ""], [do |-> "get", key |-> "analyzer", raw |-> ""]}

Settings ==
  INSTANCE SettingsFile WITH
    file <- v1, local <- v2, op <- v3, wanted <- v4, excused <- v5, mishap <- v6, byHand <- v7, spent <- v8,
    Command <- {"a", "b"}, Requests <- SettingRequests,
    HandTexts <- {"analyzer" :> "kiwi" @@ "theme" :> "dark", "ngram" :> "maybe"},
    Overrides <- {[k \in {} |-> ""], "analyzer" :> "intl"}, MaxStarts <- 3, MaxHands <- 1

AgeOfProcess == "p" :> 1 @@ "q" :> 2

\* Two processes record three vaults in a file of two entries, or two in one with faults.
RecentVaults ==
  INSTANCE VaultAccess WITH
    now <- v1, file <- v2, there <- v3, op <- v4, last <- v5, excused <- v6, spent <- v7,
    Process <- {"p", "q"}, AgeOf <- AgeOfProcess, Vaults <- 3, MaxEntries <- 2,
    MaxTime <- 3, MaxRecords <- 3, MaxFaults <- 0

FaultyVaults ==
  INSTANCE VaultAccess WITH
    now <- v1, file <- v2, there <- v3, op <- v4, last <- v5, excused <- v6, spent <- v7,
    Process <- {"p", "q"}, AgeOf <- AgeOfProcess, Vaults <- 2, MaxEntries <- 1,
    MaxTime <- 3, MaxRecords <- 3, MaxFaults <- 1

Init ==
  \/ part = "pool" /\ Pool!Init
  \/ part = "queries" /\ Queries!Init /\ InitRest(7)
  \/ part = "encodes" /\ Encodes!Init /\ InitRest(7)
  \/ part = "shared loads" /\ SharedLoads!Init
  \/ part = "own loads" /\ OwnLoads!Init
  \/ part = "update" /\ Update!Init /\ InitRest(6)
  \/ part = "lone update" /\ LoneUpdate!Init /\ InitRest(6)
  \/ part = "gc" /\ Gc!Init
  \/ part = "pins" /\ Pins!Init
  \/ part = "vectors" /\ Vectors!Init
  \/ part = "shared vectors" /\ SharedVectors!Init
  \/ part = "installs" /\ Installs!Init /\ InitRest(7)
  \/ part = "bad installs" /\ BadInstalls!Init /\ InitRest(7)
  \/ part = "bindings" /\ Bindings!Init /\ InitRest(7)
  \/ part = "fair queries" /\ FairQueries!Init /\ InitRest(7)
  \/ part = "wide queries" /\ WideQueries!Init /\ InitRest(7)
  \/ part = "watching" /\ Watching!Init
  \/ part = "saves" /\ Saves!Init
  \/ part = "download" /\ Files!Init /\ InitRest(8)
  \/ part = "builds" /\ Builds!Init
  \/ part = "searches" /\ Searches!Init /\ InitRest(5)
  \/ part = "retrieves" /\ Retrieves!Init /\ InitRest(6)
  \/ part = "tagged retrieves" /\ TaggedRetrieves!Init /\ InitRest(6)
  \/ part = "segment files" /\ SegmentFiles!Init /\ InitRest(3)
  \/ part = "churn" /\ Churn!Init /\ InitRest(8)
  \/ part = "requests" /\ Desk!Init
  \/ part = "folds" /\ Folds!Init /\ InitRest(8)
  \/ part = "shared folds" /\ SharedFolds!Init /\ InitRest(8)
  \/ part = "refreshes" /\ Refreshes!Init
  \/ part = "rivals" /\ Rivals!Init
  \/ part = "kiwi" /\ Kiwi!Init /\ InitRest(8)
  \/ part = "lone builds" /\ LoneBuilds!Init /\ InitRest(7)
  \/ part = "rival builds" /\ RivalBuilds!Init /\ InitRest(7)
  \/ part = "upgrades" /\ Upgrades!Init
  \/ part = "shared paths" /\ SharedPaths!Init
  \/ part = "calls" /\ Calls!Init /\ InitRest(4)
  \/ part = "own calls" /\ OwnCalls!Init /\ InitRest(4)
  \/ part = "status" /\ Status!Init /\ InitRest(6)
  \/ part = "one cache" /\ OneCache!Init
  \/ part = "two caches" /\ TwoCaches!Init
  \/ part = "note texts" /\ NoteTexts!Init /\ InitRest(3)
  \/ part = "note files" /\ NoteFiles!Init /\ InitRest(3)
  \/ part = "warm snapshots" /\ Prepared!Init /\ InitRest(8)
  \/ part = "plugins" /\ PluginCommands!Init /\ InitRest(8)
  \/ part = "lone plugin" /\ LonePlugin!Init /\ InitRest(8)
  \/ part = "settings" /\ Settings!Init /\ InitRest(8)
  \/ part = "recent vaults" /\ RecentVaults!Init /\ InitRest(7)
  \/ part = "faulty vaults" /\ FaultyVaults!Init /\ InitRest(7)

Next ==
  /\ UNCHANGED part
  /\ \/ part = "pool" /\ Pool!Next
     \/ part = "queries" /\ Queries!Next /\ KeepRest(7)
     \/ part = "encodes" /\ Encodes!Next /\ KeepRest(7)
     \/ part = "shared loads" /\ SharedLoads!Next
     \/ part = "own loads" /\ OwnLoads!Next
     \/ part = "update" /\ Update!Next /\ KeepRest(6)
     \/ part = "lone update" /\ LoneUpdate!Next /\ KeepRest(6)
     \/ part = "gc" /\ Gc!Next
     \/ part = "pins" /\ Pins!Next
     \/ part = "vectors" /\ Vectors!Next
     \/ part = "shared vectors" /\ SharedVectors!Next
     \/ part = "installs" /\ Installs!Next /\ KeepRest(7)
     \/ part = "bad installs" /\ BadInstalls!Next /\ KeepRest(7)
     \/ part = "bindings" /\ Bindings!Next /\ KeepRest(7)
     \/ part = "fair queries" /\ FairQueries!Next /\ KeepRest(7)
     \/ part = "wide queries" /\ WideQueries!Next /\ KeepRest(7)
     \/ part = "watching" /\ Watching!Next
     \/ part = "saves" /\ Saves!Next
     \/ part = "download" /\ Files!Next /\ KeepRest(8)
     \/ part = "builds" /\ Builds!Next
     \/ part = "searches" /\ Searches!Next /\ KeepRest(5)
     \/ part = "retrieves" /\ Retrieves!Next /\ KeepRest(6)
     \/ part = "tagged retrieves" /\ TaggedRetrieves!Next /\ KeepRest(6)
     \/ part = "segment files" /\ SegmentFiles!Next /\ KeepRest(3)
     \/ part = "churn" /\ Churn!Next /\ KeepRest(8)
     \/ part = "requests" /\ Desk!Next
     \/ part = "folds" /\ Folds!Next /\ KeepRest(8)
     \/ part = "shared folds" /\ SharedFolds!Next /\ KeepRest(8)
     \/ part = "refreshes" /\ Refreshes!Next
     \/ part = "rivals" /\ Rivals!Next
     \/ part = "kiwi" /\ Kiwi!Next /\ KeepRest(8)
     \/ part = "lone builds" /\ LoneBuilds!Next /\ KeepRest(7)
     \/ part = "rival builds" /\ RivalBuilds!Next /\ KeepRest(7)
     \/ part = "upgrades" /\ Upgrades!Next
     \/ part = "shared paths" /\ SharedPaths!Next
     \/ part = "calls" /\ Calls!Next /\ KeepRest(4)
     \/ part = "own calls" /\ OwnCalls!Next /\ KeepRest(4)
     \/ part = "status" /\ Status!Next /\ KeepRest(6)
     \/ part = "one cache" /\ OneCache!Next
     \/ part = "two caches" /\ TwoCaches!Next
     \/ part = "note texts" /\ NoteTexts!Next /\ KeepRest(3)
     \/ part = "note files" /\ NoteFiles!Next /\ KeepRest(3)
     \/ part = "warm snapshots" /\ Prepared!Next /\ KeepRest(8)
     \/ part = "plugins" /\ PluginCommands!Next /\ KeepRest(8)
     \/ part = "lone plugin" /\ LonePlugin!Next /\ KeepRest(8)
     \/ part = "settings" /\ Settings!Next /\ KeepRest(8)
     \/ part = "recent vaults" /\ RecentVaults!Next /\ KeepRest(7)
     \/ part = "faulty vaults" /\ FaultyVaults!Next /\ KeepRest(7)

Spec == Init /\ [][Next]_vars

\* The folds alone, for their counterexample.
FoldSpec == Init /\ part = "shared folds" /\ [][Next]_vars

-----------------------------------------------------------------------------
(* The promise of each part, from the properties stated in its module.      *)

\* WorkerPool: no call is lost, doubled or left with a worker, and the vaults that have waiting calls
\* take turns (daemon/worker-pool.ts).
WorkersServe ==
  /\ [](part = "pool" => Pool!EveryCallHasOnePlace)
  /\ [][part = "pool" => Pool!VaultTakesTurn]_vars

\* EmbedScheduler: no waiter is forgotten with its flight, a text that is waited for has one flight,
\* and closing waits for the open scopes (daemon/embed-scheduler.ts).
EncodesServe ==
  /\ part = "queries" => Queries!NobodyLeftBehind /\ Queries!TextIsEncodedOnce
  /\ part = "encodes" => Encodes!NobodyLeftBehind /\ Encodes!ScopeIsServed

\* ModelSession: no model is left in memory without an owner, and one at rest has its idle timer
\* (daemon/model-session/lifecycle.ts).
ModelIsOwned ==
  /\ part = "shared loads" => SharedLoads!ModelIsOwned
  /\ part = "own loads" => OwnLoads!ModelIsOwned

\* UpdateInstaller: what is installed was verified, and a command that ends well tells the truth
\* (update/installer.ts).
UpdateIsTrue ==
  /\ [](part = "update" => Update!InstallsWhatItVerified) /\ [][part = "update" => Update!SuccessIsTrue]_vars
  /\ [](part = "lone update" => LoneUpdate!InstallsWhatItVerified)
  /\ [][part = "lone update" => LoneUpdate!SuccessIsTrue]_vars

\* SnapshotGc: only a race of one file's use and examination loses a file, and pins are counted and
\* keep their snapshot in memory (daemon/search-store/snapshot-store.ts).
SnapshotsSurvive ==
  /\ part = "gc" => Gc!SnapshotsSurvive
  /\ part = "pins" => Pins!SnapshotsSurvive

\* VectorPool: what an edition names or a reader uses stays on disk, and a reader's handle is open
\* (daemon/vector-store/pool.ts).
VectorsSurvive ==
  /\ part = "vectors" => Vectors!VectorsSurvive
  /\ part = "shared vectors" => SharedVectors!VectorsSurvive

\* VectorPool: the claim of docs/lifecycle.md:668, which does not hold.
InFlightSurvives == part = "vectors" => Vectors!InFlightSurvives

\* ArtifactInstall: a load fails only after a fault that it has met, and only a forced install
\* removes a good artifact (core/kiwi/artifact.ts).
ArtifactIsKept ==
  /\ [](part = "installs" => Installs!FailureHasACause)
  /\ [](part = "bad installs" => BadInstalls!FailureHasACause)
  /\ [](part = "bindings" => Bindings!FailureHasACause)
  /\ [][part = "installs" => Installs!GoodStays]_vars
  /\ [][part = "bad installs" => BadInstalls!GoodStays]_vars
  /\ [][part = "bindings" => Bindings!GoodStays]_vars

\* QueryScheduler: a query is answered with every unit of its plan, each one once; no slot that the
\* scheduler has seen idle is idle while a session waits for one; and no session gets a second slot
\* while one that waits has none (daemon/search-store/query-scheduler.ts).
QueriesShareSlots ==
  /\ [](part = "fair queries" => FairQueries!AnswerIsWhole /\ FairQueries!SeenSlotsAreUsed)
  /\ [](part = "wide queries" => WideQueries!AnswerIsWhole /\ WideQueries!SeenSlotsAreUsed)
  /\ [][part = "fair queries" => FairQueries!ShareIsFair]_vars
  /\ [][part = "wide queries" => WideQueries!ShareIsFair]_vars

\* SaveWatcher: no edit of the vault goes unnoticed (daemon/vector-store/watcher.ts).  SaveQueue:
\* when the save queue is at rest no save is left in between (daemon/profile-manager.ts).  VaultFiles:
\* a patch and a replacement do what they say, a dry run tells what the real one does, and no note is
\* lost on its way (core/apply-patch.ts, core/edit.ts, core/frontmatter.ts).  SettingsFile: a setting
\* is lost only to a command that overlaps another, and one that is asked for is the one that was
\* set (core/settings.ts).
EditsAreSaved ==
  /\ part = "settings" => Settings!SettingsAreKept
  /\ part = "note texts" => NoteTexts!FilesAreSound
  /\ part = "note files" => NoteFiles!FilesAreSound
  /\ part = "watching" => Watching!EditsAreSeen
  /\ part = "saves" => Saves!SavesAreSettled

\* Download: a target is replaced by a whole body within the limit or not at all, and the token
\* reaches the first host and no other, however the chain of redirects goes on (net/github.ts).
\* PluginInstall: the installed plugin is of one source, a failed install puts the old one back, and
\* its settings and the list of enabled plugins are kept (cli/commands/plugin.ts).
DownloadIsSafe ==
  /\ part = "download" => Files!WholeOrNothing /\ Files!TokenStaysAtItsHost
  /\ part = "plugins" =>
       /\ PluginCommands!PluginIsWhole /\ PluginCommands!ReportedIsInstalled /\ PluginCommands!SettingsSurvive
       /\ PluginCommands!ListIsKept /\ PluginCommands!ReleaseFirst
  /\ part = "lone plugin" =>
       /\ LonePlugin!PluginIsWhole /\ LonePlugin!ReportedIsInstalled /\ LonePlugin!SettingsSurvive
       /\ LonePlugin!ListIsKept /\ LonePlugin!ReleaseFirst

\* IndexBuild: segments and statistics are those of the documents of the snapshot, and a build
\* without edits is the full build of the vault, whatever its base (daemon/search-store/builder.ts).
BuildIsTheVault == part = "builds" => Builds!SegmentsAreTheirDocuments /\ Builds!QuietBuildIsTheVault

\* ShardedSearch: a search over shards returns what the unsharded search returns, an exact title
\* comes first, and the base ranks of a merged trace are a ranking (daemon/search-execution.ts).
\* SearchState: a task is answered from the snapshot it was planned for, whatever the worker kept, a
\* process keeps what it used last, and a command that warms all workers has done so when it ends.
SearchIsWhole ==
  /\ part = "searches" => Searches!ShardedIsWhole /\ Searches!ExactFirst /\ Searches!TraceRanksAreARanking
  /\ part = "warm snapshots" => Prepared!AnswersAreOfTheSnapshot /\ Prepared!KeepsTheLastUsed /\ Prepared!WarmIsWarm

\* Retrieve: no match is scored with the vector of another content (docs/lifecycle.md:441-474), a
\* request holds what it uses and nothing when it has ended, and a text request is not empty because
\* dense cannot contribute (docs/ARCHITECTURE.md:140).
RetrievalIsSound ==
  /\ part = "retrieves" => Retrieves!NoStaleVectors /\ Retrieves!HoldsWhatItUses /\ Retrieves!TextFallsBack
  /\ part = "tagged retrieves" =>
       TaggedRetrieves!NoStaleVectors /\ TaggedRetrieves!HoldsWhatItUses /\ TaggedRetrieves!TextFallsBack

\* SegmentCodec: a segment decodes to what was encoded, a torn file is rejected, and what a query
\* finds in the bytes is what was put there (core/search/segments/canonical.ts).
SegmentsAreRead ==
  part = "segment files" =>
    SegmentFiles!FoundInPlace /\ SegmentFiles!DecodesOrRejects /\ SegmentFiles!AcceptedFilesAnswer

\* SuccessorBreaker: no window of time sees more than twice the budget of starts, whoever dies
\* half-way, and a daemon that lost its claim never clears the count of the others
\* (daemon/owner-registry.ts:432).  RuntimeDir: sockets, records and process ids are lost to those
\* they belong to in the named moments only (daemon/owner-registry.ts:281, :646, :1122).
RegistryIsSound ==
  /\ [](part = "churn" => Churn!ChurnBounded)
  /\ [](part = "upgrades" => Upgrades!FilesAreTheirs)
  /\ [](part = "shared paths" => SharedPaths!FilesAreTheirs)
  /\ [][part = "churn" => Churn!OnlyHolderClears]_vars

\* RequestDesk: the stores of a profile are closed after its last request, the idle timer runs
\* exactly when nothing is under way, and a request is cancelled by a lost connection of its own id
\* or by a supersession (daemon/server.ts:446).  RpcCalls: a call is answered by the daemon it was
\* meant for, settles with its connection, and leaves nothing running that is not cancelled
\* (daemon/transport.ts:162).  VaultStates: a vault at rest is shown at rest, and one that was served
\* is watched (daemon/server.ts:539).
RequestsAreSound ==
  /\ part = "requests" => Desk!StoresOutliveWork /\ Desk!IdleIsTimed /\ Desk!CancelledByItsOwn
  /\ part = "calls" => Calls!CallsAreAnswered
  /\ part = "own calls" => OwnCalls!CallsAreAnswered
  /\ part = "status" => Status!StatusIsTrue

\* EmbedQueue: a dense build has every document it was given once, with the last text folded in; a
\* lane has a work set exactly while a build of its vault runs; and the dense edition that a save
\* commits is for that exact lexical revision (docs/lifecycle.md:610), in one vault without rebuilds.
DenseSetIsSound ==
  /\ part = "folds" => Folds!WorkIsKept /\ Folds!BuildsHaveTheirLane /\ Folds!RestingSetIsOfItsCorpus
  /\ part = "shared folds" => SharedFolds!WorkIsKept /\ SharedFolds!BuildsHaveTheirLane

\* The last promise of EmbedQueue, of two vaults that share a document id.  Violated.
SharedSetIsOfItsCorpus == part = "shared folds" => SharedFolds!RestingSetIsOfItsCorpus

\* StoreRefresh: a request is answered with the vault as it was during the request, fails only by what
\* was lost meanwhile, and brings the vectors back; a snapshot is of one build of the program; and
\* publishing repairs what was damaged (daemon/search-store/snapshot-store.ts).  CacheCatalog: the record
\* of a store's last use keeps up with it, and only what nobody uses is pruned
\* (daemon/search-store/cache-catalog.ts).  VaultAccess: a daemon that starts finds the vaults that were
\* used last in their order, but for recordings that overlapped (core/vault-access.ts).
StoreAnswers ==
  /\ [](part = "recent vaults" => RecentVaults!LastUsedAreFound)
  /\ [](part = "faulty vaults" => FaultyVaults!LastUsedAreFound)
  /\ [](part = "refreshes" => Refreshes!Sound)
  /\ [](part = "rivals" => Rivals!Sound)
  /\ [](part = "one cache" => OneCache!RecordKeepsUp)
  /\ [](part = "two caches" => TwoCaches!RecordKeepsUp)
  /\ [][part = "one cache" => OneCache!RemovesTheUnused]_vars
  /\ [][part = "two caches" => TwoCaches!RemovesTheUnused]_vars
  /\ [][part = "refreshes" => Refreshes!PublishingRepairs]_vars
  /\ [][part = "rivals" => Rivals!PublishingRepairs]_vars

\* KiwiManager: an analyser in use is not disposed of, none is lost in memory, an idle one is timed
\* (core/kiwi/manager.ts).  AnalyzerPool: a snapshot's label tells how its documents were analysed,
\* unless another build of the pool ran (daemon/pools.ts).
AnalysisIsTrue ==
  /\ part = "kiwi" => Kiwi!Leased
  /\ part = "lone builds" => LoneBuilds!LabelIsTrue
  /\ part = "rival builds" => RivalBuilds!LabelIsTrue
================================================================================
