------------------------------- MODULE SnapshotGc ------------------------------
(***************************************************************************)
(* The lexical artifacts of one vault in one daemon (snapshot-store.ts):    *)
(* the lane writes the files of a build, the readers pin snapshots, and the *)
(* background sweep removes what nothing names.  All three run on one event *)
(* loop and interleave at every await; the unlink itself is done by a       *)
(* thread, after the verdict.                                               *)
(*                                                                          *)
(* A snapshot is named by the content of the vault it was built from; its   *)
(* files are a manifest, a link graph and the segments, which snapshots     *)
(* share.  The daemon is the current writer throughout.                     *)
(***************************************************************************)
EXTENDS Naturals, Sequences, FiniteSets, SequencesExt, FiniteSetTheorems, TLAPS

CONSTANTS Content,        \* what the vault may hold, and so the snapshots
          SegmentsOf(_),  \* the segments of a snapshot
          Reader,         \* requests that pin
          Retention,      \* snapshot files kept whatever names them
          CountCap,       \* snapshots kept in memory when none is pinned
          MaxEvents,      \* bound: edits and failed builds
          None

VARIABLES disk,     \* the files
          order,    \* manifests by time of writing, the newest first
          vault,    \* what the vault holds, its edition, and the events so far
          loaded,   \* snapshots in memory: their pins by snapshot, and who was used before whom
          lane,     \* the build under way
          reader,   \* the requests
          sweep,    \* the sweep under way
          queued,   \* whether a sweep is queued
          raced     \* files the edition's build used while the sweep examined them

vars == <<disk, order, vault, loaded, lane, reader, sweep, queued, raced>>

File(kind, id) == [kind |-> kind, id |-> id]

FilesOf(s) == {File("snapshot", s), File("link", s)}
              \cup {File("segment", g) : g \in SegmentsOf(s)}

\* readSnapshotEnvelope: a manifest counts only with every file it names.
Readable(s) == s # None /\ FilesOf(s) \subseteq disk

NoLane  == [pc |-> "idle", snap |-> None, todo |-> {}, members |-> {}, met |-> {}]
NoSweep == [pc |-> "idle", kind |-> "none", todo |-> {}, cur |-> None, roots |-> {}]
Idle    == [pc |-> "idle", snap |-> None]

\* Nothing was published yet, or what the last daemon published is whole.
Init ==
  /\ \E e \in Content \cup {None}, c \in Content :
       /\ vault = [holds |-> c, edition |-> e, events |-> 0]
       /\ disk = IF e = None THEN {} ELSE FilesOf(e)
       /\ order = IF e = None THEN <<>> ELSE <<e>>
  /\ loaded = [refs |-> [s \in {} |-> 0], older |-> {}]
  /\ lane = NoLane /\ sweep = NoSweep /\ queued = FALSE /\ raced = {}
  /\ reader = [r \in Reader |-> Idle]

-----------------------------------------------------------------------------
(* Snapshots in memory.                                                     *)

Memory      == DOMAIN loaded.refs
InMemory(s) == s \in Memory
Refs(s)     == IF InMemory(s) THEN loaded.refs[s] ELSE 0

\* The snapshot was used now, and has n readers.
Used(s, n) ==
  [refs  |-> [t \in Memory \cup {s} |-> IF t = s THEN n ELSE loaded.refs[t]],
   older |-> {p \in loaded.older : s \notin {p[1], p[2]}} \cup ((Memory \ {s}) \X {s})]

\* The coldest of some snapshots, as many as are over the cap.
Coldest(l, from) ==
  {s \in from : Cardinality({t \in from : <<t, s>> \in l.older}) + CountCap
                < Cardinality(DOMAIN l.refs)}

Without(l, out) ==
  [refs  |-> [s \in DOMAIN l.refs \ out |-> l.refs[s]],
   older |-> {p \in l.older : {p[1], p[2]} \cap out = {}}]

EnforceBudget_Pinned(l) == Without(l, Coldest(l, DOMAIN l.refs))

\* Over the cap the coldest snapshots that nobody pins are forgotten.
EnforceBudget(l) == Without(l, Coldest(l, {s \in DOMAIN l.refs : l.refs[s] = 0}))

\* ensureActiveSnapshot: the edition serves while it describes the vault;
\* otherwise the request joins the next build.
Ask(r) ==
  /\ reader[r].pc = "idle"
  /\ \/ /\ Readable(vault.edition) /\ vault.edition = vault.holds
        /\ loaded' = Used(vault.edition, Refs(vault.edition))
        /\ reader' = [reader EXCEPT ![r] = [pc |-> "found", snap |-> vault.edition]]
        /\ UNCHANGED queued
     \/ /\ ~(Readable(vault.edition) /\ vault.edition = vault.holds)
        /\ reader' = [reader EXCEPT ![r] = [pc |-> "waits", snap |-> None]]
        /\ queued' = TRUE
        /\ UNCHANGED loaded
  /\ UNCHANGED <<disk, order, vault, lane, sweep, raced>>

\* A request that names the snapshot it was served from before.
AskFor(r, s) ==
  /\ reader[r].pc = "idle"
  /\ File("snapshot", s) \in disk
  /\ reader' = [reader EXCEPT ![r] = [pc |-> "found", snap |-> s]]
  /\ UNCHANGED <<disk, order, vault, loaded, lane, sweep, queued, raced>>

\* The artifacts are reserved and read into memory; without them it fails.
Load(r) ==
  LET s == reader[r].snap
      ok == InMemory(s) \/ Readable(s)
  IN  /\ reader[r].pc = "found"
      /\ loaded' = IF ok THEN Used(s, Refs(s)) ELSE loaded
      /\ reader' = [reader EXCEPT ![r] = IF ok THEN [@ EXCEPT !.pc = "loaded"] ELSE Idle]
      /\ UNCHANGED <<disk, order, vault, lane, sweep, queued, raced>>

\* The pin proper, after an await: a snapshot that was evicted in between is
\* pinned detached from the store, which will not know the pin.
Pin(r) ==
  LET s == reader[r].snap
  IN  /\ reader[r].pc = "loaded"
      /\ loaded' = EnforceBudget(IF InMemory(s) THEN Used(s, Refs(s) + 1) ELSE loaded)
      /\ reader' = [reader EXCEPT ![r].pc = IF InMemory(s) THEN "pinned" ELSE "detached"]
      /\ UNCHANGED <<disk, order, vault, lane, sweep, queued, raced>>

\* Release only counts; files are left to the sweep.
Release(r) ==
  LET s == reader[r].snap
  IN  /\ reader[r].pc \in {"pinned", "detached"}
      /\ loaded' = IF reader[r].pc = "pinned" THEN EnforceBudget(Used(s, Refs(s) - 1)) ELSE loaded
      /\ reader' = [reader EXCEPT ![r] = Idle]
      /\ UNCHANGED <<disk, order, vault, lane, sweep, queued, raced>>

-----------------------------------------------------------------------------
(* The lane.                                                                *)

\* The user edits the vault.
Edit ==
  /\ vault.events < MaxEvents
  /\ \E c \in Content \ {vault.holds} : vault' = [vault EXCEPT !.holds = c, !.events = @ + 1]
  /\ UNCHANGED <<disk, order, loaded, lane, reader, sweep, queued, raced>>

Waiting == {r \in Reader : reader[r].pc = "waits"}

\* A build for the requests that wait, or for a save; a worker scans.
Build ==
  /\ lane.pc = "idle"
  /\ Waiting # {} \/ vault.edition # vault.holds
  /\ lane' = [NoLane EXCEPT !.pc = "built", !.snap = vault.holds, !.members = Waiting]
  /\ queued' = TRUE
  /\ UNCHANGED <<disk, order, vault, loaded, reader, sweep, raced>>

\* The sweep is between the first look at the roots and the unlink of f; the
\* lane remembers, for the properties, the files it met like that.
Examined(f) == sweep.pc \in {"editions", "kept", "unlink"} /\ sweep.cur = f

Met(f) == lane.met \cup (IF Examined(f) THEN {f} ELSE {})

\* Everything the build will name is reserved before anything is written.
Reserve ==
  /\ lane.pc = "built"
  /\ lane' = [lane EXCEPT !.pc = "link"]
  /\ UNCHANGED <<disk, order, vault, loaded, reader, sweep, queued, raced>>

\* A file that is there already is taken as it is.
StoreLink ==
  LET f == File("link", lane.snap)
  IN  /\ lane.pc = "link"
      /\ disk' = disk \cup {f}
      /\ lane' = [lane EXCEPT !.pc = "segments", !.todo = SegmentsOf(lane.snap), !.met = Met(f)]
      /\ UNCHANGED <<order, vault, loaded, reader, sweep, queued, raced>>

StoreSegment ==
  /\ lane.pc = "segments" /\ lane.todo # {}
  /\ LET g == CHOOSE x \in lane.todo : TRUE
     IN  /\ disk' = disk \cup {File("segment", g)}
         /\ lane' = [lane EXCEPT !.todo = @ \ {g}, !.met = Met(File("segment", g))]
  /\ UNCHANGED <<order, vault, loaded, reader, sweep, queued, raced>>

Rewritten(snap) == <<snap>> \o SelectSeq(order, LAMBDA s : s # snap)

\* The manifest comes last, renamed into place over an older one.
StoreManifest ==
  LET f == File("snapshot", lane.snap)
  IN  /\ lane.pc = "segments" /\ lane.todo = {}
      /\ disk' = disk \cup {f}
      /\ order' = Rewritten(lane.snap)
      /\ lane' = [lane EXCEPT !.pc = "commit", !.met = Met(f)]
      /\ UNCHANGED <<vault, loaded, reader, sweep, queued, raced>>

\* The edition names the build; the reservation is released with it and the
\* requests go on.
Commit ==
  /\ lane.pc = "commit"
  /\ vault' = [vault EXCEPT !.edition = lane.snap]
  /\ reader' = [r \in Reader |-> IF r \in lane.members
                                 THEN [pc |-> "found", snap |-> lane.snap] ELSE reader[r]]
  /\ raced' = lane.met \cup {f \in FilesOf(lane.snap) : Examined(f)}
  /\ lane' = NoLane /\ queued' = TRUE /\ loaded' = EnforceBudget(loaded)
  /\ UNCHANGED <<disk, order, sweep>>

\* A build that was cancelled or could not write leaves its files behind.
BuildFails ==
  /\ lane.pc # "idle" /\ vault.events < MaxEvents
  /\ vault' = [vault EXCEPT !.events = @ + 1]
  /\ lane' = NoLane
  /\ reader' = [r \in Reader |-> IF r \in lane.members THEN Idle ELSE reader[r]]
  /\ UNCHANGED <<disk, order, loaded, sweep, queued, raced>>

-----------------------------------------------------------------------------
(* The sweep.                                                               *)

OfKind(kind) == {f \in disk : f.kind = kind}

\* addSnapshotEnvelopeGcRoots
Named(s) == IF Readable(s) THEN FilesOf(s) ELSE {}

InFlight_Late == IF lane.pc = "commit" THEN FilesOf(lane.snap) ELSE {}

\* What the lane and the pins in progress have reserved.
InFlight ==
  (IF lane.pc \in {"link", "segments", "commit"} THEN FilesOf(lane.snap) ELSE {})
  \cup UNION {FilesOf(reader[r].snap) : r \in {q \in Reader : reader[q].pc = "loaded"}}

\* requestGc: a sweep waits until no operation of the store is under way.
StartSweep ==
  /\ queued /\ sweep.pc = "idle"
  /\ lane.pc = "idle"
  /\ \A r \in Reader : reader[r].pc \notin {"waits", "found", "loaded"}
  /\ queued' = FALSE
  /\ sweep' = [NoSweep EXCEPT !.pc = "next", !.kind = "snapshot", !.todo = OfKind("snapshot")]
  /\ UNCHANGED <<disk, order, vault, loaded, lane, reader, raced>>

\* For each file the roots are gathered anew: the edition and what it names;
Examine ==
  /\ sweep.pc = "next" /\ sweep.todo # {}
  /\ LET f == CHOOSE x \in sweep.todo : TRUE
     IN  sweep' = [sweep EXCEPT !.pc = "editions", !.cur = f, !.todo = @ \ {f},
                     !.roots = Named(vault.edition)
                               \cup {File("snapshot", vault.edition), File("link", vault.edition)}]
  /\ UNCHANGED <<disk, order, vault, loaded, lane, reader, queued, raced>>

\* then, after reading, what is in memory and the newest manifests;
Newest ==
  LET whole == SelectSeq(order, LAMBDA s : File("snapshot", s) \in disk)
  IN  ToSet(SubSeq(whole, 1, IF Retention < Len(whole) THEN Retention ELSE Len(whole)))

KeptRoots ==
  {File("link", s) : s \in Memory}
  \cup (UNION {FilesOf(s) : s \in {m \in Memory : Refs(m) > 0}})
  \cup (UNION {Named(s) : s \in Newest})

RootKept ==
  /\ sweep.pc = "editions"
  /\ sweep' = [sweep EXCEPT !.pc = "kept", !.roots = @ \cup KeptRoots]
  /\ UNCHANGED <<disk, order, vault, loaded, lane, reader, queued, raced>>

\* and last, after reading those, what is reserved.
Verdict ==
  /\ sweep.pc = "kept"
  /\ sweep' = IF sweep.cur \in sweep.roots \cup InFlight
              THEN [sweep EXCEPT !.pc = "next", !.cur = None, !.roots = {}]
              ELSE [sweep EXCEPT !.pc = "unlink", !.roots = {}]
  /\ UNCHANGED <<disk, order, vault, loaded, lane, reader, queued, raced>>

\* The unlink that was asked for is done.
Unlink ==
  /\ sweep.pc = "unlink"
  /\ disk' = disk \ {sweep.cur}
  /\ sweep' = [sweep EXCEPT !.pc = "next", !.cur = None]
  /\ UNCHANGED <<order, vault, loaded, lane, reader, queued, raced>>

\* Manifests first, then segments, then link graphs.
NextKind ==
  /\ sweep.pc = "next" /\ sweep.todo = {}
  /\ sweep' = CASE sweep.kind = "snapshot" ->
                       [NoSweep EXCEPT !.pc = "next", !.kind = "segment", !.todo = OfKind("segment")]
                [] sweep.kind = "segment" ->
                       [NoSweep EXCEPT !.pc = "next", !.kind = "link", !.todo = OfKind("link")]
                [] OTHER -> NoSweep
  /\ UNCHANGED <<disk, order, vault, loaded, lane, reader, queued, raced>>

Next ==
  \/ \E r \in Reader :
       \/ Ask(r) \/ Load(r) \/ Pin(r) \/ Release(r)
       \/ \E s \in Content : AskFor(r, s)
  \/ Edit
  \/ Build \/ Reserve \/ StoreLink \/ StoreSegment \/ StoreManifest \/ Commit \/ BuildFails
  \/ StartSweep \/ Examine \/ RootKept \/ Verdict \/ Unlink \/ NextKind

Spec == Init /\ [][Next]_vars

-----------------------------------------------------------------------------

\* A file of the committed edition is missing only when the build that
\* committed it used a file at the very moment the sweep was examining it:
\* a reservation covers everything else a build has written or found.
LossNeedsARace ==
  \/ vault.edition = None
  \/ Readable(vault.edition)
  \/ raced \cap FilesOf(vault.edition) # {}

\* A snapshot that is pinned stays in memory and counts each of its pins.
PinnedStaysLoaded ==
  \A s \in Content :
    LET pins == {r \in Reader : reader[r].pc = "pinned" /\ reader[r].snap = s}
    IN  Refs(s) = Cardinality(pins)

\* What is published stays on disk, and what is pinned in memory.
SnapshotsSurvive == LossNeedsARace /\ PinnedStaysLoaded

-----------------------------------------------------------------------------
(* Proofs.                                                                  *)

\* What the constants are.
ConstantsOK == IsFiniteSet(Reader) /\ None \notin Content

Segments == UNION {SegmentsOf(s) : s \in Content}
Files    == [kind : {"snapshot", "link", "segment"}, id : Content \cup Segments \cup {None}]
Snap     == Content \cup {None}

Vault   == [holds : Content, edition : Snap, events : Nat]
LaneOK  == [pc : {"idle", "built", "link", "segments", "commit"}, snap : Snap, todo : SUBSET Segments,
            members : SUBSET Reader, met : SUBSET Files]
Request == [pc : {"idle", "waits", "found", "loaded", "pinned", "detached"}, snap : Snap]
Sweep   == [pc : {"idle", "next", "editions", "kept", "unlink"},
            kind : {"none", "snapshot", "segment", "link"},
            todo : SUBSET Files, cur : Files \cup {None}, roots : SUBSET Files]

RefsOK(l) == DOMAIN l.refs \subseteq Content /\ \A s \in DOMAIN l.refs : l.refs[s] \in Nat

TypeOK ==
  /\ disk \subseteq Files /\ raced \subseteq Files
  /\ vault \in Vault /\ lane \in LaneOK /\ sweep \in Sweep
  /\ reader \in [Reader -> Request]
  /\ RefsOK(loaded)

\* A build and a reader that found something have a snapshot; the members of a build wait for it.
SnapsAre ==
  /\ lane.pc # "idle" => lane.snap \in Content
  /\ \A r \in Reader : reader[r].pc \notin {"idle", "waits"} => reader[r].snap \in Content
  /\ \A r \in lane.members : reader[r].pc = "waits"

\* The files that the build has written, or found.
Written ==
  {f \in FilesOf(lane.snap) :
     \/ lane.pc = "commit"
     \/ /\ lane.pc = "segments" /\ f # File("snapshot", lane.snap)
        /\ \A g \in lane.todo : f # File("segment", g)}

\* They are on disk, and the sweep is not about to remove them, unless they were met.
WrittenIsKept ==
  \A f \in Written :
    /\ f \in disk \/ f \in lane.met
    /\ sweep.pc = "unlink" /\ sweep.cur = f => f \in lane.met

\* A file of the edition is examined with all of the edition's files among the roots,
\* unless there was a race.
EditionIsRoot ==
  /\ sweep.pc \in {"editions", "kept", "unlink"} /\ vault.edition # None
  /\ sweep.cur \in FilesOf(vault.edition)
  => \/ raced \cap FilesOf(vault.edition) # {}
     \/ sweep.pc # "unlink" /\ FilesOf(vault.edition) \subseteq sweep.roots

Inv ==
  /\ TypeOK /\ SnapsAre /\ WrittenIsKept /\ EditionIsRoot
  /\ LossNeedsARace /\ PinnedStaysLoaded

-----------------------------------------------------------------------------
(* What is in memory.                                                       *)

RefsIn(l, s) == IF s \in DOMAIN l.refs THEN l.refs[s] ELSE 0

\* Using a snapshot sets its pins and leaves the others'.
LEMMA UsedIs ==
  ASSUME RefsOK(loaded), NEW s \in Content, NEW n \in Nat
  PROVE  /\ RefsOK(Used(s, n))
         /\ \A t \in Content : RefsIn(Used(s, n), t) = IF t = s THEN n ELSE Refs(t)
<1>1. Used(s, n).refs = [t \in Memory \cup {s} |-> IF t = s THEN n ELSE loaded.refs[t]]
  BY DEF Used
<1>2. DOMAIN Used(s, n).refs = Memory \cup {s}
  BY <1>1
<1>3. \A t \in Memory \cup {s} : Used(s, n).refs[t] = IF t = s THEN n ELSE loaded.refs[t]
  BY <1>1
<1> HIDE DEF Memory
<1>4. RefsOK(Used(s, n))
  BY <1>2, <1>3 DEF RefsOK, Memory
<1>5. ASSUME NEW t \in Content PROVE RefsIn(Used(s, n), t) = IF t = s THEN n ELSE Refs(t)
  BY <1>2, <1>3 DEF RefsIn, Refs, InMemory
<1> QED BY <1>4, <1>5

\* What is forgotten over the cap has no pins.
LEMMA BudgetKeeps ==
  ASSUME NEW l, RefsOK(l)
  PROVE  /\ RefsOK(EnforceBudget(l))
         /\ \A s \in Content : RefsIn(EnforceBudget(l), s) = RefsIn(l, s)
<1> DEFINE out == Coldest(l, {s \in DOMAIN l.refs : l.refs[s] = 0})
<1>1. \A s \in out : s \in DOMAIN l.refs /\ l.refs[s] = 0
  BY DEF Coldest
<1>2. EnforceBudget(l).refs = [s \in DOMAIN l.refs \ out |-> l.refs[s]]
  BY DEF EnforceBudget, Without
<1> HIDE DEF out
<1>3. DOMAIN EnforceBudget(l).refs = DOMAIN l.refs \ out
  BY <1>2
<1>4. \A s \in DOMAIN l.refs \ out : EnforceBudget(l).refs[s] = l.refs[s]
  BY <1>2
<1>5. RefsOK(EnforceBudget(l))
  BY <1>3, <1>4 DEF RefsOK
<1>6. ASSUME NEW s \in Content PROVE RefsIn(EnforceBudget(l), s) = RefsIn(l, s)
  BY <1>1, <1>3, <1>4 DEF RefsIn
<1> QED BY <1>5, <1>6

\* The pins of a snapshot are what the memory says.
LEMMA RefsAre ==
  ASSUME RefsOK(loaded)
  PROVE  \A s \in Content : Refs(s) \in Nat /\ Refs(s) = RefsIn(loaded, s)
BY DEF RefsOK, Refs, RefsIn, InMemory, Memory

-----------------------------------------------------------------------------
(* Pins.                                                                    *)

Pins(s) == {r \in Reader : reader[r].pc = "pinned" /\ reader[r].snap = s}

\* A pin is counted.
LEMMA PinIsCounted ==
  ASSUME ConstantsOK, PinnedStaysLoaded, NEW r \in Reader, reader[r].pc = "pinned",
         reader[r].snap \in Content
  PROVE  Refs(reader[r].snap) > 0
<1>1. IsFiniteSet(Pins(reader[r].snap)) /\ r \in Pins(reader[r].snap)
  BY FS_Subset DEF Pins, ConstantsOK
<1>2. Cardinality(Pins(reader[r].snap)) \in Nat /\ Cardinality(Pins(reader[r].snap)) # 0
  BY <1>1, FS_CardinalityType, FS_EmptySet
<1>3. Refs(reader[r].snap) = Cardinality(Pins(reader[r].snap))
  BY DEF PinnedStaysLoaded, Pins
<1> QED BY <1>2, <1>3

-----------------------------------------------------------------------------
(* Types.                                                                   *)

\* The files of a snapshot are files.
LEMMA FilesAre ==
  /\ \A s \in Content : FilesOf(s) \subseteq Files
  /\ \A s \in Snap : File("snapshot", s) \in Files /\ File("link", s) \in Files
  /\ \A g \in Segments : File("segment", g) \in Files
<1>1. /\ \A s \in Snap : File("snapshot", s) \in Files /\ File("link", s) \in Files
      /\ \A g \in Segments : File("segment", g) \in Files
  BY DEF File, Files, Snap
<1>2. ASSUME NEW s \in Content PROVE FilesOf(s) \subseteq Files
  <2>1. SegmentsOf(s) \subseteq Segments
    BY DEF Segments
  <2> QED BY <1>1, <2>1 DEF FilesOf, Snap
<1> QED BY <1>1, <1>2

\* Every step keeps the types.
LEMMA TypesHold == ASSUME ConstantsOK, Inv, [Next]_vars PROVE TypeOK'
<1> USE DEF TypeOK
<1>0. TypeOK /\ SnapsAre
  BY DEF Inv
<1>1. ASSUME NEW r \in Reader, Ask(r) PROVE TypeOK'
  <2>1. reader' \in [Reader -> Request]
    BY <1>0, <1>1 DEF Ask, Request, Vault, Snap
  <2>2. RefsOK(loaded')
    BY <1>0, <1>1, UsedIs, RefsAre DEF Ask, Vault, Snap, Readable, ConstantsOK
  <2> QED BY <1>0, <1>1, <2>1, <2>2 DEF Ask, RefsOK
<1>2. ASSUME NEW r \in Reader, Load(r) PROVE TypeOK'
  <2>1. reader' \in [Reader -> Request]
    BY <1>0, <1>2 DEF Load, Request, Idle, Snap
  <2>2. RefsOK(loaded')
    BY <1>0, <1>2, UsedIs, RefsAre DEF Load, SnapsAre
  <2> QED BY <1>0, <1>2, <2>1, <2>2 DEF Load, RefsOK
<1>3. ASSUME NEW r \in Reader, Pin(r) PROVE TypeOK'
  <2>1. reader' \in [Reader -> Request]
    BY <1>0, <1>3 DEF Pin, Request
  <2>2. reader[r].snap \in Content
    BY <1>0, <1>3 DEF Pin, SnapsAre
  <2>3. Refs(reader[r].snap) + 1 \in Nat
    BY <1>0, <2>2, RefsAre
  <2>4. RefsOK(loaded')
    BY <1>0, <1>3, <2>2, <2>3, UsedIs, BudgetKeeps DEF Pin
  <2> QED BY <1>0, <1>3, <2>1, <2>4 DEF Pin, RefsOK
<1>4. ASSUME NEW r \in Reader, Release(r) PROVE TypeOK'
  <2>1. reader' \in [Reader -> Request]
    BY <1>0, <1>4 DEF Release, Request, Idle, Snap
  <2>2. reader[r].snap \in Content
    BY <1>0, <1>4 DEF Release, SnapsAre
  <2>3. reader[r].pc = "pinned" => Refs(reader[r].snap) - 1 \in Nat
    BY <1>0, <2>2, RefsAre, PinIsCounted DEF Inv
  <2>4. RefsOK(loaded')
    BY <1>0, <1>4, <2>2, <2>3, UsedIs, BudgetKeeps DEF Release
  <2> QED BY <1>0, <1>4, <2>1, <2>4 DEF Release, RefsOK
<1>5. ASSUME NEW r \in Reader, NEW s \in Content, AskFor(r, s) PROVE TypeOK'
  BY <1>0, <1>5 DEF AskFor, Request, Snap, RefsOK
<1>6. CASE Edit
  <2>1. PICK c \in Content : vault' = [vault EXCEPT !.holds = c, !.events = @ + 1]
    BY <1>6 DEF Edit
  <2>2. vault.events + 1 \in Nat
    BY <1>0 DEF Vault
  <2>3. vault' \in Vault
    BY <1>0, <2>1, <2>2 DEF Vault
  <2> QED BY <1>0, <1>6, <2>3 DEF Edit, RefsOK
<1>7. CASE Build
  BY <1>0, <1>7 DEF Build, Vault, Snap, RefsOK, NoLane, LaneOK, Waiting
<1>8. CASE Reserve
  BY <1>0, <1>8 DEF Reserve, LaneOK, RefsOK
<1>9. CASE StoreLink \/ StoreSegment \/ StoreManifest
  <2>1. lane.snap \in Content /\ SegmentsOf(lane.snap) \subseteq Segments
    BY <1>0, <1>9 DEF SnapsAre, StoreLink, StoreSegment, StoreManifest, Segments
  <2>2. \A f \in Files : Met(f) \subseteq Files
    BY <1>0 DEF Met, LaneOK
  <2>3. /\ File("link", lane.snap) \in Files /\ File("snapshot", lane.snap) \in Files
        /\ \A g \in lane.todo : File("segment", g) \in Files
    BY <1>0, <2>1, FilesAre DEF Snap, LaneOK
  <2>4. CASE StoreLink
    BY <1>0, <2>1, <2>2, <2>3, <2>4 DEF StoreLink, LaneOK, RefsOK
  <2>5. CASE StoreSegment
    BY <1>0, <2>1, <2>2, <2>3, <2>5 DEF StoreSegment, LaneOK, RefsOK
  <2>6. CASE StoreManifest
    BY <1>0, <2>1, <2>2, <2>3, <2>6 DEF StoreManifest, LaneOK, RefsOK
  <2> QED BY <1>9, <2>4, <2>5, <2>6
<1>10. CASE Commit
  <2>1. lane.snap \in Content
    BY <1>0, <1>10 DEF SnapsAre, Commit
  <2>2. reader' \in [Reader -> Request]
    BY <1>0, <1>10, <2>1 DEF Commit, Request, Snap
  <2>3. raced' \subseteq Files
    BY <1>0, <1>10, <2>1, FilesAre DEF Commit, LaneOK
  <2>4. vault' \in Vault /\ lane' \in LaneOK
    BY <1>0, <1>10, <2>1 DEF Commit, Vault, Snap, NoLane, LaneOK
  <2>5. RefsOK(loaded')
    BY <1>0, <1>10, BudgetKeeps DEF Commit
  <2> QED BY <1>0, <1>10, <2>2, <2>3, <2>4, <2>5 DEF Commit, RefsOK
<1>11. CASE BuildFails
  <2>1. reader' \in [Reader -> Request]
    BY <1>0, <1>11 DEF BuildFails, Request, Snap, Idle
  <2> QED BY <1>0, <1>11, <2>1 DEF BuildFails, Vault, NoLane, LaneOK, Snap, RefsOK
<1>12. CASE StartSweep
  BY <1>0, <1>12 DEF StartSweep, NoSweep, Sweep, OfKind, RefsOK
<1>13. CASE Examine
  <2>1. Named(vault.edition) \subseteq Files
    BY <1>0 DEF Named, Readable
  <2>2. File("snapshot", vault.edition) \in Files /\ File("link", vault.edition) \in Files
    BY <1>0, FilesAre DEF Vault
  <2>3. sweep' \in Sweep
    BY <1>0, <1>13, <2>1, <2>2 DEF Examine, Sweep
  <2> QED BY <1>0, <1>13, <2>3 DEF Examine, RefsOK
<1>14. CASE RootKept
  <2>1. UNION {Named(s) : s \in Newest} \subseteq Files
    BY <1>0 DEF Named, Readable
  <2>2. Memory \subseteq Content
    BY <1>0 DEF RefsOK, Memory
  <2>3. UNION {FilesOf(s) : s \in {m \in Memory : Refs(m) > 0}} \subseteq Files
    BY <2>2, FilesAre
  <2>4. {File("link", s) : s \in Memory} \subseteq Files
    BY <2>2, FilesAre DEF Snap
  <2>5. KeptRoots \subseteq Files
    <3> DEFINE links  == {File("link", s) : s \in Memory}
               pinned == UNION {FilesOf(s) : s \in {m \in Memory : Refs(m) > 0}}
               newest == UNION {Named(s) : s \in Newest}
    <3>1. KeptRoots = links \cup pinned \cup newest
      BY DEF KeptRoots
    <3>2. links \subseteq Files
      BY <2>4
    <3>3. pinned \subseteq Files
      BY <2>3
    <3>4. newest \subseteq Files
      BY <2>1
    <3> HIDE DEF links, pinned, newest
    <3> QED BY <3>1, <3>2, <3>3, <3>4
  <2>6. sweep' \in Sweep
    BY <1>0, <1>14, <2>5 DEF RootKept, Sweep
  <2> QED BY <1>0, <1>14, <2>6 DEF RootKept, RefsOK
<1>15. CASE Verdict
  BY <1>0, <1>15 DEF Verdict, Sweep, RefsOK
<1>16. CASE Unlink
  BY <1>0, <1>16 DEF Unlink, Sweep, RefsOK
<1>17. CASE NextKind
  BY <1>0, <1>17 DEF NextKind, NoSweep, Sweep, OfKind, RefsOK
<1>18. CASE UNCHANGED vars
  BY <1>0, <1>18 DEF vars, RefsOK
<1> QED BY <1>1, <1>2, <1>3, <1>4, <1>5, <1>6, <1>7, <1>8, <1>9, <1>10, <1>11, <1>12, <1>13, <1>14, <1>15,
  <1>16, <1>17, <1>18 DEF Next

-----------------------------------------------------------------------------
(* Snapshots and the requests.                                              *)

\* Every step keeps the snapshots that builds and readers have.
LEMMA SnapsHold == ASSUME ConstantsOK, Inv, [Next]_vars PROVE SnapsAre'
<1>0. TypeOK /\ SnapsAre /\ lane \in LaneOK /\ reader \in [Reader -> Request] /\ vault \in Vault
  BY DEF Inv, TypeOK
<1> USE DEF SnapsAre
<1>1. ASSUME NEW r \in Reader, Ask(r) PROVE SnapsAre'
  BY <1>0, <1>1 DEF Ask, Readable, Vault, Snap, LaneOK
<1>2. ASSUME NEW r \in Reader, Load(r) PROVE SnapsAre'
  BY <1>0, <1>2 DEF Load, Idle, LaneOK, Request
<1>3. ASSUME NEW r \in Reader, Pin(r) PROVE SnapsAre'
  BY <1>0, <1>3 DEF Pin, LaneOK, Request
<1>4. ASSUME NEW r \in Reader, Release(r) PROVE SnapsAre'
  BY <1>0, <1>4 DEF Release, Idle, LaneOK, Request
<1>5. ASSUME NEW r \in Reader, NEW s \in Content, AskFor(r, s) PROVE SnapsAre'
  BY <1>0, <1>5 DEF AskFor, LaneOK, Request
<1>6. CASE Build
  BY <1>0, <1>6 DEF Build, NoLane, Waiting, Vault
<1>7. CASE Reserve \/ StoreLink \/ StoreSegment \/ StoreManifest
  BY <1>0, <1>7 DEF Reserve, StoreLink, StoreSegment, StoreManifest, LaneOK
<1>8. CASE Commit
  BY <1>0, <1>8 DEF Commit, NoLane
<1>9. CASE BuildFails
  BY <1>0, <1>9 DEF BuildFails, NoLane, Idle
<1>10. CASE Edit \/ StartSweep \/ Examine \/ RootKept \/ Verdict \/ Unlink \/ NextKind \/ UNCHANGED vars
  BY <1>0, <1>10 DEF Edit, StartSweep, Examine, RootKept, Verdict, Unlink, NextKind, vars
<1> QED BY <1>1, <1>2, <1>3, <1>4, <1>5, <1>6, <1>7, <1>8, <1>9, <1>10 DEF Next

-----------------------------------------------------------------------------
(* Files.                                                                   *)

\* A step leaves what the files of the edition are decided by, but for these.
LEMMA DiskIs ==
  ASSUME vault \in Vault, [Next]_vars
  PROVE  \/ disk \subseteq disk' /\ UNCHANGED <<vault.edition, raced>>
         \/ Commit
         \/ Unlink
BY DEF Next, vars, Ask, Load, Pin, Release, AskFor, Edit, Build, Reserve, StoreLink, StoreSegment,
  StoreManifest, BuildFails, StartSweep, Examine, RootKept, Verdict, NextKind, Vault

\* What a build has written is of its snapshot, and nothing while it does not write.
LEMMA WrittenAre ==
  /\ Written \subseteq FilesOf(lane.snap)
  /\ Written # {} => lane.pc \in {"segments", "commit"}
  /\ lane.pc = "commit" => Written = FilesOf(lane.snap)
BY DEF Written

\* What is written was there before, or is stored now.
LEMMA WrittenGrows ==
  ASSUME Inv, [Next]_vars, NEW f \in Written'
  PROVE  \/ f \in Written /\ lane.met \subseteq lane'.met
         \/ f \in disk' /\ (Examined(f) => f \in lane'.met) /\ sweep' = sweep
<1>0. lane \in LaneOK /\ vault \in Vault
  BY DEF Inv, TypeOK
<1> DEFINE G == \/ f \in Written /\ lane.met \subseteq lane'.met
                \/ f \in disk' /\ (Examined(f) => f \in lane'.met) /\ sweep' = sweep
<1>1. CASE lane' = lane
  BY <1>1 DEF Written
<1>2. CASE StoreLink
  BY <1>0, <1>2 DEF StoreLink, Written, FilesOf, Met, LaneOK
<1>3. CASE StoreSegment
  BY <1>0, <1>3 DEF StoreSegment, Written, Met, LaneOK
<1>4. CASE StoreManifest
  BY <1>0, <1>4 DEF StoreManifest, Written, Met, LaneOK
<1>5. CASE Build \/ Reserve \/ Commit \/ BuildFails
  <2>1. lane'.pc \notin {"segments", "commit"}
    <3>1. CASE Build \/ Reserve
      BY <1>0, <3>1 DEF Build, Reserve, NoLane, LaneOK
    <3>2. CASE Commit \/ BuildFails
      BY <3>2 DEF Commit, BuildFails, NoLane
    <3> QED BY <1>5, <3>1, <3>2
  <2> QED BY <2>1 DEF Written
<1>6. lane' = lane \/ StoreLink \/ StoreSegment \/ StoreManifest \/ Build \/ Reserve \/ Commit \/ BuildFails
  BY DEF Next, vars, Ask, Load, Pin, Release, AskFor, Edit, StartSweep, Examine, RootKept, Verdict, Unlink,
    NextKind
<1> QED BY <1>1, <1>2, <1>3, <1>4, <1>5, <1>6

\* What the build has written stays, unless it was met.
LEMMA WrittenHolds == ASSUME ConstantsOK, Inv, [Next]_vars PROVE WrittenIsKept'
<1>0. TypeOK /\ WrittenIsKept /\ sweep \in Sweep
  BY DEF Inv, TypeOK
<1> SUFFICES ASSUME NEW f \in Written'
             PROVE  /\ f \in disk' \/ f \in lane'.met
                    /\ sweep'.pc = "unlink" /\ sweep'.cur = f => f \in lane'.met
  BY DEF WrittenIsKept
<1>1. CASE f \in disk' /\ (Examined(f) => f \in lane'.met) /\ sweep' = sweep
  BY <1>1 DEF Examined
<1>2. CASE f \in Written /\ lane.met \subseteq lane'.met
  <2>1. f \in disk => f \in disk' \/ f \in lane.met
    BY <1>0, <1>2, DiskIs DEF Commit, Unlink, WrittenIsKept, TypeOK
  <2>2. CASE Verdict
    <3>1. f \in InFlight
      BY <1>2, WrittenAre DEF InFlight
    <3> QED BY <1>0, <1>2, <2>1, <2>2, <3>1 DEF Verdict, Sweep, WrittenIsKept
  <2>3. CASE ~Verdict
    <3>1. sweep'.pc = "unlink" => sweep.pc = "unlink" /\ sweep'.cur = sweep.cur
      <4>1. CASE StartSweep \/ Examine \/ RootKept \/ Unlink
        BY <1>0, <4>1 DEF StartSweep, Examine, RootKept, Unlink, Sweep, NoSweep
      <4>2. CASE NextKind
        BY <4>2 DEF NextKind, NoSweep
      <4>3. sweep' = sweep \/ StartSweep \/ Examine \/ RootKept \/ Unlink \/ NextKind
        BY <2>3 DEF Next, vars, Ask, Load, Pin, Release, AskFor, Edit, Build, Reserve, StoreLink, StoreSegment,
          StoreManifest, Commit, BuildFails
      <4> QED BY <4>1, <4>2, <4>3
    <3> QED BY <1>0, <1>2, <2>1, <3>1 DEF WrittenIsKept
  <2> QED BY <2>2, <2>3
<1> QED BY <1>1, <1>2, WrittenGrows

\* A file of the edition is examined with the others among the roots.
LEMMA RootHolds == ASSUME ConstantsOK, Inv, [Next]_vars PROVE EditionIsRoot'
<1>0. TypeOK /\ EditionIsRoot /\ LossNeedsARace /\ sweep \in Sweep /\ vault \in Vault
  BY DEF Inv, TypeOK
<1> USE DEF EditionIsRoot
<1>1. CASE Commit
  <2>1. /\ vault'.edition = lane.snap /\ sweep' = sweep
        /\ \A f \in FilesOf(lane.snap) : Examined(f) => f \in raced'
    BY <1>0, <1>1 DEF Commit, Vault
  <2> QED BY <2>1 DEF Examined
<1>2. CASE Examine
  <2>1. /\ vault' = vault /\ raced' = raced /\ sweep'.pc = "editions"
        /\ Named(vault.edition) \subseteq sweep'.roots
    BY <1>0, <1>2 DEF Examine, Sweep
  <2> QED BY <1>0, <2>1 DEF Named, LossNeedsARace
<1>3. CASE RootKept
  <2>1. /\ vault' = vault /\ raced' = raced /\ sweep'.cur = sweep.cur /\ sweep.roots \subseteq sweep'.roots
        /\ sweep.pc = "editions" /\ sweep'.pc = "kept"
    BY <1>0, <1>3 DEF RootKept, Sweep
  <2> QED BY <1>0, <2>1
<1>4. CASE Verdict
  BY <1>0, <1>4 DEF Verdict, Sweep
<1>5. CASE StartSweep \/ Unlink \/ NextKind
  <2>1. sweep'.pc \in {"idle", "next"}
    <3>1. CASE StartSweep \/ Unlink
      BY <1>0, <3>1 DEF StartSweep, Unlink, Sweep, NoSweep
    <3>2. CASE NextKind
      BY <3>2 DEF NextKind, NoSweep
    <3> QED BY <1>5, <3>1, <3>2
  <2> QED BY <2>1
<1>6. CASE sweep' = sweep /\ vault'.edition = vault.edition /\ raced' = raced
  BY <1>0, <1>6
<1>7. \/ Commit \/ Examine \/ RootKept \/ Verdict \/ StartSweep \/ Unlink \/ NextKind
      \/ sweep' = sweep /\ vault'.edition = vault.edition /\ raced' = raced
  BY <1>0 DEF Next, vars, Ask, Load, Pin, Release, AskFor, Edit, Build, Reserve, StoreLink, StoreSegment,
    StoreManifest, BuildFails, Vault
<1> QED BY <1>1, <1>2, <1>3, <1>4, <1>5, <1>6, <1>7

\* No step loses a file of the edition without a race.
LEMMA LossHolds == ASSUME ConstantsOK, Inv, [Next]_vars PROVE LossNeedsARace'
<1>0. TypeOK /\ EditionIsRoot /\ LossNeedsARace /\ WrittenIsKept
  BY DEF Inv
<1>1. CASE Commit
  <2>1. /\ vault'.edition = lane.snap /\ disk' = disk /\ lane.met \subseteq raced' /\ lane.pc = "commit"
    BY <1>0, <1>1 DEF Commit, Vault, TypeOK
  <2>2. \A f \in FilesOf(lane.snap) : f \in disk \/ f \in lane.met
    BY <1>0, <2>1, WrittenAre DEF WrittenIsKept
  <2> QED BY <2>1, <2>2 DEF LossNeedsARace, Readable
<1>2. CASE Unlink
  BY <1>0, <1>2 DEF Unlink, LossNeedsARace, Readable, EditionIsRoot
<1>3. CASE disk \subseteq disk' /\ UNCHANGED <<vault.edition, raced>>
  BY <1>0, <1>3 DEF LossNeedsARace, Readable
<1> QED BY <1>0, <1>1, <1>2, <1>3, DiskIs DEF TypeOK

-----------------------------------------------------------------------------
(* Pins.                                                                    *)

\* The steps in which no request gets or loses a pin.
LEMMA PinsSame ==
  ASSUME PinnedStaysLoaded,
         \A s \in Content : Refs(s)' = Refs(s),
         \A r \in Reader : reader[r].pc = "pinned" \/ reader'[r].pc = "pinned" => reader'[r] = reader[r]
  PROVE  PinnedStaysLoaded'
<1>1. \A s \in Content : Pins(s)' = Pins(s)
  BY DEF Pins
<1> QED BY <1>1 DEF PinnedStaysLoaded, Pins

\* Every step counts the pins.
LEMMA PinsHold == ASSUME ConstantsOK, Inv, [Next]_vars PROVE PinnedStaysLoaded'
<1>0. /\ TypeOK /\ SnapsAre /\ PinnedStaysLoaded /\ RefsOK(loaded)
      /\ reader \in [Reader -> Request] /\ vault \in Vault
  BY DEF Inv, TypeOK
<1>a. \A s \in Content : Refs(s) \in Nat /\ Refs(s) = RefsIn(loaded, s) /\ Refs(s)' = RefsIn(loaded', s)
  BY <1>0, RefsAre DEF Refs, RefsIn, InMemory, Memory
<1>b. \A s \in Content : IsFiniteSet(Pins(s)) /\ Cardinality(Pins(s)) = Refs(s)
  BY <1>0, FS_Subset DEF Pins, ConstantsOK, PinnedStaysLoaded
<1>1. ASSUME NEW r \in Reader, Ask(r) PROVE PinnedStaysLoaded'
  <2>1. \A s \in Content : Refs(s)' = Refs(s)
    BY <1>0, <1>1, <1>a, UsedIs DEF Ask, Vault, Snap, Readable
  <2>2. \A q \in Reader : reader[q].pc = "pinned" \/ reader'[q].pc = "pinned" => reader'[q] = reader[q]
    BY <1>0, <1>1 DEF Ask
  <2> QED BY <1>0, <2>1, <2>2, PinsSame
<1>2. ASSUME NEW r \in Reader, Load(r) PROVE PinnedStaysLoaded'
  <2>1. \A s \in Content : Refs(s)' = Refs(s)
    BY <1>0, <1>2, <1>a, UsedIs DEF Load, SnapsAre
  <2>2. \A q \in Reader : reader[q].pc = "pinned" \/ reader'[q].pc = "pinned" => reader'[q] = reader[q]
    BY <1>0, <1>2 DEF Load, Idle, Request
  <2> QED BY <1>0, <2>1, <2>2, PinsSame
<1>3. ASSUME NEW r \in Reader, Pin(r) PROVE PinnedStaysLoaded'
  <2> DEFINE s == reader[r].snap
  <2>1. s \in Content
    BY <1>0, <1>3 DEF Pin, SnapsAre
  <2>2. CASE InMemory(s)
    <3>1. \A t \in Content : Refs(t)' = IF t = s THEN Refs(s) + 1 ELSE Refs(t)
      BY <1>0, <1>3, <1>a, <2>1, <2>2, UsedIs, BudgetKeeps DEF Pin
    <3>2. reader' = [reader EXCEPT ![r].pc = "pinned"] /\ reader[r].pc = "loaded"
      BY <1>3, <2>2 DEF Pin
    <3>3. r \notin Pins(s) /\ \A t \in Content : Pins(t)' = IF t = s THEN Pins(s) \cup {r} ELSE Pins(t)
      BY <1>0, <3>2 DEF Pins, Request
    <3>4. Cardinality(Pins(s) \cup {r}) = Refs(s) + 1
      BY <1>b, <2>1, <3>3, FS_AddElement
    <3>5. \A t \in Content : Refs(t)' = Cardinality(Pins(t)')
      BY <1>b, <3>1, <3>3, <3>4
    <3> QED BY <3>5 DEF PinnedStaysLoaded, Pins
  <2>3. CASE ~InMemory(s)
    <3>1. \A t \in Content : Refs(t)' = Refs(t)
      BY <1>0, <1>3, <1>a, <2>3, BudgetKeeps DEF Pin
    <3>2. \A q \in Reader : reader[q].pc = "pinned" \/ reader'[q].pc = "pinned" => reader'[q] = reader[q]
      BY <1>0, <1>3, <2>3 DEF Pin, Request
    <3> QED BY <1>0, <3>1, <3>2, PinsSame
  <2> QED BY <2>2, <2>3
<1>4. ASSUME NEW r \in Reader, Release(r) PROVE PinnedStaysLoaded'
  <2> DEFINE s == reader[r].snap
  <2>1. s \in Content
    BY <1>0, <1>4 DEF Release, SnapsAre
  <2>2. CASE reader[r].pc = "pinned"
    <3>1. Refs(s) - 1 \in Nat
      BY <1>0, <1>a, <2>1, <2>2, PinIsCounted
    <3>2. \A t \in Content : Refs(t)' = IF t = s THEN Refs(s) - 1 ELSE Refs(t)
      BY <1>0, <1>4, <1>a, <2>1, <2>2, <3>1, UsedIs, BudgetKeeps DEF Release
    <3>3. reader' = [reader EXCEPT ![r] = Idle]
      BY <1>4 DEF Release
    <3>4. r \in Pins(s) /\ \A t \in Content : Pins(t)' = IF t = s THEN Pins(s) \ {r} ELSE Pins(t)
      BY <1>0, <2>2, <3>3 DEF Pins, Request, Idle
    <3>5. Cardinality(Pins(s) \ {r}) = Refs(s) - 1
      BY <1>b, <2>1, <3>4, FS_RemoveElement, ZenonT(60)
    <3>6. \A t \in Content : Refs(t)' = Cardinality(Pins(t)')
      BY <1>b, <3>2, <3>4, <3>5
    <3> QED BY <3>6 DEF PinnedStaysLoaded, Pins
  <2>3. CASE reader[r].pc # "pinned"
    <3>1. \A t \in Content : Refs(t)' = Refs(t)
      BY <1>4, <1>a, <2>3 DEF Release
    <3>2. \A q \in Reader : reader[q].pc = "pinned" \/ reader'[q].pc = "pinned" => reader'[q] = reader[q]
      BY <1>0, <1>4, <2>3 DEF Release, Idle
    <3> QED BY <1>0, <3>1, <3>2, PinsSame
  <2> QED BY <2>2, <2>3
<1>5. ASSUME NEW r \in Reader, NEW s \in Content, AskFor(r, s) PROVE PinnedStaysLoaded'
  <2>1. \A t \in Content : Refs(t)' = Refs(t)
    BY <1>5, <1>a DEF AskFor
  <2>2. \A q \in Reader : reader[q].pc = "pinned" \/ reader'[q].pc = "pinned" => reader'[q] = reader[q]
    BY <1>0, <1>5 DEF AskFor
  <2> QED BY <1>0, <2>1, <2>2, PinsSame
<1>6. CASE Commit \/ BuildFails
  <2>1. \A t \in Content : Refs(t)' = Refs(t)
    BY <1>0, <1>6, <1>a, BudgetKeeps DEF Commit, BuildFails
  <2>2. \A q \in Reader : reader[q].pc = "pinned" \/ reader'[q].pc = "pinned" => reader'[q] = reader[q]
    BY <1>0, <1>6 DEF Commit, BuildFails, SnapsAre, Idle
  <2> QED BY <1>0, <2>1, <2>2, PinsSame
<1>7. CASE UNCHANGED <<loaded, reader>>
  BY <1>0, <1>7 DEF PinnedStaysLoaded, Refs, InMemory, Memory
<1>8. \/ \E r \in Reader : Ask(r) \/ Load(r) \/ Pin(r) \/ Release(r) \/ \E s \in Content : AskFor(r, s)
      \/ Commit \/ BuildFails \/ UNCHANGED <<loaded, reader>>
  BY DEF Next, vars, Edit, Build, Reserve, StoreLink, StoreSegment, StoreManifest, StartSweep, Examine,
    RootKept, Verdict, Unlink, NextKind
<1> QED BY <1>1, <1>2, <1>3, <1>4, <1>5, <1>6, <1>7, <1>8

-----------------------------------------------------------------------------

\* A daemon starts on what the last one left.
LEMMA StartsWell == ASSUME ConstantsOK, Init PROVE Inv
<1>1. PICK e \in Snap, c \in Content :
        /\ vault = [holds |-> c, edition |-> e, events |-> 0]
        /\ disk = IF e = None THEN {} ELSE FilesOf(e)
  BY DEF Init, Snap
<1>2. RefsOK(loaded) /\ \A s \in Content : Refs(s) = 0
  BY DEF Init, RefsOK, Refs, InMemory, Memory
<1>3. reader = [r \in Reader |-> Idle]
  BY DEF Init
<1>4. TypeOK
  <2>1. disk \subseteq Files /\ vault \in Vault
    BY <1>1, FilesAre DEF Vault, Snap
  <2>2. lane \in LaneOK /\ sweep \in Sweep /\ raced \subseteq Files
    BY DEF Init, NoLane, LaneOK, NoSweep, Sweep, Snap
  <2>3. reader \in [Reader -> Request]
    BY <1>3 DEF Idle, Request, Snap
  <2> QED BY <1>2, <2>1, <2>2, <2>3 DEF TypeOK
<1>5. SnapsAre /\ WrittenIsKept /\ EditionIsRoot
  BY <1>3 DEF Init, SnapsAre, WrittenIsKept, Written, EditionIsRoot, NoLane, NoSweep, Idle
<1>6. LossNeedsARace
  BY <1>1 DEF LossNeedsARace, Readable
<1>7. PinnedStaysLoaded
  <2>1. \A s \in Content : Pins(s) = {}
    BY <1>3 DEF Pins, Idle
  <2> QED BY <1>2, <2>1, FS_EmptySet DEF PinnedStaysLoaded, Pins
<1> QED BY <1>4, <1>5, <1>6, <1>7 DEF Inv

\* Whatever readers, builds, edits, failures and sweeps there are: a file of the committed
\* edition is missing only after a race of one file's use and its examination (gcRootsAsync and
\* the reservations of the lane cover the rest), and enforceBudget never forgets a snapshot
\* that a reader has pinned.
THEOREM SnapshotsStay ==
  ASSUME ConstantsOK
  PROVE  Spec => []SnapshotsSurvive
<1>1. Init => Inv
  BY StartsWell
<1>2. Inv /\ [Next]_vars => Inv'
  BY TypesHold, SnapsHold, WrittenHolds, RootHolds, LossHolds, PinsHold DEF Inv
<1>3. Inv => SnapshotsSurvive
  BY DEF Inv, SnapshotsSurvive
<1> QED BY <1>1, <1>2, <1>3, PTL DEF Spec
=============================================================================
