------------------------------ MODULE StoreRefresh ------------------------------
(***************************************************************************)
(* How the snapshot store (daemon/search-store/snapshot-store.ts) answers   *)
(* from what is on disk or publishes anew: pin, compact, refresh, rebuild,  *)
(* warm and clear, over files that may be lost or damaged and a daemon that *)
(* is restarted as another build of the program.  A snapshot is its         *)
(* partitions; its id, the id of its corpus and the id of its link graph    *)
(* are hashes of them.  The publisher's lane runs one job at a time         *)
(* (PublisherLane); the sweeps are those of SnapshotGc.                     *)
(***************************************************************************)
EXTENDS Naturals, Sequences, SequencesExt

CONSTANTS Part,      \* the partitions, with one note each
          Op,        \* requests
          MaxEdits, MaxFaults, MaxImpl   \* bounds

VARIABLES file,     \* the version of each note
          impl,     \* which build of the program runs
          disk,     \* what is stored, and which segments are damaged
          head,     \* the last edition, if there is one
          loaded,   \* the snapshots in memory
          op,       \* the requests
          lane,     \* the job of the publisher
          dense,    \* the dense publications that wait for the lane
          faults    \* how often a file was lost or damaged

vars == <<file, impl, disk, head, loaded, op, lane, dense, faults>>

Segments(s) == {<<p, s.corpus[p], s.by[p]>> : p \in Part}
NoJob == [job |-> "none"]
First == [corpus |-> [p \in Part |-> 1], by |-> [p \in Part |-> 1]]
NoOp == [kind |-> "none", at |-> "off", base |-> FALSE, prepare |-> FALSE, answer |-> First, seen |-> {},
         current |-> TRUE, hurt |-> FALSE]

Init ==
  /\ file = First.corpus
  /\ impl = 1
  /\ disk = [segments |-> Segments(First), damaged |-> {}, graphs |-> {First},
             manifests |-> {[snap |-> First, impl |-> 1]}, retrievals |-> {First}]
  /\ head = <<[snap |-> First, dense |-> "fresh"]>>
  /\ loaded \in {{}, {First}}
  /\ op = [o \in Op |-> NoOp]
  /\ lane = NoJob
  /\ dense = << >>
  /\ faults = 0

-----------------------------------------------------------------------------
(* What the files on disk are good for                                      *)

\* loadLinkGraphSidecar reads a graph only if it is whole.
HasGraph(s) == s \in disk.graphs

\* readSnapshotEnvelope looks at the manifest, the graph and whether the segments are there.
Readable(s) ==
  /\ \E m \in disk.manifests : m.snap = s
  /\ HasGraph(s)
  /\ Segments(s) \subseteq disk.segments \union disk.damaged

Intact(s) == Segments(s) \subseteq disk.segments

\* loadEnvelope compares the segments with their hashes and their statistics with the manifest.
Whole(d, s) == /\ \E m \in d.manifests : m.snap = s
               /\ s \in d.graphs
               /\ Segments(s) \subseteq d.segments
Loads(s) == Whole(disk, s)

\* ensureLoaded
EnsureLoaded(s) == s \in loaded \/ Loads(s)

\* snapshotContentDelta: no note was added, changed or removed.
Fresh(s) == Readable(s) /\ s.corpus = file

\* reusableBaseForSnapshot: a base is of the running program, and whole.
Reusable_AnyProgram(s) == Readable(s) /\ Intact(s)

Reusable(s) ==
  /\ Readable(s)
  /\ [snap |-> s, impl |-> impl] \in disk.manifests
  /\ Intact(s)

\* retrievalReadyForEdition: the edition has vectors, for this corpus.
RetrievalReady(e) == e.dense = "fresh" /\ e.snap \in disk.retrievals /\ Readable(e.snap)

\* tryPinActiveRetrievalSnapshot: they are the vectors of this snapshot.
TryPin(s) == head /= << >> /\ RetrievalReady(Head(head)) /\ Head(head).snap = s

-----------------------------------------------------------------------------
(* Requests                                                                 *)

\* The end of a request that got a snapshot, and whether it is one of the vault during the request.
Done(r) == [NoOp EXCEPT !.kind = r.kind, !.at = "done", !.hurt = r.hurt, !.current = r.answer.corpus \in r.seen]

\* A request has its snapshot: a pin has still to load it, and a warm to prepare retrieval.
Given(r, s) ==
  LET given == [r EXCEPT !.at = "published", !.answer = s] IN
  IF r.kind \in {"pin", "warm", "retrieval"} THEN given ELSE Done(given)

\* ensureActiveSnapshot: the head if it is of the vault as it is and loads, and a new edition otherwise.
EnsureActive_Throws(o, ops) ==
  IF head /= << >> /\ Fresh(Head(head).snap)
  THEN IF EnsureLoaded(Head(head).snap)
       THEN /\ loaded' = loaded \union {Head(head).snap}
            /\ op' = [ops EXCEPT ![o] = Given(@, Head(head).snap)]
       ELSE op' = [ops EXCEPT ![o].at = "failed"] /\ UNCHANGED loaded
  ELSE /\ op' = [ops EXCEPT ![o] = [@ EXCEPT !.at = "queued", !.base = head /= << >>, !.prepare = FALSE]]
       /\ UNCHANGED loaded

EnsureActive(o, ops) ==
  IF head /= << >> /\ Fresh(Head(head).snap) /\ EnsureLoaded(Head(head).snap)
  THEN /\ loaded' = loaded \union {Head(head).snap}
       /\ op' = [ops EXCEPT ![o] = Given(@, Head(head).snap)]
  ELSE /\ op' = [ops EXCEPT ![o] = [@ EXCEPT !.at = "queued", !.base = head /= << >>, !.prepare = FALSE]]
       /\ UNCHANGED loaded

\* enqueueDensePublication
DenseFor(s, force) == [snap |-> s, force |-> force]

\* refreshIndexedSnapshot: "already fresh" asks for the vectors again if they are not ready, though
\* the edition may say that they are.
Refresh_NotForced(o, ops) ==
  LET active == Head(head) IN
  IF head /= << >> /\ Fresh(active.snap) /\ EnsureLoaded(active.snap)
  THEN /\ loaded' = loaded \union {active.snap}
       /\ op' = [ops EXCEPT ![o] = Given(@, active.snap)]
       /\ dense' = IF RetrievalReady(active) THEN dense ELSE Append(dense, DenseFor(active.snap, FALSE))
  ELSE /\ op' = [ops EXCEPT ![o] = [@ EXCEPT !.at = "queued", !.prepare = TRUE,
                                             !.base = head /= << >> /\ Readable(active.snap) /\ ~Fresh(active.snap)]]
       /\ UNCHANGED <<loaded, dense>>

Refresh(o, ops) ==
  LET active == Head(head) IN
  IF head /= << >> /\ Fresh(active.snap) /\ EnsureLoaded(active.snap)
  THEN /\ loaded' = loaded \union {active.snap}
       /\ op' = [ops EXCEPT ![o] = Given(@, active.snap)]
       /\ dense' = IF RetrievalReady(active) THEN dense ELSE Append(dense, DenseFor(active.snap, TRUE))
  ELSE /\ op' = [ops EXCEPT ![o] = [@ EXCEPT !.at = "queued", !.prepare = TRUE,
                                             !.base = head /= << >> /\ Readable(active.snap) /\ ~Fresh(active.snap)]]
       /\ UNCHANGED <<loaded, dense>>

Started(o, kind) == [op EXCEPT ![o] = [NoOp EXCEPT !.kind = kind, !.seen = {file}]]

\* pin and compact take the active snapshot.
PinOrCompact(o, kind) ==
  /\ op[o].at = "off" /\ kind \in {"pin", "compact"}
  /\ EnsureActive(o, Started(o, kind))
  /\ UNCHANGED <<file, impl, disk, head, lane, dense, faults>>

\* refresh, and loadVault, which prepares retrieval after it.
RefreshOrWarm(o, kind) ==
  /\ op[o].at = "off" /\ kind \in {"refresh", "warm"}
  /\ Refresh(o, Started(o, kind))
  /\ UNCHANGED <<file, impl, disk, head, lane, faults>>

\* rebuild takes no base.
Rebuild(o) ==
  /\ op[o].at = "off"
  /\ op' = [Started(o, "rebuild") EXCEPT ![o].at = "queued", ![o].prepare = TRUE]
  /\ UNCHANGED <<file, impl, disk, head, loaded, lane, dense, faults>>

Clear(o) ==
  /\ op[o].at = "off"
  /\ op' = [Started(o, "clear") EXCEPT ![o].at = "clearing"]
  /\ UNCHANGED <<file, impl, disk, head, loaded, lane, dense, faults>>

-----------------------------------------------------------------------------
(* The lane                                                                 *)

Waiting == {o \in Op : op[o].at = "queued"}

\* A build answers all that wait; publisherLaneSnapshotOptions takes the base that one of them asks for.
Begin(o) ==
  /\ lane = NoJob /\ o \in Waiting
  /\ lane' = [job |-> "build", for |-> Waiting,
              base |-> IF op[o].base /\ head /= << >> /\ Reusable(Head(head).snap)
                       THEN <<Head(head).snap>> ELSE << >>]
  /\ op' = [p \in Op |-> IF p \in Waiting THEN [op[p] EXCEPT !.at = "building"] ELSE op[p]]
  /\ UNCHANGED <<file, impl, disk, head, loaded, dense, faults>>

Kept(base) == {p \in Part : base.corpus[p] = file[p]}

\* buildSnapshotWithIncrementalFallback: partitions without changes are those of the base, unless one
\* of them cannot be read any more.
Build ==
  /\ lane.job = "build"
  /\ LET kept == IF lane.base = << >> THEN {} ELSE Kept(Head(lane.base))
         whole == \A p \in kept : <<p, Head(lane.base).corpus[p], Head(lane.base).by[p]>> \in disk.segments IN
     lane' = [job |-> "publish", for |-> lane.for,
              snap |-> [corpus |-> file,
                        by |-> [p \in Part |-> IF p \in kept /\ whole THEN Head(lane.base).by[p] ELSE impl]]]
  /\ UNCHANGED <<file, impl, disk, head, loaded, op, dense, faults>>

\* publishBuiltSnapshot writes what is not there as it should be.
Stored_Trusting(s) ==
  [disk EXCEPT !.segments = @ \union (Segments(s) \ disk.damaged),
               !.graphs = @ \union {s},
               !.manifests = {m \in @ : m.snap /= s} \union {[snap |-> s, impl |-> impl]}]

Stored(s) ==
  [disk EXCEPT !.segments = @ \union Segments(s), !.damaged = @ \ Segments(s),
               !.graphs = @ \union {s},
               !.manifests = {m \in @ : m.snap /= s} \union {[snap |-> s, impl |-> impl]}]

\* The edition has no vectors; those who asked for them ask now (publishFreshSnapshot).
Publish ==
  /\ lane.job = "publish"
  /\ disk' = Stored(lane.snap)
  /\ head' = <<[snap |-> lane.snap, dense |-> "unavailable"]>>
  /\ op' = [o \in Op |-> IF o \in lane.for THEN Given(op[o], lane.snap) ELSE op[o]]
  /\ dense' = IF \E o \in lane.for : op[o].prepare THEN Append(dense, DenseFor(lane.snap, FALSE)) ELSE dense
  /\ lane' = NoJob
  /\ UNCHANGED <<file, impl, loaded, faults>>

\* The clear effect forgets the editions.
Cleared(o) ==
  /\ lane = NoJob /\ op[o].at = "clearing"
  /\ head' = << >>
  /\ op' = [op EXCEPT ![o] = [NoOp EXCEPT !.kind = "clear", !.at = "done"]]
  /\ UNCHANGED <<file, impl, disk, loaded, lane, dense, faults>>

\* A warm that asked for vectors goes on when the lane has no more to do for it; whether it finds them
\* or not, the vault is warm.
NoMoreDense(ops, queue) ==
  IF queue = << >> THEN [o \in Op |-> IF ops[o].at = "retrieving" THEN Done(ops[o]) ELSE ops[o]]
  ELSE ops

\* A dense publication is covered by an edition that has its vectors, unless it is forced, and dropped
\* when its edition is not the head any more or its corpus cannot be read.
TakeDense ==
  /\ lane = NoJob /\ dense /= << >>
  /\ LET d == Head(dense)
         covered == Head(head).dense = "fresh" /\ ~d.force IN
     IF head = << >> \/ Head(head).snap /= d.snap \/ covered \/ ~Readable(d.snap)
     THEN /\ dense' = Tail(dense)
          /\ op' = NoMoreDense(op, Tail(dense))
          /\ UNCHANGED lane
     ELSE /\ lane' = [job |-> "dense"]
          /\ UNCHANGED <<dense, op>>
  /\ UNCHANGED <<file, impl, disk, head, loaded, faults>>

\* buildDense publishes an edition with vectors, or one that says that they failed.
EndDense(ok) ==
  /\ lane.job = "dense"
  /\ head' = [head EXCEPT ![1].dense = IF ok THEN "fresh" ELSE "failed"]
  /\ disk' = IF ok THEN [disk EXCEPT !.retrievals = @ \union {Head(head).snap}] ELSE disk
  /\ dense' = Tail(dense)
  /\ op' = NoMoreDense(op, Tail(dense))
  /\ lane' = NoJob
  /\ UNCHANGED <<file, impl, loaded, faults>>

-----------------------------------------------------------------------------
\* pin loads the snapshot that was published for it.
Pin(o) ==
  /\ op[o].at = "published" /\ op[o].kind = "pin"
  /\ IF EnsureLoaded(op[o].answer)
     THEN /\ op' = [op EXCEPT ![o] = Done(@)]
          /\ loaded' = loaded \union {op[o].answer}
     ELSE op' = [op EXCEPT ![o].at = "failed"] /\ UNCHANGED loaded
  /\ UNCHANGED <<file, impl, disk, head, lane, dense, faults>>

\* loadVault goes on with ensureActiveRetrievalSnapshot, which looks at the vault once more.
Prepare(o) ==
  /\ op[o].at = "published" /\ op[o].kind = "warm"
  /\ EnsureActive(o, [op EXCEPT ![o].kind = "retrieval"])
  /\ UNCHANGED <<file, impl, disk, head, lane, dense, faults>>

\* ensureActiveRetrievalSnapshot: vectors of this snapshot are there, or are asked for.
Retrieve(o) ==
  /\ op[o].at = "published" /\ op[o].kind = "retrieval"
  /\ LET s == op[o].answer IN
     IF EnsureLoaded(s) /\ ~TryPin(s)
     THEN dense' = Append(dense, DenseFor(s, TRUE)) /\ op' = [op EXCEPT ![o].at = "retrieving"]
     ELSE op' = [op EXCEPT ![o] = Done(@)] /\ UNCHANGED dense
  /\ loaded' = IF EnsureLoaded(op[o].answer) THEN loaded \union {op[o].answer} ELSE loaded
  /\ UNCHANGED <<file, impl, disk, head, lane, faults>>

-----------------------------------------------------------------------------
Edits == FoldLeft(LAMBDA n, p : n + file[p] - 1, 0, SetToSeq(Part))
Running(o) == op[o].at \notin {"off", "done", "failed"}

Edit(p) ==
  /\ Edits < MaxEdits
  /\ file' = [file EXCEPT ![p] = @ + 1]
  /\ op' = [o \in Op |-> IF Running(o) THEN [op[o] EXCEPT !.seen = @ \union {file'}] ELSE op[o]]
  /\ UNCHANGED <<impl, disk, head, loaded, lane, dense, faults>>

\* A file of the head is damaged or lost.
Worse ==
  LET s == Head(head).snap IN
  (UNION {{[disk EXCEPT !.segments = @ \ {g}, !.damaged = @ \union {g}], [disk EXCEPT !.segments = @ \ {g}]} :
           g \in Segments(s) \intersect disk.segments})
    \union {[disk EXCEPT !.manifests = {m \in @ : m.snap /= s}], [disk EXCEPT !.graphs = @ \ {s}],
            [disk EXCEPT !.retrievals = @ \ {s}]}

Damage ==
  /\ faults < MaxFaults /\ head /= << >>
  /\ faults' = faults + 1
  /\ disk' \in Worse
  /\ op' = [o \in Op |-> [op[o] EXCEPT !.hurt = Running(o) \/ @ \/ op[o].kind = "refresh"]]
  /\ UNCHANGED <<file, impl, head, loaded, lane, dense>>

\* The daemon ends and another build of it starts.
Restart ==
  /\ impl < MaxImpl
  /\ impl' = impl + 1
  /\ loaded' = {}
  /\ op' = [o \in Op |-> IF op[o].at = "off" THEN NoOp ELSE [NoOp EXCEPT !.at = "lost"]]
  /\ lane' = NoJob
  /\ dense' = << >>
  /\ UNCHANGED <<file, disk, head, faults>>

Next ==
  \/ \E o \in Op :
       \/ \E k \in {"pin", "compact"} : PinOrCompact(o, k)
       \/ \E k \in {"refresh", "warm"} : RefreshOrWarm(o, k)
       \/ Rebuild(o) \/ Clear(o) \/ Begin(o) \/ Cleared(o) \/ Pin(o) \/ Prepare(o) \/ Retrieve(o)
  \/ Build \/ Publish \/ TakeDense \/ \E ok \in BOOLEAN : EndDense(ok)
  \/ \E p \in Part : Edit(p)
  \/ Damage \/ Restart

Spec == Init /\ [][Next]_vars

-----------------------------------------------------------------------------
\* The segments of a snapshot were all made by the program that its manifest names: nothing that
\* another build of the program made is carried on by way of a base (reusableBaseForSnapshot), however
\* often snapshots are made upon each other.
MadeByOne == \A m \in disk.manifests : \A p \in Part : m.snap.by[p] = m.impl

\* A published edition is whole on disk at that moment, whatever was damaged before and while it was
\* made: publishing repairs (publishBuiltSnapshot).
PublishingRepairs ==
  lane.job = "publish" /\ head' /= head => Whole(disk', Head(head').snap)

\* A request is answered with a snapshot of the vault as it was at some moment of the request.
AnswersAreCurrent ==
  \A o \in Op : op[o].current /\ (op[o].at = "retrieving" => op[o].answer.corpus \in op[o].seen)

\* A request fails only when a file was lost or damaged while it ran: older damage is found and
\* repaired by publishing anew.
FailuresAreNew == \A o \in Op : op[o].at = "failed" => op[o].hurt

\* After a refresh the vault has its vectors, unless making them failed or a file was lost since; that
\* the edition already says so does not keep them from being made again.
RefreshBringsVectors ==
  \A o \in Op :
    /\ op[o].at = "done" /\ op[o].kind = "refresh" /\ ~op[o].hurt
    /\ \A p \in Op : op[p].kind \in {"none", "refresh", "rebuild", "warm", "retrieval"}
    /\ lane = NoJob /\ dense = << >> /\ \A p \in Op : ~Running(p)
    => RetrievalReady(Head(head)) \/ Head(head).dense = "failed"

\* The invariants together.
Sound == MadeByOne /\ AnswersAreCurrent /\ FailuresAreNew /\ RefreshBringsVectors
=============================================================================
