------------------------------- MODULE VectorPool -------------------------------
(***************************************************************************)
(* The vector generations of one embedding set of a vault, in one daemon:   *)
(* vector-store/pool.ts and the dense halves of snapshot-store.ts and       *)
(* publisher.ts.  The lane builds a generation in a staging directory,      *)
(* renames it to the directory of its manifest and opens it as the active   *)
(* handle; readers lease handles; the sweep removes directories that        *)
(* nothing names, and then the root of the whole set when it is empty.      *)
(*                                                                          *)
(* A generation is named by its corpus revision, a directory by the content *)
(* of the vectors: two revisions of the same documents share a directory.   *)
(***************************************************************************)
EXTENDS Naturals, Sequences, FiniteSets

CONSTANTS Gen,         \* generations
          DirOf(_),    \* the directory that a generation's manifest names
          Reader,      \* requests that attach a generation
          MaxHandles,  \* bound: handles the pool ever opens
          MaxEvents,   \* bound: builds, clears and failures
          None

VARIABLES disk,    \* what each directory under generations/ holds
          tree,    \* what the staging directory holds, and the reservation claim
          ledger,  \* the generation of the latest fresh edition, and the events so far
          build,   \* the build under way
          handles, \* handles by order of opening: generation, leases, draining, closed
          active,  \* the handle in the active slot, or 0
          opening, \* lazy opens under way, by generation
          reader,  \* the requests
          sweep    \* the sweep under way

vars == <<disk, tree, ledger, build, handles, active, opening, reader, sweep>>

Dirs == {DirOf(g) : g \in Gen}

NoBuild == [pc |-> "idle", gen |-> None]
NoSweep == [pc |-> "idle", pinned |-> {}, has |-> FALSE]
Idle    == [pc |-> "idle", gen |-> None, handle |-> 0, late |-> FALSE]

\* A directory holds the vectors, and the metadata that names a generation.
Contents == [there : BOOLEAN, db : BOOLEAN, meta : Gen \cup {None}]
Absent == [there |-> FALSE, db |-> FALSE, meta |-> None]
Built  == [there |-> TRUE, db |-> TRUE, meta |-> None]

Full(g) == [there |-> TRUE, db |-> TRUE, meta |-> g]

\* The metadata of the generation is read, ...
Listed(g) == disk[DirOf(g)].meta = g

\* ... and its vectors are there.
Whole(g) == disk[DirOf(g)] = Full(g)

\* A last daemon left an edition or none, and directories that no edition names: whole ones
\* that were not swept, those of a build that did not store the metadata, and what is left
\* of one when the daemon died in the midst of its removal.
Init ==
  /\ \E e \in Gen \cup {None} :
       /\ ledger = [fresh |-> e, events |-> 0, torn |-> FALSE, closed |-> FALSE]
       /\ \E left \in [Dirs -> Contents] :
            /\ \A d \in Dirs : left[d].there \/ left[d] = Absent
            /\ \A d \in Dirs : left[d].meta # None => DirOf(left[d].meta) = d
            /\ disk = left
            /\ e # None => Whole(e)
  /\ tree = [staging |-> Absent, reserved |-> None]
  /\ build = NoBuild /\ handles = <<>> /\ active = 0
  /\ opening = [g \in Gen |-> [pc |-> "none", target |-> 0]]
  /\ reader = [r \in Reader |-> Idle]
  /\ sweep = NoSweep

Event ==
  /\ ledger.events < MaxEvents
  /\ ledger' = [ledger EXCEPT !.events = @ + 1]

-----------------------------------------------------------------------------
(* Handles.                                                                 *)

NewHandle(g, leases) == [gen |-> g, leases |-> leases, draining |-> FALSE, closed |-> FALSE]

\* closeWhenDrained, up to where it waits for the last lease.
Retired(h) == [h EXCEPT !.draining = TRUE, !.closed = (h.leases = 0)]

\* The active handle serves the generation.
ActiveIs(g) == active # 0 /\ handles[active].gen = g

\* flipActive: g's new handle takes the slot and the old one drains.
FlipTo(g, leases) ==
  /\ Len(handles) < MaxHandles
  /\ handles' = Append([k \in DOMAIN handles |-> IF k = active THEN Retired(handles[k])
                                                 ELSE handles[k]], NewHandle(g, leases))
  /\ active' = Len(handles) + 1

-----------------------------------------------------------------------------
(* The build of a dense edition, on the lane.                               *)

\* buildRetrievalSnapshotPublication takes the reservation before anything is visible.
Reserve(g) ==
  /\ build.pc = "idle"
  /\ Event
  /\ build' = [pc |-> "reserved", gen |-> g]
  /\ tree' = [tree EXCEPT !.reserved = DirOf(g)]
  /\ UNCHANGED <<disk, handles, active, opening, reader, sweep>>

\* The publication is dropped: finally removes the staging directory, catch the reservation.
GiveUp ==
  /\ build' = NoBuild
  /\ tree' = [staging |-> Absent, reserved |-> None]

\* inspectExistingGeneration, then the staging directory.
Inspect ==
  /\ build.pc = "reserved"
  /\ \/ /\ ledger.closed
        /\ GiveUp
     \/ /\ ~ledger.closed /\ Whole(build.gen)
        /\ build' = [build EXCEPT !.pc = "stored"]
        /\ UNCHANGED tree
     \/ /\ ~ledger.closed /\ ~disk[DirOf(build.gen)].there
        /\ build' = [build EXCEPT !.pc = "staging"]
        /\ tree' = [tree EXCEPT !.staging = Built]
     \/ /\ ~ledger.closed /\ disk[DirOf(build.gen)].there /\ ~Whole(build.gen)
        /\ build' = [build EXCEPT !.pc = "refused"]
        /\ UNCHANGED tree
  /\ UNCHANGED <<disk, ledger, handles, active, opening, reader, sweep>>

Refused ==
  /\ build.pc = "refused"
  /\ GiveUp
  /\ UNCHANGED <<disk, ledger, handles, active, opening, reader, sweep>>

\* publishBuiltGenerationDirectory: fails when the staging directory is gone or the
\* final one has appeared.
Publish ==
  /\ build.pc = "staging"
  /\ IF tree.staging.there /\ ~disk[DirOf(build.gen)].there
     THEN /\ disk' = [disk EXCEPT ![DirOf(build.gen)] = tree.staging]
          /\ tree' = [tree EXCEPT !.staging = Absent]
          /\ build' = [build EXCEPT !.pc = "renamed"]
     ELSE GiveUp /\ UNCHANGED disk
  /\ UNCHANGED <<ledger, handles, active, opening, reader, sweep>>

\* storeVectorGenerationMetadata: makes the directory again when it is gone.
StoreMetadata ==
  /\ build.pc = "renamed"
  /\ disk' = [disk EXCEPT ![DirOf(build.gen)].there = TRUE, ![DirOf(build.gen)].meta = build.gen]
  /\ build' = [build EXCEPT !.pc = "stored"]
  /\ UNCHANGED <<tree, ledger, handles, active, opening, reader, sweep>>

\* promoteBuiltGeneration: nothing to do when the generation is the active one.
StartPromote ==
  /\ build.pc = "stored"
  /\ IF ledger.closed THEN GiveUp
     ELSE /\ build' = [build EXCEPT !.pc = IF ActiveIs(build.gen) THEN "promoted" ELSE "opening"]
          /\ UNCHANGED tree
  /\ UNCHANGED <<disk, ledger, handles, active, opening, reader, sweep>>

\* Its instance is open: a lazy open may have been faster.
Promote ==
  /\ build.pc = "opening"
  /\ IF ActiveIs(build.gen) THEN UNCHANGED <<handles, active>> ELSE FlipTo(build.gen, 0)
  /\ build' = [build EXCEPT !.pc = "promoted"]
  /\ UNCHANGED <<disk, tree, ledger, opening, reader, sweep>>

\* The edition that names the generation commits, and the reservation is released.
Commit ==
  /\ build.pc = "promoted"
  /\ ledger' = [ledger EXCEPT !.fresh = build.gen]
  /\ GiveUp
  /\ UNCHANGED <<disk, handles, active, opening, reader, sweep>>

\* The child process or the write of the metadata fails, or the edition is not committed after all.
BuildFails ==
  /\ build.pc \in {"staging", "renamed", "opening", "promoted"}
  /\ Event
  /\ GiveUp
  /\ UNCHANGED <<disk, handles, active, opening, reader, sweep>>

\* clear removes the ledgers.
Clear ==
  /\ build.pc = "idle" /\ ledger.fresh # None /\ ledger.events < MaxEvents
  /\ ledger' = [ledger EXCEPT !.fresh = None, !.events = @ + 1]
  /\ UNCHANGED <<disk, tree, build, handles, active, opening, reader, sweep>>

-----------------------------------------------------------------------------
(* Readers.                                                                 *)

\* resolveDenseRetrievalEnvelope reads the edition, then loads its snapshot.
Resolve(r) ==
  /\ reader[r].pc = "idle" /\ ledger.fresh # None
  /\ reader' = [reader EXCEPT ![r].pc = "resolving", ![r].gen = ledger.fresh]
  /\ UNCHANGED <<disk, tree, ledger, build, handles, active, opening, sweep>>

\* tryAttachDenseGeneration from there to its next await: the metadata is read and the
\* generation pinned; it is leased if it is active, ...
Attach(r) ==
  LET g == reader[r].gen IN
  /\ reader[r].pc = "resolving"
  /\ Listed(g) /\ ~ledger.closed /\ ActiveIs(g)
  /\ handles' = [handles EXCEPT ![active].leases = @ + 1]
  /\ reader' = [reader EXCEPT ![r].pc = "leased", ![r].handle = active]
  /\ UNCHANGED <<disk, tree, ledger, build, active, opening, sweep>>

\* ... an open of it that is under way is waited for, whatever is active by now, or it is
\* opened if nothing is active and its vectors are there, ...
CanOpen(g) == opening[g].pc # "none" \/ (active = 0 /\ disk[DirOf(g)].db)

AttachOpens(r) ==
  LET g == reader[r].gen IN
  /\ reader[r].pc = "resolving"
  /\ Listed(g) /\ ~ledger.closed /\ ~ActiveIs(g) /\ CanOpen(g)
  /\ reader' = [reader EXCEPT ![r].pc = "opening"]
  /\ opening' = IF opening[g].pc = "none" THEN [opening EXCEPT ![g].pc = "opening"] ELSE opening
  /\ UNCHANGED <<disk, tree, ledger, build, handles, active, sweep>>

\* ... and otherwise the request goes on without vectors.
AttachFails(r) ==
  LET g == reader[r].gen IN
  /\ reader[r].pc = "resolving"
  /\ ~Listed(g) \/ ledger.closed \/ (~ActiveIs(g) /\ ~CanOpen(g))
  /\ reader' = [reader EXCEPT ![r] = Idle]
  /\ UNCHANGED <<disk, tree, ledger, build, handles, active, opening, sweep>>

Waiters(g) == {r \in Reader : reader[r].pc = "opening" /\ reader[r].gen = g}

Leased(g, h) ==
  [r \in Reader |->
     IF r \in Waiters(g)
     THEN [reader[r] EXCEPT !.pc = "leased", !.handle = h,
                            !.late = h <= Len(handles) /\ handles[h].draining]
     ELSE reader[r]]

Landed(g) == [opening EXCEPT ![g] = [pc |-> "none", target |-> 0]]

\* openGeneration: its instance is open, and it takes the empty slot.
OpenTakesSlot(g) ==
  /\ opening[g].pc = "opening" /\ active = 0
  /\ FlipTo(g, Cardinality(Waiters(g)))
  /\ reader' = Leased(g, Len(handles) + 1)
  /\ opening' = Landed(g)
  /\ UNCHANGED <<disk, tree, ledger, build, sweep>>

\* A promotion of the same generation was faster: the open closes its own instance first.
OpenYields(g) ==
  /\ opening[g].pc = "opening" /\ ActiveIs(g)
  /\ opening' = [opening EXCEPT ![g] = [pc |-> "closing", target |-> active]]
  /\ UNCHANGED <<disk, tree, ledger, build, handles, active, reader, sweep>>

Yielded(g) ==
  LET h == opening[g].target IN
  /\ opening[g].pc = "closing"
  /\ handles' = [handles EXCEPT ![h].leases = @ + Cardinality(Waiters(g))]
  /\ reader' = Leased(g, h)
  /\ opening' = Landed(g)
  /\ UNCHANGED <<disk, tree, ledger, build, active, sweep>>

\* Another generation took the slot, or the child failed: the waiters are refused.
OpenFails(g) ==
  /\ opening[g].pc = "opening"
  /\ IF active # 0 /\ ~ActiveIs(g) THEN UNCHANGED ledger ELSE Event
  /\ reader' = [r \in Reader |-> IF r \in Waiters(g) THEN Idle ELSE reader[r]]
  /\ opening' = Landed(g)
  /\ UNCHANGED <<disk, tree, build, handles, active, sweep>>

Released_Early(h) == [h EXCEPT !.leases = @ - 1, !.closed = @ \/ h.draining]

\* The last lease of a draining handle lets it close.
Released(h) == [h EXCEPT !.leases = @ - 1, !.closed = @ \/ (h.draining /\ h.leases = 1)]

\* releaseReadContext
Release(r) ==
  /\ reader[r].pc = "leased"
  /\ handles' = [handles EXCEPT ![reader[r].handle] = Released(@)]
  /\ reader' = [reader EXCEPT ![r] = Idle]
  /\ UNCHANGED <<disk, tree, ledger, build, active, opening, sweep>>

\* close: refuses new work, and closes every handle when it is drained.
ClosePool ==
  /\ ~ledger.closed
  /\ ledger' = [ledger EXCEPT !.closed = TRUE]
  /\ handles' = [k \in DOMAIN handles |-> IF handles[k].draining THEN handles[k] ELSE Retired(handles[k])]
  /\ active' = 0
  /\ UNCHANGED <<disk, tree, build, opening, reader, sweep>>

-----------------------------------------------------------------------------
(* The sweep.                                                               *)

\* The handles that the pool may still have: the latest of each generation. One that has begun
\* to close is dropped when its child process is gone.
Mapped(k) == \A i \in DOMAIN handles : i > k => handles[i].gen # handles[k].gen

\* markSweepVectorGc notes the handles in use, then waits for the set's claim.
StartSweep ==
  /\ sweep.pc = "idle"
  /\ \E gone \in SUBSET {k \in DOMAIN handles : handles[k].closed} :
       LET used == {k \in DOMAIN handles \ gone : Mapped(k) /\ handles[k].leases > 0} IN
         sweep' = [NoSweep EXCEPT !.pc = "sweeping", !.pinned = {DirOf(handles[k].gen) : k \in used}]
  /\ UNCHANGED <<disk, tree, ledger, build, handles, active, opening, reader>>

\* The directories that readers have pinned, as the store counts them now.
PinnedNow == {DirOf(reader[r].gen) : r \in {q \in Reader : reader[q].pc \in {"opening", "leased"}}}

Kept_StalePins(d) ==
  \/ ledger.fresh # None /\ DirOf(ledger.fresh) = d
  \/ d \in sweep.pinned
  \/ tree.reserved = d

\* sweepVectorGenerations: a directory stays when an edition names it, a reader uses it,
\* or a build has reserved it.
Kept(d) ==
  \/ ledger.fresh # None /\ DirOf(ledger.fresh) = d
  \/ d \in sweep.pinned \cup PinnedNow
  \/ tree.reserved = d

SweepDirectories ==
  /\ sweep.pc = "sweeping"
  /\ disk' = [d \in Dirs |-> IF Kept(d) THEN disk[d] ELSE Absent]
  /\ sweep' = [sweep EXCEPT !.pc = "swept"]
  /\ UNCHANGED <<tree, ledger, build, handles, active, opening, reader>>

\* It looks whether a directory is left, ...
LookForGenerations ==
  /\ sweep.pc = "swept"
  /\ sweep' = [sweep EXCEPT !.pc = "looked", !.has = \E d \in Dirs : disk[d].there]
  /\ UNCHANGED <<disk, tree, ledger, build, handles, active, opening, reader>>

\* ... whether an edition names one, ...
Decide ==
  /\ sweep.pc = "looked"
  /\ sweep' = IF ~sweep.has /\ ledger.fresh = None THEN [sweep EXCEPT !.pc = "removing"] ELSE NoSweep
  /\ UNCHANGED <<disk, tree, ledger, build, handles, active, opening, reader>>

\* What is left of a directory when one more of its entries is gone, or at last itself.
Less(c) ==
  {[c EXCEPT !.db = FALSE], [c EXCEPT !.meta = None]}
    \cup (IF c.db \/ c.meta # None THEN {} ELSE {Absent})

\* ... and removes the root, with generations, staging and reservations, entry by entry while
\* everything else goes on, until it is gone or an entry cannot be removed.
RemoveRoot ==
  /\ sweep.pc = "removing"
  /\ \/ /\ \E d \in Dirs : \E c \in Less(disk[d]) : disk' = [disk EXCEPT ![d] = c]
        /\ UNCHANGED <<tree, sweep>>
     \/ /\ \/ \E c \in Less(tree.staging) : tree' = [tree EXCEPT !.staging = c]
           \/ tree' = [tree EXCEPT !.reserved = None]
        /\ UNCHANGED <<disk, sweep>>
     \/ /\ sweep' = NoSweep
        /\ UNCHANGED <<disk, tree>>
  /\ ledger' = [ledger EXCEPT !.torn = @ \/ disk' # disk \/ tree' # tree]
  /\ UNCHANGED <<build, handles, active, opening, reader>>

Next ==
  \/ \E g \in Gen : Reserve(g) \/ OpenTakesSlot(g) \/ OpenYields(g) \/ Yielded(g) \/ OpenFails(g)
  \/ Inspect \/ Refused \/ Publish \/ StoreMetadata \/ StartPromote \/ Promote \/ Commit
  \/ BuildFails \/ Clear \/ ClosePool
  \/ \E r \in Reader : Resolve(r) \/ Attach(r) \/ AttachOpens(r) \/ AttachFails(r) \/ Release(r)
  \/ StartSweep \/ SweepDirectories \/ LookForGenerations \/ Decide \/ RemoveRoot

Spec == Init /\ [][Next]_vars

-----------------------------------------------------------------------------
\* What an edition names or a reader uses stays on disk, unless part of the root was removed
\* under a build (docs/lifecycle.md, "GC roots": a pinned or in-flight artifact always survives).
NamedAndPinnedSurvive ==
  ledger.torn
  \/ /\ ledger.fresh # None => Whole(ledger.fresh)
     /\ \A r \in Reader : reader[r].pc \in {"opening", "leased"} => Whole(reader[r].gen)

\* A reader's handle is open until the reader lets it go ("no query ever reads a half-closed
\* index"), unless it came from an open that yielded to a handle which was retired meanwhile.
LeaseIsUsable ==
  \A r \in Reader : reader[r].pc = "leased" =>
     /\ handles[reader[r].handle].leases > 0
     /\ handles[reader[r].handle].gen = reader[r].gen
     /\ handles[reader[r].handle].closed => reader[r].late

\* What is in use is there to be used: on disk, and in memory.
VectorsSurvive == NamedAndPinnedSurvive /\ LeaseIsUsable

\* The claim of docs/lifecycle.md:668, which does not hold: the root of an embedding set is
\* removed while its first build is in flight.
InFlightSurvives == build.pc = "staging" => tree.staging.there
=================================================================================
