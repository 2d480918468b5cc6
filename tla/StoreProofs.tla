------------------------------- MODULE StoreProofs -------------------------------
(***************************************************************************)
(* Proofs about stores that are kept on the disk and removed when nothing   *)
(* needs them.  First the vector generations: VectorsSurvive holds of       *)
(* VectorPool, for any generations that share directories in any way, any   *)
(* readers, builds, clears, failures and sweeps.  Then the cache catalog    *)
(* and the refresh of snapshots, taken as instances under their own names;  *)
(* variables of the three that have one name have nothing to do with each   *)
(* other.                                                                   *)
(***************************************************************************)
EXTENDS VectorPool, FiniteSetTheorems, TLAPS

\* What the constants are.
ConstantsOK == IsFiniteSet(Reader) /\ None \notin Gen

Handle == [gen : Gen, leases : Nat, draining : BOOLEAN, closed : BOOLEAN]
Request ==
  [pc : {"idle", "resolving", "opening", "leased"}, gen : Gen \cup {None}, handle : Nat, late : BOOLEAN]

BuildPC == {"idle", "reserved", "staging", "refused", "renamed", "stored", "opening", "promoted"}
BuildState == [pc : BuildPC, gen : Gen \cup {None}]
Ledger == [fresh : Gen \cup {None}, events : Nat, torn : BOOLEAN, closed : BOOLEAN]
Tree == [staging : Contents, reserved : Dirs \cup {None}]
Opening == [pc : {"none", "opening", "closing"}, target : Nat]
Sweep == [pc : {"idle", "sweeping", "swept", "looked", "removing"}, pinned : SUBSET Dirs, has : BOOLEAN]

TypeOK ==
  /\ disk \in [Dirs -> Contents] /\ ledger \in Ledger /\ tree \in Tree
  /\ build \in BuildState /\ handles \in Seq(Handle) /\ active \in 0 .. Len(handles)
  /\ opening \in [Gen -> Opening] /\ reader \in [Reader -> Request] /\ sweep \in Sweep

\* A directory that is not there holds nothing.
AbsentIsEmpty == \A d \in Dirs : disk[d].there \/ disk[d] = Absent

\* Until part of the root is removed under something, a build has its directory reserved from
\* beginning to end, and finds there what it has written.
BuildIsKept ==
  build.pc # "idle" =>
    /\ build.gen \in Gen
    /\ ~ledger.torn =>
         /\ tree.reserved = DirOf(build.gen)
         /\ build.pc = "staging" => tree.staging = Built
         /\ build.pc = "renamed" => disk[DirOf(build.gen)] = Built
         /\ build.pc \in {"stored", "opening", "promoted"} => Whole(build.gen)

\* ... and a request finds all of its generation if it finds the metadata.
FoundIsWhole ==
  ~ledger.torn =>
    \A r \in Reader : reader[r].pc # "idle" /\ Listed(reader[r].gen) => Whole(reader[r].gen)

Holders(k) == {r \in Reader : reader[r].pc = "leased" /\ reader[r].handle = k}

\* A request has a generation, and a lease a handle of that generation.
RequestsFit ==
  \A r \in Reader :
    /\ reader[r].pc # "idle" => reader[r].gen \in Gen
    /\ reader[r].pc = "leased" =>
         reader[r].handle \in 1 .. Len(handles) /\ handles[reader[r].handle].gen = reader[r].gen

\* A handle counts its holders; it closes only for nobody, or for those that came late.
LeasesAreCounted ==
  \A k \in 1 .. Len(handles) :
    /\ handles[k].leases = Cardinality(Holders(k))
    /\ handles[k].closed => handles[k].draining /\ \A r \in Holders(k) : reader[r].late

\* The active handle does not drain, and an open that yields does so to a handle of its own generation.
SlotsFit ==
  /\ active # 0 => ~handles[active].draining
  /\ \A g \in Gen : opening[g].pc = "closing" =>
       opening[g].target \in 1 .. Len(handles) /\ handles[opening[g].target].gen = g

Inv ==
  /\ TypeOK /\ AbsentIsEmpty /\ BuildIsKept /\ FoundIsWhole
  /\ RequestsFit /\ LeasesAreCounted /\ SlotsFit /\ NamedAndPinnedSurvive

-----------------------------------------------------------------------------
(* Handles.                                                                 *)

\* What a handle is, and what may be changed in one.
LEMMA HandleIs ==
  ASSUME NEW h \in Handle
  PROVE  /\ h.gen \in Gen /\ h.leases \in Nat /\ h.draining \in BOOLEAN /\ h.closed \in BOOLEAN
         /\ \A n \in Nat : [h EXCEPT !.leases = n] \in Handle
         /\ Retired(h) \in Handle
         /\ Retired(h).gen = h.gen /\ Retired(h).leases = h.leases
         /\ Retired(h).draining /\ (Retired(h).closed <=> h.leases = 0)
         /\ h.leases > 0 => Released(h) \in Handle
         /\ Released(h).gen = h.gen /\ Released(h).leases = h.leases - 1
         /\ Released(h).draining = h.draining
         /\ Released(h).closed <=> h.closed \/ (h.draining /\ h.leases = 1)
<1>1. h.gen \in Gen /\ h.leases \in Nat /\ h.draining \in BOOLEAN /\ h.closed \in BOOLEAN
  BY DEF Handle
<1>2. \A n \in Nat : [h EXCEPT !.leases = n] \in Handle
  BY DEF Handle
<1>3. Retired(h) \in Handle
  BY DEF Handle, Retired
<1>4. /\ Retired(h).gen = h.gen /\ Retired(h).leases = h.leases
      /\ Retired(h).draining /\ (Retired(h).closed <=> h.leases = 0)
  BY DEF Handle, Retired
<1>5. h.leases > 0 => Released(h) \in Handle
  <2>1. h.leases > 0 => h.leases - 1 \in Nat
    BY <1>1
  <2> QED BY <1>1, <2>1 DEF Handle, Released
<1>6. /\ Released(h).gen = h.gen /\ Released(h).leases = h.leases - 1
      /\ Released(h).draining = h.draining
  BY DEF Handle, Released
<1>7. Released(h).closed <=> h.closed \/ (h.draining /\ h.leases = 1)
  BY DEF Handle, Released
<1> QED BY <1>1, <1>2, <1>3, <1>4, <1>5, <1>6, <1>7

\* A function over the numbers of the handles is a sequence of handles.
LEMMA HandlesAre ==
  ASSUME handles \in Seq(Handle), NEW f \in [1 .. Len(handles) -> Handle]
  PROVE  f \in Seq(Handle) /\ Len(f) = Len(handles)
<1>1. Len(handles) \in Nat
  OBVIOUS
<1> QED BY <1>1

\* What flipActive opens.
LEMMA NewHandleIs ==
  ASSUME NEW g \in Gen, NEW n \in Nat
  PROVE  /\ NewHandle(g, n) \in Handle
         /\ NewHandle(g, n).gen = g /\ NewHandle(g, n).leases = n
         /\ ~NewHandle(g, n).draining /\ ~NewHandle(g, n).closed
  BY DEF NewHandle, Handle

\* flipActive appends a handle and lets the active one drain.
LEMMA FlipIs ==
  ASSUME TypeOK, NEW g \in Gen, NEW n \in Nat, FlipTo(g, n)
  PROVE  /\ handles' \in Seq(Handle) /\ Len(handles') = Len(handles) + 1
         /\ active' = Len(handles) + 1
         /\ \A k \in 1 .. Len(handles) :
              /\ handles'[k].gen = handles[k].gen /\ handles'[k].leases = handles[k].leases
              /\ handles'[k].draining <=> handles[k].draining \/ k = active
              /\ handles'[k].closed <=> IF k = active THEN handles[k].leases = 0 ELSE handles[k].closed
         /\ handles'[Len(handles) + 1].gen = g /\ handles'[Len(handles) + 1].leases = n
         /\ ~handles'[Len(handles) + 1].draining /\ ~handles'[Len(handles) + 1].closed
<1> DEFINE f == [k \in DOMAIN handles |-> IF k = active THEN Retired(handles[k]) ELSE handles[k]]
<1>1. handles \in Seq(Handle) /\ Len(handles) \in Nat /\ DOMAIN handles = 1 .. Len(handles)
      /\ \A k \in 1 .. Len(handles) : handles[k] \in Handle
  BY DEF TypeOK
<1>2. f \in [1 .. Len(handles) -> Handle]
  BY <1>1, HandleIs
<1>3. f \in Seq(Handle) /\ Len(f) = Len(handles)
  BY <1>1, <1>2, HandlesAre
<1>4. handles' = Append(f, NewHandle(g, n)) /\ active' = Len(handles) + 1
  BY DEF FlipTo
<1>5. \A k \in 1 .. Len(handles) : f[k] = IF k = active THEN Retired(handles[k]) ELSE handles[k]
  BY <1>1
<1> HIDE DEF f
<1>6. NewHandle(g, n) \in Handle
  BY NewHandleIs
<1>7. handles' \in Seq(Handle) /\ Len(handles') = Len(handles) + 1
  BY <1>3, <1>4, <1>6
<1>8. /\ \A k \in 1 .. Len(handles) : handles'[k] = f[k]
      /\ handles'[Len(handles) + 1] = NewHandle(g, n)
  BY <1>1, <1>3, <1>4, <1>6
<1>9. \A k \in 1 .. Len(handles) :
              /\ handles'[k].gen = handles[k].gen /\ handles'[k].leases = handles[k].leases
              /\ handles'[k].draining <=> handles[k].draining \/ k = active
              /\ handles'[k].closed <=> IF k = active THEN handles[k].leases = 0 ELSE handles[k].closed
  BY <1>1, <1>5, <1>8, HandleIs
<1> QED BY <1>4, <1>7, <1>8, <1>9, NewHandleIs

\* A handle gets more leases.
LEMMA LeaseIs ==
  ASSUME TypeOK, NEW k \in 1 .. Len(handles), NEW n \in Nat,
         handles' = [handles EXCEPT ![k].leases = @ + n]
  PROVE  /\ handles' \in Seq(Handle) /\ Len(handles') = Len(handles)
         /\ \A i \in 1 .. Len(handles) :
              /\ handles'[i].gen = handles[i].gen
              /\ handles'[i].draining = handles[i].draining /\ handles'[i].closed = handles[i].closed
              /\ handles'[i].leases = IF i = k THEN handles[k].leases + n ELSE handles[i].leases
<1>1. handles \in Seq(Handle) /\ Len(handles) \in Nat /\ DOMAIN handles = 1 .. Len(handles)
      /\ \A i \in 1 .. Len(handles) : handles[i] \in Handle
  BY DEF TypeOK
<1>2. handles' = [handles EXCEPT ![k] = [handles[k] EXCEPT !.leases = handles[k].leases + n]]
  BY <1>1
<1>3. handles[k].leases \in Nat
  BY <1>1, HandleIs
<1>4. handles[k].leases + n \in Nat
  BY <1>3
<1>5. [handles[k] EXCEPT !.leases = handles[k].leases + n] \in Handle
  BY <1>1, <1>4, HandleIs
<1>6. handles' \in [1 .. Len(handles) -> Handle]
  BY <1>1, <1>2, <1>5
<1>7. handles' \in Seq(Handle) /\ Len(handles') = Len(handles)
  BY <1>1, <1>6, HandlesAre
<1>8. \A i \in 1 .. Len(handles) :
        handles'[i] = IF i = k THEN [handles[k] EXCEPT !.leases = handles[k].leases + n] ELSE handles[i]
  BY <1>1, <1>2
<1> QED BY <1>1, <1>7, <1>8 DEF Handle

\* A holder lets go.
LEMMA ReleaseIs ==
  ASSUME TypeOK, NEW k \in 1 .. Len(handles), handles[k].leases > 0,
         handles' = [handles EXCEPT ![k] = Released(@)]
  PROVE  /\ handles' \in Seq(Handle) /\ Len(handles') = Len(handles)
         /\ \A i \in 1 .. Len(handles) :
              /\ handles'[i].gen = handles[i].gen /\ handles'[i].draining = handles[i].draining
              /\ i # k => handles'[i] = handles[i]
         /\ handles'[k].leases = handles[k].leases - 1
         /\ handles'[k].closed <=> handles[k].closed \/ (handles[k].draining /\ handles[k].leases = 1)
<1>1. handles \in Seq(Handle) /\ Len(handles) \in Nat /\ DOMAIN handles = 1 .. Len(handles)
      /\ \A i \in 1 .. Len(handles) : handles[i] \in Handle
  BY DEF TypeOK
<1>2. Released(handles[k]) \in Handle
  BY <1>1, HandleIs
<1>3. handles' \in [1 .. Len(handles) -> Handle]
  BY <1>1, <1>2
<1>4. handles' \in Seq(Handle) /\ Len(handles') = Len(handles)
  BY <1>1, <1>3, HandlesAre
<1>5. \A i \in 1 .. Len(handles) : handles'[i] = IF i = k THEN Released(handles[k]) ELSE handles[i]
  BY <1>1
<1> QED BY <1>1, <1>4, <1>5, HandleIs

\* close drains every handle.
LEMMA CloseIs ==
  ASSUME TypeOK, ClosePool
  PROVE  /\ handles' \in Seq(Handle) /\ Len(handles') = Len(handles)
         /\ \A i \in 1 .. Len(handles) :
              /\ handles'[i].gen = handles[i].gen /\ handles'[i].leases = handles[i].leases
              /\ handles'[i].draining
              /\ handles'[i].closed <=>
                   IF handles[i].draining THEN handles[i].closed ELSE handles[i].leases = 0
<1>1. handles \in Seq(Handle) /\ Len(handles) \in Nat /\ DOMAIN handles = 1 .. Len(handles)
      /\ \A i \in 1 .. Len(handles) : handles[i] \in Handle
  BY DEF TypeOK
<1>2. handles' = [k \in DOMAIN handles |-> IF handles[k].draining THEN handles[k] ELSE Retired(handles[k])]
  BY DEF ClosePool
<1>3. handles' \in [1 .. Len(handles) -> Handle]
  BY <1>1, <1>2, HandleIs
<1>4. handles' \in Seq(Handle) /\ Len(handles') = Len(handles)
  BY <1>1, <1>3, HandlesAre
<1>5. \A i \in 1 .. Len(handles) :
        handles'[i] = IF handles[i].draining THEN handles[i] ELSE Retired(handles[i])
  BY <1>1, <1>2
<1> QED BY <1>1, <1>4, <1>5, HandleIs

-----------------------------------------------------------------------------
(* Types.                                                                   *)

\* The same for the ledger,
LEMMA LedgerIs ==
  ASSUME NEW l \in Ledger
  PROVE  /\ l.fresh \in Gen \cup {None} /\ l.events \in Nat /\ l.torn \in BOOLEAN /\ l.closed \in BOOLEAN
         /\ [l EXCEPT !.events = @ + 1] \in Ledger
         /\ [l EXCEPT !.fresh = None, !.events = l.events + 1] \in Ledger
         /\ \A g \in Gen : [l EXCEPT !.fresh = g] \in Ledger
         /\ [l EXCEPT !.closed = TRUE] \in Ledger
         /\ \A b \in BOOLEAN : [l EXCEPT !.torn = b] \in Ledger
<1>1. [l EXCEPT !.events = @ + 1] \in Ledger
  BY DEF Ledger
<1>2. [l EXCEPT !.fresh = None, !.events = l.events + 1] \in Ledger
  <2>1. l.events + 1 \in Nat
    BY DEF Ledger
  <2>2. \A n \in Nat : [l EXCEPT !.fresh = None, !.events = n] \in Ledger
    BY DEF Ledger
  <2> QED BY <2>1, <2>2
<1> QED BY <1>1, <1>2 DEF Ledger

\* for a request,
LEMMA RequestIs ==
  ASSUME NEW q \in Request
  PROVE  /\ q.pc \in {"idle", "resolving", "opening", "leased"} /\ q.gen \in Gen \cup {None}
         /\ q.handle \in Nat /\ q.late \in BOOLEAN
         /\ \A g \in Gen : [q EXCEPT !.pc = "resolving", !.gen = g] \in Request
         /\ [q EXCEPT !.pc = "opening"] \in Request
         /\ \A h \in Nat : [q EXCEPT !.pc = "leased", !.handle = h] \in Request
         /\ \A h \in Nat, b \in BOOLEAN : [q EXCEPT !.pc = "leased", !.handle = h, !.late = b] \in Request
  BY DEF Request

\* a request that is over,
LEMMA IdleIs == Idle \in Request /\ Idle.pc = "idle"
  BY DEF Idle, Request

\* for what a directory holds,
LEMMA ContentIs ==
  /\ Absent \in Contents /\ Built \in Contents /\ \A g \in Gen : Full(g) \in Contents
  /\ ~Absent.there /\ Absent.meta = None /\ Built.there /\ Built.meta = None
  /\ \A g \in Gen : Full(g).there /\ Full(g).meta = g
<1>1. Absent \in Contents /\ Built \in Contents
  BY DEF Contents, Absent, Built
<1>2. \A g \in Gen : Full(g) \in Contents
  BY DEF Contents, Full
<1>3. ~Absent.there /\ Absent.meta = None /\ Built.there /\ Built.meta = None
  BY DEF Absent, Built
<1>4. \A g \in Gen : Full(g).there /\ Full(g).meta = g
  BY DEF Full
<1> QED BY <1>1, <1>2, <1>3, <1>4

\* with two that agree the same,
LEMMA SameContents ==
  ASSUME NEW a \in Contents, NEW b \in Contents,
         a.there = b.there, a.db = b.db, a.meta = b.meta
  PROVE  a = b
  BY DEF Contents

\* when the metadata is stored,
LEMMA MarkedIs ==
  ASSUME NEW g \in Gen
  PROVE  /\ \A c \in Contents : [c EXCEPT !.there = TRUE, !.meta = g] \in Contents
         /\ \A c \in Contents : [c EXCEPT !.there = TRUE, !.meta = g].there
         /\ [Built EXCEPT !.there = TRUE, !.meta = g] = Full(g)
<1>1. \A c \in Contents : [c EXCEPT !.there = TRUE, !.meta = g] \in Contents
  BY DEF Contents
<1>2. \A c \in Contents : [c EXCEPT !.there = TRUE, !.meta = g].there
  BY DEF Contents
<1>3. [Built EXCEPT !.there = TRUE, !.meta = g] = Full(g)
  <2> DEFINE c == [Built EXCEPT !.there = TRUE, !.meta = g]
  <2>1. c.there = TRUE /\ c.db = Built.db /\ c.meta = g
    BY ContentIs DEF Contents
  <2>2. Built.db = TRUE /\ Full(g).there = TRUE /\ Full(g).db = TRUE /\ Full(g).meta = g
    BY DEF Built, Full
  <2>3. c \in Contents /\ Full(g) \in Contents
    BY <1>1, ContentIs
  <2> HIDE DEF c
  <2>4. c = Full(g)
    BY <2>1, <2>2, <2>3, SameContents
  <2> QED BY <2>4 DEF c
<1> QED BY <1>1, <1>2, <1>3

\* when an entry of it is removed,
LEMMA LessIs ==
  ASSUME NEW c \in Contents, NEW l \in Less(c)
  PROVE  l \in Contents /\ (c.there \/ c = Absent => l.there \/ l = Absent)
<1>1. CASE l = [c EXCEPT !.db = FALSE]
  <2>1. l \in Contents /\ l.there = c.there
    BY <1>1 DEF Contents
  <2>2. c = Absent => l = Absent
    <3>1. l.there = c.there /\ l.db = FALSE /\ l.meta = c.meta
      BY <1>1 DEF Contents
    <3>2. Absent.db = FALSE
      BY DEF Absent
    <3> QED BY <2>1, <3>1, <3>2, SameContents
  <2> QED BY <2>1, <2>2
<1>2. CASE l = [c EXCEPT !.meta = None]
  <2>1. l \in Contents /\ l.there = c.there
    BY <1>2 DEF Contents
  <2>2. c = Absent => l = Absent
    <3>1. l.there = c.there /\ l.db = c.db /\ l.meta = None
      BY <1>2 DEF Contents
    <3> QED BY <2>1, <3>1, ContentIs, SameContents
  <2> QED BY <2>1, <2>2
<1> QED BY <1>1, <1>2, ContentIs DEF Less

\* for the staging directory and its reservation,
LEMMA TreeIs ==
  ASSUME NEW t \in Tree
  PROVE  /\ t.staging \in Contents /\ t.reserved \in Dirs \cup {None}
         /\ \A d \in Dirs \cup {None} : [t EXCEPT !.reserved = d] \in Tree
         /\ \A c \in Contents : [t EXCEPT !.staging = c] \in Tree
         /\ [staging |-> Absent, reserved |-> None] \in Tree
  BY ContentIs DEF Tree

\* for a build,
LEMMA BuildIs ==
  ASSUME NEW b \in BuildState
  PROVE  /\ b.pc \in BuildPC /\ b.gen \in Gen \cup {None}
         /\ \A pc \in BuildPC : [b EXCEPT !.pc = pc] \in BuildState
         /\ NoBuild \in BuildState /\ NoBuild.pc = "idle"
         /\ \A g \in Gen : [pc |-> "reserved", gen |-> g] \in BuildState
  BY DEF BuildState, NoBuild, BuildPC

\* and for a sweep.
LEMMA SweepIs ==
  ASSUME NEW w \in Sweep
  PROVE  /\ w.pc \in {"idle", "sweeping", "swept", "looked", "removing"} /\ w.pinned \subseteq Dirs
         /\ NoSweep \in Sweep
         /\ \A p \in SUBSET Dirs : [NoSweep EXCEPT !.pc = "sweeping", !.pinned = p] \in Sweep
         /\ [w EXCEPT !.pc = "swept"] \in Sweep /\ [w EXCEPT !.pc = "removing"] \in Sweep
         /\ \A b \in BOOLEAN : [w EXCEPT !.pc = "looked", !.has = b] \in Sweep
  BY DEF Sweep, NoSweep

\* A generation has a directory.
LEMMA DirIs == \A g \in Gen : DirOf(g) \in Dirs
  BY DEF Dirs

\* A build gives up.
LEMMA GiveUpIs ==
  ASSUME TypeOK, GiveUp
  PROVE  build' \in BuildState /\ build'.pc = "idle" /\ tree' \in Tree
  BY BuildIs, TreeIs DEF GiveUp, TypeOK

\* The number of waiters is a number.
LEMMA WaitersCount ==
  ASSUME ConstantsOK, NEW g \in Gen
  PROVE  Waiters(g) \subseteq Reader /\ IsFiniteSet(Waiters(g)) /\ Cardinality(Waiters(g)) \in Nat
<1>1. Waiters(g) \subseteq Reader
  BY DEF Waiters
<1> QED BY <1>1, FS_Subset, FS_CardinalityType DEF ConstantsOK

\* The holders of a handle can be counted.
LEMMA HoldersCount ==
  ASSUME ConstantsOK, NEW k
  PROVE  Holders(k) \subseteq Reader /\ IsFiniteSet(Holders(k)) /\ Cardinality(Holders(k)) \in Nat
<1>1. Holders(k) \subseteq Reader
  BY DEF Holders
<1> QED BY <1>1, FS_Subset, FS_CardinalityType DEF ConstantsOK

\* A lease is counted.
LEMMA HeldIsLeased ==
  ASSUME ConstantsOK, TypeOK, RequestsFit, LeasesAreCounted, NEW r \in Reader, reader[r].pc = "leased"
  PROVE  reader[r].handle \in 1 .. Len(handles) /\ handles[reader[r].handle].leases > 0
<1>1. r \in Holders(reader[r].handle)
  BY DEF Holders
<1>2. Holders(reader[r].handle) # {}
  BY <1>1
<1>3. Cardinality(Holders(reader[r].handle)) # 0
  BY <1>2, HoldersCount, FS_EmptySet
<1>4. reader[r].handle \in 1 .. Len(handles)
  BY DEF RequestsFit
<1>5. handles[reader[r].handle].leases = Cardinality(Holders(reader[r].handle))
  BY <1>4 DEF LeasesAreCounted
<1> QED BY <1>3, <1>4, <1>5, HoldersCount

\* What a lazy open may become.
LEMMA OpeningIs ==
  ASSUME TypeOK, NEW g \in Gen
  PROVE  /\ opening[g].pc \in {"none", "opening", "closing"} /\ opening[g].target \in Nat
         /\ [opening EXCEPT ![g].pc = "opening"] \in [Gen -> Opening]
         /\ Landed(g) \in [Gen -> Opening]
         /\ \A n \in Nat : [opening EXCEPT ![g] = [pc |-> "closing", target |-> n]] \in [Gen -> Opening]
<1>1. opening \in [Gen -> Opening] /\ opening[g] \in Opening
  BY DEF TypeOK
<1>2. [opening[g] EXCEPT !.pc = "opening"] \in Opening /\ [pc |-> "none", target |-> 0] \in Opening
      /\ \A n \in Nat : [pc |-> "closing", target |-> n] \in Opening
  BY <1>1 DEF Opening
<1>3. [opening EXCEPT ![g].pc = "opening"] = [opening EXCEPT ![g] = [opening[g] EXCEPT !.pc = "opening"]]
  BY <1>1
<1> QED BY <1>1, <1>2, <1>3 DEF Opening, Landed

\* The waiters get a handle.
LEMMA LeasedIs ==
  ASSUME TypeOK, NEW g \in Gen, NEW h \in Nat
  PROVE  /\ Leased(g, h) \in [Reader -> Request]
         /\ \A r \in Reader :
              /\ r \notin Waiters(g) => Leased(g, h)[r] = reader[r]
              /\ r \in Waiters(g) =>
                   /\ Leased(g, h)[r].pc = "leased" /\ Leased(g, h)[r].handle = h
                   /\ Leased(g, h)[r].gen = g
                   /\ Leased(g, h)[r].late <=> h <= Len(handles) /\ handles[h].draining
<1>1. \A r \in Reader : reader[r] \in Request
  BY DEF TypeOK
<1>2. (h <= Len(handles) /\ handles[h].draining) \in BOOLEAN
  OBVIOUS
<1>3. \A r \in Reader :
        r \in Waiters(g) => [reader[r] EXCEPT !.pc = "leased", !.handle = h,
                            !.late = h <= Len(handles) /\ handles[h].draining] \in Request
  BY <1>1, <1>2, RequestIs
<1>4. Leased(g, h) \in [Reader -> Request]
  BY <1>1, <1>3 DEF Leased
<1>5. \A r \in Reader \ Waiters(g) : Leased(g, h)[r] = reader[r]
  BY DEF Leased
<1>6. ASSUME NEW r \in Reader, r \in Waiters(g)
      PROVE  /\ Leased(g, h)[r].pc = "leased" /\ Leased(g, h)[r].handle = h
             /\ Leased(g, h)[r].gen = reader[r].gen
             /\ Leased(g, h)[r].late <=> h <= Len(handles) /\ handles[h].draining
  <2>1. Leased(g, h)[r] = [reader[r] EXCEPT !.pc = "leased", !.handle = h,
                            !.late = h <= Len(handles) /\ handles[h].draining]
    BY <1>6 DEF Leased
  <2> QED BY <1>1, <2>1 DEF Request
<1> QED BY <1>4, <1>5, <1>6 DEF Waiters

-----------------------------------------------------------------------------
(* Every step keeps the types.                                              *)

\* What storeVectorGenerationMetadata leaves.
LEMMA MetadataIs ==
  ASSUME TypeOK, StoreMetadata, build.gen \in Gen
  PROVE  disk' = [disk EXCEPT ![DirOf(build.gen)] =
                     [disk[DirOf(build.gen)] EXCEPT !.there = TRUE, !.meta = build.gen]]
  BY DirIs DEF TypeOK, StoreMetadata

\* Every step keeps the types.
LEMMA TypesHold == ASSUME ConstantsOK, Inv, [Next]_vars PROVE TypeOK'
<1>0. TypeOK /\ RequestsFit /\ LeasesAreCounted /\ SlotsFit
  BY DEF Inv
<1>1. \A r \in Reader : reader[r] \in Request
  BY <1>0 DEF TypeOK
<1>2. ASSUME NEW g \in Gen, Reserve(g) PROVE TypeOK'
  BY <1>0, <1>2, BuildIs, TreeIs, LedgerIs, DirIs DEF Reserve, Event, TypeOK
<1>3. ASSUME NEW g \in Gen, OpenTakesSlot(g) PROVE TypeOK'
  <2>1. FlipTo(g, Cardinality(Waiters(g))) /\ Cardinality(Waiters(g)) \in Nat
    BY <1>3, WaitersCount DEF OpenTakesSlot
  <2>2. handles' \in Seq(Handle) /\ Len(handles') = Len(handles) + 1 /\ active' = Len(handles) + 1
    BY <1>0, <2>1, FlipIs
  <2>3. Len(handles) + 1 \in Nat
    BY <1>0 DEF TypeOK
  <2>4. reader' \in [Reader -> Request]
    BY <1>0, <1>3, <2>3, LeasedIs DEF OpenTakesSlot
  <2>5. active' \in 0 .. Len(handles')
    BY <2>2, <2>3
  <2> QED BY <1>0, <1>3, <2>2, <2>4, <2>5, OpeningIs DEF OpenTakesSlot, TypeOK
<1>4. ASSUME NEW g \in Gen, OpenYields(g) PROVE TypeOK'
  <2>1. active \in Nat
    BY <1>0 DEF TypeOK
  <2> QED BY <1>0, <1>4, <2>1, OpeningIs DEF OpenYields, TypeOK
<1>5. ASSUME NEW g \in Gen, Yielded(g) PROVE TypeOK'
  <2>1. opening[g].target \in 1 .. Len(handles) /\ Cardinality(Waiters(g)) \in Nat
    BY <1>0, <1>5, WaitersCount DEF Yielded, SlotsFit
  <2>2. handles' \in Seq(Handle) /\ Len(handles') = Len(handles)
    BY <1>0, <1>5, <2>1, LeaseIs DEF Yielded
  <2>3. reader' \in [Reader -> Request]
    BY <1>0, <1>5, <2>1, LeasedIs DEF Yielded
  <2> QED BY <1>0, <1>5, <2>2, <2>3, OpeningIs DEF Yielded, TypeOK
<1>6. ASSUME NEW g \in Gen, OpenFails(g) PROVE TypeOK'
  <2>1. ledger' \in Ledger
    BY <1>0, <1>6, LedgerIs DEF OpenFails, Event, TypeOK
  <2>2. reader' \in [Reader -> Request]
    BY <1>0, <1>1, <1>6, IdleIs DEF OpenFails
  <2> QED BY <1>0, <1>6, <2>1, <2>2, OpeningIs DEF OpenFails, TypeOK
<1>7. ASSUME Inspect PROVE TypeOK'
  <2>0. Built \in Contents
    BY ContentIs
  <2>1. build' \in BuildState /\ tree' \in Tree
    <3>1. CASE GiveUp
      BY <1>0, <3>1, GiveUpIs
    <3>2. CASE build' = [build EXCEPT !.pc = "stored"] /\ UNCHANGED tree
      BY <1>0, <3>2, BuildIs DEF TypeOK, BuildPC
    <3>3. CASE build' = [build EXCEPT !.pc = "refused"] /\ UNCHANGED tree
      BY <1>0, <3>3, BuildIs DEF TypeOK, BuildPC
    <3>4. CASE build' = [build EXCEPT !.pc = "staging"] /\ tree' = [tree EXCEPT !.staging = Built]
      BY <1>0, <2>0, <3>4, BuildIs, TreeIs DEF TypeOK, BuildPC
    <3> QED BY <1>7, <3>1, <3>2, <3>3, <3>4 DEF Inspect
  <2> QED BY <1>0, <1>7, <2>1 DEF Inspect, TypeOK
<1>8. ASSUME Refused PROVE TypeOK'
  BY <1>0, <1>8, GiveUpIs DEF Refused, TypeOK
<1>9. ASSUME BuildIsKept, Publish PROVE TypeOK'
  <2>0. Absent \in Contents
    BY ContentIs
  <2>1. build' \in BuildState /\ tree' \in Tree
    <3>1. CASE GiveUp
      BY <1>0, <3>1, GiveUpIs
    <3>2. CASE build' = [build EXCEPT !.pc = "renamed"] /\ tree' = [tree EXCEPT !.staging = Absent]
      <4>1. build \in BuildState /\ tree \in Tree /\ "renamed" \in BuildPC
        BY <1>0 DEF TypeOK, BuildPC
      <4>2. build' \in BuildState
        BY <3>2, <4>1, BuildIs
      <4>3. tree' \in Tree
        BY <2>0, <3>2, <4>1, TreeIs
      <4> QED BY <4>2, <4>3
    <3> QED BY <1>9, <3>1, <3>2 DEF Publish
  <2>2. disk' \in [Dirs -> Contents]
    BY <1>0, <1>9, TreeIs DEF Publish, TypeOK
  <2> QED BY <1>0, <1>9, <2>1, <2>2 DEF Publish, TypeOK
<1>10. ASSUME BuildIsKept, StoreMetadata PROVE TypeOK'
  <2>1. build' \in BuildState
    BY <1>0, <1>10, BuildIs DEF StoreMetadata, TypeOK, BuildPC
  <2>2. disk' \in [Dirs -> Contents]
    BY <1>0, <1>10, MetadataIs, MarkedIs, DirIs DEF TypeOK, StoreMetadata, BuildIsKept
  <2> QED BY <1>0, <1>10, <2>1, <2>2 DEF StoreMetadata, TypeOK
<1>11. ASSUME StartPromote PROVE TypeOK'
  <2>1. build' \in BuildState /\ tree' \in Tree
    BY <1>0, <1>11, GiveUpIs, BuildIs DEF StartPromote, TypeOK, BuildPC
  <2> QED BY <1>0, <1>11, <2>1 DEF StartPromote, TypeOK
<1>12. ASSUME BuildIsKept, Promote PROVE TypeOK'
  <2>1. build' \in BuildState
    BY <1>0, <1>12, BuildIs DEF Promote, TypeOK, BuildPC
  <2>2. build.gen \in Gen
    BY <1>12 DEF Promote, BuildIsKept
  <2>3. handles' \in Seq(Handle) /\ active' \in 0 .. Len(handles')
    <3>1. CASE ActiveIs(build.gen)
      BY <1>0, <1>12, <3>1 DEF Promote, TypeOK
    <3>2. CASE FlipTo(build.gen, 0)
      <4>1. handles' \in Seq(Handle) /\ Len(handles') = Len(handles) + 1 /\ active' = Len(handles) + 1
        BY <1>0, <2>2, <3>2, FlipIs
      <4>2. Len(handles) + 1 \in Nat
        BY <1>0 DEF TypeOK
      <4> QED BY <4>1, <4>2
    <3> QED BY <1>12, <3>1, <3>2 DEF Promote
  <2> QED BY <1>0, <1>12, <2>1, <2>3 DEF Promote, TypeOK
<1>13. ASSUME BuildIsKept, Commit PROVE TypeOK'
  <2>1. build.gen \in Gen
    BY <1>13 DEF Commit, BuildIsKept
  <2> QED BY <1>0, <1>13, <2>1, LedgerIs, GiveUpIs DEF Commit, TypeOK
<1>14. ASSUME BuildFails PROVE TypeOK'
  BY <1>0, <1>14, LedgerIs, GiveUpIs DEF BuildFails, Event, TypeOK
<1>15. ASSUME Clear PROVE TypeOK'
  <2>1. ledger' = [ledger EXCEPT !.fresh = None, !.events = ledger.events + 1]
    BY <1>0, <1>15 DEF Clear, TypeOK
  <2> QED BY <1>0, <1>15, <2>1, LedgerIs DEF Clear, TypeOK
<1>16. ASSUME ClosePool PROVE TypeOK'
  <2>1. handles' \in Seq(Handle) /\ Len(handles') = Len(handles)
    BY <1>0, <1>16, CloseIs
  <2>2. Len(handles) \in Nat
    BY <1>0 DEF TypeOK
  <2>3. active' = 0 /\ active' \in 0 .. Len(handles')
    BY <1>16, <2>1, <2>2 DEF ClosePool
  <2>4. ledger' \in Ledger
    BY <1>0, <1>16, LedgerIs DEF ClosePool, TypeOK
  <2> QED BY <1>0, <1>16, <2>1, <2>3, <2>4 DEF ClosePool, TypeOK
<1>17. ASSUME NEW r \in Reader, Resolve(r) PROVE TypeOK'
  <2>1. reader' = [reader EXCEPT ![r] = [reader[r] EXCEPT !.pc = "resolving", !.gen = ledger.fresh]]
    BY <1>0, <1>17 DEF Resolve, TypeOK
  <2>2. ledger.fresh \in Gen
    BY <1>0, <1>17, LedgerIs DEF Resolve, TypeOK
  <2>3. reader' \in [Reader -> Request]
    BY <1>0, <1>1, <2>1, <2>2, RequestIs DEF TypeOK
  <2> QED BY <1>0, <1>17, <2>3 DEF Resolve, TypeOK
<1>18. ASSUME NEW r \in Reader, Attach(r) PROVE TypeOK'
  <2>1. active \in 1 .. Len(handles) /\ active \in Nat
    BY <1>0, <1>18 DEF Attach, ActiveIs, TypeOK
  <2>2. handles' \in Seq(Handle) /\ Len(handles') = Len(handles)
    BY <1>0, <1>18, <2>1, LeaseIs DEF Attach
  <2>3. reader' = [reader EXCEPT ![r] = [reader[r] EXCEPT !.pc = "leased", !.handle = active]]
    BY <1>0, <1>18 DEF Attach, TypeOK
  <2>4. reader' \in [Reader -> Request]
    BY <1>0, <1>1, <2>1, <2>3, RequestIs DEF TypeOK
  <2> QED BY <1>0, <1>18, <2>2, <2>4 DEF Attach, TypeOK
<1>24. ASSUME NEW r \in Reader, AttachOpens(r) PROVE TypeOK'
  <2>1. reader[r].gen \in Gen
    BY <1>0, <1>24 DEF AttachOpens, RequestsFit
  <2>2. reader' \in [Reader -> Request]
    BY <1>0, <1>1, <1>24, RequestIs DEF AttachOpens, TypeOK
  <2>3. opening' \in [Gen -> Opening]
    BY <1>0, <1>24, <2>1, OpeningIs DEF AttachOpens, TypeOK
  <2> QED BY <1>0, <1>24, <2>2, <2>3 DEF AttachOpens, TypeOK
<1>25. ASSUME NEW r \in Reader, AttachFails(r) PROVE TypeOK'
  BY <1>0, <1>1, <1>25, IdleIs DEF AttachFails, TypeOK
<1>19. ASSUME NEW r \in Reader, Release(r) PROVE TypeOK'
  <2>1. reader[r].handle \in 1 .. Len(handles) /\ handles[reader[r].handle].leases > 0
    BY <1>0, <1>19, HeldIsLeased DEF Release
  <2>2. handles' \in Seq(Handle) /\ Len(handles') = Len(handles)
    BY <1>0, <1>19, <2>1, ReleaseIs DEF Release
  <2>3. reader' \in [Reader -> Request]
    BY <1>0, <1>1, <1>19, IdleIs DEF Release, TypeOK
  <2> QED BY <1>0, <1>19, <2>2, <2>3 DEF Release, TypeOK
<1>20. ASSUME StartSweep PROVE TypeOK'
  <2>1. \A k \in DOMAIN handles : handles[k].gen \in Gen
    <3>1. \A k \in DOMAIN handles : handles[k] \in Handle
      BY <1>0 DEF TypeOK
    <3> QED BY <3>1 DEF Handle
  <2>2. PICK used \in SUBSET (DOMAIN handles) :
          sweep' = [NoSweep EXCEPT !.pc = "sweeping", !.pinned = {DirOf(handles[k].gen) : k \in used}]
    BY <1>20 DEF StartSweep
  <2>4. {DirOf(handles[k].gen) : k \in used} \in SUBSET Dirs
    BY <2>1, DirIs
  <2>3. sweep' \in Sweep
    BY <1>0, <2>2, <2>4, SweepIs DEF TypeOK
  <2> QED BY <1>0, <1>20, <2>3 DEF StartSweep, TypeOK
<1>21. ASSUME SweepDirectories \/ LookForGenerations \/ Decide PROVE TypeOK'
  <2>1. sweep' \in Sweep
    BY <1>0, <1>21, SweepIs DEF SweepDirectories, LookForGenerations, Decide, TypeOK
  <2>2. disk' \in [Dirs -> Contents]
    BY <1>0, <1>21, ContentIs DEF SweepDirectories, LookForGenerations, Decide, TypeOK
  <2> QED BY <1>0, <1>21, <2>1, <2>2 DEF SweepDirectories, LookForGenerations, Decide, TypeOK
<1>22. ASSUME RemoveRoot PROVE TypeOK'
  <2>1. ledger' \in Ledger
    <3>1. (ledger.torn \/ disk' # disk \/ tree' # tree) \in BOOLEAN
      BY <1>0, LedgerIs DEF TypeOK
    <3> QED BY <1>0, <1>22, <3>1, LedgerIs DEF RemoveRoot, TypeOK
  <2>2. disk' \in [Dirs -> Contents]
    <3>1. ASSUME NEW d \in Dirs, NEW c \in Less(disk[d]), disk' = [disk EXCEPT ![d] = c]
          PROVE  disk' \in [Dirs -> Contents]
      BY <1>0, <3>1, LessIs DEF TypeOK
    <3> QED BY <1>0, <1>22, <3>1 DEF RemoveRoot, TypeOK
  <2>3. tree' \in Tree
    <3>1. ASSUME NEW c \in Less(tree.staging), tree' = [tree EXCEPT !.staging = c]
          PROVE  tree' \in Tree
      BY <1>0, <3>1, LessIs, TreeIs DEF TypeOK
    <3>2. CASE tree' = [tree EXCEPT !.reserved = None]
      BY <1>0, <3>2, TreeIs DEF TypeOK
    <3> QED BY <1>0, <1>22, <3>1, <3>2 DEF RemoveRoot, TypeOK
  <2>4. sweep' \in Sweep
    BY <1>0, <1>22, SweepIs DEF RemoveRoot, TypeOK
  <2> QED BY <1>0, <1>22, <2>1, <2>2, <2>3, <2>4 DEF RemoveRoot, TypeOK
<1>23. CASE UNCHANGED vars
  BY <1>0, <1>23 DEF vars, TypeOK
<1> QED
  BY <1>2, <1>3, <1>4, <1>5, <1>6, <1>7, <1>8, <1>9, <1>10, <1>11, <1>12, <1>13, <1>14, <1>15, <1>16,
     <1>17, <1>18, <1>19, <1>20, <1>21, <1>22, <1>23, <1>24, <1>25 DEF Next, Inv

-----------------------------------------------------------------------------
(* What is on disk.                                                         *)

\* Every step but the removal of the root leaves torn alone.
LEMMA TornIs ==
  ASSUME Inv, [Next]_vars, ~ledger'.torn
  PROVE  ~ledger.torn /\ (RemoveRoot => UNCHANGED <<disk, tree>>)
<1>1. ledger \in Ledger
  BY DEF Inv, TypeOK
<1>2. ASSUME RemoveRoot PROVE ~ledger.torn /\ UNCHANGED <<disk, tree>>
  <2>1. ledger' = [ledger EXCEPT !.torn = ledger.torn \/ disk' # disk \/ tree' # tree]
    BY <1>1, <1>2 DEF RemoveRoot
  <2>2. ledger'.torn <=> ledger.torn \/ disk' # disk \/ tree' # tree
    BY <1>1, <2>1 DEF Ledger
  <2> QED BY <2>2
<1>3. ASSUME \/ \E g \in Gen : Reserve(g) \/ OpenFails(g)
             \/ Commit \/ BuildFails \/ Clear \/ ClosePool
      PROVE  ~ledger.torn
  BY <1>1, <1>3 DEF Reserve, OpenFails, Commit, BuildFails, Clear, ClosePool, Event, Ledger
<1> QED BY <1>2, <1>3 DEF Next, vars, OpenTakesSlot, OpenYields, Yielded, Inspect, Refused, Publish,
  StoreMetadata, StartPromote, Promote, Resolve, Attach, AttachOpens, AttachFails, Release, StartSweep,
  SweepDirectories, LookForGenerations, Decide

\* What a directory holds changes for a build that has it, and for a sweep that does not keep it.
LEMMA DiskIs ==
  ASSUME ConstantsOK, Inv, [Next]_vars, ~ledger'.torn, NEW d \in Dirs
  PROVE  \/ disk'[d] = disk[d]
         \/ /\ build'.pc # build.pc /\ d = DirOf(build.gen) /\ disk[d].meta = None
            /\ disk'[d] \in {Built, Full(build.gen)}
         \/ ~Kept(d) /\ disk'[d] = Absent /\ UNCHANGED build
<1>0. TypeOK /\ BuildIsKept /\ AbsentIsEmpty /\ ~ledger.torn
  BY TornIs DEF Inv
<1>1. CASE Publish
  <2>1. build.pc = "staging" /\ build'.pc # "staging" /\ build.gen \in Gen /\ tree.staging = Built
    BY <1>0, <1>1 DEF Publish, TypeOK, BuildState, GiveUp, NoBuild, BuildIsKept
  <2>2. \/ disk' = disk
        \/ /\ ~disk[DirOf(build.gen)].there
           /\ disk' = [disk EXCEPT ![DirOf(build.gen)] = Built]
    BY <1>1, <2>1 DEF Publish
  <2>3. disk \in [Dirs -> Contents]
    BY <1>0 DEF TypeOK
  <2> QED BY <1>0, <2>1, <2>2, <2>3, ContentIs DEF AbsentIsEmpty
<1>2. CASE StoreMetadata
  <2>1. /\ build.pc = "renamed" /\ build'.pc = "stored" /\ build.gen \in Gen
        /\ disk[DirOf(build.gen)] = Built
    BY <1>0, <1>2 DEF StoreMetadata, TypeOK, BuildState, BuildIsKept
  <2>2. disk' = [disk EXCEPT ![DirOf(build.gen)] = Full(build.gen)]
    BY <1>0, <1>2, <2>1, MetadataIs, MarkedIs
  <2>3. disk \in [Dirs -> Contents]
    BY <1>0 DEF TypeOK
  <2> QED BY <2>1, <2>2, <2>3, ContentIs
<1>3. CASE SweepDirectories
  BY <1>0, <1>3 DEF SweepDirectories, TypeOK
<1>4. CASE RemoveRoot
  BY <1>4, TornIs
<1>5. CASE UNCHANGED disk
  BY <1>5, Zenon
<1> QED BY <1>1, <1>2, <1>3, <1>4, <1>5 DEF Next, vars, Reserve, OpenTakesSlot, OpenYields, Yielded, OpenFails,
  Inspect, Refused, StartPromote, Promote, Commit, BuildFails, Clear, ClosePool, Resolve, Attach, AttachOpens,
  AttachFails, Release, StartSweep, LookForGenerations, Decide

\* Every step keeps directories that are not there empty.
LEMMA AbsentHolds == ASSUME ConstantsOK, Inv, [Next]_vars PROVE AbsentIsEmpty'
<1>0. TypeOK /\ BuildIsKept /\ AbsentIsEmpty /\ disk \in [Dirs -> Contents]
  BY DEF Inv, TypeOK
<1> SUFFICES ASSUME NEW d \in Dirs PROVE disk'[d].there \/ disk'[d] = Absent
  BY DEF AbsentIsEmpty
<1>1. CASE Publish
  BY <1>0, <1>1 DEF Publish, AbsentIsEmpty
<1>2. CASE StoreMetadata
  <2>1. build.gen \in Gen
    BY <1>0, <1>2 DEF StoreMetadata, BuildIsKept
  <2>2. [disk[DirOf(build.gen)] EXCEPT !.there = TRUE, !.meta = build.gen].there
    BY <1>0, <2>1, DirIs, MarkedIs
  <2> QED BY <1>0, <1>2, <2>1, <2>2, MetadataIs DEF AbsentIsEmpty
<1>3. CASE SweepDirectories
  BY <1>0, <1>3 DEF SweepDirectories, AbsentIsEmpty
<1>4. CASE RemoveRoot
  <2>1. CASE UNCHANGED disk
    BY <1>0, <2>1 DEF AbsentIsEmpty
  <2>2. ASSUME NEW e \in Dirs, NEW c \in Less(disk[e]), disk' = [disk EXCEPT ![e] = c]
        PROVE  disk'[d].there \/ disk'[d] = Absent
    <3>1. disk[e] \in Contents /\ (disk[e].there \/ disk[e] = Absent)
      BY <1>0 DEF AbsentIsEmpty
    <3>2. c.there \/ c = Absent
      BY <3>1, LessIs
    <3> QED BY <1>0, <2>2, <3>2 DEF AbsentIsEmpty
  <2> QED BY <1>4, <2>1, <2>2 DEF RemoveRoot
<1>5. CASE UNCHANGED disk
  BY <1>0, <1>5 DEF AbsentIsEmpty
<1> QED BY <1>1, <1>2, <1>3, <1>4, <1>5 DEF Next, vars, Reserve, OpenTakesSlot, OpenYields, Yielded, OpenFails,
  Inspect, Refused, StartPromote, Promote, Commit, BuildFails, Clear, ClosePool, Resolve, Attach, AttachOpens,
  AttachFails, Release, StartSweep, LookForGenerations, Decide

\* A whole generation that an edition names, a reader has pinned or a build has reserved stays.
LEMMA WholeStays ==
  ASSUME ConstantsOK, Inv, [Next]_vars, ~ledger'.torn, NEW g \in Gen, Whole(g),
         \/ ledger.fresh = g
         \/ \E r \in Reader : reader[r].pc \in {"opening", "leased"} /\ reader[r].gen = g
         \/ tree.reserved = DirOf(g)
  PROVE  disk'[DirOf(g)] = Full(g)
<1>1. DirOf(g) \in Dirs
  BY DirIs
<1>2. Kept(DirOf(g))
  BY DEF Kept, PinnedNow, ConstantsOK
<1>3. disk[DirOf(g)] = Full(g) /\ disk[DirOf(g)].meta # None
  BY ContentIs DEF Whole, ConstantsOK
<1> QED BY <1>1, <1>2, <1>3, DiskIs

\* A request that attaches keeps its generation, and pins it if it has read its metadata.
LEMMA AttachIs ==
  ASSUME Inv, NEW q \in Reader, Attach(q) \/ AttachOpens(q) \/ AttachFails(q),
         NEW r \in Reader, reader'[r].pc # "idle"
  PROVE  /\ reader[r].pc # "idle" /\ reader'[r].gen = reader[r].gen
         /\ \/ reader'[r] = reader[r]
            \/ reader[r].pc = "resolving" /\ Listed(reader[r].gen) /\ UNCHANGED disk
<1>1. reader \in [Reader -> Request] /\ reader[q].pc = "resolving"
  BY DEF Inv, TypeOK, Attach, AttachOpens, AttachFails
<1>2. CASE Attach(q)
  <2>1. reader' = [reader EXCEPT ![q] = [reader[q] EXCEPT !.pc = "leased", !.handle = active]]
    BY <1>1, <1>2 DEF Attach
  <2>2. [reader[q] EXCEPT !.pc = "leased", !.handle = active].gen = reader[q].gen
    BY <1>1 DEF Request
  <2> QED BY <1>1, <1>2, <2>1, <2>2 DEF Attach
<1>3. CASE AttachOpens(q)
  <2>1. reader' = [reader EXCEPT ![q] = [reader[q] EXCEPT !.pc = "opening"]]
    BY <1>1, <1>3 DEF AttachOpens
  <2>2. [reader[q] EXCEPT !.pc = "opening"].gen = reader[q].gen
    BY <1>1 DEF Request
  <2> QED BY <1>1, <1>3, <2>1, <2>2 DEF AttachOpens
<1>4. CASE AttachFails(q)
  <2>1. reader' = [reader EXCEPT ![q] = Idle]
    BY <1>4 DEF AttachFails
  <2> QED BY <1>1, <2>1, IdleIs
<1> QED BY <1>2, <1>3, <1>4

\* A request keeps its generation, or gets that of the fresh edition.
LEMMA GenerationIs ==
  ASSUME Inv, [Next]_vars, NEW r \in Reader, reader'[r].pc # "idle"
  PROVE  \/ reader[r].pc # "idle" /\ reader'[r].gen = reader[r].gen
         \/ ledger.fresh # None /\ reader'[r].gen = ledger.fresh /\ UNCHANGED disk
<1>0. TypeOK /\ \A q \in Reader : reader[q] \in Request
  BY DEF Inv, TypeOK
<1>1. ASSUME NEW q \in Reader, Resolve(q) \/ Release(q)
      PROVE  \/ reader[r].pc # "idle" /\ reader'[r].gen = reader[r].gen
             \/ ledger.fresh # None /\ reader'[r].gen = ledger.fresh /\ UNCHANGED disk
  BY <1>0, <1>1, IdleIs, ZenonT(60) DEF Resolve, Release, TypeOK, Request
<1>2. ASSUME NEW q \in Reader, Attach(q) \/ AttachOpens(q) \/ AttachFails(q)
      PROVE  reader[r].pc # "idle" /\ reader'[r].gen = reader[r].gen
  BY <1>2, AttachIs
<1>3. ASSUME NEW g \in Gen, NEW h \in Nat, reader' = Leased(g, h)
      PROVE  reader[r].pc # "idle" /\ reader'[r].gen = reader[r].gen
  BY <1>0, <1>3, LeasedIs DEF Waiters
<1>4. ASSUME NEW g \in Gen, OpenFails(g)
      PROVE  reader[r].pc # "idle" /\ reader'[r].gen = reader[r].gen
  BY <1>0, <1>4, IdleIs DEF OpenFails
<1>5. ASSUME NEW g \in Gen, OpenTakesSlot(g) \/ Yielded(g)
      PROVE  reader[r].pc # "idle" /\ reader'[r].gen = reader[r].gen
  <2>1. Len(handles) + 1 \in Nat
    BY <1>0 DEF TypeOK
  <2>2. opening[g].target \in Nat
    BY <1>0, OpeningIs
  <2> QED BY <1>3, <1>5, <2>1, <2>2 DEF OpenTakesSlot, Yielded
<1>6. CASE UNCHANGED reader
  BY <1>6
<1> QED BY <1>1, <1>2, <1>4, <1>5, <1>6 DEF Next, vars, Reserve, OpenYields,
  Inspect, Refused, Publish, StoreMetadata, StartPromote, Promote, Commit, BuildFails, Clear, ClosePool,
  StartSweep, SweepDirectories, LookForGenerations, Decide, RemoveRoot

\* A reader pins what it finds.
LEMMA PinsAre ==
  ASSUME Inv, [Next]_vars, NEW r \in Reader, reader'[r].pc \in {"opening", "leased"}
  PROVE  /\ reader'[r].gen = reader[r].gen
         /\ \/ reader[r].pc \in {"opening", "leased"}
            \/ reader[r].pc = "resolving" /\ Listed(reader[r].gen) /\ UNCHANGED disk
<1>0. TypeOK /\ \A q \in Reader : reader[q] \in Request
  BY DEF Inv, TypeOK
<1>1. CASE \E q \in Reader : Resolve(q) \/ Release(q)
  <2>1. reader'[r] = reader[r]
    BY <1>0, <1>1, IdleIs DEF Resolve, Release, TypeOK, Request
  <2> QED BY <2>1
<1>2. ASSUME NEW q \in Reader, Attach(q) \/ AttachOpens(q) \/ AttachFails(q)
      PROVE  /\ reader'[r].gen = reader[r].gen
             /\ \/ reader[r].pc \in {"opening", "leased"}
                \/ reader[r].pc = "resolving" /\ Listed(reader[r].gen) /\ UNCHANGED disk
  BY <1>2, AttachIs
<1>3. ASSUME NEW g \in Gen, NEW h \in Nat, reader' = Leased(g, h)
      PROVE  reader'[r].gen = reader[r].gen /\ reader[r].pc \in {"opening", "leased"}
  BY <1>0, <1>3, LeasedIs DEF Waiters
<1>4. ASSUME NEW g \in Gen, OpenFails(g)
      PROVE  reader'[r].gen = reader[r].gen /\ reader[r].pc \in {"opening", "leased"}
  BY <1>0, <1>4, IdleIs DEF OpenFails
<1>5. ASSUME NEW g \in Gen, OpenTakesSlot(g) \/ Yielded(g)
      PROVE  reader'[r].gen = reader[r].gen /\ reader[r].pc \in {"opening", "leased"}
  <2>1. Len(handles) + 1 \in Nat
    BY <1>0 DEF TypeOK
  <2>2. opening[g].target \in Nat
    BY <1>0, OpeningIs
  <2> QED BY <1>3, <1>5, <2>1, <2>2 DEF OpenTakesSlot, Yielded
<1>6. CASE UNCHANGED reader
  BY <1>6
<1> QED BY <1>1, <1>2, <1>4, <1>5, <1>6 DEF Next, vars, Reserve, OpenYields,
  Inspect, Refused, Publish, StoreMetadata, StartPromote, Promote, Commit, BuildFails, Clear, ClosePool,
  StartSweep, SweepDirectories, LookForGenerations, Decide, RemoveRoot

\* Every step keeps metadata and vectors together for the requests that look for them: only a
\* build writes metadata, into a directory that has the vectors.
LEMMA FoundHolds == ASSUME ConstantsOK, Inv, [Next]_vars PROVE FoundIsWhole'
<1> SUFFICES ASSUME ~ledger'.torn, NEW r \in Reader, reader'[r].pc # "idle",
                    disk'[DirOf(reader'[r].gen)].meta = reader'[r].gen
             PROVE  disk'[DirOf(reader'[r].gen)] = Full(reader'[r].gen)
  BY DEF FoundIsWhole, Listed, Whole
<1>0. /\ TypeOK /\ BuildIsKept /\ RequestsFit /\ FoundIsWhole /\ NamedAndPinnedSurvive
      /\ ~ledger.torn /\ ledger \in Ledger
  BY TornIs DEF Inv, TypeOK
<1>1. CASE ledger.fresh # None /\ reader'[r].gen = ledger.fresh /\ UNCHANGED disk
  BY <1>0, <1>1 DEF NamedAndPinnedSurvive, Whole
<1>2. CASE reader[r].pc # "idle" /\ reader'[r].gen = reader[r].gen
  <2> DEFINE g == reader[r].gen
  <2>1. g \in Gen /\ DirOf(g) \in Dirs /\ g # None
    BY <1>0, <1>2, DirIs DEF RequestsFit, ConstantsOK
  <2>2. CASE disk'[DirOf(g)] = disk[DirOf(g)]
    BY <1>0, <1>2, <2>2 DEF FoundIsWhole, Listed, Whole
  <2>3. CASE disk'[DirOf(g)] \in {Built, Absent}
    BY <1>2, <2>1, <2>3, ContentIs
  <2>4. CASE disk'[DirOf(g)] = Full(build.gen)
    <3>1. disk'[DirOf(g)].meta = build.gen
      BY <2>4 DEF Full
    <3> QED BY <1>2, <2>4, <3>1
  <2> QED BY <1>2, <2>1, <2>2, <2>3, <2>4, DiskIs
<1> QED BY <1>1, <1>2, GenerationIs

\* Every step keeps what is named and pinned (sweepVectorGenerations' roots).
LEMMA SurviveHolds == ASSUME ConstantsOK, Inv, [Next]_vars PROVE NamedAndPinnedSurvive'
<1> SUFFICES ASSUME ~ledger'.torn
             PROVE  /\ ledger'.fresh # None => disk'[DirOf(ledger'.fresh)] = Full(ledger'.fresh)
                    /\ \A r \in Reader : reader'[r].pc \in {"opening", "leased"} =>
                         disk'[DirOf(reader'[r].gen)] = Full(reader'[r].gen)
  BY DEF NamedAndPinnedSurvive, Whole
<1>0. /\ TypeOK /\ BuildIsKept /\ RequestsFit /\ FoundIsWhole /\ NamedAndPinnedSurvive
      /\ ~ledger.torn /\ ledger \in Ledger
  BY TornIs, SMTT(60) DEF Inv, TypeOK
<1>1. \/ ledger'.fresh = ledger.fresh
      \/ ledger'.fresh = None
      \/ ledger'.fresh = build.gen /\ build.gen \in Gen /\ Whole(build.gen) /\ UNCHANGED disk
  <2>1. CASE Commit
    BY <1>0, <2>1 DEF Commit, Ledger, BuildIsKept
  <2>2. CASE \/ \E g \in Gen : Reserve(g) \/ OpenFails(g)
             \/ BuildFails \/ Clear \/ ClosePool \/ RemoveRoot
    BY <1>0, <2>2 DEF Reserve, OpenFails, BuildFails, Clear, ClosePool, RemoveRoot, Event, Ledger
  <2>3. CASE UNCHANGED ledger
    BY <2>3
  <2> QED BY <2>1, <2>2, <2>3 DEF Next, vars, OpenTakesSlot, OpenYields, Yielded, Inspect, Refused, Publish,
    StoreMetadata, StartPromote, Promote, Resolve, Attach, AttachOpens, AttachFails, Release, StartSweep,
    SweepDirectories, LookForGenerations, Decide
<1>2. ledger'.fresh # None => disk'[DirOf(ledger'.fresh)] = Full(ledger'.fresh)
  <2>1. CASE ledger'.fresh = ledger.fresh /\ ledger.fresh # None
    <3>1. ledger.fresh \in Gen /\ Whole(ledger.fresh)
      BY <1>0, <2>1 DEF Ledger, NamedAndPinnedSurvive
    <3> QED BY <2>1, <3>1, WholeStays
  <2> QED BY <1>1, <2>1 DEF Whole
<1>3. ASSUME NEW r \in Reader, reader'[r].pc \in {"opening", "leased"}
      PROVE  disk'[DirOf(reader'[r].gen)] = Full(reader'[r].gen)
  <2>1. CASE reader[r].pc \in {"opening", "leased"}
    <3>1. reader[r].gen \in Gen /\ Whole(reader[r].gen)
      BY <1>0, <2>1 DEF RequestsFit, NamedAndPinnedSurvive
    <3> QED BY <1>3, <2>1, <3>1, PinsAre, WholeStays
  <2>2. CASE reader[r].pc = "resolving" /\ Listed(reader[r].gen) /\ UNCHANGED disk
    <3>1. Whole(reader[r].gen)
      BY <1>0, <2>2, SMTT(60) DEF FoundIsWhole
    <3> QED BY <1>3, <2>2, <3>1, PinsAre DEF Whole
  <2> QED BY <1>3, <2>1, <2>2, PinsAre
<1> QED BY <1>2, <1>3

\* Every step keeps what the build has reserved and written.
LEMMA BuildHolds == ASSUME ConstantsOK, Inv, [Next]_vars PROVE BuildIsKept'
<1> SUFFICES ASSUME build'.pc # "idle"
             PROVE  /\ build'.gen \in Gen
                    /\ ~ledger'.torn =>
                         /\ tree'.reserved = DirOf(build'.gen)
                         /\ build'.pc = "staging" => tree'.staging = Built
                         /\ build'.pc = "renamed" => disk'[DirOf(build'.gen)] = Built
                         /\ build'.pc \in {"stored", "opening", "promoted"} =>
                              disk'[DirOf(build'.gen)] = Full(build'.gen)
  BY DEF BuildIsKept, Whole
<1>0. TypeOK /\ BuildIsKept /\ build \in BuildState /\ tree \in Tree
  BY DEF Inv, TypeOK
<1>1. CASE \E g \in Gen : Reserve(g)
  BY <1>0, <1>1 DEF Reserve, Tree
<1>2. ASSUME GiveUp PROVE FALSE
  BY <1>2 DEF GiveUp, NoBuild
<1>3. CASE Inspect
  BY <1>0, <1>2, <1>3, TornIs DEF Inspect, BuildIsKept, BuildState, Tree, Whole
<1>4. CASE Publish
  <2>1. build.gen \in Gen /\ DirOf(build.gen) \in Dirs
    BY <1>0, <1>4, DirIs DEF Publish, BuildIsKept
  <2> QED BY <1>0, <1>2, <1>4, <2>1, TornIs DEF Publish, BuildIsKept, BuildState, Tree, TypeOK
<1>5. CASE StoreMetadata
  <2>1. build.gen \in Gen /\ DirOf(build.gen) \in Dirs
    BY <1>0, <1>5, DirIs DEF StoreMetadata, BuildIsKept
  <2>2. ~ledger'.torn => disk'[DirOf(build.gen)] = Full(build.gen)
    BY <1>0, <1>5, <2>1, TornIs, MetadataIs, MarkedIs DEF StoreMetadata, BuildIsKept, TypeOK
  <2> QED BY <1>0, <1>5, <2>1, <2>2, TornIs DEF StoreMetadata, BuildIsKept, BuildState
<1>6. CASE StartPromote \/ Promote
  BY <1>0, <1>2, <1>6, TornIs DEF StartPromote, Promote, BuildIsKept, BuildState, Whole
<1>7. CASE Refused \/ Commit \/ BuildFails
  BY <1>2, <1>7 DEF Refused, Commit, BuildFails
<1>8. ASSUME UNCHANGED build, RemoveRoot \/ UNCHANGED tree
      PROVE  /\ build'.gen \in Gen
             /\ ~ledger'.torn =>
                  /\ tree'.reserved = DirOf(build'.gen)
                  /\ build'.pc = "staging" => tree'.staging = Built
                  /\ build'.pc = "renamed" => disk'[DirOf(build'.gen)] = Built
                  /\ build'.pc \in {"stored", "opening", "promoted"} =>
                       disk'[DirOf(build'.gen)] = Full(build'.gen)
  <2>1. build.gen \in Gen /\ DirOf(build.gen) \in Dirs
    BY <1>0, <1>8, DirIs DEF BuildIsKept
  <2> SUFFICES ASSUME ~ledger'.torn
               PROVE  /\ tree.reserved = DirOf(build.gen) /\ UNCHANGED tree
                      /\ build.pc = "staging" => tree.staging = Built
                      /\ build.pc = "renamed" => disk'[DirOf(build.gen)] = Built
                      /\ build.pc \in {"stored", "opening", "promoted"} =>
                           disk'[DirOf(build.gen)] = Full(build.gen)
    BY <1>8, <2>1
  <2>2. /\ UNCHANGED tree /\ tree.reserved = DirOf(build.gen) /\ Kept(DirOf(build.gen))
        /\ build.pc = "staging" => tree.staging = Built
    BY <1>0, <1>8, TornIs DEF BuildIsKept, Kept
  <2>3. build.pc = "renamed" => disk'[DirOf(build.gen)] = Built
    BY <1>0, <1>8, <2>1, <2>2, TornIs, DiskIs DEF BuildIsKept
  <2>4. build.pc \in {"stored", "opening", "promoted"} => disk'[DirOf(build.gen)] = Full(build.gen)
    BY <1>0, <2>1, <2>2, TornIs, WholeStays DEF BuildIsKept
  <2> QED BY <1>8, <2>2, <2>3, <2>4
<1> QED BY <1>1, <1>3, <1>4, <1>5, <1>6, <1>7, <1>8
  DEF Next, vars, OpenTakesSlot, OpenYields, Yielded, OpenFails,
  Clear, ClosePool, Resolve, Attach, AttachOpens, AttachFails, Release, StartSweep, SweepDirectories,
  LookForGenerations, Decide, RemoveRoot

-----------------------------------------------------------------------------
(* Leases.                                                                  *)

\* A step that changes no lease: the handles are kept, or get older or one more.
LEMMA LeasesKept ==
  ASSUME ConstantsOK, Inv, Len(handles') \in Nat, Len(handles) <= Len(handles'),
         \A r \in Reader : (reader[r].pc = "leased" \/ reader'[r].pc = "leased") => reader'[r] = reader[r],
         \A k \in 1 .. Len(handles) :
           /\ handles'[k].gen = handles[k].gen /\ handles'[k].leases = handles[k].leases
           /\ handles[k].draining => handles'[k].draining
           /\ handles'[k].closed =>
                handles'[k].draining /\ (handles[k].closed \/ handles[k].leases = 0),
         \A k \in 1 .. Len(handles') : k > Len(handles) => handles'[k].leases = 0 /\ ~handles'[k].closed
  PROVE  LeasesAreCounted'
<1>0. TypeOK /\ RequestsFit /\ LeasesAreCounted /\ Len(handles) \in Nat
  BY DEF Inv, TypeOK
<1>1. \A k : Holders(k)' = Holders(k)
  BY DEF Holders
<1> SUFFICES ASSUME NEW k \in 1 .. Len(handles')
             PROVE  /\ handles'[k].leases = Cardinality(Holders(k))
                    /\ handles'[k].closed =>
                         handles'[k].draining /\ \A r \in Holders(k) : reader'[r].late
  BY <1>1 DEF LeasesAreCounted
<1>2. CASE k > Len(handles)
  <2>1. Holders(k) = {}
    BY <1>0, <1>2 DEF Holders, RequestsFit
  <2> QED BY <1>2, <2>1, FS_EmptySet
<1>3. CASE k \in 1 .. Len(handles)
  <2>1. handles'[k].leases = Cardinality(Holders(k))
    BY <1>0, <1>3 DEF LeasesAreCounted
  <2>2. handles[k].leases = 0 => Holders(k) = {}
    BY <1>0, <1>3, HoldersCount, FS_EmptySet DEF LeasesAreCounted
  <2>3. \A r \in Holders(k) : reader'[r] = reader[r]
    BY DEF Holders
  <2> QED BY <1>0, <1>3, <2>1, <2>2, <2>3 DEF LeasesAreCounted
<1> QED BY <1>0, <1>2, <1>3

\* Some requests get leases of one handle.
LEMMA LeasesGrow ==
  ASSUME ConstantsOK, Inv, NEW W \in SUBSET Reader, NEW h \in 1 .. Len(handles'), Len(handles') \in Nat,
         Len(handles) <= Len(handles'),
         \A r \in W : /\ reader[r].pc # "leased" /\ reader'[r].pc = "leased" /\ reader'[r].handle = h
                      /\ handles'[h].closed => reader'[r].late,
         \A r \in Reader \ W :
           (reader[r].pc = "leased" \/ reader'[r].pc = "leased") => reader'[r] = reader[r],
         \A k \in 1 .. Len(handles) :
           /\ handles'[k].gen = handles[k].gen
           /\ k # h => handles'[k].leases = handles[k].leases
           /\ k = h => handles'[k].leases = handles[k].leases + Cardinality(W)
           /\ handles[k].draining => handles'[k].draining
           /\ handles'[k].closed =>
                handles'[k].draining /\ (handles[k].closed \/ handles[k].leases = 0),
         \A k \in 1 .. Len(handles') : k > Len(handles) =>
           k = h /\ handles'[k].leases = Cardinality(W) /\ ~handles'[k].closed
  PROVE  LeasesAreCounted'
<1>0. TypeOK /\ RequestsFit /\ LeasesAreCounted /\ Len(handles) \in Nat
  BY DEF Inv, TypeOK
<1>1. \A k : k # h => Holders(k)' = Holders(k)
  BY DEF Holders
<1>2. Holders(h)' = Holders(h) \cup W /\ Holders(h) \cap W = {}
  BY DEF Holders
<1>3. IsFiniteSet(W) /\ Cardinality(W) \in Nat
  BY FS_Subset, FS_CardinalityType DEF ConstantsOK
<1>4. Cardinality(Holders(h) \cup W) = Cardinality(Holders(h)) + Cardinality(W)
  <2>1. Cardinality(Holders(h) \cup W) = Cardinality(Holders(h)) + Cardinality(W) - Cardinality({})
    BY <1>2, <1>3, HoldersCount, FS_Union
  <2> QED BY <1>3, <2>1, HoldersCount, FS_EmptySet
<1> SUFFICES ASSUME NEW k \in 1 .. Len(handles')
             PROVE  /\ handles'[k].leases = Cardinality(Holders(k)')
                    /\ handles'[k].closed =>
                         handles'[k].draining /\ \A r \in Holders(k)' : reader'[r].late
  BY DEF LeasesAreCounted
<1>5. CASE k > Len(handles)
  <2>1. Holders(k) = {}
    BY <1>0, <1>5 DEF Holders, RequestsFit
  <2>2. Holders(k)' = W
    BY <1>2, <1>5, <2>1
  <2> QED BY <1>5, <2>2
<1>6. CASE k \in 1 .. Len(handles)
  <2>0. /\ handles[k].leases = Cardinality(Holders(k))
        /\ handles[k].closed => \A r \in Holders(k) : reader[r].late
    BY <1>0, <1>6 DEF LeasesAreCounted
  <2>1. handles'[k].leases = Cardinality(Holders(k)')
    <3>1. CASE k = h
      BY <1>2, <1>4, <1>6, <2>0, <3>1
    <3>2. CASE k # h
      BY <1>1, <1>6, <2>0, <3>2
    <3> QED BY <3>1, <3>2
  <2>2. handles[k].leases = 0 => Holders(k) = {}
    BY <2>0, HoldersCount, FS_EmptySet
  <2>3. \A r \in Holders(k) : reader'[r] = reader[r]
    BY DEF Holders
  <2>4. \A r \in Holders(k)' : r \in Holders(k) \/ (r \in W /\ k = h)
    BY <1>1, <1>2
  <2>5. handles'[k].closed => handles'[k].draining /\ (handles[k].closed \/ Holders(k) = {})
    BY <1>6, <2>2
  <2> QED BY <2>0, <2>1, <2>3, <2>4, <2>5
<1> QED BY <1>0, <1>5, <1>6

\* Every step keeps the counts (attach, openGeneration, closeWhenDrained, releaseReadContext).
LEMMA LeasesHold == ASSUME ConstantsOK, Inv, [Next]_vars PROVE LeasesAreCounted'
<1>0. /\ TypeOK /\ RequestsFit /\ LeasesAreCounted /\ SlotsFit /\ BuildIsKept
      /\ Len(handles) \in Nat /\ active \in 0 .. Len(handles)
      /\ \A r \in Reader : reader[r] \in Request
      /\ \A k \in 1 .. Len(handles) : handles[k] \in Handle
  BY DEF Inv, TypeOK
<1>1. ASSUME handles' = handles,
             \A r \in Reader : (reader[r].pc = "leased" \/ reader'[r].pc = "leased") => reader'[r] = reader[r]
      PROVE  LeasesAreCounted'
  BY <1>0, <1>1, LeasesKept DEF LeasesAreCounted
<1>2. CASE \/ \E g \in Gen : Reserve(g) \/ OpenYields(g)
           \/ Inspect \/ Refused \/ Publish \/ StoreMetadata \/ StartPromote \/ Commit \/ BuildFails \/ Clear
           \/ StartSweep \/ SweepDirectories \/ LookForGenerations \/ Decide \/ RemoveRoot \/ UNCHANGED vars
  BY <1>1, <1>2 DEF Reserve, OpenYields, Inspect, Refused, Publish, StoreMetadata, StartPromote, Commit,
     BuildFails, Clear, StartSweep, SweepDirectories, LookForGenerations, Decide, RemoveRoot, vars
<1>3. CASE \E r \in Reader : Resolve(r)
  BY <1>0, <1>1, <1>3 DEF Resolve, TypeOK, Request
<1>4. CASE \E g \in Gen : OpenFails(g)
  BY <1>1, <1>4, IdleIs DEF OpenFails, Waiters
<1>5. ASSUME NEW g \in Gen, FlipTo(g, 0), UNCHANGED reader PROVE LeasesAreCounted'
  <2>1. handles' \in Seq(Handle) /\ Len(handles') = Len(handles) + 1
    BY <1>0, <1>5, FlipIs
  <2>2. \A k \in 1 .. Len(handles) :
           /\ handles'[k].gen = handles[k].gen /\ handles'[k].leases = handles[k].leases
           /\ handles[k].draining => handles'[k].draining
           /\ handles'[k].closed =>
                handles'[k].draining /\ (handles[k].closed \/ handles[k].leases = 0)
    BY <1>0, <1>5, FlipIs DEF LeasesAreCounted
  <2>3. handles'[Len(handles) + 1].leases = 0 /\ ~handles'[Len(handles) + 1].closed
    BY <1>0, <1>5, FlipIs
  <2>4. \A k \in 1 .. Len(handles') : k > Len(handles) => k = Len(handles) + 1
    BY <1>0, <2>1
  <2>5. Len(handles') \in Nat /\ Len(handles) <= Len(handles')
    BY <1>0, <2>1
  <2> QED BY <1>5, <2>2, <2>3, <2>4, <2>5, LeasesKept
<1>6. CASE Promote
  <2>1. build.gen \in Gen
    BY <1>0, <1>6 DEF Promote, BuildIsKept
  <2> QED BY <1>1, <1>5, <1>6, <2>1 DEF Promote
<1>7. CASE ClosePool
  <2>1. Len(handles') = Len(handles) /\ UNCHANGED reader
    BY <1>0, <1>7, CloseIs DEF ClosePool
  <2>2. \A k \in 1 .. Len(handles) :
           /\ handles'[k].gen = handles[k].gen /\ handles'[k].leases = handles[k].leases
           /\ handles[k].draining => handles'[k].draining
           /\ handles'[k].closed =>
                handles'[k].draining /\ (handles[k].closed \/ handles[k].leases = 0)
    BY <1>0, <1>7, CloseIs DEF LeasesAreCounted
  <2> QED BY <1>0, <2>1, <2>2, LeasesKept
<1>8. ASSUME NEW g \in Gen, OpenTakesSlot(g) PROVE LeasesAreCounted'
  <2> DEFINE n == Cardinality(Waiters(g))
  <2> DEFINE h == Len(handles) + 1
  <2>1. FlipTo(g, n) /\ reader' = Leased(g, h) /\ n \in Nat /\ h \in Nat /\ Waiters(g) \in SUBSET Reader
    BY <1>0, <1>8, WaitersCount DEF OpenTakesSlot
  <2>2. handles' \in Seq(Handle) /\ Len(handles') = h
    BY <1>0, <2>1, FlipIs
  <2>3. \A k \in 1 .. Len(handles) :
           /\ handles'[k].gen = handles[k].gen /\ handles'[k].leases = handles[k].leases
           /\ handles[k].draining => handles'[k].draining
           /\ handles'[k].closed =>
                handles'[k].draining /\ (handles[k].closed \/ handles[k].leases = 0)
    BY <1>0, <2>1, FlipIs DEF LeasesAreCounted
  <2>4. handles'[h].leases = n /\ ~handles'[h].closed
    BY <1>0, <2>1, FlipIs
  <2>5. \A r \in Waiters(g) : /\ reader[r].pc # "leased" /\ reader'[r].pc = "leased" /\ reader'[r].handle = h
    BY <1>0, <2>1, LeasedIs DEF Waiters
  <2>6. \A r \in Reader \ Waiters(g) : reader'[r] = reader[r]
    BY <1>0, <2>1, LeasedIs
  <2>7. /\ Len(handles) <= Len(handles') /\ Len(handles') \in Nat /\ h \in 1 .. Len(handles')
        /\ \A k \in 1 .. Len(handles') : k > Len(handles) => k = h
        /\ \A k \in 1 .. Len(handles) : k # h
    BY <1>0, <2>2
  <2> HIDE DEF h
  <2> QED BY <2>1, <2>3, <2>4, <2>5, <2>6, <2>7, LeasesGrow
<1>9. ASSUME NEW g \in Gen, Yielded(g) PROVE LeasesAreCounted'
  <2> DEFINE n == Cardinality(Waiters(g))
  <2> DEFINE h == opening[g].target
  <2>1. /\ n \in Nat /\ Waiters(g) \in SUBSET Reader /\ h \in 1 .. Len(handles) /\ h \in Nat
        /\ handles' = [handles EXCEPT ![h].leases = @ + n] /\ reader' = Leased(g, h)
    BY <1>0, <1>9, WaitersCount DEF Yielded, SlotsFit
  <2>2. /\ Len(handles') = Len(handles)
        /\ \A i \in 1 .. Len(handles) :
              /\ handles'[i].gen = handles[i].gen
              /\ handles'[i].draining = handles[i].draining /\ handles'[i].closed = handles[i].closed
              /\ handles'[i].leases = IF i = h THEN handles[h].leases + n ELSE handles[i].leases
    BY <1>0, <2>1, LeaseIs
  <2>3. \A r \in Waiters(g) : /\ reader[r].pc # "leased" /\ reader'[r].pc = "leased" /\ reader'[r].handle = h
                              /\ reader'[r].late <=> handles[h].draining
    BY <1>0, <2>1, LeasedIs DEF Waiters
  <2>4. \A r \in Reader \ Waiters(g) : reader'[r] = reader[r]
    BY <1>0, <2>1, LeasedIs
  <2>5. \A k \in 1 .. Len(handles) : handles[k].closed => handles[k].draining
    BY <1>0 DEF LeasesAreCounted
  <2> HIDE DEF n, h
  <2>6. \A k \in 1 .. Len(handles') : ~(k > Len(handles))
    BY <1>0, <2>2
  <2> QED BY <1>0, <2>1, <2>2, <2>3, <2>4, <2>5, <2>6, LeasesGrow DEF n
<1>10. ASSUME NEW r \in Reader, Attach(r) PROVE LeasesAreCounted'
  <2>0. active \in 1 .. Len(handles)
    BY <1>0, <1>10 DEF Attach, ActiveIs
  <2>1. active \in 1 .. Len(handles) /\ {r} \in SUBSET Reader /\ Cardinality({r}) = 1
    BY <2>0, FS_Singleton
  <2>2. /\ Len(handles') = Len(handles)
        /\ \A i \in 1 .. Len(handles) :
              /\ handles'[i].gen = handles[i].gen
              /\ handles'[i].draining = handles[i].draining /\ handles'[i].closed = handles[i].closed
              /\ handles'[i].leases = IF i = active THEN handles[active].leases + 1 ELSE handles[i].leases
    BY <1>0, <1>10, <2>1, LeaseIs DEF Attach
  <2>3. ~handles[active].closed /\ \A k \in 1 .. Len(handles) : handles[k].closed => handles[k].draining
    BY <1>0, <2>1 DEF LeasesAreCounted, SlotsFit
  <2>4. /\ reader[r].pc # "leased" /\ reader'[r].pc = "leased" /\ reader'[r].handle = active
        /\ \A q \in Reader \ {r} : reader'[q] = reader[q]
    BY <1>0, <1>10 DEF Attach, TypeOK, Request
  <2>5. \A k \in 1 .. Len(handles') : ~(k > Len(handles))
    BY <1>0, <2>2
  <2> DEFINE W == {r}
  <2>6. /\ \A q \in W : /\ reader[q].pc # "leased" /\ reader'[q].pc = "leased" /\ reader'[q].handle = active
                        /\ handles'[active].closed => reader'[q].late
        /\ \A q \in Reader \ W : reader'[q] = reader[q]
        /\ W \in SUBSET Reader /\ Cardinality(W) = 1
    BY <2>1, <2>2, <2>3, <2>4
  <2> HIDE DEF W
  <2> QED BY <1>0, <2>1, <2>2, <2>3, <2>5, <2>6, LeasesGrow, SMTT(60)
<1>11. CASE \E r \in Reader : AttachOpens(r) \/ AttachFails(r)
  <2> SUFFICES ASSUME NEW r \in Reader, AttachOpens(r) \/ AttachFails(r) PROVE LeasesAreCounted'
    BY <1>11
  <2>1. reader[r].pc = "resolving" /\ reader \in [Reader -> Request]
    BY <1>0 DEF AttachOpens, AttachFails, TypeOK
  <2>2. ASSUME handles' = handles,
               reader' = [reader EXCEPT ![r].pc = "opening"] \/ reader' = [reader EXCEPT ![r] = Idle]
        PROVE  LeasesAreCounted'
    <3>1. reader'[r].pc # "leased" /\ \A q \in Reader \ {r} : reader'[q] = reader[q]
      BY <2>1, <2>2, IdleIs DEF Request
    <3> QED BY <1>1, <2>1, <2>2, <3>1
  <2> QED BY <2>2 DEF AttachOpens, AttachFails
<1>12. ASSUME NEW r \in Reader, Release(r) PROVE LeasesAreCounted'
  <2>0. PICK h \in 1 .. Len(handles) : h = reader[r].handle /\ handles[h].leases > 0
    BY <1>0, <1>12, HeldIsLeased DEF Release
  <2>1. h \in 1 .. Len(handles) /\ handles[h].leases > 0
    BY <2>0
  <2>2. /\ handles' \in Seq(Handle) /\ Len(handles') = Len(handles)
        /\ \A i \in 1 .. Len(handles) :
              /\ handles'[i].gen = handles[i].gen /\ handles'[i].draining = handles[i].draining
              /\ i # h => handles'[i] = handles[i]
        /\ handles'[h].leases = handles[h].leases - 1
        /\ handles'[h].closed <=> handles[h].closed \/ (handles[h].draining /\ handles[h].leases = 1)
    BY <1>0, <1>12, <2>0, ReleaseIs DEF Release
  <2>3. \A q \in Reader : reader'[q] = IF q = r THEN Idle ELSE reader[q]
    BY <1>0, <1>12 DEF Release, TypeOK
  <2>4. \A k : k # h => Holders(k)' = Holders(k)
    BY <2>0, <2>3, IdleIs DEF Holders
  <2>5. Holders(h)' = Holders(h) \ {r} /\ r \in Holders(h)
    BY <1>12, <2>0, <2>3, IdleIs DEF Holders, Release
  <2>6. Cardinality(Holders(h)') = Cardinality(Holders(h)) - 1
    BY <2>5, HoldersCount, FS_RemoveElement
  <2>7. handles[h].leases = 1 => Holders(h)' = {}
    <3>1. handles[h].leases = 1 => Cardinality(Holders(h)') = 0
      BY <1>0, <2>1, <2>6 DEF LeasesAreCounted
    <3>2. IsFiniteSet(Holders(h)')
      BY <2>5, HoldersCount, FS_Subset
    <3> QED BY <3>1, <3>2, FS_EmptySet
  <2> SUFFICES ASSUME NEW k \in 1 .. Len(handles)
               PROVE  /\ handles'[k].leases = Cardinality(Holders(k)')
                      /\ handles'[k].closed =>
                           handles'[k].draining /\ \A q \in Holders(k)' : reader'[q].late
    BY <2>2 DEF LeasesAreCounted
  <2>8. /\ handles[k].leases = Cardinality(Holders(k))
        /\ handles[k].closed => handles[k].draining /\ \A q \in Holders(k) : reader[q].late
    BY <1>0 DEF LeasesAreCounted
  <2>9. \A q \in Holders(k)' : q \in Holders(k) /\ reader'[q] = reader[q]
    BY <2>3, IdleIs DEF Holders
  <2>10. CASE k = h
    <3>1. handles'[k].leases = Cardinality(Holders(k)')
      BY <2>2, <2>6, <2>8, <2>10
    <3> QED BY <2>2, <2>7, <2>8, <2>9, <2>10, <3>1
  <2>11. CASE k # h
    BY <2>2, <2>4, <2>8, <2>9, <2>11
  <2> QED BY <2>10, <2>11
<1> QED BY <1>2, <1>3, <1>4, <1>6, <1>7, <1>8, <1>9, <1>10, <1>11, <1>12 DEF Next

-----------------------------------------------------------------------------
(* Slots and requests.                                                      *)

\* A handle keeps its place and its generation; the active one starts to drain only when it
\* is replaced or the pool is closed.
LEMMA HandlesGrow ==
  ASSUME ConstantsOK, Inv, [Next]_vars
  PROVE  /\ Len(handles') \in Nat /\ Len(handles) <= Len(handles')
         /\ \A k \in 1 .. Len(handles) : k \in 1 .. Len(handles') /\ handles'[k].gen = handles[k].gen
         /\ \/ active' = active /\ (active # 0 => handles'[active].draining = handles[active].draining)
            \/ active' = 0
            \/ active' \in 1 .. Len(handles') /\ ~handles'[active'].draining
<1> DEFINE G == /\ Len(handles') \in Nat /\ Len(handles) <= Len(handles')
                /\ \A k \in 1 .. Len(handles) : k \in 1 .. Len(handles') /\ handles'[k].gen = handles[k].gen
                /\ \/ active' = active /\ (active # 0 => handles'[active].draining = handles[active].draining)
                   \/ active' = 0
                   \/ active' \in 1 .. Len(handles') /\ ~handles'[active'].draining
<1>0. /\ TypeOK /\ RequestsFit /\ LeasesAreCounted /\ SlotsFit /\ BuildIsKept
      /\ Len(handles) \in Nat /\ active \in 0 .. Len(handles)
  BY DEF Inv, TypeOK
<1>1. ASSUME UNCHANGED <<handles, active>> PROVE G
  BY <1>0, <1>1
<1>2. ASSUME NEW g \in Gen, NEW n \in Nat, FlipTo(g, n) PROVE G
  <2>1. Len(handles') = Len(handles) + 1 /\ active' = Len(handles) + 1
    BY <1>0, <1>2, FlipIs
  <2>2. /\ \A k \in 1 .. Len(handles) : handles'[k].gen = handles[k].gen
        /\ ~handles'[Len(handles) + 1].draining
    BY <1>0, <1>2, FlipIs
  <2>3. /\ Len(handles') \in Nat /\ Len(handles) <= Len(handles') /\ active' \in 1 .. Len(handles')
        /\ \A k \in 1 .. Len(handles) : k \in 1 .. Len(handles')
    BY <1>0, <2>1
  <2> QED BY <2>1, <2>2, <2>3
<1>3. ASSUME NEW h \in 1 .. Len(handles), NEW n \in Nat, UNCHANGED active,
             handles' = [handles EXCEPT ![h].leases = @ + n]
      PROVE  G
  <2>1. /\ Len(handles') = Len(handles)
        /\ \A i \in 1 .. Len(handles) :
              handles'[i].gen = handles[i].gen /\ handles'[i].draining = handles[i].draining
    BY <1>0, <1>3, LeaseIs
  <2>2. active # 0 => active \in 1 .. Len(handles)
    BY <1>0
  <2> QED BY <1>0, <1>3, <2>1, <2>2
<1>4. ASSUME NEW r \in Reader, Release(r) PROVE G
  <2>1. reader[r].handle \in 1 .. Len(handles) /\ handles[reader[r].handle].leases > 0
    BY <1>0, <1>4, HeldIsLeased DEF Release
  <2>2. /\ Len(handles') = Len(handles)
        /\ \A i \in 1 .. Len(handles) :
              handles'[i].gen = handles[i].gen /\ handles'[i].draining = handles[i].draining
    BY <1>0, <1>4, <2>1, ReleaseIs DEF Release
  <2>3. UNCHANGED active /\ (active # 0 => active \in 1 .. Len(handles))
    BY <1>0, <1>4 DEF Release
  <2> QED BY <1>0, <2>2, <2>3
<1>5. ASSUME ClosePool PROVE G
  <2>1. active' = 0 /\ Len(handles') = Len(handles)
        /\ \A i \in 1 .. Len(handles) : handles'[i].gen = handles[i].gen
    BY <1>0, <1>5, CloseIs DEF ClosePool
  <2> QED BY <1>0, <2>1
<1>6. ASSUME NEW g \in Gen, OpenTakesSlot(g) PROVE G
  BY <1>2, <1>6, WaitersCount DEF OpenTakesSlot
<1>7. ASSUME NEW g \in Gen, Yielded(g) PROVE G
  <2>1. opening[g].target \in 1 .. Len(handles) /\ Cardinality(Waiters(g)) \in Nat
    BY <1>0, <1>7, WaitersCount DEF Yielded, SlotsFit
  <2> QED BY <1>3, <1>7, <2>1 DEF Yielded
<1>8. ASSUME Promote PROVE G
  <2>1. build.gen \in Gen
    BY <1>0, <1>8 DEF Promote, BuildIsKept
  <2> QED BY <1>1, <1>2, <1>8, <2>1 DEF Promote
<1>9. ASSUME NEW r \in Reader, Attach(r) PROVE G
  <2>1. active \in 1 .. Len(handles)
    BY <1>0, <1>9 DEF Attach, ActiveIs
  <2> QED BY <1>3, <1>9, <2>1 DEF Attach
<1>10. ASSUME \/ \E g \in Gen : Reserve(g) \/ OpenYields(g) \/ OpenFails(g)
              \/ \E r \in Reader : Resolve(r) \/ AttachOpens(r) \/ AttachFails(r)
              \/ Inspect \/ Refused \/ Publish \/ StoreMetadata \/ StartPromote \/ Commit \/ BuildFails
              \/ Clear \/ StartSweep \/ SweepDirectories \/ LookForGenerations \/ Decide \/ RemoveRoot
              \/ UNCHANGED vars
       PROVE  G
  <2>1. UNCHANGED <<handles, active>>
    BY <1>10 DEF vars, Reserve, OpenYields, OpenFails,
     Inspect, Refused, Publish, StoreMetadata, StartPromote, Commit, BuildFails, Clear, Resolve,
     AttachOpens, AttachFails, StartSweep, SweepDirectories, LookForGenerations, Decide, RemoveRoot
  <2> QED BY <1>1, <2>1, SMTT(60)
<1> HIDE DEF G
<1>11. G
  BY <1>4, <1>5, <1>6, <1>7, <1>8, <1>9, <1>10 DEF Next
<1> QED BY <1>11 DEF G

\* Every step keeps the slots.
LEMMA SlotsHold == ASSUME ConstantsOK, Inv, [Next]_vars PROVE SlotsFit'
<1>0. /\ TypeOK /\ SlotsFit /\ active \in 0 .. Len(handles)
      /\ opening \in [Gen -> Opening] /\ Len(handles) \in Nat
  BY DEF Inv, TypeOK
<1>1. active' # 0 => ~handles'[active'].draining
  BY <1>0, HandlesGrow, SMTT(60) DEF SlotsFit
<1>2. ASSUME NEW g \in Gen, opening'[g].pc = "closing"
      PROVE  \/ opening'[g] = opening[g]
             \/ opening'[g].target = active /\ ActiveIs(g)
  <2>1. CASE \E f \in Gen : OpenTakesSlot(f) \/ Yielded(f) \/ OpenFails(f)
    BY <1>0, <1>2, <2>1 DEF OpenTakesSlot, Yielded, OpenFails, Landed
  <2>2. CASE \E f \in Gen : OpenYields(f)
    BY <1>0, <1>2, <2>2 DEF OpenYields
  <2>3. CASE \E r \in Reader : AttachOpens(r)
    BY <1>0, <1>2, <2>3 DEF AttachOpens, Opening
  <2>4. CASE UNCHANGED opening
    BY <2>4
  <2> QED BY <2>1, <2>2, <2>3, <2>4 DEF Next, vars, Reserve, Inspect, Refused, Publish, StoreMetadata,
    StartPromote, Promote, Commit, BuildFails, Clear, ClosePool, Resolve, Attach, AttachFails, Release,
    StartSweep, SweepDirectories, LookForGenerations, Decide, RemoveRoot
<1>3. ASSUME NEW g \in Gen, opening'[g].pc = "closing"
      PROVE  opening'[g].target \in 1 .. Len(handles') /\ handles'[opening'[g].target].gen = g
  <2>1. opening'[g].target \in 1 .. Len(handles) /\ handles[opening'[g].target].gen = g
    BY <1>0, <1>2, <1>3 DEF SlotsFit, ActiveIs
  <2> QED BY <2>1, HandlesGrow
<1> QED BY <1>1, <1>3 DEF SlotsFit

\* Every step keeps what requests hold.
LEMMA RequestsHold == ASSUME ConstantsOK, Inv, [Next]_vars PROVE RequestsFit'
<1>0. /\ TypeOK /\ RequestsFit /\ SlotsFit /\ ledger \in Ledger
      /\ active \in 0 .. Len(handles) /\ Len(handles) \in Nat
      /\ reader \in [Reader -> Request]
  BY DEF Inv, TypeOK
<1>1. ASSUME NEW r \in Reader, reader'[r].pc # "idle" PROVE reader'[r].gen \in Gen
  <2>1. CASE \E q \in Reader : Resolve(q)
    BY <1>0, <1>1, <2>1 DEF Resolve, RequestsFit, Request, Ledger
  <2>2. CASE \E q \in Reader : Attach(q) \/ AttachOpens(q) \/ AttachFails(q)
    BY <1>0, <1>1, <2>2, IdleIs, SMTT(60) DEF Attach, AttachOpens, AttachFails, RequestsFit, Request
  <2>3. CASE \E q \in Reader : Release(q)
    BY <1>0, <1>1, <2>3, IdleIs DEF Release, RequestsFit, Request
  <2>4. CASE \E g \in Gen : OpenFails(g)
    BY <1>0, <1>1, <2>4, IdleIs DEF OpenFails, RequestsFit
  <2>5. ASSUME NEW g \in Gen, NEW h \in Nat, reader' = Leased(g, h) PROVE reader'[r].gen \in Gen
    BY <1>0, <1>1, <2>5, LeasedIs DEF RequestsFit
  <2>6. ASSUME NEW g \in Gen, OpenTakesSlot(g) \/ Yielded(g) PROVE reader'[r].gen \in Gen
    <3>1. Len(handles) + 1 \in Nat
      BY <1>0
    <3>2. opening[g].target \in Nat
      BY <1>0, OpeningIs
    <3> QED BY <2>5, <2>6, <3>1, <3>2 DEF OpenTakesSlot, Yielded
  <2>7. CASE UNCHANGED reader
    BY <1>0, <1>1, <2>7 DEF RequestsFit
  <2> QED BY <2>1, <2>2, <2>3, <2>4, <2>6, <2>7 DEF Next, vars, Reserve, OpenYields, Inspect, Refused, Publish,
    StoreMetadata, StartPromote, Promote, Commit, BuildFails, Clear, ClosePool,
    StartSweep, SweepDirectories, LookForGenerations, Decide, RemoveRoot
<1>2. ASSUME NEW r \in Reader, reader'[r].pc = "leased"
      PROVE  reader'[r].handle \in 1 .. Len(handles') /\ handles'[reader'[r].handle].gen = reader'[r].gen
  <2>1. ASSUME reader[r].pc = "leased", reader'[r] = reader[r]
        PROVE  reader'[r].handle \in 1 .. Len(handles') /\ handles'[reader'[r].handle].gen = reader'[r].gen
    BY <1>0, <2>1, HandlesGrow DEF RequestsFit
  <2>2. CASE \E q \in Reader : Resolve(q) \/ Release(q) \/ AttachOpens(q) \/ AttachFails(q)
    <3>1. reader'[r] = reader[r]
      BY <1>0, <1>2, <2>2, IdleIs DEF Resolve, Release, AttachOpens, AttachFails, Request
    <3> QED BY <1>2, <2>1, <3>1
  <2>3. CASE \E q \in Reader : Attach(q)
    <3>1. \/ reader'[r] = reader[r]
          \/ reader'[r].handle = active /\ reader'[r].gen = reader[r].gen /\ ActiveIs(reader[r].gen)
      BY <1>0, <1>2, <2>3, IdleIs DEF Attach, Request
    <3>2. ActiveIs(reader[r].gen) => active \in 1 .. Len(handles) /\ handles[active].gen = reader[r].gen
      BY <1>0 DEF ActiveIs
    <3> QED BY <1>2, <2>1, <3>1, <3>2, HandlesGrow
  <2>4. CASE \E g \in Gen : OpenFails(g)
    BY <1>0, <1>2, <2>1, <2>4, IdleIs DEF OpenFails
  <2>5. ASSUME NEW g \in Gen, OpenTakesSlot(g)
        PROVE  reader'[r].handle \in 1 .. Len(handles') /\ handles'[reader'[r].handle].gen = reader'[r].gen
    <3>1. /\ FlipTo(g, Cardinality(Waiters(g))) /\ Cardinality(Waiters(g)) \in Nat
          /\ reader' = Leased(g, Len(handles) + 1)
      BY <2>5, WaitersCount DEF OpenTakesSlot
    <3>2. Len(handles') = Len(handles) + 1 /\ handles'[Len(handles) + 1].gen = g
      BY <1>0, <3>1, FlipIs
    <3>3. Len(handles) + 1 \in Nat /\ Len(handles) + 1 \in 1 .. Len(handles')
      BY <1>0, <3>2
    <3>4. CASE r \in Waiters(g)
      <4>1. reader'[r].handle = Len(handles) + 1 /\ reader'[r].gen = g
        BY <1>0, <3>1, <3>3, <3>4, LeasedIs
      <4> QED BY <3>2, <3>3, <4>1
    <3>5. CASE r \notin Waiters(g)
      <4>1. reader'[r] = reader[r]
        BY <1>0, <3>1, <3>3, <3>5, LeasedIs
      <4> QED BY <1>2, <2>1, <4>1
    <3> QED BY <3>4, <3>5
  <2>6. ASSUME NEW g \in Gen, Yielded(g)
        PROVE  reader'[r].handle \in 1 .. Len(handles') /\ handles'[reader'[r].handle].gen = reader'[r].gen
    <3>1. opening[g].target \in 1 .. Len(handles) /\ handles[opening[g].target].gen = g
      BY <1>0, <2>6 DEF Yielded, SlotsFit
    <3>2. reader' = Leased(g, opening[g].target) /\ opening[g].target \in Nat
      BY <2>6, <3>1 DEF Yielded
    <3>3. CASE r \in Waiters(g)
      <4>1. reader'[r].handle = opening[g].target /\ reader'[r].gen = g
        BY <1>0, <3>2, <3>3, LeasedIs
      <4> QED BY <3>1, <4>1, HandlesGrow
    <3>4. CASE r \notin Waiters(g)
      <4>1. reader'[r] = reader[r]
        BY <1>0, <3>2, <3>4, LeasedIs
      <4> QED BY <1>2, <2>1, <4>1
    <3> QED BY <3>3, <3>4
  <2>7. CASE UNCHANGED reader
    BY <1>2, <2>1, <2>7
  <2> QED BY <2>2, <2>3, <2>4, <2>5, <2>6, <2>7 DEF Next, vars, Reserve, OpenYields, Inspect, Refused, Publish,
    StoreMetadata, StartPromote, Promote, Commit, BuildFails, Clear, ClosePool,
    StartSweep, SweepDirectories, LookForGenerations, Decide, RemoveRoot
<1> QED BY <1>1, <1>2 DEF RequestsFit

-----------------------------------------------------------------------------

\* A daemon starts on what the last one left.
LEMMA StartsWell == ASSUME ConstantsOK, Init PROVE Inv
<1>1. PICK e \in Gen \cup {None} :
        /\ ledger = [fresh |-> e, events |-> 0, torn |-> FALSE, closed |-> FALSE]
        /\ disk \in [Dirs -> Contents] /\ \A d \in Dirs : disk[d].there \/ disk[d] = Absent
        /\ e # None => Whole(e)
  BY DEF Init
<1>2. handles = <<>> /\ Len(handles) = 0 /\ handles \in Seq(Handle) /\ active = 0
  BY DEF Init
<1>3. /\ reader = [r \in Reader |-> Idle] /\ reader \in [Reader -> Request]
      /\ \A r \in Reader : reader[r].pc = "idle"
  BY IdleIs DEF Init
<1>4. TypeOK
  <2>1. disk \in [Dirs -> Contents] /\ ledger \in Ledger
    BY <1>1 DEF Ledger
  <2>2. tree \in Tree /\ build \in BuildState /\ sweep \in Sweep /\ opening \in [Gen -> Opening]
    BY ContentIs DEF Init, Tree, BuildState, BuildPC, NoBuild, Sweep, NoSweep, Opening
  <2> QED BY <1>2, <1>3, <2>1, <2>2 DEF TypeOK
<1>5. BuildIsKept
  BY DEF Init, NoBuild, BuildIsKept
<1>6. RequestsFit /\ LeasesAreCounted /\ SlotsFit
  BY <1>2, <1>3 DEF RequestsFit, LeasesAreCounted, SlotsFit, Init
<1>7. NamedAndPinnedSurvive
  BY <1>1, <1>3 DEF NamedAndPinnedSurvive
<1>8. AbsentIsEmpty /\ FoundIsWhole
  BY <1>1, <1>3 DEF AbsentIsEmpty, FoundIsWhole
<1> QED BY <1>4, <1>5, <1>6, <1>7, <1>8 DEF Inv

\* A lease is of an open handle.
LEMMA InvUsable == ASSUME ConstantsOK, Inv PROVE LeaseIsUsable
<1>0. TypeOK /\ RequestsFit /\ LeasesAreCounted
  BY DEF Inv
<1> SUFFICES ASSUME NEW r \in Reader, reader[r].pc = "leased"
             PROVE  /\ handles[reader[r].handle].leases > 0
                    /\ handles[reader[r].handle].gen = reader[r].gen
                    /\ handles[reader[r].handle].closed => reader[r].late
  BY DEF LeaseIsUsable
<1>1. reader[r].handle \in 1 .. Len(handles) /\ handles[reader[r].handle].leases > 0
  BY <1>0, HeldIsLeased
<1>2. r \in Holders(reader[r].handle)
  BY DEF Holders
<1> QED BY <1>0, <1>1, <1>2 DEF RequestsFit, LeasesAreCounted

\* However many readers, builds, clears, failures and sweeps there are, and whichever
\* generations share a directory: as long as no part of a root has been removed under a build, what the
\* fresh edition names or a reader has pinned is whole on disk (publisher.ts
\* sweepVectorGenerations), and a leased handle is counted, of the generation that was asked
\* for, and open unless the lease came from a lost open (pool.ts closeWhenDrained).
THEOREM VectorsStay ==
  ASSUME ConstantsOK
  PROVE  Spec => []VectorsSurvive
<1>1. Init => Inv
  BY StartsWell
<1>2. Inv /\ [Next]_vars => Inv'
  BY TypesHold, AbsentHolds, BuildHolds, FoundHolds, RequestsHold, LeasesHold, SlotsHold, SurviveHolds
     DEF Inv
<1>3. Inv => VectorsSurvive
  BY InvUsable DEF Inv, VectorsSurvive
<1> QED BY <1>1, <1>2, <1>3, PTL DEF Spec

-----------------------------------------------------------------------------
(* CacheCatalog.                                                            *)

CONSTANTS Process, Actor, ProcessOf, Stores, Day, UnusedDays, MaxTime, MaxEdition, MaxOps, MaxFaults
VARIABLES op, now, spent, catalog, memo, loaded, last, hurt

Caches == INSTANCE CacheCatalog

\* Every request is one of a process, and days are counted.
CacheConstants ==
  ProcessOf \in [Actor -> Process] /\ Stores \in Nat /\ Day \in Nat \ {0} /\ UnusedDays \in Nat

Touched == [used : Nat, edition : Nat]
OnDisk  == [dir : BOOLEAN, record : Touched, edition : Nat, mtime : Nat]
Working == {"opened", "build", "touch", "write", "enter", "done"}
Errand  == [kind : {"none", "use", "clear", "prune"}, step : {"idle", "judge", "remove"} \cup Working,
            store : 0..Stores, record : Touched, list : [Caches!Store -> Touched],
            todo : SUBSET Caches!Store, gone : SUBSET Caches!Store, dry : BOOLEAN]
Past    == UnusedDays * Day

CacheTypes ==
  /\ now \in Nat \ {0} /\ disk \in [Caches!Store -> OnDisk] /\ catalog \in [Caches!Store -> Touched]
  /\ memo \in [Process -> [Caches!Store -> Touched]] /\ loaded \in [Process -> SUBSET Caches!Store]
  /\ op \in [Actor -> Errand] /\ last \in [Caches!Store -> Nat] /\ hurt \subseteq Caches!Store

\* A process is in one chain at a time.
OneChain ==
  \A a, b \in Actor : ProcessOf[a] = ProcessOf[b] /\ Caches!InChain(a) /\ Caches!InChain(b) => a = b

\* What the step of a request says of it.
ErrandFits(a) ==
  /\ op[a].step = "idle" => op[a].kind = "none" /\ op[a].store = 0
  /\ op[a].kind = "prune" <=> op[a].step \in {"judge", "remove"}
  /\ op[a].step \in Working => op[a].store \in Caches!Store
  /\ op[a].step = "write" => 0 < op[a].record.used /\ op[a].record.used <= now /\ now < op[a].record.used + Day

\* A request that touches a store finds its record there, and has left a young one, unless it was hurt.
RecordFits(a) ==
  op[a].store \notin hurt =>
    /\ op[a].step \in {"touch", "enter", "done"} => disk[op[a].store].record # Caches!NoRecord
    /\ op[a].step \in {"enter", "done"} => now < disk[op[a].store].record.used + Day
    /\ op[a].step = "write" => op[a].record.used = now \/ disk[op[a].store].record # Caches!NoRecord

\* A store that is about to be removed is not used by its daemon, and what was judged is too old.
PruneFits(a) ==
  op[a].step = "remove" =>
    /\ op[a].store \in Caches!Store /\ op[a].store \notin loaded[ProcessOf[a]]
    /\ \A b \in Actor \ {a} : ProcessOf[b] = ProcessOf[a] /\ op[b].store = op[a].store => op[b].kind = "prune"
    /\ Past < now
    /\ op[a].record # Caches!NoRecord => op[a].record.used + Past < now

\* Times are past, and a directory that is not there holds nothing.
StoreTimes(s) ==
  /\ ~disk[s].dir => disk[s].record = Caches!NoRecord /\ disk[s].edition = 0
  /\ disk[s].record # Caches!NoRecord => 0 < disk[s].record.used
  /\ disk[s].record.used <= now /\ last[s] <= now
  /\ \A p \in Process : memo[p][s].used <= now

\* The record keeps up with the last use and with what every process remembers; a store without
\* one was not used, or was removed.
StoreFits(s) ==
  s \notin hurt =>
    /\ 0 < disk[s].edition => disk[s].record # Caches!NoRecord
    /\ disk[s].record # Caches!NoRecord =>
         /\ last[s] < disk[s].record.used + Day
         /\ \A p \in Process : memo[p][s].used <= disk[s].record.used
    /\ disk[s].record = Caches!NoRecord => last[s] = 0 \/ last[s] + Past < now + Day

CacheInv ==
  /\ CacheTypes /\ OneChain
  /\ \A a \in Actor : ErrandFits(a) /\ RecordFits(a) /\ PruneFits(a)
  /\ \A s \in Caches!Store : StoreTimes(s) /\ StoreFits(s)

LEMMA CachePast == ASSUME CacheConstants PROVE Past \in Nat /\ (UnusedDays - 1) * Day = Past - Day
BY DEF CacheConstants, Past

\* What a store that is not there, and a request that has ended, look like.
LEMMA CacheRecords ==
  ASSUME CacheConstants
  PROVE  /\ Caches!NoRecord \in Touched /\ Caches!NoRecord.used = 0
         /\ Caches!NoStore \in OnDisk /\ Caches!NoStore.record = Caches!NoRecord /\ Caches!NoStore.edition = 0
         /\ Caches!Idle \in Errand /\ Caches!Idle.kind = "none" /\ Caches!Idle.step = "idle"
         /\ Caches!Idle.store = 0
<1>1. Caches!NoRecord \in Touched /\ Caches!NoRecord.used = 0
  BY DEF Caches!NoRecord, Touched
<1>2. Caches!NoStore \in OnDisk /\ Caches!NoStore.record = Caches!NoRecord /\ Caches!NoStore.edition = 0
  BY <1>1 DEF Caches!NoStore, OnDisk
<1>3. [s \in Caches!Store |-> Caches!NoRecord] \in [Caches!Store -> Touched]
  BY <1>1
<1>4. 0 \in 0..Stores
  BY DEF CacheConstants
<1>5. Caches!Idle \in Errand /\ Caches!Idle.kind = "none" /\ Caches!Idle.step = "idle" /\ Caches!Idle.store = 0
  BY <1>1, <1>3, <1>4 DEF Caches!Idle, Errand
<1> QED BY <1>1, <1>2, <1>5

\* The stores begin with a record or without one, and nobody has touched them.
LEMMA CachesStart == ASSUME CacheConstants, Caches!Init PROVE CacheInv
<1> DEFINE built == [dir |-> TRUE, record |-> [used |-> 1, edition |-> 1], edition |-> 1, mtime |-> 1]
<1>1. /\ now = 1 /\ memo = [p \in Process |-> [s \in Caches!Store |-> Caches!NoRecord]]
      /\ loaded = [p \in Process |-> {}] /\ op = [a \in Actor |-> Caches!Idle] /\ hurt = {}
      /\ last = [s \in Caches!Store |-> disk[s].mtime]
      /\ disk \in [Caches!Store -> {Caches!NoStore, built}]
      /\ catalog \in {[s \in Caches!Store |-> disk[s].record], [s \in Caches!Store |-> Caches!NoRecord]}
  BY DEF Caches!Init
<1>2. /\ built \in OnDisk /\ built.record.used = 1 /\ built.dir = TRUE /\ built.mtime = 1
      /\ built.record # Caches!NoRecord
  BY DEF OnDisk, Touched, Caches!NoRecord
<1>3. Caches!NoStore.mtime = 0
  BY DEF Caches!NoStore
<1> HIDE DEF built
<1>4. disk \in [Caches!Store -> OnDisk] /\ \A s \in Caches!Store : disk[s] = Caches!NoStore \/ disk[s] = built
  BY <1>1, <1>2, CacheRecords
<1>5. last \in [Caches!Store -> Nat] /\ \A s \in Caches!Store : last[s] = disk[s].mtime
  BY <1>1, <1>4 DEF OnDisk
<1>6. catalog \in [Caches!Store -> Touched]
  BY <1>1, <1>4, CacheRecords DEF OnDisk
<1>7. CacheTypes
  BY <1>1, <1>4, <1>5, <1>6, CacheRecords DEF CacheTypes
<1>8. \A a \in Actor : op[a].kind = "none" /\ op[a].step = "idle" /\ op[a].store = 0
  BY <1>1, CacheRecords
<1>9. OneChain
  BY <1>8 DEF OneChain, Caches!InChain
<1>10. \A a \in Actor : ErrandFits(a) /\ RecordFits(a) /\ PruneFits(a)
  BY <1>8 DEF ErrandFits, RecordFits, PruneFits, Working
<1>11. ASSUME NEW s \in Caches!Store PROVE StoreTimes(s) /\ StoreFits(s)
  <2>1. \A p \in Process : memo[p][s].used = 0
    BY <1>1, CacheRecords
  <2>2. CASE disk[s] = Caches!NoStore
    BY <1>1, <1>3, <1>5, <2>1, <2>2, CacheRecords DEF StoreTimes, StoreFits
  <2>3. CASE disk[s] = built
    BY <1>1, <1>2, <1>5, <2>1, <2>3, CacheRecords DEF StoreTimes, StoreFits, CacheConstants
  <2> QED BY <1>4, <2>2, <2>3
<1> QED BY <1>7, <1>9, <1>10, <1>11 DEF CacheInv

\* Whoever is in a chain has its process to itself.
LEMMA CacheTurn == ASSUME CacheInv, NEW a \in Actor, Caches!InChain(a) PROVE Caches!Turn(a)
BY DEF CacheInv, OneChain, Caches!Turn

\* A step of one request, in its turn, leaves what is said of the others.
LEMMA CacheOthers ==
  ASSUME CacheInv, CacheConstants, NEW a \in Actor, Caches!Turn(a), op' \in [Actor -> Errand],
         \A b \in Actor : b # a => op'[b] = op[b], now' = now,
         \A q \in Process : q # ProcessOf[a] => loaded'[q] \subseteq loaded[q]
  PROVE  OneChain' /\ \A b \in Actor : b # a => ErrandFits(b)' /\ PruneFits(b)'
<1>1. OneChain'
  <2> SUFFICES ASSUME NEW b \in Actor, NEW c \in Actor, ProcessOf[b] = ProcessOf[c], b # c,
                      Caches!InChain(b)', Caches!InChain(c)'
               PROVE  FALSE
    BY DEF OneChain
  <2>1. \A d \in Actor : d # a /\ Caches!InChain(d)' => Caches!InChain(d) /\ ProcessOf[d] # ProcessOf[a]
    BY DEF Caches!InChain, Caches!Turn
  <2> QED BY <2>1 DEF CacheInv, OneChain
<1>2. ASSUME NEW b \in Actor, b # a PROVE ErrandFits(b)'
  <2>1. ErrandFits(b) /\ op'[b] = op[b]
    BY <1>2 DEF CacheInv
  <2> QED BY <2>1 DEF ErrandFits
<1>3. ASSUME NEW b \in Actor, b # a PROVE PruneFits(b)'
  <2> SUFFICES ASSUME op[b].step = "remove" PROVE PruneFits(b)'
    BY <1>3 DEF PruneFits
  <2>1. PruneFits(b) /\ op'[b] = op[b] /\ ProcessOf[b] \in Process
    BY <1>3 DEF CacheInv, CacheConstants
  <2>2. ProcessOf[b] # ProcessOf[a]
    BY <1>3 DEF Caches!Turn, Caches!InChain
  <2>3. \A c \in Actor \ {b} : ProcessOf[c] = ProcessOf[b] /\ op'[c].store = op[b].store => op'[c].kind = "prune"
    BY <2>1, <2>2 DEF PruneFits
  <2> QED BY <2>1, <2>2, <2>3 DEF PruneFits
<1> QED BY <1>1, <1>2, <1>3

\* What a request finds on the disk remains, while its record does.
LEMMA RecordStays ==
  ASSUME NEW b \in Actor, RecordFits(b), op'[b] = op[b], now' = now, hurt \subseteq hurt',
         op[b].step \in Working /\ op[b].store \notin hurt' =>
           disk'[op[b].store].record = disk[op[b].store].record
  PROVE  RecordFits(b)'
BY DEF RecordFits, Working

\* A store is as it was.
LEMMA StoreStays ==
  ASSUME CacheInv, CacheConstants, NEW s \in Caches!Store, now' \in Nat, now <= now', hurt \subseteq hurt',
         disk'[s].record = disk[s].record, disk'[s].edition = disk[s].edition \/ disk'[s].edition = 0,
         disk'[s].dir \/ disk'[s].dir = disk[s].dir,
         last'[s] = last[s], \A p \in Process : memo'[p][s] = memo[p][s]
  PROVE  StoreTimes(s)' /\ StoreFits(s)'
<1>1. /\ StoreTimes(s) /\ StoreFits(s) /\ now \in Nat /\ disk[s].record \in Touched
      /\ disk[s].record.used \in Nat
      /\ last[s] \in Nat /\ \A p \in Process : memo[p][s].used \in Nat
  BY DEF CacheInv, CacheTypes, OnDisk, Touched
<1>2. Past \in Nat /\ Day \in Nat
  BY CachePast DEF CacheConstants
<1>3. StoreTimes(s)'
  BY <1>1 DEF StoreTimes
<1>4. StoreFits(s)'
  BY <1>1, <1>2 DEF StoreFits
<1> QED BY <1>3, <1>4

LEMMA CacheFacts ==
  ASSUME CacheInv, NEW a \in Actor
  PROVE  /\ CacheTypes /\ OneChain /\ op \in [Actor -> Errand] /\ op[a] \in Errand
         /\ disk \in [Caches!Store -> OnDisk] /\ hurt \subseteq Caches!Store
         /\ ErrandFits(a) /\ RecordFits(a) /\ PruneFits(a)
         /\ op[a].step \in {"idle", "judge", "remove"} \cup Working /\ op[a].store \in 0..Stores
BY DEF CacheInv, CacheTypes, Errand

\* A store is opened, and its directory made.
LEMMA CachesOpen ==
  ASSUME CacheInv, CacheConstants, NEW a \in Actor, NEW s \in Caches!Store, NEW kind \in {"use", "clear"},
         Caches!Open(a, s, kind)
  PROVE  CacheInv'
<1>1. /\ op[a] = Caches!Idle /\ Caches!Turn(a)
      /\ op' = [op EXCEPT ![a] = [Caches!Idle EXCEPT !.kind = kind, !.step = "opened", !.store = s]]
      /\ disk' = IF disk[s].dir THEN disk ELSE [disk EXCEPT ![s] = [Caches!NoStore EXCEPT !.dir = TRUE, !.mtime = now]]
      /\ now' = now /\ catalog' = catalog /\ memo' = memo /\ loaded' = loaded /\ last' = last /\ hurt' = hurt
  BY DEF Caches!Open
<1>2. CacheTypes /\ op \in [Actor -> Errand] /\ disk \in [Caches!Store -> OnDisk] /\ now \in Nat
  BY DEF CacheInv, CacheTypes
<1>3. PICK n1 \in Errand : n1 = [Caches!Idle EXCEPT !.kind = kind]
  BY CacheRecords DEF Errand
<1>4. PICK n2 \in Errand : n2 = [n1 EXCEPT !.step = "opened"]
  BY DEF Errand, Working
<1>5. PICK n3 \in Errand : n3 = [n2 EXCEPT !.store = s]
  <2>1. s \in 0..Stores
    BY DEF Caches!Store, CacheConstants
  <2> QED BY <2>1 DEF Errand
<1>6. n3.kind = kind /\ n3.step = "opened" /\ n3.store = s
  BY <1>3, <1>4, <1>5, CacheRecords DEF Errand
<1>7. op' = [op EXCEPT ![a] = n3]
  BY <1>1, <1>3, <1>4, <1>5
<1>8. op' \in [Actor -> Errand] /\ op'[a] = n3 /\ \A b \in Actor : b # a => op'[b] = op[b]
  BY <1>2, <1>7
<1>9. PICK d1 \in OnDisk : d1 = [Caches!NoStore EXCEPT !.dir = TRUE]
  BY CacheRecords DEF OnDisk
<1>10. PICK d2 \in OnDisk : d2 = [d1 EXCEPT !.mtime = now]
  BY <1>2 DEF OnDisk
<1>11. d2.dir = TRUE /\ d2.record = Caches!NoRecord /\ d2.edition = 0
  BY <1>9, <1>10, CacheRecords DEF OnDisk
<1>12. disk' = IF disk[s].dir THEN disk ELSE [disk EXCEPT ![s] = d2]
  BY <1>1, <1>9, <1>10
<1>13. disk' \in [Caches!Store -> OnDisk]
  BY <1>2, <1>12
<1>14. ASSUME NEW t \in Caches!Store
       PROVE  /\ disk'[t].record = disk[t].record /\ disk'[t].edition = disk[t].edition
              /\ disk'[t].dir \/ disk'[t].dir = disk[t].dir
  <2>1. StoreTimes(t) /\ (disk'[t] = disk[t] \/ (t = s /\ ~disk[t].dir /\ disk'[t] = d2))
    BY <1>2, <1>12 DEF CacheInv
  <2> QED BY <1>11, <2>1 DEF StoreTimes
<1>15. CacheTypes'
  BY <1>1, <1>2, <1>8, <1>13 DEF CacheTypes
<1>16. OneChain' /\ \A b \in Actor : b # a => ErrandFits(b)' /\ PruneFits(b)'
  BY <1>1, <1>8, CacheOthers
<1>17. ErrandFits(a)' /\ PruneFits(a)' /\ RecordFits(a)'
  BY <1>6, <1>8 DEF ErrandFits, PruneFits, RecordFits, Working
<1>18. ASSUME NEW b \in Actor, b # a PROVE RecordFits(b)'
  BY <1>1, <1>8, <1>14, <1>18, CacheFacts, RecordStays DEF ErrandFits
<1>19. ASSUME NEW t \in Caches!Store PROVE StoreTimes(t)' /\ StoreFits(t)'
  <2>1. now' \in Nat /\ now <= now' /\ hurt \subseteq hurt' /\ last'[t] = last[t]
    BY <1>1, <1>2
  <2>2. \A p \in Process : memo'[p][t] = memo[p][t]
    BY <1>1
  <2> QED BY <1>14, <2>1, <2>2, StoreStays
<1> QED BY <1>15, <1>16, <1>17, <1>18, <1>19 DEF CacheInv

\* A request goes on to a step that leaves the disk alone.
LEMMA CachesGo ==
  ASSUME CacheInv, CacheConstants, NEW a \in Actor, Caches!Turn(a), op' \in [Actor -> Errand],
         \A b \in Actor : b # a => op'[b] = op[b],
         now' = now, disk' = disk, hurt' = hurt, last' = last,
         memo' \in [Process -> [Caches!Store -> Touched]], loaded' \in [Process -> SUBSET Caches!Store],
         catalog' \in [Caches!Store -> Touched],
         \A q \in Process : q # ProcessOf[a] => loaded'[q] \subseteq loaded[q],
         \A p \in Process, s \in Caches!Store : memo'[p][s] = memo[p][s] \/ memo'[p][s] = disk[s].record,
         ErrandFits(a)', RecordFits(a)', PruneFits(a)'
  PROVE  CacheInv'
<1>1. CacheTypes'
  BY DEF CacheInv, CacheTypes
<1>2. OneChain' /\ \A b \in Actor : b # a => ErrandFits(b)' /\ PruneFits(b)'
  BY CacheOthers
<1>3. \A b \in Actor : b # a => RecordFits(b)'
  BY CacheFacts, RecordStays
<1>4. ASSUME NEW s \in Caches!Store PROVE StoreTimes(s)' /\ StoreFits(s)'
  <2>1. /\ StoreTimes(s) /\ StoreFits(s) /\ disk[s].record \in Touched
        /\ \A p \in Process : memo[p][s] \in Touched
    BY DEF CacheInv, CacheTypes, OnDisk
  <2>2. disk[s].record.used \in Nat
    BY <2>1 DEF Touched
  <2>3. StoreTimes(s)'
    BY <2>1 DEF StoreTimes
  <2>4. StoreFits(s)'
    <3> SUFFICES ASSUME s \notin hurt PROVE StoreFits(s)'
      BY DEF StoreFits
    <3>1. disk[s].record # Caches!NoRecord => \A p \in Process : memo'[p][s].used <= disk[s].record.used
      BY <2>1, <2>2 DEF StoreFits
    <3> QED BY <2>1, <3>1 DEF StoreFits
  <2> QED BY <2>3, <2>4
<1> QED BY <1>1, <1>2, <1>3, <1>4 DEF CacheInv

\* A request that works on a store is one of its kind, and knows the store.
LEMMA CacheWorks ==
  ASSUME CacheInv, CacheConstants, NEW a \in Actor, op[a].step \in Working
  PROVE  /\ op[a].store \in Caches!Store /\ op[a].kind # "prune" /\ op[a] \in Errand /\ ProcessOf[a] \in Process
         /\ disk[op[a].store] \in OnDisk /\ StoreTimes(op[a].store) /\ StoreFits(op[a].store)
BY CacheFacts DEF CacheInv, CacheTypes, ErrandFits, Errand, Working, CacheConstants

\* The edition is served, or a build begins.
LEMMA CachesEnsure ==
  ASSUME CacheInv, CacheConstants, NEW a \in Actor, Caches!EnsureActive(a) PROVE CacheInv'
<1> DEFINE s == op[a].store
<1>1. /\ op[a].step = "opened" /\ Caches!Turn(a) /\ op[a].kind = "use"
      /\ now' = now /\ disk' = disk /\ catalog' = catalog /\ memo' = memo /\ last' = last /\ hurt' = hurt
      /\ \/ /\ disk[s].edition > 0
            /\ loaded' = [loaded EXCEPT ![ProcessOf[a]] = @ \union {s}]
            /\ op' = [op EXCEPT ![a].step = "touch", ![a].record.edition = disk[s].edition]
         \/ /\ op' = [op EXCEPT ![a].step = "build"]
            /\ loaded' = loaded
  BY DEF Caches!EnsureActive
<1>2. /\ s \in Caches!Store /\ op[a] \in Errand /\ ProcessOf[a] \in Process /\ disk[s] \in OnDisk
      /\ StoreFits(s)
      /\ CacheTypes /\ op[a].record \in Touched /\ disk[s].edition \in Nat
  BY <1>1, CacheWorks, CacheFacts DEF Working, Errand, OnDisk
<1>3. /\ op' \in [Actor -> Errand] /\ \A b \in Actor : b # a => op'[b] = op[b]
      /\ op'[a].store = s /\ op'[a].kind = "use"
      /\ loaded' \in [Process -> SUBSET Caches!Store]
      /\ \A q \in Process : q # ProcessOf[a] => loaded'[q] \subseteq loaded[q]
      /\ op'[a].step = "build" \/ (op'[a].step = "touch" /\ disk[s].edition > 0)
  <2>1. CASE /\ disk[s].edition > 0
             /\ loaded' = [loaded EXCEPT ![ProcessOf[a]] = @ \union {s}]
             /\ op' = [op EXCEPT ![a].step = "touch", ![a].record.edition = disk[s].edition]
    <3>1. PICK r \in Touched : r = [op[a].record EXCEPT !.edition = disk[s].edition]
      BY <1>2 DEF Touched
    <3>2. PICK n1 \in Errand : n1 = [op[a] EXCEPT !.step = "touch"]
      BY <1>2 DEF Errand, Working
    <3>3. n1.record = op[a].record /\ n1.step = "touch" /\ n1.store = s /\ n1.kind = "use"
      BY <1>1, <1>2, <3>2 DEF Errand
    <3>4. PICK n2 \in Errand : n2 = [n1 EXCEPT !.record = r]
      BY DEF Errand
    <3>5. n2.step = "touch" /\ n2.store = s /\ n2.kind = "use"
      BY <3>3, <3>4 DEF Errand
    <3>6. op' = [op EXCEPT ![a] = n2]
      BY <1>2, <2>1, <3>1, <3>2, <3>3, <3>4 DEF CacheTypes
    <3> QED BY <1>2, <2>1, <3>5, <3>6 DEF CacheTypes
  <2>2. CASE op' = [op EXCEPT ![a].step = "build"] /\ loaded' = loaded
    <3>1. PICK n \in Errand : n = [op[a] EXCEPT !.step = "build"]
      BY <1>2 DEF Errand, Working
    <3>2. n.step = "build" /\ n.store = s /\ n.kind = "use"
      BY <1>1, <1>2, <3>1 DEF Errand
    <3> QED BY <1>2, <2>2, <3>1, <3>2 DEF CacheTypes
  <2> QED BY <1>1, <2>1, <2>2
<1>4. ErrandFits(a)' /\ PruneFits(a)'
  BY <1>2, <1>3 DEF ErrandFits, PruneFits, Working
<1>5. RecordFits(a)'
  BY <1>1, <1>2, <1>3 DEF RecordFits, StoreFits
<1>6. /\ memo' \in [Process -> [Caches!Store -> Touched]] /\ catalog' \in [Caches!Store -> Touched]
      /\ \A p \in Process, t \in Caches!Store : memo'[p][t] = memo[p][t]
  BY <1>1, <1>2 DEF CacheTypes
<1> QED BY <1>1, <1>3, <1>4, <1>5, <1>6, CachesGo

\* The request of a goes on to a step, with a record.
Goes(a, go, r) ==
  /\ op' \in [Actor -> Errand] /\ \A b \in Actor : b # a => op'[b] = op[b]
  /\ op'[a].step = go /\ op'[a].store = op[a].store /\ op'[a].kind = op[a].kind /\ op'[a].record = r

LEMMA CacheGoes ==
  ASSUME CacheInv, NEW a \in Actor, NEW go \in Working \cup {"judge"}
  PROVE  /\ op' = [op EXCEPT ![a].step = go] => Goes(a, go, op[a].record)
         /\ \A r \in Touched : op' = [op EXCEPT ![a].step = go, ![a].record = r] => Goes(a, go, r)
<1>1. op[a] \in Errand /\ op \in [Actor -> Errand]
  BY CacheFacts
<1>2. PICK n \in Errand : n = [op[a] EXCEPT !.step = go]
  BY <1>1 DEF Errand, Working
<1>3. n.step = go /\ n.store = op[a].store /\ n.kind = op[a].kind /\ n.record = op[a].record
  BY <1>1, <1>2 DEF Errand
<1>4. op' = [op EXCEPT ![a].step = go] => Goes(a, go, op[a].record)
  <2> SUFFICES ASSUME op' = [op EXCEPT ![a].step = go] PROVE Goes(a, go, op[a].record)
    OBVIOUS
  <2>1. op' = [op EXCEPT ![a] = n]
    BY <1>2
  <2> QED BY <1>1, <1>3, <2>1 DEF Goes
<1>5. ASSUME NEW r \in Touched, op' = [op EXCEPT ![a].step = go, ![a].record = r] PROVE Goes(a, go, r)
  <2>1. PICK m \in Errand : m = [n EXCEPT !.record = r]
    BY DEF Errand
  <2>2. m.step = go /\ m.store = op[a].store /\ m.kind = op[a].kind /\ m.record = r
    BY <1>3, <2>1 DEF Errand
  <2>3. op' = [op EXCEPT ![a] = m]
    BY <1>1, <1>2, <1>5, <2>1
  <2> QED BY <1>1, <2>2, <2>3 DEF Goes
<1> QED BY <1>4, <1>5

\* A touch is not written while one is remembered, or on the disk, that is young enough.
LEMMA CachesTouch == ASSUME CacheInv, CacheConstants, NEW a \in Actor, Caches!Touch(a) PROVE CacheInv'
<1> DEFINE s == op[a].store
           p == ProcessOf[a]
           new == [used |-> now, edition |-> op[a].record.edition]
<1>1. /\ op[a].step = "touch" /\ Caches!InChain(a)
      /\ now' = now /\ disk' = disk /\ catalog' = catalog /\ loaded' = loaded /\ last' = last /\ hurt' = hurt
  BY DEF Caches!Touch, Caches!InChain
<1>2. /\ s \in Caches!Store /\ op[a] \in Errand /\ p \in Process /\ disk[s] \in OnDisk /\ StoreFits(s)
      /\ StoreTimes(s) /\ CacheTypes /\ op[a].record \in Touched /\ disk[s].record \in Touched
      /\ op[a].kind # "prune"
  BY <1>1, CacheWorks, CacheFacts DEF Working, Errand, OnDisk
<1>3. Caches!Turn(a)
  BY <1>1, CacheTurn
<1>4. new \in Touched /\ new.used = now /\ now \in Nat /\ now > 0 /\ Day \in Nat /\ Day > 0
  BY <1>2 DEF CacheTypes, Touched, CacheConstants
<1> HIDE DEF new
<1>5. \/ Caches!Throttled(memo[p][s], new.edition) /\ op' = [op EXCEPT ![a].step = "done"] /\ memo' = memo
      \/ /\ disk[s].record # Caches!NoRecord /\ Caches!Throttled(disk[s].record, new.edition)
         /\ \/ op' = [op EXCEPT ![a].step = "write", ![a].record = disk[s].record] /\ memo' = memo
            \/ op' = [op EXCEPT ![a].step = "done"] /\ memo' = [memo EXCEPT ![p][s] = disk[s].record]
      \/ op' = [op EXCEPT ![a].step = "write", ![a].record = new] /\ memo' = memo
  BY DEF Caches!Touch, Caches!TouchUsed, Caches!Existing, new
<1>6. s \notin hurt => disk[s].record # Caches!NoRecord
  BY <1>1, CacheFacts DEF RecordFits
<1>7. /\ memo' \in [Process -> [Caches!Store -> Touched]]
      /\ \A q \in Process, t \in Caches!Store : memo'[q][t] = memo[q][t] \/ memo'[q][t] = disk[t].record
  <2>1. CASE memo' = memo
    BY <1>2, <2>1 DEF CacheTypes
  <2>2. CASE memo' = [memo EXCEPT ![p][s] = disk[s].record]
    BY <1>2, <2>2 DEF CacheTypes
  <2> QED BY <1>5, <2>1, <2>2
<1>8. \/ Goes(a, "done", op[a].record) /\ (s \notin hurt => now < disk[s].record.used + Day)
      \/ \E r \in Touched : /\ Goes(a, "write", r) /\ 0 < r.used /\ r.used <= now /\ now < r.used + Day
                            /\ r.used = now \/ disk[s].record # Caches!NoRecord
  <2>1. disk[s].record.used \in Nat /\ memo[p][s].used \in Nat
    BY <1>2 DEF CacheTypes, Touched
  <2>2. CASE Caches!Throttled(memo[p][s], new.edition) /\ op' = [op EXCEPT ![a].step = "done"]
    <3>1. s \notin hurt => memo[p][s].used <= disk[s].record.used
      BY <1>2, <1>6 DEF StoreFits
    <3>2. now < memo[p][s].used + Day
      BY <1>4, <2>1, <2>2 DEF Caches!Throttled
    <3>3. s \notin hurt => now < disk[s].record.used + Day
      BY <1>4, <2>1, <3>1, <3>2
    <3> QED BY <2>2, <3>3, CacheGoes DEF Working
  <2>3. ASSUME Caches!Throttled(disk[s].record, new.edition)
        PROVE  0 < disk[s].record.used /\ disk[s].record.used <= now /\ now < disk[s].record.used + Day
    BY <1>2, <1>4, <2>1, <2>3 DEF Caches!Throttled, StoreTimes
  <2>4. CASE /\ disk[s].record # Caches!NoRecord /\ Caches!Throttled(disk[s].record, new.edition)
             /\ op' = [op EXCEPT ![a].step = "write", ![a].record = disk[s].record]
    BY <1>2, <2>3, <2>4, CacheGoes DEF Working
  <2>5. CASE /\ disk[s].record # Caches!NoRecord /\ Caches!Throttled(disk[s].record, new.edition)
             /\ op' = [op EXCEPT ![a].step = "done"]
    BY <2>3, <2>5, CacheGoes DEF Working
  <2>6. CASE op' = [op EXCEPT ![a].step = "write", ![a].record = new]
    <3>1. 0 < new.used /\ new.used <= now /\ now < new.used + Day
      BY <1>4
    <3> QED BY <1>4, <2>6, <3>1, CacheGoes DEF Working
  <2> QED BY <1>5, <2>2, <2>4, <2>5, <2>6
<1>9. /\ op' \in [Actor -> Errand] /\ \A b \in Actor : b # a => op'[b] = op[b]
      /\ ErrandFits(a)' /\ PruneFits(a)' /\ RecordFits(a)'
  <2>1. CASE Goes(a, "done", op[a].record) /\ (s \notin hurt => now < disk[s].record.used + Day)
    BY <1>1, <1>2, <1>6, <2>1 DEF Goes, ErrandFits, PruneFits, RecordFits, Working
  <2>2. CASE \E r \in Touched : /\ Goes(a, "write", r) /\ 0 < r.used /\ r.used <= now /\ now < r.used + Day
                                /\ r.used = now \/ disk[s].record # Caches!NoRecord
    BY <1>1, <1>2, <2>2 DEF Goes, ErrandFits, PruneFits, RecordFits, Working
  <2> QED BY <1>8, <2>1, <2>2
<1>10. loaded' \in [Process -> SUBSET Caches!Store] /\ catalog' \in [Caches!Store -> Touched]
  BY <1>1, <1>2 DEF CacheTypes
<1> QED BY <1>1, <1>3, <1>7, <1>9, <1>10, CachesGo

\* A build has its artifacts: the record says so before the edition does.
LEMMA CachesIndexed == ASSUME CacheInv, CacheConstants, NEW a \in Actor, Caches!RecordIndexed(a) PROVE CacheInv'
<1>1. /\ op[a].step = "build" /\ Caches!Turn(a)
      /\ op' = [op EXCEPT ![a].step = "write", ![a].record = [used |-> now, edition |-> disk[op[a].store].edition + 1]]
      /\ now' = now /\ disk' = disk /\ catalog' = catalog /\ memo' = memo /\ loaded' = loaded /\ last' = last
      /\ hurt' = hurt
  BY DEF Caches!RecordIndexed
<1>2. /\ op[a].store \in Caches!Store /\ disk[op[a].store] \in OnDisk /\ CacheTypes /\ op[a].kind # "prune"
      /\ now \in Nat /\ now > 0 /\ Day \in Nat /\ Day > 0
  BY <1>1, CacheWorks, CacheFacts DEF Working, CacheConstants, CacheTypes
<1>3. PICK r \in Touched : r = [used |-> now, edition |-> disk[op[a].store].edition + 1]
  <2>1. disk[op[a].store].edition + 1 \in Nat
    BY <1>2 DEF OnDisk
  <2> QED BY <1>2, <2>1 DEF Touched
<1>4. r.used = now
  BY <1>3
<1>5. Goes(a, "write", r)
  BY <1>1, <1>3, CacheGoes DEF Working
<1>6. ErrandFits(a)' /\ PruneFits(a)' /\ RecordFits(a)'
  BY <1>1, <1>2, <1>4, <1>5 DEF Goes, ErrandFits, PruneFits, RecordFits, Working
<1>7. /\ memo' \in [Process -> [Caches!Store -> Touched]] /\ catalog' \in [Caches!Store -> Touched]
      /\ loaded' \in [Process -> SUBSET Caches!Store]
      /\ \A p \in Process, t \in Caches!Store : memo'[p][t] = memo[p][t]
  BY <1>1, <1>2 DEF CacheTypes
<1> QED BY <1>1, <1>5, <1>6, <1>7, CachesGo DEF Goes

\* A store is cleared: it has no edition, and its record says so.
LEMMA CachesCleared == ASSUME CacheInv, CacheConstants, NEW a \in Actor, Caches!RecordCleared(a) PROVE CacheInv'
<1> DEFINE s == op[a].store
<1>1. /\ op[a].step = "opened" /\ Caches!Turn(a) /\ disk' = [disk EXCEPT ![s].edition = 0]
      /\ op' = [op EXCEPT ![a].step = "write", ![a].record = [used |-> now, edition |-> 0]]
      /\ now' = now /\ catalog' = catalog /\ memo' = memo /\ loaded' = loaded /\ last' = last /\ hurt' = hurt
  BY DEF Caches!RecordCleared
<1>2. /\ s \in Caches!Store /\ disk[s] \in OnDisk /\ CacheTypes /\ op[a].kind # "prune"
      /\ now \in Nat /\ now > 0 /\ Day \in Nat /\ Day > 0 /\ disk \in [Caches!Store -> OnDisk]
  BY <1>1, CacheWorks, CacheFacts DEF Working, CacheConstants, CacheTypes
<1>3. PICK r \in Touched : r = [used |-> now, edition |-> 0]
  BY <1>2 DEF Touched
<1>4. r.used = now
  BY <1>3
<1>5. Goes(a, "write", r)
  BY <1>1, <1>3, CacheGoes DEF Working
<1>6. PICK d \in OnDisk : d = [disk[s] EXCEPT !.edition = 0]
  BY <1>2 DEF OnDisk
<1>7. d.record = disk[s].record /\ d.dir = disk[s].dir /\ d.edition = 0
  BY <1>2, <1>6 DEF OnDisk
<1>8. disk' = [disk EXCEPT ![s] = d]
  BY <1>1, <1>6
<1>9. /\ disk' \in [Caches!Store -> OnDisk]
      /\ \A t \in Caches!Store : /\ disk'[t].record = disk[t].record /\ disk'[t].dir = disk[t].dir
                                 /\ disk'[t].edition = disk[t].edition \/ disk'[t].edition = 0
  BY <1>2, <1>7, <1>8
<1>10. CacheTypes'
  BY <1>1, <1>2, <1>5, <1>9 DEF CacheTypes, Goes
<1>11. OneChain' /\ \A b \in Actor : b # a => ErrandFits(b)' /\ PruneFits(b)'
  BY <1>1, <1>5, CacheOthers DEF Goes
<1>12. ErrandFits(a)' /\ PruneFits(a)' /\ RecordFits(a)'
  BY <1>1, <1>2, <1>4, <1>5 DEF Goes, ErrandFits, PruneFits, RecordFits, Working
<1>13. ASSUME NEW b \in Actor, b # a PROVE RecordFits(b)'
  BY <1>1, <1>5, <1>9, <1>13, CacheFacts, RecordStays DEF ErrandFits, Goes
<1>14. ASSUME NEW t \in Caches!Store PROVE StoreTimes(t)' /\ StoreFits(t)'
  <2>1. now' \in Nat /\ now <= now' /\ hurt \subseteq hurt' /\ last'[t] = last[t]
    BY <1>1, <1>2
  <2>2. \A p \in Process : memo'[p][t] = memo[p][t]
    BY <1>1
  <2> QED BY <1>9, <2>1, <2>2, StoreStays
<1> QED BY <1>10, <1>11, <1>12, <1>13, <1>14 DEF CacheInv

\* The record is written: it is young, and whatever was remembered is not younger.
LEMMA CachesWrite == ASSUME CacheInv, CacheConstants, NEW a \in Actor, Caches!Write(a) PROVE CacheInv'
<1> DEFINE p == ProcessOf[a]
<1>0. op[a].step = "write" /\ op[a].store \in Caches!Store /\ op[a].record \in Touched
  BY CacheWorks, CacheFacts DEF Caches!Write, Working, Errand
<1>00. PICK s \in Caches!Store : s = op[a].store
  BY <1>0
<1>01. PICK r \in Touched : r = op[a].record
  BY <1>0
<1>1. /\ op[a].step = "write" /\ Caches!InChain(a)
      /\ disk' = [disk EXCEPT ![s] = [@ EXCEPT !.dir = TRUE, !.record = r, !.mtime = now]]
      /\ memo' = [memo EXCEPT ![p][s] = r]
      /\ hurt' = IF r.used < disk[s].record.used THEN hurt \union {s} ELSE hurt
      /\ op' = [op EXCEPT ![a].step = "enter", ![a].list = catalog]
      /\ now' = now /\ catalog' = catalog /\ loaded' = loaded /\ last' = last
  BY <1>00, <1>01 DEF Caches!Write, Caches!InChain
<1>2. /\ s \in Caches!Store /\ op[a] \in Errand /\ p \in Process /\ disk[s] \in OnDisk /\ StoreFits(s)
      /\ StoreTimes(s) /\ CacheTypes /\ r \in Touched /\ disk[s].record \in Touched /\ op[a].kind # "prune"
      /\ disk \in [Caches!Store -> OnDisk] /\ memo \in [Process -> [Caches!Store -> Touched]]
  BY <1>1, <1>00, CacheWorks, CacheFacts DEF Working, Errand, OnDisk, CacheTypes
<1>3. /\ Caches!Turn(a) /\ 0 < r.used /\ r.used <= now /\ now < r.used + Day
      /\ s \notin hurt => r.used = now \/ disk[s].record # Caches!NoRecord
  BY <1>1, <1>00, <1>01, CacheTurn, CacheFacts DEF ErrandFits, RecordFits
<1>4. /\ now \in Nat /\ Day \in Nat /\ r.used \in Nat /\ disk[s].record.used \in Nat /\ last[s] \in Nat
      /\ \A q \in Process : memo[q][s].used \in Nat
  BY <1>2 DEF CacheTypes, CacheConstants, Touched
<1>5. r # Caches!NoRecord
  BY <1>3, CacheRecords
<1>6. PICK d1 \in OnDisk : d1 = [disk[s] EXCEPT !.dir = TRUE]
  BY <1>2 DEF OnDisk
<1>7. PICK d2 \in OnDisk : d2 = [d1 EXCEPT !.record = r]
  BY <1>2 DEF OnDisk
<1>8. PICK d3 \in OnDisk : d3 = [d2 EXCEPT !.mtime = now]
  BY <1>4 DEF OnDisk
<1>9. d3.record = r /\ d3.dir = TRUE
  BY <1>6, <1>7, <1>8 DEF OnDisk
<1>10. disk' = [disk EXCEPT ![s] = d3]
  BY <1>1, <1>6, <1>7, <1>8
<1>11. /\ disk' \in [Caches!Store -> OnDisk] /\ disk'[s].record = r /\ disk'[s].dir = TRUE
       /\ \A t \in Caches!Store : t # s => disk'[t] = disk[t]
  BY <1>2, <1>9, <1>10
<1>12. /\ memo' \in [Process -> [Caches!Store -> Touched]] /\ memo'[p][s] = r
       /\ \A q \in Process, t \in Caches!Store : q # p \/ t # s => memo'[q][t] = memo[q][t]
  BY <1>1, <1>2
<1>13. Goes(a, "enter", r)
  <2>1. PICK n1 \in Errand : n1 = [op[a] EXCEPT !.step = "enter"]
    BY <1>2 DEF Errand, Working
  <2>2. n1.step = "enter" /\ n1.store = s /\ n1.kind = op[a].kind /\ n1.record = r
    BY <1>2, <1>00, <1>01, <2>1 DEF Errand
  <2>3. PICK n2 \in Errand : n2 = [n1 EXCEPT !.list = catalog]
    BY <1>2 DEF Errand, CacheTypes
  <2>4. n2.step = "enter" /\ n2.store = s /\ n2.kind = op[a].kind /\ n2.record = r
    BY <2>2, <2>3 DEF Errand
  <2>5. op' = [op EXCEPT ![a] = n2]
    BY <1>1, <1>2, <2>1, <2>3 DEF CacheTypes
  <2> QED BY <1>2, <1>00, <2>4, <2>5 DEF Goes, CacheTypes
<1>14. hurt \subseteq hurt' /\ hurt' \subseteq Caches!Store /\ (s \notin hurt' => disk[s].record.used <= r.used)
  BY <1>1, <1>2, <1>4 DEF CacheTypes
<1>15. CacheTypes'
  BY <1>1, <1>2, <1>11, <1>12, <1>13, <1>14 DEF CacheTypes, Goes
<1>16. OneChain' /\ \A b \in Actor : b # a => ErrandFits(b)' /\ PruneFits(b)'
  BY <1>1, <1>3, <1>13, CacheOthers DEF Goes
<1>17. ErrandFits(a)' /\ PruneFits(a)'
  BY <1>2, <1>13, <1>00 DEF Goes, ErrandFits, PruneFits, Working
<1>18. ASSUME NEW b \in Actor PROVE RecordFits(b)'
  <2>1. CASE op'[b].store = s
    BY <1>1, <1>3, <1>5, <1>11, <2>1 DEF RecordFits
  <2>2. CASE op'[b].store # s
    <3>1. b # a /\ op'[b] = op[b]
      BY <1>13, <1>00, <2>2 DEF Goes
    <3>2. op[b].step \in Working => disk'[op[b].store].record = disk[op[b].store].record
      BY <1>11, <2>2, <3>1, CacheFacts DEF ErrandFits
    <3> QED BY <1>1, <1>14, <3>1, <3>2, CacheFacts, RecordStays
  <2> QED BY <2>1, <2>2
<1>19. StoreTimes(s)' /\ StoreFits(s)'
  <2>1. StoreTimes(s)'
    BY <1>1, <1>2, <1>3, <1>11, <1>12 DEF StoreTimes
  <2>2. ASSUME s \notin hurt' PROVE last[s] < r.used + Day /\ \A q \in Process : memo'[q][s].used <= r.used
    <3>1. s \notin hurt /\ disk[s].record.used <= r.used
      BY <1>14, <2>2
    <3>2. last[s] < r.used + Day
      BY <1>2, <1>3, <1>4 DEF StoreTimes
    <3>3. ASSUME NEW q \in Process PROVE memo'[q][s].used <= r.used
      <4>1. CASE q = p
        BY <1>4, <1>12, <4>1
      <4>2. CASE q # p /\ disk[s].record # Caches!NoRecord
        BY <1>2, <1>4, <1>12, <3>1, <4>2 DEF StoreFits
      <4>3. CASE q # p /\ disk[s].record = Caches!NoRecord
        BY <1>2, <1>3, <1>4, <1>12, <3>1, <4>3 DEF StoreTimes
      <4> QED BY <4>1, <4>2, <4>3
    <3> QED BY <3>2, <3>3
  <2>3. StoreFits(s)'
    BY <1>1, <1>5, <1>11, <2>2 DEF StoreFits
  <2> QED BY <2>1, <2>3
<1>20. ASSUME NEW t \in Caches!Store, t # s PROVE StoreTimes(t)' /\ StoreFits(t)'
  <2>1. now' \in Nat /\ now <= now' /\ last'[t] = last[t]
    BY <1>1, <1>4
  <2>2. \A q \in Process : memo'[q][t] = memo[q][t]
    BY <1>12, <1>20
  <2>3. disk'[t] = disk[t]
    BY <1>11, <1>20
  <2> QED BY <1>14, <2>1, <2>2, <2>3, StoreStays
<1> QED BY <1>15, <1>16, <1>17, <1>18, <1>19, <1>20 DEF CacheInv

\* The catalog is written with the record in it.
LEMMA CachesEnter == ASSUME CacheInv, CacheConstants, NEW a \in Actor, Caches!Enter(a) PROVE CacheInv'
<1>1. /\ op[a].step = "enter" /\ Caches!InChain(a)
      /\ catalog' = [op[a].list EXCEPT ![op[a].store] = op[a].record]
      /\ op' = [op EXCEPT ![a].step = "done"]
      /\ now' = now /\ disk' = disk /\ memo' = memo /\ loaded' = loaded /\ last' = last /\ hurt' = hurt
  BY DEF Caches!Enter, Caches!InChain
<1>2. Caches!Turn(a) /\ Goes(a, "done", op[a].record)
  BY <1>1, CacheTurn, CacheGoes DEF Working
<1>3. /\ CacheTypes /\ op[a].store \in Caches!Store /\ op[a].kind # "prune" /\ op[a].record \in Touched
      /\ op[a].list \in [Caches!Store -> Touched]
  BY <1>1, CacheWorks, CacheFacts DEF Working, Errand
<1>4. ErrandFits(a)' /\ PruneFits(a)'
  BY <1>2, <1>3 DEF Goes, ErrandFits, PruneFits, Working
<1>5. RecordFits(a)'
  BY <1>1, <1>2, CacheFacts DEF Goes, RecordFits
<1>6. /\ memo' \in [Process -> [Caches!Store -> Touched]] /\ catalog' \in [Caches!Store -> Touched]
      /\ loaded' \in [Process -> SUBSET Caches!Store]
      /\ \A p \in Process, t \in Caches!Store : memo'[p][t] = memo[p][t]
  BY <1>1, <1>3 DEF CacheTypes
<1> QED BY <1>1, <1>2, <1>4, <1>5, <1>6, CachesGo DEF Goes

\* A request ends.
Ends(a) == op' = [op EXCEPT ![a] = Caches!Idle]

LEMMA CacheEnds ==
  ASSUME CacheInv, CacheConstants, NEW a \in Actor, Ends(a)
  PROVE  /\ op' \in [Actor -> Errand] /\ \A b \in Actor : b # a => op'[b] = op[b]
         /\ ErrandFits(a)' /\ PruneFits(a)' /\ RecordFits(a)'
<1>1. op' \in [Actor -> Errand] /\ \A b \in Actor : b # a => op'[b] = op[b]
  BY CacheRecords, CacheFacts DEF Ends
<1>2. op'[a].kind = "none" /\ op'[a].step = "idle" /\ op'[a].store = 0
  BY CacheRecords, CacheFacts DEF Ends
<1> QED BY <1>1, <1>2 DEF ErrandFits, PruneFits, RecordFits, Working

\* A request has used its store, which has a young record or was hurt.
LEMMA CachesDone == ASSUME CacheInv, CacheConstants, NEW a \in Actor, Caches!Done(a) PROVE CacheInv'
<1>1. op[a].step = "done" /\ op[a].store \in Caches!Store
  BY CacheWorks DEF Caches!Done, Working
<1>2. PICK s \in Caches!Store : s = op[a].store
  BY <1>1
<1>3. /\ \/ disk' = [disk EXCEPT ![s] = [disk[s] EXCEPT !.dir = TRUE, !.edition = disk[s].edition + 1,
                                                       !.mtime = IF disk[s].dir THEN disk[s].mtime ELSE now]]
         \/ disk' = disk
      /\ Ends(a) /\ last' = [last EXCEPT ![s] = now] /\ Caches!InChain(a)
      /\ now' = now /\ catalog' = catalog /\ memo' = memo /\ loaded' = loaded /\ hurt' = hurt
  BY <1>1, <1>2 DEF Caches!Done, Ends, Caches!InChain
<1>4. /\ CacheTypes /\ Caches!Turn(a) /\ disk \in [Caches!Store -> OnDisk] /\ disk[s] \in OnDisk /\ now \in Nat
      /\ StoreTimes(s) /\ StoreFits(s) /\ last \in [Caches!Store -> Nat] /\ Day \in Nat /\ Day > 0
      /\ disk[s].record.used \in Nat
  BY <1>3, CacheTurn, CacheFacts DEF CacheInv, CacheTypes, CacheConstants, OnDisk, Touched
<1>5. /\ disk' \in [Caches!Store -> OnDisk] /\ disk'[s].record = disk[s].record
      /\ disk'[s].dir = TRUE \/ disk'[s] = disk[s]
      /\ \A t \in Caches!Store : t # s => disk'[t] = disk[t]
  <2>1. CASE disk' = disk
    BY <1>4, <2>1
  <2>2. CASE disk' = [disk EXCEPT ![s] = [disk[s] EXCEPT !.dir = TRUE, !.edition = disk[s].edition + 1,
                                                        !.mtime = IF disk[s].dir THEN disk[s].mtime ELSE now]]
    <3>1. disk[s].edition + 1 \in Nat /\ (IF disk[s].dir THEN disk[s].mtime ELSE now) \in Nat
      BY <1>4 DEF OnDisk
    <3>2. PICK d1 \in OnDisk : d1 = [disk[s] EXCEPT !.dir = TRUE]
      BY <1>4 DEF OnDisk
    <3>3. PICK d2 \in OnDisk : d2 = [d1 EXCEPT !.edition = disk[s].edition + 1]
      BY <3>1 DEF OnDisk
    <3>4. PICK d3 \in OnDisk : d3 = [d2 EXCEPT !.mtime = IF disk[s].dir THEN disk[s].mtime ELSE now]
      BY <3>1 DEF OnDisk
    <3>6. d3.record = disk[s].record /\ d3.dir = TRUE
      BY <1>4, <3>2, <3>3, <3>4 DEF OnDisk
    <3>7. disk' = [disk EXCEPT ![s] = d3]
      BY <2>2, <3>2, <3>3, <3>4
    <3> QED BY <1>4, <3>6, <3>7
  <2> QED BY <1>3, <2>1, <2>2
<1>6. last' \in [Caches!Store -> Nat] /\ last'[s] = now /\ \A t \in Caches!Store : t # s => last'[t] = last[t]
  BY <1>3, <1>4
<1>7. /\ op' \in [Actor -> Errand] /\ \A b \in Actor : b # a => op'[b] = op[b]
      /\ ErrandFits(a)' /\ PruneFits(a)' /\ RecordFits(a)'
  BY <1>3, CacheEnds
<1>8. CacheTypes'
  BY <1>3, <1>4, <1>5, <1>6, <1>7 DEF CacheTypes
<1>9. OneChain' /\ \A b \in Actor : b # a => ErrandFits(b)' /\ PruneFits(b)'
  BY <1>3, <1>4, <1>7, CacheOthers
<1>10. ASSUME NEW b \in Actor, b # a PROVE RecordFits(b)'
  <2>1. op[b].step \in Working => disk'[op[b].store].record = disk[op[b].store].record
    BY <1>5, CacheFacts DEF ErrandFits
  <2> QED BY <1>3, <1>7, <1>10, <2>1, CacheFacts, RecordStays
<1>11. StoreTimes(s)' /\ StoreFits(s)'
  <2>1. s \notin hurt => disk[s].record # Caches!NoRecord /\ now < disk[s].record.used + Day
    BY <1>1, <1>2, CacheFacts DEF RecordFits
  <2>2. StoreTimes(s)'
    BY <1>3, <1>4, <1>5, <1>6 DEF StoreTimes
  <2> QED BY <1>3, <1>4, <1>5, <1>6, <2>1, <2>2 DEF StoreFits
<1>12. ASSUME NEW t \in Caches!Store, t # s PROVE StoreTimes(t)' /\ StoreFits(t)'
  <2>1. now' \in Nat /\ now <= now' /\ hurt \subseteq hurt' /\ last'[t] = last[t] /\ disk'[t] = disk[t]
    BY <1>3, <1>4, <1>5, <1>6, <1>12
  <2>2. \A p \in Process : memo'[p][t] = memo[p][t]
    BY <1>3
  <2> QED BY <2>1, <2>2, StoreStays
<1> QED BY <1>7, <1>8, <1>9, <1>10, <1>11, <1>12 DEF CacheInv

\* A snapshot leaves the memory.
LEMMA CachesEvict ==
  ASSUME CacheInv, CacheConstants, NEW p \in Process, NEW s \in Caches!Store, Caches!Evict(p, s) PROVE CacheInv'
<1>1. /\ loaded' = [loaded EXCEPT ![p] = @ \ {s}]
      /\ now' = now /\ disk' = disk /\ catalog' = catalog /\ memo' = memo /\ op' = op /\ last' = last
      /\ hurt' = hurt
  BY DEF Caches!Evict
<1>2. CacheTypes /\ loaded \in [Process -> SUBSET Caches!Store]
  BY DEF CacheInv, CacheTypes
<1>3. loaded' \in [Process -> SUBSET Caches!Store] /\ \A q \in Process : loaded'[q] \subseteq loaded[q]
  BY <1>1, <1>2
<1>4. CacheTypes'
  BY <1>1, <1>2, <1>3 DEF CacheTypes
<1>5. OneChain' /\ \A a \in Actor : ErrandFits(a)' /\ RecordFits(a)'
  BY <1>1 DEF CacheInv, OneChain, Caches!InChain, ErrandFits, RecordFits
<1>6. ASSUME NEW a \in Actor PROVE PruneFits(a)'
  <2>1. PruneFits(a) /\ ProcessOf[a] \in Process
    BY DEF CacheInv, CacheConstants
  <2> QED BY <1>1, <1>3, <2>1 DEF PruneFits
<1>7. \A t \in Caches!Store : StoreTimes(t)' /\ StoreFits(t)'
  BY <1>1 DEF CacheInv, StoreTimes, StoreFits
<1> QED BY <1>4, <1>5, <1>6, <1>7 DEF CacheInv

LEMMA SmallestStore == ASSUME NEW T, T \subseteq Nat, T # {} PROVE \E t \in T : \A u \in T : t <= u
<1> DEFINE R == OpToRel(<, Nat)
<1>1. PICK t \in T : \A u \in T : ~(<<u, t>> \in R)
  <2>1. IsWellFoundedOn(R, Nat)
    BY NatLessThanWellFounded, Zenon
  <2> HIDE DEF R
  <2> QED BY <2>1, WFMin
<1>2. ASSUME NEW u \in T PROVE t <= u
  <2>1. t \in Nat /\ u \in Nat
    OBVIOUS
  <2>2. ~(u < t)
    <3>1. u < t => <<u, t>> \in R
      BY <2>1, Zenon DEF OpToRel
    <3> QED BY <1>1, <3>1
  <2> QED BY <2>1, <2>2
<1> QED BY <1>2

\* A pruning begins with the catalog and with what there is to look at.
LEMMA CachesPrune ==
  ASSUME CacheInv, CacheConstants, NEW a \in Actor, NEW dry \in BOOLEAN, Caches!Prune(a, dry) PROVE CacheInv'
<1> DEFINE todo == {s \in Caches!Store : disk[s].dir \/ catalog[s] # Caches!NoRecord}
<1>1. /\ Caches!Turn(a)
      /\ op' = [op EXCEPT ![a] = [Caches!Idle EXCEPT !.kind = "prune", !.step = "judge", !.list = catalog,
                                                     !.dry = dry, !.todo = todo]]
      /\ now' = now /\ disk' = disk /\ catalog' = catalog /\ memo' = memo /\ loaded' = loaded /\ last' = last
      /\ hurt' = hurt
  BY DEF Caches!Prune
<1>2. CacheTypes /\ op \in [Actor -> Errand]
  BY DEF CacheInv, CacheTypes
<1>3. PICK n1 \in Errand : n1 = [Caches!Idle EXCEPT !.kind = "prune"]
  BY CacheRecords DEF Errand
<1>4. PICK n2 \in Errand : n2 = [n1 EXCEPT !.step = "judge"]
  BY DEF Errand
<1>5. PICK n3 \in Errand : n3 = [n2 EXCEPT !.list = catalog]
  BY <1>2 DEF Errand, CacheTypes
<1>6. PICK n4 \in Errand : n4 = [n3 EXCEPT !.dry = dry]
  BY DEF Errand
<1>7. PICK n5 \in Errand : n5 = [n4 EXCEPT !.todo = todo]
  BY DEF Errand
<1>8. n5.kind = "prune" /\ n5.step = "judge"
  <2>1. n1.kind = "prune" /\ n2.kind = n1.kind /\ n2.step = "judge"
    BY <1>3, <1>4, CacheRecords DEF Errand
  <2>2. n3.kind = n2.kind /\ n3.step = n2.step
    BY <1>5 DEF Errand
  <2>3. n4.kind = n3.kind /\ n4.step = n3.step
    BY <1>6 DEF Errand
  <2>4. n5.kind = n4.kind /\ n5.step = n4.step
    BY <1>7 DEF Errand
  <2> QED BY <2>1, <2>2, <2>3, <2>4
<1>9. op' = [op EXCEPT ![a] = n5]
  BY <1>1, <1>3, <1>4, <1>5, <1>6, <1>7
<1>10. op' \in [Actor -> Errand] /\ op'[a] = n5 /\ \A b \in Actor : b # a => op'[b] = op[b]
  BY <1>2, <1>9
<1>11. ErrandFits(a)' /\ PruneFits(a)' /\ RecordFits(a)'
  BY <1>8, <1>10 DEF ErrandFits, PruneFits, RecordFits, Working
<1>12. /\ memo' \in [Process -> [Caches!Store -> Touched]] /\ catalog' \in [Caches!Store -> Touched]
       /\ loaded' \in [Process -> SUBSET Caches!Store]
       /\ \A p \in Process, t \in Caches!Store : memo'[p][t] = memo[p][t]
  BY <1>1, <1>2 DEF CacheTypes
<1> QED BY <1>1, <1>10, <1>11, <1>12, CachesGo

\* A store is judged: it is spared, or it is too old and nobody of the daemon uses it.
LEMMA CachesJudge == ASSUME CacheInv, CacheConstants, NEW a \in Actor, Caches!Judge(a) PROVE CacheInv'
<1> DEFINE todo == op[a].todo
<1>1. /\ op[a].step = "judge" /\ todo # {} /\ Caches!InChain(a)
      /\ now' = now /\ disk' = disk /\ catalog' = catalog /\ memo' = memo /\ loaded' = loaded /\ last' = last
      /\ hurt' = hurt
  BY DEF Caches!Judge, Caches!InChain
<1>2. /\ Caches!Turn(a) /\ CacheTypes /\ op \in [Actor -> Errand] /\ op[a] \in Errand /\ op[a].kind = "prune"
      /\ todo \subseteq Caches!Store /\ ProcessOf[a] \in Process /\ op[a].list \in [Caches!Store -> Touched]
  BY <1>1, CacheTurn, CacheFacts DEF ErrandFits, Errand, CacheConstants
<1>3. PICK s \in Caches!Store : s = CHOOSE t \in todo : \A u \in todo : t <= u
  <2>1. todo \subseteq Nat
    BY <1>2 DEF Caches!Store, CacheConstants
  <2>2. \E t \in todo : \A u \in todo : t <= u
    BY <1>1, <2>1, SmallestStore
  <2> HIDE DEF todo
  <2>3. (CHOOSE t \in todo : \A u \in todo : t <= u) \in todo
    BY <2>2
  <2> QED BY <1>2, <2>3
<1>4. disk[s] \in OnDisk /\ disk[s].record \in Touched /\ op[a].list[s] \in Touched /\ now \in Nat
  BY <1>2 DEF CacheTypes, OnDisk
<1>5. PICK go \in {"judge", "remove"} : go = IF op[a].dry \/ ~disk[s].dir THEN "judge" ELSE "remove"
  BY SMTT(60)
<1>6. \/ op' = [op EXCEPT ![a].todo = todo \ {s}]
      \/ /\ s \notin Caches!Protected(ProcessOf[a])
         /\ go = "remove" => Caches!LastUsed(s, op[a].list) < now - UnusedDays * Day
         /\ op' = [op EXCEPT ![a].todo = todo \ {s}, ![a].gone = op[a].gone \union {s}, ![a].store = s,
                             ![a].record = disk[s].record, ![a].step = go]
  BY <1>3, <1>5 DEF Caches!Judge
<1>7. PICK n1 \in Errand : n1 = [op[a] EXCEPT !.todo = todo \ {s}]
  BY <1>2 DEF Errand
<1>8. n1.step = "judge" /\ n1.kind = "prune" /\ n1.gone = op[a].gone
  BY <1>1, <1>2, <1>7 DEF Errand
<1>9. /\ memo' \in [Process -> [Caches!Store -> Touched]] /\ catalog' \in [Caches!Store -> Touched]
      /\ loaded' \in [Process -> SUBSET Caches!Store]
      /\ \A p \in Process, t \in Caches!Store : memo'[p][t] = memo[p][t]
  BY <1>1, <1>2 DEF CacheTypes
<1>10. CASE op' = [op EXCEPT ![a].todo = todo \ {s}]
  <2>1. op' = [op EXCEPT ![a] = n1]
    BY <1>7, <1>10
  <2>2. op' \in [Actor -> Errand] /\ op'[a] = n1 /\ \A b \in Actor : b # a => op'[b] = op[b]
    BY <1>2, <2>1
  <2>3. ErrandFits(a)' /\ PruneFits(a)' /\ RecordFits(a)'
    BY <1>8, <2>2 DEF ErrandFits, PruneFits, RecordFits, Working
  <2> QED BY <1>1, <1>2, <1>9, <2>2, <2>3, CachesGo
<1>11. CASE /\ s \notin Caches!Protected(ProcessOf[a])
            /\ go = "remove" => Caches!LastUsed(s, op[a].list) < now - UnusedDays * Day
            /\ op' = [op EXCEPT ![a].todo = todo \ {s}, ![a].gone = op[a].gone \union {s}, ![a].store = s,
                                ![a].record = disk[s].record, ![a].step = go]
  <2>1. PICK n2 \in Errand : n2 = [n1 EXCEPT !.gone = op[a].gone \union {s}]
    BY <1>2 DEF Errand
  <2>2. PICK n3 \in Errand : n3 = [n2 EXCEPT !.store = s]
    <3>1. s \in 0..Stores
      BY DEF Caches!Store, CacheConstants
    <3> QED BY <3>1 DEF Errand
  <2>3. PICK n4 \in Errand : n4 = [n3 EXCEPT !.record = disk[s].record]
    BY <1>4 DEF Errand
  <2>4. PICK n5 \in Errand : n5 = [n4 EXCEPT !.step = go]
    BY DEF Errand
  <2>5. n5.kind = "prune" /\ n5.step = go /\ n5.store = s /\ n5.record = disk[s].record
    BY <1>8, <2>1, <2>2, <2>3, <2>4 DEF Errand
  <2>6. op' = [op EXCEPT ![a] = n5]
    BY <1>2, <1>7, <1>11, <2>1, <2>2, <2>3, <2>4
  <2>7. op' \in [Actor -> Errand] /\ op'[a] = n5 /\ \A b \in Actor : b # a => op'[b] = op[b]
    BY <1>2, <2>6
  <2>8. /\ s \notin loaded[ProcessOf[a]]
        /\ \A b \in Actor : ProcessOf[b] = ProcessOf[a] /\ op[b].store = s => op[b].kind = "prune"
    BY <1>11 DEF Caches!Protected
  <2>9. ASSUME go = "remove"
        PROVE  Past < now /\ (disk[s].record # Caches!NoRecord => disk[s].record.used + Past < now)
    <3>1. /\ disk[s].record.used \in Nat /\ op[a].list[s].used \in Nat /\ disk[s].mtime \in Nat
      BY <1>4 DEF OnDisk, Touched
    <3>2. Caches!LastUsed(s, op[a].list) \in Nat
      BY <3>1 DEF Caches!LastUsed
    <3>3. disk[s].record # Caches!NoRecord => Caches!LastUsed(s, op[a].list) = disk[s].record.used
      BY DEF Caches!LastUsed
    <3>4. Past \in Nat /\ Caches!LastUsed(s, op[a].list) < now - Past
      BY <1>11, <2>9, CachePast DEF Past
    <3> QED BY <1>4, <3>1, <3>2, <3>3, <3>4
  <2>10. ErrandFits(a)' /\ RecordFits(a)'
    BY <1>5, <2>5, <2>7 DEF ErrandFits, RecordFits, Working
  <2>11. PruneFits(a)'
    BY <1>1, <2>5, <2>7, <2>8, <2>9 DEF PruneFits
  <2> QED BY <1>1, <1>2, <1>9, <2>7, <2>10, <2>11, CachesGo
<1> QED BY <1>6, <1>10, <1>11, SMTT(60)

\* What is about to be removed, if no request is hurt by it, was not used for longer than was asked.
LEMMA CacheUnused ==
  ASSUME CacheInv, CacheConstants, NEW a \in Actor, op[a].step = "remove",
         op[a].store \notin hurt, disk[op[a].store].record = op[a].record
  PROVE  last[op[a].store] + Past < now + Day
<1>1. PICK s \in Caches!Store : s = op[a].store
  BY CacheFacts DEF PruneFits
<1>2. /\ StoreFits(s) /\ last[s] \in Nat /\ now \in Nat /\ Day \in Nat /\ Day > 0 /\ Past \in Nat
      /\ disk[s].record \in Touched
  BY CachePast DEF CacheInv, CacheTypes, OnDisk, CacheConstants
<1>3. disk[s].record.used \in Nat
  BY <1>2 DEF Touched
<1>4. Past < now /\ (disk[s].record # Caches!NoRecord => disk[s].record.used + Past < now)
  BY <1>1, CacheFacts DEF PruneFits
<1>5. CASE disk[s].record # Caches!NoRecord
  <2>1. last[s] < disk[s].record.used + Day
    BY <1>1, <1>2, <1>5 DEF StoreFits
  <2> QED BY <1>1, <1>2, <1>3, <1>4, <1>5, <2>1
<1>6. CASE disk[s].record = Caches!NoRecord
  <2>1. last[s] = 0 \/ last[s] + Past < now + Day
    BY <1>1, <1>2, <1>6 DEF StoreFits
  <2> QED BY <1>1, <1>2, <1>4, <2>1
<1> QED BY <1>5, <1>6

\* A store is removed: whoever works on it elsewhere is hurt, and nobody does here.
LEMMA CachesRemove == ASSUME CacheInv, CacheConstants, NEW a \in Actor, Caches!Remove(a) PROVE CacheInv'
<1>1. op[a].step = "remove" /\ op[a].store \in Caches!Store
  BY CacheFacts DEF Caches!Remove, PruneFits
<1>2. PICK s \in Caches!Store : s = op[a].store
  BY <1>1
<1>3. /\ Caches!InChain(a) /\ disk' = [disk EXCEPT ![s] = Caches!NoStore]
      /\ hurt' = IF Caches!Elsewhere(a) \/ disk[s].record # op[a].record THEN hurt \union {s} ELSE hurt
      /\ op' = [op EXCEPT ![a].step = "judge"]
      /\ now' = now /\ catalog' = catalog /\ memo' = memo /\ loaded' = loaded /\ last' = last
  BY <1>2 DEF Caches!Remove, Caches!InChain
<1>4. /\ CacheTypes /\ Caches!Turn(a) /\ Goes(a, "judge", op[a].record) /\ op[a].kind = "prune"
      /\ disk \in [Caches!Store -> OnDisk] /\ hurt \subseteq Caches!Store /\ now \in Nat /\ PruneFits(a)
  BY <1>1, <1>3, CacheTurn, CacheFacts, CacheGoes DEF ErrandFits, CacheTypes
<1>5. /\ disk' \in [Caches!Store -> OnDisk] /\ disk'[s] = Caches!NoStore
      /\ \A t \in Caches!Store : t # s => disk'[t] = disk[t]
  BY <1>3, <1>4, CacheRecords
<1>6. hurt \subseteq hurt' /\ hurt' \subseteq Caches!Store /\ \A t \in hurt' : t = s \/ t \in hurt
  BY <1>3, <1>4
<1>7. CacheTypes'
  BY <1>3, <1>4, <1>5, <1>6 DEF CacheTypes, Goes
<1>8. OneChain' /\ \A b \in Actor : b # a => ErrandFits(b)' /\ PruneFits(b)'
  BY <1>3, <1>4, CacheOthers DEF Goes
<1>9. ErrandFits(a)' /\ PruneFits(a)' /\ RecordFits(a)'
  BY <1>4 DEF Goes, ErrandFits, PruneFits, RecordFits, Working
<1>10. ASSUME NEW b \in Actor, b # a PROVE RecordFits(b)'
  <2>1. ASSUME op[b].step \in Working, op[b].store = s, s \notin hurt' PROVE FALSE
    <3>1. op[b].kind # "prune"
      BY <2>1, CacheWorks
    <3>2. ProcessOf[b] # ProcessOf[a]
      BY <1>1, <1>2, <1>4, <1>10, <2>1, <3>1 DEF PruneFits
    <3>3. Caches!Elsewhere(a)
      BY <1>2, <2>1, <3>1, <3>2 DEF Caches!Elsewhere
    <3> QED BY <1>3, <2>1, <3>3
  <2>2. op'[b] = op[b] /\ (op[b].step \in Working => op[b].store \in Caches!Store)
    BY <1>4, <1>10, CacheFacts DEF Goes, ErrandFits
  <2>3. op[b].step \in Working /\ op[b].store \notin hurt' =>
          disk'[op[b].store].record = disk[op[b].store].record
    BY <1>5, <2>1, <2>2
  <2> QED BY <1>3, <1>6, <2>2, <2>3, CacheFacts, RecordStays
<1>11. StoreTimes(s)' /\ StoreFits(s)'
  <2>1. /\ StoreTimes(s) /\ last[s] \in Nat /\ \A p \in Process : memo[p][s].used \in Nat
    BY <1>4 DEF CacheInv, CacheTypes, Touched
  <2>2. StoreTimes(s)'
    BY <1>3, <1>4, <1>5, <2>1, CacheRecords DEF StoreTimes
  <2>3. s \notin hurt' => last[s] + Past < now + Day
    BY <1>1, <1>2, <1>3, CacheUnused
  <2>4. StoreFits(s)'
    BY <1>3, <1>5, <2>3, CacheRecords DEF StoreFits
  <2> QED BY <2>2, <2>4
<1>12. ASSUME NEW t \in Caches!Store, t # s PROVE StoreTimes(t)' /\ StoreFits(t)'
  <2>1. now' \in Nat /\ now <= now' /\ last'[t] = last[t] /\ disk'[t] = disk[t]
    BY <1>3, <1>4, <1>5, <1>12
  <2>2. \A p \in Process : memo'[p][t] = memo[p][t]
    BY <1>3
  <2> QED BY <1>6, <2>1, <2>2, StoreStays
<1> QED BY <1>7, <1>8, <1>9, <1>10, <1>11, <1>12 DEF CacheInv

\* A pruning ends with the catalog.
LEMMA CachesFinish == ASSUME CacheInv, CacheConstants, NEW a \in Actor, Caches!Finish(a) PROVE CacheInv'
<1>1. /\ op[a].step = "judge" /\ Caches!InChain(a) /\ Ends(a)
      /\ catalog' = IF op[a].dry THEN catalog
                    ELSE [s \in Caches!Store |-> IF s \in op[a].gone \/ ~disk[s].dir THEN Caches!NoRecord
                                                 ELSE op[a].list[s]]
      /\ now' = now /\ disk' = disk /\ memo' = memo /\ loaded' = loaded /\ last' = last /\ hurt' = hurt
  BY DEF Caches!Finish, Caches!InChain, Ends
<1>2. Caches!Turn(a) /\ CacheTypes /\ op[a].list \in [Caches!Store -> Touched]
  BY <1>1, CacheTurn, CacheFacts DEF Errand
<1>3. /\ op' \in [Actor -> Errand] /\ \A b \in Actor : b # a => op'[b] = op[b]
      /\ ErrandFits(a)' /\ PruneFits(a)' /\ RecordFits(a)'
  BY <1>1, CacheEnds
<1>4. catalog' \in [Caches!Store -> Touched]
  BY <1>1, <1>2, CacheRecords DEF CacheTypes
<1>5. /\ memo' \in [Process -> [Caches!Store -> Touched]] /\ loaded' \in [Process -> SUBSET Caches!Store]
      /\ \A p \in Process, t \in Caches!Store : memo'[p][t] = memo[p][t]
  BY <1>1, <1>2 DEF CacheTypes
<1> QED BY <1>1, <1>2, <1>3, <1>4, <1>5, CachesGo

\* A metadata file is damaged.
LEMMA CachesDamage == ASSUME CacheInv, CacheConstants, NEW s \in Caches!Store, Caches!Damage(s) PROVE CacheInv'
<1>1. /\ disk' = [disk EXCEPT ![s].record = Caches!NoRecord] /\ hurt' = hurt \union {s}
      /\ now' = now /\ catalog' = catalog /\ memo' = memo /\ loaded' = loaded /\ op' = op /\ last' = last
  BY DEF Caches!Damage
<1>2. CacheTypes /\ disk \in [Caches!Store -> OnDisk] /\ hurt \subseteq Caches!Store /\ now \in Nat
  BY DEF CacheInv, CacheTypes
<1>3. PICK d \in OnDisk : d = [disk[s] EXCEPT !.record = Caches!NoRecord]
  BY <1>2, CacheRecords DEF OnDisk
<1>4. d.record = Caches!NoRecord /\ d.dir = disk[s].dir /\ d.edition = disk[s].edition
  BY <1>2, <1>3 DEF OnDisk
<1>5. /\ disk' \in [Caches!Store -> OnDisk] /\ disk'[s] = d /\ s \in hurt' /\ hurt' \subseteq Caches!Store
      /\ \A t \in Caches!Store : t # s => disk'[t] = disk[t]
  BY <1>1, <1>2, <1>3
<1>6. CacheTypes'
  BY <1>1, <1>2, <1>5 DEF CacheTypes
<1>7. OneChain' /\ \A a \in Actor : ErrandFits(a)' /\ PruneFits(a)'
  BY <1>1 DEF CacheInv, OneChain, Caches!InChain, ErrandFits, PruneFits
<1>8. ASSUME NEW b \in Actor PROVE RecordFits(b)'
  <2>1. op[b].step \in Working => op[b].store \in Caches!Store
    BY CacheFacts DEF ErrandFits
  <2>2. op[b].step \in Working /\ op[b].store \notin hurt' =>
          disk'[op[b].store].record = disk[op[b].store].record
    BY <1>5, <2>1
  <2> QED BY <1>1, <2>2, CacheFacts, RecordStays
<1>9. ASSUME NEW t \in Caches!Store PROVE StoreTimes(t)' /\ StoreFits(t)'
  <2>1. CASE t = s
    <3>1. StoreTimes(s)
      BY DEF CacheInv
    <3>2. StoreTimes(t)'
      BY <1>1, <1>2, <1>4, <1>5, <2>1, <3>1, CacheRecords DEF StoreTimes
    <3> QED BY <1>5, <2>1, <3>2 DEF StoreFits
  <2>2. CASE t # s
    <3>1. now' \in Nat /\ now <= now' /\ last'[t] = last[t] /\ disk'[t] = disk[t] /\ hurt \subseteq hurt'
      BY <1>1, <1>2, <1>5, <2>2
    <3>2. \A p \in Process : memo'[p][t] = memo[p][t]
      BY <1>1
    <3> QED BY <3>1, <3>2, StoreStays
  <2> QED BY <2>1, <2>2
<1> QED BY <1>6, <1>7, <1>8, <1>9 DEF CacheInv

\* A process dies with what it remembers.
LEMMA CachesCrash == ASSUME CacheInv, CacheConstants, NEW p \in Process, Caches!Crash(p) PROVE CacheInv'
<1>1. /\ memo' = [memo EXCEPT ![p] = [s \in Caches!Store |-> Caches!NoRecord]]
      /\ loaded' = [loaded EXCEPT ![p] = {}]
      /\ op' = [a \in Actor |-> IF ProcessOf[a] = p THEN Caches!Idle ELSE op[a]]
      /\ now' = now /\ disk' = disk /\ catalog' = catalog /\ last' = last /\ hurt' = hurt
  BY DEF Caches!Crash
<1>2. /\ CacheTypes /\ memo \in [Process -> [Caches!Store -> Touched]] /\ op \in [Actor -> Errand]
      /\ loaded \in [Process -> SUBSET Caches!Store] /\ now \in Nat /\ now > 0
  BY DEF CacheInv, CacheTypes
<1>3. [s \in Caches!Store |-> Caches!NoRecord] \in [Caches!Store -> Touched]
  BY CacheRecords
<1>4. /\ memo' \in [Process -> [Caches!Store -> Touched]]
      /\ \A q \in Process, t \in Caches!Store : memo'[q][t] = memo[q][t] \/ memo'[q][t] = Caches!NoRecord
  BY <1>1, <1>2, <1>3
<1>5. loaded' \in [Process -> SUBSET Caches!Store] /\ \A q \in Process : loaded'[q] \subseteq loaded[q]
  BY <1>1, <1>2
<1>6. /\ op' \in [Actor -> Errand]
      /\ \A a \in Actor : op'[a] = op[a] \/ (op'[a].kind = "none" /\ op'[a].step = "idle" /\ op'[a].store = 0)
      /\ \A a, b \in Actor : ProcessOf[a] = ProcessOf[b] =>
           (op'[a] = op[a] /\ op'[b] = op[b]) \/ (op'[a] = Caches!Idle /\ op'[b] = Caches!Idle)
  BY <1>1, <1>2, CacheRecords
<1>7. CacheTypes'
  BY <1>1, <1>2, <1>4, <1>5, <1>6 DEF CacheTypes
<1>8. OneChain'
  <2>1. \A a \in Actor : Caches!InChain(a)' => Caches!InChain(a)
    BY <1>6 DEF Caches!InChain
  <2> QED BY <2>1 DEF CacheInv, OneChain
<1>9. ASSUME NEW a \in Actor PROVE ErrandFits(a)' /\ RecordFits(a)'
  <2>1. ErrandFits(a) /\ RecordFits(a)
    BY DEF CacheInv
  <2>2. CASE op'[a] = op[a]
    BY <1>1, <2>1, <2>2 DEF ErrandFits, RecordFits
  <2>3. CASE op'[a].kind = "none" /\ op'[a].step = "idle" /\ op'[a].store = 0
    BY <2>3 DEF ErrandFits, RecordFits, Working
  <2> QED BY <1>6, <2>2, <2>3
<1>10. ASSUME NEW a \in Actor PROVE PruneFits(a)'
  <2> SUFFICES ASSUME op'[a].step = "remove" PROVE PruneFits(a)'
    BY DEF PruneFits
  <2>1. op'[a] = op[a] /\ PruneFits(a) /\ ProcessOf[a] \in Process
    BY <1>6 DEF CacheInv, CacheConstants
  <2>2. op'[a] # Caches!Idle
    BY CacheRecords
  <2>3. \A b \in Actor : ProcessOf[b] = ProcessOf[a] => op'[b] = op[b]
    BY <1>6, <2>2
  <2> QED BY <1>1, <1>5, <2>1, <2>3 DEF PruneFits
<1>11. ASSUME NEW t \in Caches!Store PROVE StoreTimes(t)' /\ StoreFits(t)'
  <2>1. /\ StoreTimes(t) /\ StoreFits(t) /\ disk[t].record.used \in Nat /\ Caches!NoRecord.used = 0
    BY <1>2, CacheRecords DEF CacheInv, CacheTypes, OnDisk, Touched
  <2>2. StoreTimes(t)'
    BY <1>1, <1>2, <1>4, <2>1 DEF StoreTimes
  <2>3. StoreFits(t)'
    <3>1. t \notin hurt /\ disk[t].record # Caches!NoRecord =>
            \A q \in Process : memo'[q][t].used <= disk[t].record.used
      BY <1>4, <2>1 DEF StoreFits
    <3> QED BY <1>1, <2>1, <3>1 DEF StoreFits
  <2> QED BY <2>2, <2>3
<1> QED BY <1>7, <1>8, <1>9, <1>10, <1>11 DEF CacheInv

\* Time goes on while nobody is in a chain.
LEMMA CachesTick == ASSUME CacheInv, CacheConstants, Caches!Tick PROVE CacheInv'
<1>1. /\ \A a \in Actor : ~Caches!InChain(a)
      /\ now' = now + 1
      /\ disk' = disk /\ catalog' = catalog /\ memo' = memo /\ loaded' = loaded /\ op' = op /\ last' = last
      /\ hurt' = hurt
  BY DEF Caches!Tick
<1>2. CacheTypes /\ now \in Nat /\ now > 0 /\ now' \in Nat \ {0} /\ now <= now'
  BY <1>1 DEF CacheInv, CacheTypes
<1>3. CacheTypes' /\ OneChain'
  BY <1>1, <1>2 DEF CacheTypes, OneChain, Caches!InChain
<1>4. ASSUME NEW a \in Actor PROVE ErrandFits(a)' /\ RecordFits(a)' /\ PruneFits(a)'
  <2>1. ErrandFits(a) /\ op[a].step \in {"idle", "opened", "build"}
    BY <1>1, CacheFacts DEF Caches!InChain
  <2> QED BY <1>1, <2>1 DEF ErrandFits, RecordFits, PruneFits
<1>5. ASSUME NEW t \in Caches!Store PROVE StoreTimes(t)' /\ StoreFits(t)'
  <2>1. hurt \subseteq hurt' /\ last'[t] = last[t] /\ \A p \in Process : memo'[p][t] = memo[p][t]
    BY <1>1
  <2>2. disk'[t] = disk[t]
    BY <1>1
  <2> QED BY <1>2, <2>1, <2>2, StoreStays
<1> QED BY <1>3, <1>4, <1>5 DEF CacheInv

\* Every step keeps the invariant.
LEMMA CachesStep == ASSUME CacheInv, CacheConstants, [Caches!Next]_(Caches!vars) PROVE CacheInv'
<1>1. CASE \E a \in Actor, s \in Caches!Store : Caches!Open(a, s, "use") \/ Caches!Open(a, s, "clear")
  BY <1>1, CachesOpen
<1>2. ASSUME NEW a \in Actor,
             Caches!EnsureActive(a) \/ Caches!Touch(a) \/ Caches!RecordIndexed(a) \/ Caches!RecordCleared(a)
      PROVE  CacheInv'
  BY <1>2, CachesEnsure, CachesTouch, CachesIndexed, CachesCleared
<1>3. ASSUME NEW a \in Actor, Caches!Write(a) \/ Caches!Enter(a) \/ Caches!Done(a) PROVE CacheInv'
  BY <1>3, CachesWrite, CachesEnter, CachesDone
<1>4. ASSUME NEW a \in Actor, Caches!Prune(a, TRUE) \/ Caches!Prune(a, FALSE) PROVE CacheInv'
  BY <1>4, CachesPrune
<1>5. ASSUME NEW a \in Actor, Caches!Judge(a) \/ Caches!Remove(a) \/ Caches!Finish(a) PROVE CacheInv'
  BY <1>5, CachesJudge, CachesRemove, CachesFinish
<1>6. CASE \E p \in Process, s \in Caches!Store : Caches!Evict(p, s)
  BY <1>6, CachesEvict
<1>7. CASE \E s \in Caches!Store : Caches!Damage(s)
  BY <1>7, CachesDamage
<1>8. CASE \E p \in Process : Caches!Crash(p)
  BY <1>8, CachesCrash
<1>9. CASE Caches!Tick
  BY <1>9, CachesTick
<1>10. CASE UNCHANGED Caches!vars
  <2>1. /\ now' = now /\ disk' = disk /\ catalog' = catalog /\ memo' = memo /\ loaded' = loaded /\ op' = op
        /\ last' = last /\ hurt' = hurt
    BY <1>10 DEF Caches!vars
  <2> QED BY <2>1 DEF CacheInv, CacheTypes, OneChain, Caches!InChain, ErrandFits, RecordFits, PruneFits,
                      StoreTimes, StoreFits
<1>11. CASE Caches!Next
  BY <1>1, <1>2, <1>3, <1>4, <1>5, <1>6, <1>7, <1>8, <1>9, <1>11 DEF Caches!Next
<1> QED BY <1>10, <1>11

\* A store's own record is less than a day behind its last use, whatever the processes remember and
\* however they overwrite the catalog, unless the store was hurt.
THEOREM RecordsKeepUp == ASSUME CacheConstants PROVE Caches!Spec => []Caches!RecordKeepsUp
<1>1. Caches!Init => CacheInv
  BY CachesStart
<1>2. CacheInv /\ [Caches!Next]_(Caches!vars) => CacheInv'
  BY CachesStep
<1>3. CacheInv => Caches!RecordKeepsUp
  BY DEF CacheInv, StoreFits, Caches!RecordKeepsUp
<1> QED BY <1>1, <1>2, <1>3, PTL DEF Caches!Spec

\* Only a removal takes a request from "remove" to "judge".
LEMMA CacheRemoves ==
  ASSUME CacheInv, CacheConstants, Caches!Next, NEW a \in Actor, op[a].step = "remove", op'[a].step = "judge"
  PROVE  Caches!Remove(a)
<1>1. op \in [Actor -> Errand]
  BY DEF CacheInv, CacheTypes
<1>2. ASSUME NEW b \in Actor, op[b].step # "remove", \A c \in Actor : c # b => op'[c] = op[c] PROVE FALSE
  BY <1>2
<1>3. op' # op
  OBVIOUS
<1>4. ASSUME NEW b \in Actor, NEW s \in Caches!Store, Caches!Open(b, s, "use") \/ Caches!Open(b, s, "clear")
      PROVE  FALSE
  <2>1. op[b].step # "remove" /\ \A c \in Actor : c # b => op'[c] = op[c]
    BY <1>1, <1>4 DEF Caches!Open, Caches!Idle
  <2> QED BY <2>1, <1>2
<1>5. ASSUME NEW b \in Actor, Caches!EnsureActive(b) \/ Caches!Touch(b) PROVE FALSE
  <2>1. op[b].step # "remove" /\ \A c \in Actor : c # b => op'[c] = op[c]
    BY <1>1, <1>5 DEF Caches!EnsureActive, Caches!Touch, Caches!TouchUsed
  <2> QED BY <2>1, <1>2
<1>6. ASSUME NEW b \in Actor, Caches!RecordIndexed(b) \/ Caches!RecordCleared(b) \/ Caches!Write(b) PROVE FALSE
  <2>1. op[b].step # "remove" /\ \A c \in Actor : c # b => op'[c] = op[c]
    BY <1>1, <1>6 DEF Caches!RecordIndexed, Caches!RecordCleared, Caches!Write
  <2> QED BY <2>1, <1>2
<1>7. ASSUME NEW b \in Actor, Caches!Enter(b) \/ Caches!Done(b) \/ Caches!Finish(b) PROVE FALSE
  <2>1. op[b].step # "remove" /\ \A c \in Actor : c # b => op'[c] = op[c]
    BY <1>1, <1>7 DEF Caches!Enter, Caches!Done, Caches!Finish
  <2> QED BY <2>1, <1>2
<1>8. ASSUME NEW b \in Actor, Caches!Prune(b, TRUE) \/ Caches!Prune(b, FALSE) PROVE FALSE
  <2>1. op[b].step # "remove" /\ \A c \in Actor : c # b => op'[c] = op[c]
    BY <1>1, <1>8, SMTT(60) DEF Caches!Prune, Caches!Idle
  <2> QED BY <2>1, <1>2
<1>9. ASSUME NEW b \in Actor, Caches!Judge(b) PROVE FALSE
  <2>1. op[b].step # "remove" /\ \A c \in Actor : c # b => op'[c] = op[c]
    BY <1>1, <1>9 DEF Caches!Judge
  <2> QED BY <2>1, <1>2
<1>10. ASSUME NEW b \in Actor, Caches!Remove(b) PROVE Caches!Remove(a)
  <2>1. \A c \in Actor : c # b => op'[c] = op[c]
    BY <1>1, <1>10 DEF Caches!Remove
  <2>2. b = a
    BY <2>1
  <2> QED BY <1>10, <2>2
<1>11. ASSUME NEW p \in Process, NEW s \in Caches!Store, Caches!Evict(p, s) PROVE FALSE
  BY <1>11, <1>3 DEF Caches!Evict
<1>12. ASSUME NEW s \in Caches!Store, Caches!Damage(s) PROVE FALSE
  BY <1>12, <1>3 DEF Caches!Damage
<1>13. ASSUME NEW p \in Process, Caches!Crash(p) PROVE FALSE
  <2>1. op'[a] = Caches!Idle \/ op'[a] = op[a]
    BY <1>13 DEF Caches!Crash
  <2> QED BY <2>1 DEF Caches!Idle
<1>14. Caches!Tick => FALSE
  BY <1>3 DEF Caches!Tick
<1>15. CASE \E b \in Actor, s \in Caches!Store : Caches!Open(b, s, "use") \/ Caches!Open(b, s, "clear")
  BY <1>4, <1>15
<1>16. CASE \E b \in Actor : \/ Caches!EnsureActive(b) \/ Caches!Touch(b) \/ Caches!RecordIndexed(b)
                             \/ Caches!RecordCleared(b) \/ Caches!Write(b) \/ Caches!Enter(b) \/ Caches!Done(b)
  BY <1>5, <1>6, <1>7, <1>16
<1>17. CASE \E b \in Actor : \/ Caches!Prune(b, TRUE) \/ Caches!Prune(b, FALSE) \/ Caches!Judge(b)
                             \/ Caches!Remove(b) \/ Caches!Finish(b)
  BY <1>7, <1>8, <1>9, <1>10, <1>17
<1> QED BY <1>11, <1>12, <1>13, <1>14, <1>15, <1>16, <1>17 DEF Caches!Next

\* A store that is removed was not used for the days that were asked for, less the one that the
\* throttle hides, and is not used by the daemon that removes it, unless it is hurt.
THEOREM RemovesOnlyUnused == ASSUME CacheConstants PROVE Caches!Spec => [][Caches!RemovesTheUnused]_(Caches!vars)
<1>1. Caches!Init => CacheInv
  BY CachesStart
<1>2. CacheInv /\ [Caches!Next]_(Caches!vars) => CacheInv'
  BY CachesStep
<1>3. ASSUME CacheInv, [Caches!Next]_(Caches!vars) PROVE [Caches!RemovesTheUnused]_(Caches!vars)
  <2> SUFFICES ASSUME Caches!Next, NEW a \in Actor, op[a].step = "remove", op'[a].step = "judge"
               PROVE  /\ \A b \in Actor \ {a} : ~(ProcessOf[b] = ProcessOf[a] /\ op[b].store = op[a].store /\ op[b].kind # "prune")
                      /\ op[a].store \notin loaded[ProcessOf[a]]
                      /\ \/ last[op[a].store] < now - (UnusedDays - 1) * Day
                         \/ op[a].store \in hurt'
    BY <1>3 DEF Caches!RemovesTheUnused
  <2>1. PruneFits(a)
    BY <1>3 DEF CacheInv
  <2>2. ASSUME op[a].store \notin hurt' PROVE last[op[a].store] < now - (UnusedDays - 1) * Day
    <3>1. Caches!Remove(a)
      BY <1>3, CacheRemoves
    <3>2. op[a].store \notin hurt /\ disk[op[a].store].record = op[a].record
      BY <2>2, <3>1 DEF Caches!Remove
    <3>3. last[op[a].store] + Past < now + Day
      BY <1>3, <3>2, CacheUnused
    <3>4. last[op[a].store] \in Nat /\ now \in Nat /\ Day \in Nat /\ Past \in Nat
      <4>1. op[a].store \in Caches!Store /\ last \in [Caches!Store -> Nat] /\ now \in Nat
        BY <1>3, <2>1 DEF PruneFits, CacheInv, CacheTypes
      <4> QED BY <4>1, CachePast DEF CacheConstants
    <3> QED BY <3>3, <3>4, CachePast
  <2> QED BY <2>1, <2>2 DEF PruneFits
<1> QED BY <1>1, <1>2, <1>3, PTL DEF Caches!Spec
-----------------------------------------------------------------------------
(***************************************************************************)
(* How the snapshot store answers from what is on disk or publishes anew    *)
(* (StoreRefresh), taken as an instance too; its disk and its requests are  *)
(* not those above.  The inductive invariant says what a running request is *)
(* owed (the vault as it is has been seen by it, and the snapshot that it   *)
(* was given can be loaded unless it was hurt), that a build carries on     *)
(* only what the program that runs has made, and that a refresh that ended  *)
(* left a usable head with its vectors made, failed, in the queue, or about *)
(* to be asked for by a request that waits for them.                        *)
(***************************************************************************)
CONSTANTS Part, Op, MaxEdits, MaxImpl
VARIABLES file, impl, head, lane, dense, faults

Store == INSTANCE StoreRefresh

Versions == [Part -> Nat]
Snap     == [corpus : Versions, by : [Part -> Nat]]
Segment  == Part \X Nat \X Nat
Manifest == [snap : Snap, impl : Nat]
OnDrive  == [segments : SUBSET Segment, damaged : SUBSET Segment, graphs : SUBSET Snap,
             manifests : SUBSET Manifest, retrievals : SUBSET Snap]
Edition  == [snap : Snap, dense : {"fresh", "failed", "unavailable"}]
Wanted   == [snap : Snap, force : BOOLEAN]
Kinds    == {"none", "pin", "compact", "refresh", "warm", "rebuild", "retrieval", "clear"}
Stages   == {"off", "queued", "building", "published", "retrieving", "clearing", "done", "failed", "lost"}
Asked    == [kind : Kinds, at : Stages, base : BOOLEAN, prepare : BOOLEAN, answer : Snap, seen : SUBSET Versions,
             current : BOOLEAN, hurt : BOOLEAN]
Job      == [job : {"none", "dense"}] \cup [job : {"build"}, for : SUBSET Op, base : {<< >>} \cup {<<s>> : s \in Snap}]
            \cup [job : {"publish"}, for : SUBSET Op, snap : Snap]

StoreTypes ==
  /\ file \in Versions /\ impl \in Nat /\ disk \in OnDrive /\ loaded \subseteq Snap
  /\ head \in {<< >>} \cup {<<e>> : e \in Edition}
  /\ op \in [Op -> Asked] /\ lane \in Job /\ dense \in Seq(Wanted)

\* What the program that runs has made of a base is its own.
Own(s) == \A p \in Part : s.by[p] = impl
MadeFits ==
  /\ Store!MadeByOne
  /\ lane.job = "build" => \A s \in Snap : lane.base = <<s>> => Own(s)
  /\ lane.job = "publish" => Own(lane.snap)

\* The requests that a job answers wait for it, and its snapshot is one that each of them has seen.
LaneFits ==
  /\ lane.job \in {"build", "publish"} => lane.for # {} /\ \A o \in lane.for : op[o].at = "building"
  /\ lane.job = "publish" => \A o \in lane.for : lane.snap.corpus \in op[o].seen
  /\ lane.job = "dense" => head # << >> /\ dense # << >>

\* What a request has been promised.
Held(s) == s \in loaded \/ Store!Whole(disk, s)
RequestFits(o) ==
  /\ op[o].current
  /\ Store!Running(o) /\ op[o].at # "lost" => file \in op[o].seen
  /\ op[o].at \in {"published", "retrieving"} => op[o].answer.corpus \in op[o].seen
  /\ op[o].at = "failed" => op[o].hurt
  /\ op[o].at = "published" /\ ~op[o].hurt => Held(op[o].answer)
  /\ op[o].at = "off" => op[o].kind = "none"
  /\ op[o].at = "retrieving" => op[o].kind = "retrieval"
  /\ op[o].at \in {"queued", "building"} =>
       /\ op[o].kind \in {"pin", "compact", "refresh", "warm", "rebuild", "retrieval"}
       /\ op[o].kind \in {"refresh", "warm", "rebuild"} => op[o].prepare

\* Once a refresh has ended the head is usable, and has its vectors, or has failed to get them, or
\* somebody asks for them or is about to.
Vectored == {"none", "refresh", "rebuild", "warm", "retrieval"}
OnlyVectored == \A o \in Op : op[o].kind \in Vectored
Refreshed(o) == op[o].at = "done" /\ op[o].kind = "refresh" /\ ~op[o].hurt
HasVectors(e) == e.dense = "failed" \/ (e.dense = "fresh" /\ e.snap \in disk.retrievals)
Awaits(e) == \E i \in 1 .. Len(dense) : dense[i].snap = e.snap /\ (dense[i].force \/ e.dense # "fresh")
AboutToAsk(e) == \E o \in Op : op[o].at = "published" /\ op[o].kind = "retrieval" /\ op[o].answer = e.snap
Provided(e) == Store!Readable(e.snap) /\ Held(e.snap) /\ (HasVectors(e) \/ Awaits(e) \/ AboutToAsk(e))
VectorsFit ==
  (OnlyVectored /\ \E o \in Op : Refreshed(o)) => \E e \in Edition : head = <<e>> /\ Provided(e)

StoreInv == StoreTypes /\ MadeFits /\ LaneFits /\ (\A o \in Op : RequestFits(o)) /\ VectorsFit

\* A request, changed.
LEMMA FreshAsked == Store!First \in Snap /\ Store!NoOp \in Asked /\ Store!NoOp.kind = "none" /\ Store!NoOp.current /\ ~Store!NoOp.hurt
<1>1. Store!First \in Snap
  BY DEF Snap, Versions, Store!First
<1>2. /\ "none" \in Kinds /\ "off" \in Stages
  BY DEF Kinds, Stages
<1> QED BY <1>1, <1>2 DEF Asked, Store!NoOp

LEMMA DoneIs ==
  ASSUME NEW r \in Asked
  PROVE  /\ Store!Done(r) \in Asked /\ Store!Done(r).kind = r.kind /\ Store!Done(r).at = "done"
         /\ Store!Done(r).hurt = r.hurt /\ Store!Done(r).current = (r.answer.corpus \in r.seen)
<1> DEFINE known == r.answer.corpus \in r.seen
<1>1. known \in BOOLEAN /\ "done" \in Stages
  BY DEF Stages
<1>2. PICK n : n = [Store!NoOp EXCEPT !.kind = r.kind, !.at = "done", !.hurt = r.hurt, !.current = known]
  OBVIOUS
<1>3. n = Store!Done(r)
  BY <1>2 DEF Store!Done
<1> HIDE DEF known
<1>4. n \in Asked
  BY <1>1, <1>2, FreshAsked DEF Asked
<1>5. n.kind = r.kind /\ n.at = "done" /\ n.hurt = r.hurt /\ n.current = known
  BY <1>1, <1>2, FreshAsked DEF Asked
<1> QED BY <1>3, <1>4, <1>5 DEF known

LEMMA GivenIs ==
  ASSUME NEW r \in Asked, NEW s \in Snap, s.corpus \in r.seen, r.current
  PROVE  LET g == Store!Given(r, s) IN
         /\ g \in Asked /\ g.kind = r.kind /\ g.hurt = r.hurt /\ g.current
         /\ g.at = (IF r.kind \in {"pin", "warm", "retrieval"} THEN "published" ELSE "done")
         /\ g.at = "published" => g.answer = s /\ g.seen = r.seen
<1>1. "published" \in Stages
  BY DEF Stages
<1>2. PICK n : n = [r EXCEPT !.at = "published", !.answer = s]
  OBVIOUS
<1>3. n \in Asked /\ n.at = "published" /\ n.answer = s
  BY <1>1, <1>2 DEF Asked
<1>4. n.kind = r.kind /\ n.hurt = r.hurt /\ n.current = r.current /\ n.seen = r.seen
  BY <1>2 DEF Asked
<1>5. Store!Given(r, s) = (IF r.kind \in {"pin", "warm", "retrieval"} THEN n ELSE Store!Done(n))
  BY <1>2 DEF Store!Given
<1> QED BY <1>3, <1>4, <1>5, DoneIs

\* The edition that is published.
LEMMA HeadIs ==
  ASSUME StoreTypes, head # << >>
  PROVE  \E e \in Edition : head = <<e>> /\ Head(head) = e /\ e.snap \in Snap
<1>1. PICK e \in Edition : head = <<e>>
  BY DEF StoreTypes
<1> QED BY <1>1 DEF Edition

LEMMA JobIs ==
  ASSUME lane \in Job
  PROVE  /\ lane.job \in {"none", "dense", "build", "publish"}
         /\ lane.job \in {"build", "publish"} => lane.for \subseteq Op
         /\ lane.job = "build" => lane.base \in {<< >>} \cup {<<s>> : s \in Snap}
         /\ lane.job = "publish" => lane.snap \in Snap
BY DEF Job

LEMMA SegmentsAre == ASSUME NEW s \in Snap PROVE Store!Segments(s) \subseteq Segment
  BY DEF Snap, Versions, Segment, Store!Segments

\* What is held stays held when nothing is lost.
Grows ==
  /\ loaded \subseteq loaded' /\ disk.segments \subseteq disk'.segments /\ disk.graphs \subseteq disk'.graphs
  /\ disk.segments \cup disk.damaged \subseteq disk'.segments \cup disk'.damaged
  /\ \A m \in disk.manifests : \E n \in disk'.manifests : n.snap = m.snap

LEMMA HeldStays ==
  ASSUME Grows, NEW s
  PROVE  (Held(s) => Held(s)') /\ (Store!Readable(s) => Store!Readable(s)')
<1>1. (Held(s) => Held(s)')
  BY DEF Grows, Held, Store!Whole, Store!Segments
<1>2. Store!Readable(s) => Store!Readable(s)'
  BY DEF Grows, Store!Readable, Store!HasGraph, Store!Segments
<1> QED BY <1>1, <1>2

LEMMA WholeIsReadable == ASSUME NEW s, Store!Whole(disk, s) PROVE Store!Readable(s)
  BY DEF Store!Whole, Store!Readable, Store!HasGraph

\* A request that nothing happens to is as it was.
LEMMA RequestStays ==
  ASSUME NEW o \in Op, RequestFits(o), op'[o] = op[o], file' = file, Grows
  PROVE  RequestFits(o)'
<1>1. op[o].at = "published" /\ ~op[o].hurt => Held(op[o].answer)'
  BY HeldStays DEF RequestFits
<1>2. (op[o].at = "published" /\ ~op[o].hurt => Held(op[o].answer))'
  BY <1>1 DEF Held, Store!Whole, Store!Segments
<1> QED BY <1>2 DEF RequestFits, Store!Running

\* What a request does that leaves the disk, the head and the lane alone.
LEMMA OneMoves ==
  ASSUME StoreInv, NEW o \in Op, NEW r \in Asked, op' = [op EXCEPT ![o] = r],
         UNCHANGED <<file, impl, disk, head, lane>>, loaded \subseteq loaded', loaded' \subseteq Snap,
         dense' \in Seq(Wanted), Len(dense) <= Len(dense'), \A i \in 1 .. Len(dense) : dense'[i] = dense[i],
         op[o].at # "building", RequestFits(o)',
         r.kind \in Vectored => op[o].kind \in Vectored,
         \A e \in Edition :
           head = <<e>> /\ Provided(e) /\ op[o].at = "published" /\ op[o].kind = "retrieval" => Provided(e)',
         Refreshed(o)' => Refreshed(o) \/ \E e \in Edition : head = <<e>> /\ Provided(e)'
  PROVE  StoreInv'
<1>1. /\ StoreTypes /\ MadeFits /\ LaneFits /\ (\A p \in Op : RequestFits(p)) /\ VectorsFit
      /\ op \in [Op -> Asked] /\ lane \in Job /\ dense \in Seq(Wanted)
  BY DEF StoreInv, StoreTypes
<1>2. op' \in [Op -> Asked] /\ op'[o] = r /\ \A p \in Op \ {o} : op'[p] = op[p]
  BY <1>1
<1>3. Grows
  BY DEF Grows
<1>4. StoreTypes'
  BY <1>1, <1>2 DEF StoreTypes
<1>5. MadeFits'
  BY <1>1 DEF MadeFits, Store!MadeByOne, Own
<1>6. LaneFits'
  <2>1. lane.job \in {"build", "publish"} => \A p \in lane.for : p \in Op /\ p # o /\ op'[p] = op[p]
    BY <1>1, <1>2, JobIs DEF LaneFits
  <2>2. dense # << >> => dense' # << >>
    BY <1>1
  <2> QED BY <1>1, <2>1, <2>2 DEF LaneFits
<1>7. \A p \in Op : RequestFits(p)'
  BY <1>1, <1>2, <1>3, RequestStays
<1>8. VectorsFit'
  <2> SUFFICES ASSUME OnlyVectored', NEW p \in Op, Refreshed(p)'
               PROVE  \E e \in Edition : head = <<e>> /\ Provided(e)'
    BY DEF VectorsFit
  <2>1. OnlyVectored
    BY <1>2 DEF OnlyVectored
  <2>2. CASE p = o /\ ~Refreshed(o)
    BY <2>2
  <2>3. CASE p # o \/ Refreshed(o)
    <3>1. Refreshed(p)
      BY <1>2, <2>3 DEF Refreshed
    <3>2. PICK e \in Edition : head = <<e>> /\ Provided(e)
      BY <1>1, <2>1, <3>1 DEF VectorsFit
    <3>3. Store!Readable(e.snap)' /\ Held(e.snap)'
      BY <1>3, <3>2, HeldStays DEF Provided
    <3>4. HasVectors(e) => HasVectors(e)'
      BY DEF HasVectors
    <3>5. Awaits(e) => Awaits(e)'
      BY <1>1 DEF Awaits
    <3>6. AboutToAsk(e) => AboutToAsk(e)' \/ Provided(e)'
      <4> SUFFICES ASSUME NEW q \in Op, op[q].at = "published", op[q].kind = "retrieval", op[q].answer = e.snap
                   PROVE  AboutToAsk(e)' \/ Provided(e)'
        BY DEF AboutToAsk
      <4>1. CASE q = o
        BY <3>2, <4>1
      <4>2. CASE q # o
        BY <1>2, <4>2 DEF AboutToAsk
      <4> QED BY <4>1, <4>2
    <3>7. Provided(e)'
      BY <3>2, <3>3, <3>4, <3>5, <3>6 DEF Provided
    <3> QED BY <3>2, <3>7
  <2> QED BY <2>2, <2>3
<1> QED BY <1>4, <1>5, <1>6, <1>7, <1>8 DEF StoreInv

\* The same, when nothing is asked for and nothing that was wanted is given up.
LEMMA OneGoes ==
  ASSUME StoreInv, NEW o \in Op, NEW r \in Asked, op' = [op EXCEPT ![o] = r],
         UNCHANGED <<file, impl, disk, head, lane, dense>>, loaded \subseteq loaded', loaded' \subseteq Snap,
         op[o].at # "building", RequestFits(o)', ~Refreshed(o)',
         r.kind \in Vectored => op[o].kind \in Vectored,
         op[o].at = "published" => op[o].kind # "retrieval"
  PROVE  StoreInv'
<1>1. dense' \in Seq(Wanted) /\ Len(dense) <= Len(dense') /\ \A i \in 1 .. Len(dense) : dense'[i] = dense[i]
  BY DEF StoreInv, StoreTypes
<1> QED BY <1>1, OneMoves

\* What is known of a request that goes on.
LEMMA RequestKnown ==
  ASSUME StoreInv, NEW o \in Op
  PROVE  /\ op[o] \in Asked /\ RequestFits(o) /\ op[o].kind \in Kinds /\ op[o].at \in Stages /\ op[o].answer \in Snap
         /\ op[o].base \in BOOLEAN /\ op[o].prepare \in BOOLEAN /\ op[o].hurt \in BOOLEAN /\ op[o].seen \subseteq Versions
         /\ file \in Versions /\ loaded \subseteq Snap /\ dense \in Seq(Wanted)
<1>1. op[o] \in Asked /\ RequestFits(o) /\ file \in Versions /\ loaded \subseteq Snap /\ dense \in Seq(Wanted)
  BY DEF StoreInv, StoreTypes
<1> QED BY <1>1 DEF Asked

\* A request that starts has seen the vault as it is.
LEMMA StartedIs ==
  ASSUME StoreInv, NEW o \in Op, NEW kind \in Kinds
  PROVE  \E r \in Asked :
           /\ Store!Started(o, kind) = [op EXCEPT ![o] = r] /\ Store!Started(o, kind)[o] = r
           /\ r.kind = kind /\ r.seen = {file} /\ r.current /\ ~r.hurt /\ ~r.prepare
<1>0. op \in [Op -> Asked] /\ {file} \in SUBSET Versions
  BY DEF StoreInv, StoreTypes
<1>1. PICK r : r = [Store!NoOp EXCEPT !.kind = kind, !.seen = {file}]
  OBVIOUS
<1>2. r \in Asked
  BY <1>0, <1>1, FreshAsked DEF Asked
<1>3. r.kind = kind /\ r.seen = {file}
  BY <1>1, FreshAsked DEF Asked
<1>4. ~Store!NoOp.prepare
  BY DEF Store!NoOp
<1>5. r.current /\ ~r.hurt /\ ~r.prepare
  BY <1>1, <1>4, FreshAsked DEF Asked
<1>6. Store!Started(o, kind) = [op EXCEPT ![o] = r]
  BY <1>1 DEF Store!Started
<1> QED BY <1>0, <1>2, <1>3, <1>5, <1>6

\* A request that is given what is held fits.
LEMMA GivenFits ==
  ASSUME NEW o \in Op, NEW r \in Asked, NEW s \in Snap, s.corpus \in r.seen, r.current, file' \in r.seen,
         op'[o] = Store!Given(r, s), Held(s)'
  PROVE  RequestFits(o)'
<1>1. /\ op'[o].kind = r.kind /\ op'[o].hurt = r.hurt /\ op'[o].current /\ op'[o].at \in {"published", "done"}
      /\ op'[o].at = "published" => op'[o].answer = s /\ op'[o].seen = r.seen
  BY GivenIs
<1>2. (op[o].at = "published" => Held(op[o].answer))'
  BY <1>1 DEF Held, Store!Whole, Store!Segments
<1> QED BY <1>1, <1>2 DEF RequestFits, Store!Running

LEMMA QueuedFits ==
  ASSUME NEW o \in Op, op'[o].at = "queued", op'[o].current, file' \in op'[o].seen,
         op'[o].kind \in {"pin", "compact", "refresh", "warm", "rebuild", "retrieval"},
         op'[o].kind \in {"refresh", "warm", "rebuild"} => op'[o].prepare
  PROVE  RequestFits(o)'
BY DEF RequestFits

\* The active snapshot is taken, or made.
LEMMA StoreEnsures ==
  ASSUME StoreInv, NEW o \in Op, NEW ops, NEW r \in Asked, ops = [op EXCEPT ![o] = r], Store!EnsureActive(o, ops),
         UNCHANGED <<file, impl, disk, head, lane, dense>>, op[o].at \notin {"building"}, file \in r.seen, r.current,
         r.kind \in {"pin", "compact", "retrieval"}, r.kind \in Vectored => op[o].kind \in Vectored,
         op[o].at = "published" => op[o].kind # "retrieval"
  PROVE  StoreInv'
<1>1. /\ StoreTypes /\ op \in [Op -> Asked] /\ file \in Versions /\ loaded \subseteq Snap /\ dense \in Seq(Wanted)
      /\ ops[o] = r /\ \A x : [ops EXCEPT ![o] = x] = [op EXCEPT ![o] = x]
  BY DEF StoreInv, StoreTypes
<1>2. CASE head # << >> /\ Store!Fresh(Head(head).snap) /\ Store!EnsureLoaded(Head(head).snap)
  <2>1. PICK e \in Edition : head = <<e>> /\ Head(head) = e /\ e.snap \in Snap
    BY <1>1, <1>2, HeadIs
  <2>2. loaded' = loaded \cup {e.snap} /\ op' = [op EXCEPT ![o] = Store!Given(r, e.snap)] /\ e.snap.corpus = file
    BY <1>1, <1>2, <2>1 DEF Store!EnsureActive, Store!Fresh
  <2>3. Store!Given(r, e.snap) \in Asked /\ Store!Given(r, e.snap).kind = r.kind
    BY <2>1, <2>2, GivenIs
  <2>4. op'[o] = Store!Given(r, e.snap) /\ Held(e.snap)'
    BY <1>1, <2>2 DEF Held
  <2>5. RequestFits(o)'
    BY <2>1, <2>2, <2>4, GivenFits
  <2>6. ~Refreshed(o)'
    BY <2>3, <2>4 DEF Refreshed
  <2>7. loaded \subseteq loaded' /\ loaded' \subseteq Snap
    BY <1>1, <2>1, <2>2
  <2> QED BY <2>2, <2>3, <2>5, <2>6, <2>7, OneGoes
<1>3. CASE ~(head # << >> /\ Store!Fresh(Head(head).snap) /\ Store!EnsureLoaded(Head(head).snap))
  <2> DEFINE based  == head /= << >>
             unasked == FALSE
  <2>1. PICK q : q = [r EXCEPT !.at = "queued", !.base = based, !.prepare = unasked]
    OBVIOUS
  <2>3. op' = [op EXCEPT ![o] = q] /\ loaded' = loaded
    BY <1>1, <1>3, <2>1 DEF Store!EnsureActive
  <2>4. op'[o] = q
    BY <1>1, <2>3
  <2>2. q \in Asked /\ q.at = "queued" /\ q.kind = r.kind /\ q.seen = r.seen /\ q.current
    <3>1. based \in BOOLEAN /\ unasked \in BOOLEAN /\ "queued" \in Stages
      BY DEF Stages
    <3> HIDE DEF based, unasked
    <3>2. q \in Asked
      BY <2>1, <3>1 DEF Asked
    <3>3. q.at = "queued" /\ q.kind = r.kind /\ q.seen = r.seen /\ q.current = r.current
      BY <2>1 DEF Asked
    <3> QED BY <3>2, <3>3
  <2> HIDE DEF based, unasked
  <2>5. RequestFits(o)'
    BY <2>2, <2>4, QueuedFits
  <2>6. ~Refreshed(o)'
    BY <2>2, <2>4 DEF Refreshed
  <2> QED BY <1>1, <2>2, <2>3, <2>5, <2>6, OneGoes
<1> QED BY <1>2, <1>3

LEMMA StorePins ==
  ASSUME StoreInv, NEW o \in Op, NEW kind, Store!PinOrCompact(o, kind)
  PROVE  StoreInv'
<1>1. /\ op[o].at = "off" /\ kind \in {"pin", "compact"} /\ Store!EnsureActive(o, Store!Started(o, kind))
      /\ UNCHANGED <<file, impl, disk, head, lane, dense>>
  BY DEF Store!PinOrCompact
<1>2. kind \in Kinds
  BY <1>1 DEF Kinds
<1>3. PICK r \in Asked : Store!Started(o, kind) = [op EXCEPT ![o] = r] /\ r.kind = kind /\ r.seen = {file} /\ r.current
  BY <1>2, StartedIs
<1>4. r.kind \in {"pin", "compact", "retrieval"} /\ r.kind \notin Vectored /\ file \in r.seen
  BY <1>1, <1>3 DEF Vectored
<1> QED BY <1>1, <1>3, <1>4, StoreEnsures

LEMMA StorePrepares ==
  ASSUME StoreInv, NEW o \in Op, Store!Prepare(o)
  PROVE  StoreInv'
<1>0. op \in [Op -> Asked] /\ op[o] \in Asked /\ RequestFits(o)
  BY RequestKnown DEF StoreInv, StoreTypes
<1>1. /\ op[o].at = "published" /\ op[o].kind = "warm" /\ Store!EnsureActive(o, [op EXCEPT ![o].kind = "retrieval"])
      /\ UNCHANGED <<file, impl, disk, head, lane, dense>>
  BY DEF Store!Prepare
<1>2. PICK r : r = [op[o] EXCEPT !.kind = "retrieval"]
  OBVIOUS
<1>3. r \in Asked
  BY <1>0, <1>2 DEF Asked, Kinds
<1>4. r.kind = "retrieval" /\ r.seen = op[o].seen /\ r.current = op[o].current
  BY <1>0, <1>2 DEF Asked
<1>5. [op EXCEPT ![o].kind = "retrieval"] = [op EXCEPT ![o] = r]
  BY <1>2
<1>6. r.current /\ file \in r.seen
  BY <1>0, <1>1, <1>4 DEF RequestFits, Store!Running
<1> QED BY <1>1, <1>3, <1>4, <1>5, <1>6, StoreEnsures DEF Vectored

\* The head is taken, with its vectors asked for, or a new one is made.
LEMMA StoreRefreshes ==
  ASSUME StoreInv, NEW o \in Op, NEW kind, Store!RefreshOrWarm(o, kind)
  PROVE  StoreInv'
<1>0. /\ StoreTypes /\ op \in [Op -> Asked] /\ file \in Versions /\ loaded \subseteq Snap /\ dense \in Seq(Wanted)
      /\ RequestFits(o)
  BY DEF StoreInv, StoreTypes
<1>1. /\ op[o].at = "off" /\ kind \in {"refresh", "warm"} /\ Store!Refresh(o, Store!Started(o, kind))
      /\ UNCHANGED <<file, impl, disk, head, lane>>
  BY DEF Store!RefreshOrWarm
<1>2. PICK r \in Asked : /\ Store!Started(o, kind) = [op EXCEPT ![o] = r] /\ Store!Started(o, kind)[o] = r
                         /\ r.kind = kind /\ r.seen = {file} /\ r.current /\ ~r.hurt
  <2>1. kind \in Kinds
    BY <1>1 DEF Kinds
  <2> QED BY <2>1, StartedIs
<1>3. \A x : [Store!Started(o, kind) EXCEPT ![o] = x] = [op EXCEPT ![o] = x]
  BY <1>2
<1>4. op[o].kind \in Vectored
  BY <1>0, <1>1 DEF RequestFits, Vectored
<1>5. CASE head # << >> /\ Store!Fresh(Head(head).snap) /\ Store!EnsureLoaded(Head(head).snap)
  <2>1. PICK e \in Edition : head = <<e>> /\ Head(head) = e /\ e.snap \in Snap
    BY <1>0, <1>5, HeadIs
  <2>2. PICK d : d = Store!DenseFor(e.snap, TRUE)
    OBVIOUS
  <2>3. /\ loaded' = loaded \cup {e.snap} /\ op' = [op EXCEPT ![o] = Store!Given(r, e.snap)]
        /\ dense' = (IF Store!RetrievalReady(e) THEN dense ELSE Append(dense, d))
        /\ e.snap.corpus = file /\ Store!Readable(e.snap)
    BY <1>1, <1>2, <1>3, <1>5, <2>1, <2>2 DEF Store!Refresh, Store!Fresh
  <2>4. d \in Wanted /\ d.snap = e.snap /\ d.force
    BY <2>1, <2>2 DEF Wanted, Store!DenseFor
  <2>5. Store!Given(r, e.snap) \in Asked /\ Store!Given(r, e.snap).kind = r.kind
    BY <1>2, <2>1, <2>3, GivenIs
  <2>6. op'[o] = Store!Given(r, e.snap) /\ Held(e.snap)'
    BY <1>0, <2>3 DEF Held
  <2>7. RequestFits(o)'
    BY <1>1, <1>2, <2>1, <2>3, <2>6, GivenFits
  <2>8. /\ dense' \in Seq(Wanted) /\ Len(dense) <= Len(dense') /\ \A i \in 1 .. Len(dense) : dense'[i] = dense[i]
        /\ Store!RetrievalReady(e) \/ (Len(dense') = Len(dense) + 1 /\ dense'[Len(dense) + 1] = d)
    BY <1>0, <2>3, <2>4
  <2>9. Provided(e)'
    <3>1. Store!Readable(e.snap)'
      BY <1>1, <2>3 DEF Store!Readable, Store!HasGraph, Store!Segments
    <3>2. CASE Store!RetrievalReady(e)
      <4>1. HasVectors(e)'
        BY <1>1, <3>2 DEF Store!RetrievalReady, HasVectors
      <4> QED BY <2>6, <3>1, <4>1 DEF Provided
    <3>3. CASE ~Store!RetrievalReady(e)
      <4>1. Len(dense) + 1 \in 1 .. Len(dense')
        BY <1>0, <2>8, <3>3
      <4>2. Awaits(e)'
        BY <2>4, <2>8, <3>3, <4>1 DEF Awaits
      <4> QED BY <2>6, <3>1, <4>2 DEF Provided
    <3> QED BY <3>2, <3>3
  <2>10. loaded \subseteq loaded' /\ loaded' \subseteq Snap
    BY <1>0, <2>1, <2>3
  <2> QED BY <1>1, <1>4, <2>1, <2>3, <2>5, <2>7, <2>8, <2>9, <2>10, OneMoves
<1>6. CASE ~(head # << >> /\ Store!Fresh(Head(head).snap) /\ Store!EnsureLoaded(Head(head).snap))
  <2> DEFINE based == head /= << >> /\ Store!Readable(Head(head).snap) /\ ~Store!Fresh(Head(head).snap)
             asks  == TRUE
  <2>1. PICK q : q = [r EXCEPT !.at = "queued", !.prepare = asks, !.base = based]
    OBVIOUS
  <2>3. op' = [op EXCEPT ![o] = q] /\ loaded' = loaded /\ dense' = dense
    BY <1>1, <1>2, <1>3, <1>6, <2>1 DEF Store!Refresh
  <2>5. q \in Asked /\ q.at = "queued" /\ q.kind = r.kind /\ q.seen = r.seen /\ q.current /\ q.prepare
    <3>1. based \in BOOLEAN /\ asks \in BOOLEAN /\ "queued" \in Stages
      BY DEF Stages
    <3>2. asks
      OBVIOUS
    <3> HIDE DEF based, asks
    <3>3. q \in Asked
      BY <2>1, <3>1 DEF Asked
    <3>4. q.at = "queued" /\ q.kind = r.kind /\ q.seen = r.seen /\ q.current = r.current
      BY <2>1 DEF Asked
    <3>5. q.prepare = asks
      BY <2>1, <3>1 DEF Asked
    <3> QED BY <1>2, <3>2, <3>3, <3>4, <3>5
  <2> HIDE DEF based, asks
  <2>6. op'[o] = q
    BY <1>0, <2>3
  <2>7. RequestFits(o)'
    BY <1>1, <1>2, <2>5, <2>6, QueuedFits
  <2>8. ~Refreshed(o)'
    BY <2>5, <2>6 DEF Refreshed
  <2> QED BY <1>0, <1>1, <1>4, <2>3, <2>5, <2>7, <2>8, OneGoes
<1> QED BY <1>5, <1>6

LEMMA StoreRebuilds ==
  ASSUME StoreInv, NEW o \in Op, Store!Rebuild(o) \/ Store!Clear(o)
  PROVE  StoreInv'
<1>0. /\ op \in [Op -> Asked] /\ file \in Versions /\ loaded \subseteq Snap /\ dense \in Seq(Wanted)
      /\ RequestFits(o)
  BY DEF StoreInv, StoreTypes
<1>1. op[o].at = "off" /\ UNCHANGED <<file, impl, disk, head, loaded, lane, dense>>
  BY DEF Store!Rebuild, Store!Clear
<1>2. op[o].kind \in Vectored
  BY <1>0, <1>1 DEF RequestFits, Vectored
<1>3. CASE Store!Rebuild(o)
  <2>1. PICK r \in Asked : /\ Store!Started(o, "rebuild") = [op EXCEPT ![o] = r]
                           /\ r.kind = "rebuild" /\ r.seen = {file} /\ r.current
    BY StartedIs, ZenonT(60) DEF Kinds
  <2> DEFINE asks == TRUE
  <2>2. PICK q : q = [[r EXCEPT !.at = "queued"] EXCEPT !.prepare = asks]
    OBVIOUS
  <2>5. op' = [op EXCEPT ![o] = q]
    BY <1>0, <1>3, <2>1, <2>2 DEF Store!Rebuild
  <2>3. q \in Asked /\ q.at = "queued" /\ q.kind = "rebuild" /\ q.seen = {file} /\ q.current /\ q.prepare
    <3>1. asks \in BOOLEAN /\ "queued" \in Stages /\ asks
      BY DEF Stages
    <3> HIDE DEF asks
    <3>2. q \in Asked
      BY <2>2, <3>1 DEF Asked
    <3>3. q.at = "queued" /\ q.kind = r.kind /\ q.seen = r.seen /\ q.current = r.current
      BY <2>2 DEF Asked
    <3>4. q.prepare = asks
      BY <2>2, <3>1 DEF Asked
    <3> QED BY <2>1, <3>1, <3>2, <3>3, <3>4
  <2> HIDE DEF asks
  <2>6. op'[o] = q
    BY <1>0, <2>5
  <2>7. RequestFits(o)'
    BY <1>1, <2>3, <2>6, QueuedFits
  <2>8. ~Refreshed(o)'
    BY <2>3, <2>6 DEF Refreshed
  <2> QED BY <1>0, <1>1, <1>2, <2>3, <2>5, <2>7, <2>8, OneGoes
<1>4. CASE Store!Clear(o)
  <2>1. PICK r \in Asked : /\ Store!Started(o, "clear") = [op EXCEPT ![o] = r]
                           /\ r.kind = "clear" /\ r.seen = {file} /\ r.current
    BY StartedIs, ZenonT(60) DEF Kinds
  <2>2. PICK q : q = [r EXCEPT !.at = "clearing"]
    OBVIOUS
  <2>3. q \in Asked
    BY <2>2 DEF Asked, Stages
  <2>4. q.at = "clearing" /\ q.kind = "clear" /\ q.seen = {file} /\ q.current
    BY <2>1, <2>2 DEF Asked
  <2>5. op' = [op EXCEPT ![o] = q]
    BY <1>0, <1>4, <2>1, <2>2 DEF Store!Clear
  <2>6. op'[o] = q
    BY <1>0, <2>5
  <2>7. RequestFits(o)'
    BY <1>1, <2>4, <2>6 DEF RequestFits
  <2>8. ~Refreshed(o)'
    BY <2>4, <2>6 DEF Refreshed
  <2> QED BY <1>0, <1>1, <1>2, <2>3, <2>5, <2>7, <2>8, OneGoes
<1> QED BY <1>3, <1>4

\* A snapshot is loaded for a pin.
LEMMA StoreLoads ==
  ASSUME StoreInv, NEW o \in Op, Store!Pin(o)
  PROVE  StoreInv'
<1>0. /\ op \in [Op -> Asked] /\ loaded \subseteq Snap /\ dense \in Seq(Wanted)
      /\ RequestFits(o) /\ op[o] \in Asked /\ op[o].answer \in Snap
  BY RequestKnown DEF StoreInv, StoreTypes
<1>1. op[o].at = "published" /\ op[o].kind = "pin" /\ UNCHANGED <<file, impl, disk, head, lane, dense>>
  BY DEF Store!Pin
<1>2. CASE Store!EnsureLoaded(op[o].answer)
  <2>1. op' = [op EXCEPT ![o] = Store!Done(op[o])] /\ loaded' = loaded \cup {op[o].answer}
    BY <1>2 DEF Store!Pin
  <2>2. /\ Store!Done(op[o]) \in Asked /\ Store!Done(op[o]).kind = "pin" /\ Store!Done(op[o]).at = "done"
        /\ Store!Done(op[o]).current
    BY <1>0, <1>1, DoneIs DEF RequestFits
  <2>3. op'[o] = Store!Done(op[o])
    BY <1>0, <2>1
  <2>4. RequestFits(o)' /\ ~Refreshed(o)'
    BY <2>2, <2>3 DEF RequestFits, Refreshed, Store!Running
  <2>5. loaded \subseteq loaded' /\ loaded' \subseteq Snap
    BY <1>0, <2>1
  <2>6. "pin" \notin Vectored
    BY DEF Vectored
  <2> QED BY <1>1, <2>1, <2>2, <2>4, <2>5, <2>6, OneGoes
<1>3. CASE ~Store!EnsureLoaded(op[o].answer)
  <2>1. op[o].hurt
    BY <1>0, <1>1, <1>3 DEF RequestFits, Held, Store!EnsureLoaded, Store!Loads
  <2>2. PICK r : r = [op[o] EXCEPT !.at = "failed"]
    OBVIOUS
  <2>3. r \in Asked
    BY <1>0, <2>2 DEF Asked, Stages
  <2>4. r.at = "failed" /\ r.kind = "pin" /\ r.hurt /\ r.current
    BY <1>0, <1>1, <2>1, <2>2 DEF Asked, RequestFits
  <2>5. op' = [op EXCEPT ![o] = r] /\ loaded' = loaded
    BY <1>3, <2>2 DEF Store!Pin
  <2>6. op'[o] = r
    BY <1>0, <2>5
  <2>7. RequestFits(o)' /\ ~Refreshed(o)'
    BY <2>4, <2>6 DEF RequestFits, Refreshed, Store!Running
  <2>8. "pin" \notin Vectored
    BY DEF Vectored
  <2> QED BY <1>0, <1>1, <2>3, <2>4, <2>5, <2>7, <2>8, OneGoes
<1> QED BY <1>2, <1>3

\* Vectors are found, or asked for.
LEMMA StoreRetrieves ==
  ASSUME StoreInv, NEW o \in Op, Store!Retrieve(o)
  PROVE  StoreInv'
<1>0. /\ op \in [Op -> Asked] /\ loaded \subseteq Snap /\ dense \in Seq(Wanted)
      /\ RequestFits(o) /\ op[o] \in Asked /\ op[o].answer \in Snap /\ file \in op[o].seen
  BY RequestKnown DEF StoreInv, StoreTypes, RequestFits, Store!Retrieve, Store!Running
<1> DEFINE s == op[o].answer
<1>1. /\ op[o].at = "published" /\ op[o].kind = "retrieval" /\ UNCHANGED <<file, impl, disk, head, lane>>
      /\ loaded' = (IF Store!EnsureLoaded(s) THEN loaded \cup {s} ELSE loaded)
  BY DEF Store!Retrieve
<1>2. loaded \subseteq loaded' /\ loaded' \subseteq Snap
  BY <1>0, <1>1
<1>3. Grows
  BY <1>1, <1>2 DEF Grows
<1>4. ASSUME NEW e \in Edition, head = <<e>>, Provided(e)
      PROVE  Store!Readable(e.snap)' /\ Held(e.snap)' /\ Head(head) = e
  BY <1>3, <1>4, HeldStays DEF Provided
<1>5. CASE Store!EnsureLoaded(s) /\ ~Store!TryPin(s)
  <2>1. PICK d : d = Store!DenseFor(s, TRUE)
    OBVIOUS
  <2>2. d \in Wanted /\ d.snap = s /\ d.force
    BY <1>0, <2>1 DEF Wanted, Store!DenseFor
  <2>3. PICK r : r = [op[o] EXCEPT !.at = "retrieving"]
    OBVIOUS
  <2>4. r \in Asked
    BY <1>0, <2>3 DEF Asked, Stages
  <2>5. r.at = "retrieving" /\ r.kind = "retrieval" /\ r.current = op[o].current /\ r.answer = s /\ r.seen = op[o].seen
    BY <1>0, <1>1, <2>3 DEF Asked
  <2>6. dense' = Append(dense, d) /\ op' = [op EXCEPT ![o] = r]
    BY <1>5, <2>1, <2>3 DEF Store!Retrieve
  <2>7. op'[o] = r
    BY <1>0, <2>6
  <2>8. /\ dense' \in Seq(Wanted) /\ Len(dense) <= Len(dense') /\ \A i \in 1 .. Len(dense) : dense'[i] = dense[i]
        /\ Len(dense) + 1 \in 1 .. Len(dense') /\ dense'[Len(dense) + 1] = d
    BY <1>0, <2>2, <2>6
  <2>9. RequestFits(o)' /\ ~Refreshed(o)'
    BY <1>0, <1>1, <2>5, <2>7 DEF RequestFits, Refreshed, Store!Running
  <2>10. ASSUME NEW e \in Edition, head = <<e>>, Provided(e) PROVE Provided(e)'
    <3>1. CASE e.snap = s
      <4>1. Awaits(e)'
        BY <2>2, <2>8, <3>1 DEF Awaits
      <4> QED BY <1>4, <2>10, <4>1 DEF Provided
    <3>2. CASE e.snap # s
      <4>1. HasVectors(e) => HasVectors(e)'
        BY <1>1 DEF HasVectors
      <4>2. Awaits(e) => Awaits(e)'
        BY <1>0, <2>8 DEF Awaits
      <4>3. AboutToAsk(e) => AboutToAsk(e)'
        BY <1>0, <2>6, <3>2 DEF AboutToAsk
      <4> QED BY <1>4, <2>10, <4>1, <4>2, <4>3 DEF Provided
    <3> QED BY <3>1, <3>2
  <2> HIDE DEF s
  <2>11. r.kind \in Vectored => op[o].kind \in Vectored
    BY <1>1, <2>5
  <2>12. op[o].at # "building"
    BY <1>1
  <2> QED BY <1>1, <1>2, <2>4, <2>6, <2>8, <2>9, <2>10, <2>11, <2>12, OneMoves
<1>6. CASE ~(Store!EnsureLoaded(s) /\ ~Store!TryPin(s))
  <2>1. op' = [op EXCEPT ![o] = Store!Done(op[o])] /\ dense' = dense
    BY <1>6 DEF Store!Retrieve
  <2>2. /\ Store!Done(op[o]) \in Asked /\ Store!Done(op[o]).kind = "retrieval" /\ Store!Done(op[o]).at = "done"
        /\ Store!Done(op[o]).current
    BY <1>0, <1>1, DoneIs DEF RequestFits
  <2>3. op'[o] = Store!Done(op[o])
    BY <1>0, <2>1
  <2>4. RequestFits(o)' /\ ~Refreshed(o)'
    BY <2>2, <2>3 DEF RequestFits, Refreshed, Store!Running
  <2>5. ASSUME NEW e \in Edition, head = <<e>>, Provided(e) PROVE Provided(e)'
    <3>1. HasVectors(e) => HasVectors(e)'
      BY <1>1 DEF HasVectors
    <3>2. Awaits(e) => Awaits(e)'
      BY <2>1 DEF Awaits
    <3>3. CASE e.snap = s
      <4>1. Store!EnsureLoaded(s)
        BY <2>5, <3>3 DEF Provided, Held, Store!EnsureLoaded, Store!Loads
      <4>2. HasVectors(e)
        BY <1>4, <1>6, <2>5, <4>1 DEF Store!TryPin, Store!RetrievalReady, HasVectors
      <4> QED BY <1>4, <2>5, <3>1, <4>2 DEF Provided
    <3>4. CASE e.snap # s
      <4>1. AboutToAsk(e) => AboutToAsk(e)'
        BY <1>0, <2>1, <3>4 DEF AboutToAsk
      <4> QED BY <1>4, <2>5, <3>1, <3>2, <4>1 DEF Provided
    <3> QED BY <3>3, <3>4
  <2> HIDE DEF s
  <2>6. Store!Done(op[o]).kind \in Vectored => op[o].kind \in Vectored
    BY <1>1, <2>2
  <2>7. dense' \in Seq(Wanted) /\ Len(dense) <= Len(dense') /\ \A i \in 1 .. Len(dense) : dense'[i] = dense[i]
    BY <1>0, <2>1
  <2>8. op[o].at # "building"
    BY <1>1
  <2> QED BY <1>1, <1>2, <2>1, <2>2, <2>4, <2>5, <2>6, <2>7, <2>8, OneMoves
<1> QED BY <1>5, <1>6

\* A request goes on as what it is, or is taken up by a build.
GoesOn(p) ==
  /\ op'[p].kind = op[p].kind /\ op'[p].hurt = op[p].hurt /\ op'[p].answer = op[p].answer
  /\ op'[p].at = op[p].at \/ (op'[p].at = "building" /\ op[p].at = "queued")

\* What a refresh was promised stays when the store does not change, and those who ask go on asking.
LEMMA ProvidedStays ==
  ASSUME StoreInv, UNCHANGED <<disk, loaded, head, dense>>, \A p \in Op : GoesOn(p)
  PROVE  VectorsFit'
<1> SUFFICES ASSUME OnlyVectored', NEW p \in Op, Refreshed(p)' PROVE \E e \in Edition : head' = <<e>> /\ Provided(e)'
  BY DEF VectorsFit
<1>1. OnlyVectored /\ Refreshed(p)
  BY DEF OnlyVectored, Refreshed, GoesOn
<1>2. PICK e \in Edition : head = <<e>> /\ Provided(e)
  BY <1>1 DEF StoreInv, VectorsFit
<1>3. Grows
  BY DEF Grows
<1>4. Store!Readable(e.snap)' /\ Held(e.snap)'
  BY <1>2, <1>3, HeldStays DEF Provided
<1>5. (HasVectors(e) => HasVectors(e)') /\ (Awaits(e) => Awaits(e)')
  BY DEF HasVectors, Awaits
<1>6. AboutToAsk(e) => AboutToAsk(e)'
  BY DEF AboutToAsk, GoesOn
<1> QED BY <1>2, <1>4, <1>5, <1>6 DEF Provided

\* A build begins for all that wait.
LEMMA BuildingIs ==
  ASSUME NEW r \in Asked, NEW n, n = [r EXCEPT !.at = "building"]
  PROVE  /\ n \in Asked /\ n.at = "building" /\ n.kind = r.kind /\ n.hurt = r.hurt /\ n.answer = r.answer
         /\ n.seen = r.seen /\ n.current = r.current /\ n.prepare = r.prepare
<1>1. n \in Asked
  BY DEF Asked, Stages
<1>2. n.at = "building" /\ n.kind = r.kind /\ n.hurt = r.hurt /\ n.answer = r.answer
  BY DEF Asked
<1>3. n.seen = r.seen /\ n.current = r.current /\ n.prepare = r.prepare
  BY DEF Asked
<1> QED BY <1>1, <1>2, <1>3

LEMMA StoreBegins ==
  ASSUME StoreInv, NEW o \in Op, Store!Begin(o)
  PROVE  StoreInv'
<1>1. /\ StoreTypes /\ MadeFits /\ LaneFits /\ op \in [Op -> Asked] /\ \A p \in Op : op[p] \in Asked /\ RequestFits(p)
  BY DEF StoreInv, StoreTypes
<1> DEFINE W == Store!Waiting
<1>2. /\ o \in W /\ W \subseteq Op /\ \A p \in Op : p \in W <=> op[p].at = "queued"
      /\ UNCHANGED <<file, impl, disk, head, loaded, dense>>
      /\ op' = [p \in Op |-> IF p \in W THEN [op[p] EXCEPT !.at = "building"] ELSE op[p]]
  BY DEF Store!Begin, Store!Waiting
<1>3. PICK base : /\ lane' = [job |-> "build", for |-> W, base |-> base]
                  /\ base = << >> \/ (head # << >> /\ Store!Reusable(Head(head).snap) /\ base = <<Head(head).snap>>)
  BY DEF Store!Begin
<1> HIDE DEF W
<1>4. base \in {<< >>} \cup {<<s>> : s \in Snap} /\ \A s \in Snap : base = <<s>> => Own(s)
  <2>1. CASE base = << >>
    BY <2>1
  <2>2. CASE base # << >>
    <3>1. PICK e \in Edition : head = <<e>> /\ Head(head) = e /\ e.snap \in Snap
      BY <1>1, <1>3, <2>2, HeadIs
    <3>2. base = <<e.snap>> /\ [snap |-> e.snap, impl |-> impl] \in disk.manifests
      BY <1>3, <2>2, <3>1 DEF Store!Reusable
    <3>3. Own(e.snap)
      BY <1>1, <3>2 DEF MadeFits, Store!MadeByOne, Own
    <3>4. base \in {<<s>> : s \in Snap}
      BY <3>1, <3>2
    <3>5. \A s : base = <<s>> => s = e.snap
      BY <3>2
    <3> QED BY <3>3, <3>4, <3>5
  <2> QED BY <2>1, <2>2
<1>5. lane' \in Job /\ lane'.job = "build" /\ lane'.for = W /\ lane'.base = base
  BY <1>2, <1>3, <1>4 DEF Job
<1>6. ASSUME NEW p \in Op
      PROVE  /\ op'[p] \in Asked /\ op'[p].kind = op[p].kind /\ op'[p].hurt = op[p].hurt /\ op'[p].answer = op[p].answer
             /\ op'[p].seen = op[p].seen /\ op'[p].current = op[p].current /\ op'[p].prepare = op[p].prepare
             /\ op'[p].at = (IF p \in W THEN "building" ELSE op[p].at)
  <2>1. CASE p \in W
    BY <1>1, <1>2, <2>1, BuildingIs
  <2>2. CASE p \notin W
    BY <1>1, <1>2, <2>2
  <2> QED BY <2>1, <2>2
<1>7. op' \in [Op -> Asked]
  <2>1. op' = [p \in Op |-> op'[p]]
    BY <1>2
  <2> QED BY <1>6, <2>1
<1>8. StoreTypes'
  BY <1>1, <1>2, <1>5, <1>7 DEF StoreTypes
<1>9. MadeFits'
  BY <1>1, <1>2, <1>4, <1>5 DEF MadeFits, Store!MadeByOne, Own
<1>10. LaneFits'
  BY <1>2, <1>5, <1>6 DEF LaneFits
<1>11. ASSUME NEW p \in Op PROVE RequestFits(p)'
  <2>1. CASE p \in W
    <3>1. op[p].at = "queued" /\ op'[p].at = "building"
      BY <1>2, <1>6, <2>1
    <3>2. file' \in op'[p].seen /\ op'[p].current
      BY <1>1, <1>2, <1>6, <3>1 DEF RequestFits, Store!Running
    <3> QED BY <1>1, <1>6, <3>1, <3>2 DEF RequestFits
  <2>2. CASE p \notin W
    <3>1. Grows /\ op'[p] = op[p]
      BY <1>2, <2>2 DEF Grows
    <3> QED BY <1>1, <1>2, <3>1, RequestStays
  <2> QED BY <2>1, <2>2
<1>12. VectorsFit'
  <2>1. \A p \in Op : GoesOn(p)
    BY <1>2, <1>6 DEF GoesOn
  <2> QED BY <1>2, <2>1, ProvidedStays
<1> QED BY <1>8, <1>9, <1>10, <1>11, <1>12 DEF StoreInv

\* What is built was made by the program that runs, of the vault as it is.
LEMMA StoreBuilds ==
  ASSUME StoreInv, Store!Build
  PROVE  StoreInv'
<1>1. /\ StoreTypes /\ MadeFits /\ LaneFits /\ lane \in Job /\ \A p \in Op : RequestFits(p)
      /\ file \in Versions /\ impl \in Nat
  BY DEF StoreInv, StoreTypes
<1>2. lane.job = "build" /\ UNCHANGED <<file, impl, disk, head, loaded, op, dense>>
  BY DEF Store!Build
<1>3. PICK kept, whole : /\ kept = (IF lane.base = << >> THEN {} ELSE Store!Kept(Head(lane.base)))
                         /\ lane' = [job |-> "publish", for |-> lane.for,
                                     snap |-> [corpus |-> file,
                                               by |-> [p \in Part |-> IF p \in kept /\ whole
                                                                      THEN Head(lane.base).by[p] ELSE impl]]]
  BY DEF Store!Build
<1>4. \A p \in kept : p \in Part => Head(lane.base).by[p] = impl
  <2>1. CASE lane.base = << >>
    BY <1>3, <2>1
  <2>2. CASE lane.base # << >>
    <3>1. PICK s \in Snap : lane.base = <<s>>
      BY <1>1, <1>2, <2>2, JobIs
    <3> QED BY <1>1, <1>2, <3>1 DEF MadeFits, Own
  <2> QED BY <2>1, <2>2
<1>14. PICK s : s = [corpus |-> file, by |-> [p \in Part |-> impl]]
  OBVIOUS
<1>5. lane' = [job |-> "publish", for |-> lane.for, snap |-> s]
  <2>1. [p \in Part |-> IF p \in kept /\ whole THEN Head(lane.base).by[p] ELSE impl] = [p \in Part |-> impl]
    BY <1>4
  <2> QED BY <1>3, <1>14, <2>1
<1>6. s \in Snap /\ Own(s)' /\ s.corpus = file
  BY <1>1, <1>2, <1>14 DEF Snap, Versions, Own
<1>7. lane.for \subseteq Op /\ lane.for # {} /\ \A o \in lane.for : op[o].at = "building"
  BY <1>1, <1>2, JobIs DEF LaneFits
<1>8. lane' \in Job /\ lane'.job = "publish" /\ lane'.for = lane.for /\ lane'.snap = s
  BY <1>5, <1>6, <1>7 DEF Job
<1>9. StoreTypes'
  BY <1>1, <1>2, <1>8 DEF StoreTypes
<1>10. MadeFits'
  BY <1>1, <1>2, <1>6, <1>8 DEF MadeFits, Store!MadeByOne, Own
<1>11. LaneFits'
  <2>1. \A o \in lane.for : file \in op[o].seen
    BY <1>1, <1>7 DEF RequestFits, Store!Running
  <2> QED BY <1>2, <1>6, <1>7, <1>8, <2>1 DEF LaneFits
<1>12. ASSUME NEW p \in Op PROVE RequestFits(p)'
  <2>1. Grows /\ op'[p] = op[p]
    BY <1>2 DEF Grows
  <2> QED BY <1>1, <1>2, <2>1, RequestStays
<1>13. VectorsFit'
  <2>1. \A p \in Op : GoesOn(p)
    BY <1>2 DEF GoesOn
  <2> QED BY <1>2, <2>1, ProvidedStays
<1> QED BY <1>9, <1>10, <1>11, <1>12, <1>13 DEF StoreInv

\* What is published is whole on disk, whatever was damaged, and nothing else is lost.
LEMMA StoredIs ==
  ASSUME disk \in OnDrive, impl \in Nat, NEW s \in Snap, disk' = Store!Stored(s), loaded' = loaded
  PROVE  /\ disk' \in OnDrive /\ Store!Whole(disk', s) /\ Grows /\ disk'.retrievals = disk.retrievals
         /\ disk'.manifests = {m \in disk.manifests : m.snap /= s} \cup {[snap |-> s, impl |-> impl]}
<1>1. Store!Segments(s) \subseteq Segment
  BY SegmentsAre
<1> DEFINE gs == Store!Segments(s)
           ms == {m \in disk.manifests : m.snap /= s} \cup {[snap |-> s, impl |-> impl]}
<1>2. disk' = [disk EXCEPT !.segments = disk.segments \cup gs, !.damaged = disk.damaged \ gs,
                           !.graphs = disk.graphs \cup {s}, !.manifests = ms]
  BY DEF Store!Stored
<1>3. [snap |-> s, impl |-> impl] \in Manifest
  BY DEF Manifest
<1>4. /\ disk.segments \subseteq Segment /\ disk.damaged \subseteq Segment /\ disk.graphs \subseteq Snap
      /\ disk.manifests \subseteq Manifest
  BY DEF OnDrive
<1>5. ms \subseteq Manifest
  BY <1>3, <1>4
<1>6. [snap |-> s, impl |-> impl] \in ms /\ [snap |-> s, impl |-> impl].snap = s
  OBVIOUS
<1>7. \A m \in disk.manifests : \E n \in ms : n.snap = m.snap
  <2> SUFFICES ASSUME NEW m \in disk.manifests PROVE \E n \in ms : n.snap = m.snap
    OBVIOUS
  <2>1. CASE m.snap = s
    BY <1>6, <2>1
  <2>2. CASE m.snap /= s
    BY <2>2
  <2> QED BY <2>1, <2>2
<1> HIDE DEF gs, ms
<1>8. disk' \in OnDrive
  BY <1>1, <1>2, <1>4, <1>5, ZenonT(60) DEF OnDrive, gs
<1>9. disk'.segments = disk.segments \cup gs /\ disk'.damaged = disk.damaged \ gs
  BY <1>2 DEF OnDrive
<1>10. disk'.graphs = disk.graphs \cup {s} /\ disk'.manifests = ms /\ disk'.retrievals = disk.retrievals
  BY <1>2 DEF OnDrive
<1>11. Grows
  <2>1. disk.segments \cup disk.damaged \subseteq disk'.segments \cup disk'.damaged
    BY <1>9
  <2> QED BY <1>7, <1>9, <1>10, <2>1 DEF Grows
<1>12. \E m \in disk'.manifests : m.snap = s
  BY <1>6, <1>10
<1>13. Store!Whole(disk', s)
  BY <1>9, <1>10, <1>12 DEF Store!Whole, gs
<1> QED BY <1>8, <1>10, <1>11, <1>13 DEF ms

\* An edition is published: all that it was built for have it, and its vectors are asked for.
LEMMA StorePublishes ==
  ASSUME StoreInv, Store!Publish
  PROVE  StoreInv'
<1>1. /\ StoreTypes /\ MadeFits /\ LaneFits /\ lane \in Job /\ \A p \in Op : op[p] \in Asked /\ RequestFits(p)
      /\ file \in Versions /\ impl \in Nat /\ disk \in OnDrive /\ loaded \subseteq Snap /\ dense \in Seq(Wanted)
      /\ op \in [Op -> Asked]
  BY DEF StoreInv, StoreTypes
<1>0. PICK s : s = lane.snap
  OBVIOUS
<1> DEFINE e == [snap |-> s, dense |-> "unavailable"]
           d == Store!DenseFor(s, FALSE)
<1>2. /\ lane.job = "publish" /\ disk' = Store!Stored(s) /\ head' = <<e>> /\ lane' = Store!NoJob
      /\ op' = [o \in Op |-> IF o \in lane.for THEN Store!Given(op[o], s) ELSE op[o]]
      /\ dense' = (IF \E o \in lane.for : op[o].prepare THEN Append(dense, d) ELSE dense)
      /\ UNCHANGED <<file, impl, loaded>>
  BY <1>0 DEF Store!Publish
<1>3. /\ s \in Snap /\ lane.for \subseteq Op /\ lane.for # {} /\ Own(s)
      /\ \A o \in lane.for : op[o].at = "building" /\ s.corpus \in op[o].seen
  BY <1>0, <1>1, <1>2, JobIs DEF LaneFits, MadeFits
<1>4. e \in Edition /\ e.snap = s /\ e.dense = "unavailable"
  BY <1>3 DEF Edition
<1>5. d \in Wanted /\ d.snap = s
  BY <1>3 DEF Wanted, Store!DenseFor
<1> HIDE DEF e, d
<1>6. /\ disk' \in OnDrive /\ Store!Whole(disk', s) /\ Grows
      /\ disk'.manifests = {m \in disk.manifests : m.snap /= s} \cup {[snap |-> s, impl |-> impl]}
  BY <1>1, <1>2, <1>3, StoredIs
<1>7. Held(s)' /\ Store!Readable(s)'
  <2>1. Held(s)'
    BY <1>6 DEF Held, Store!Whole, Store!Segments
  <2>2. Store!Readable(s)'
    BY <1>6 DEF Store!Whole, Store!Segments, Store!Readable, Store!HasGraph
  <2> QED BY <2>1, <2>2
<1>8. ASSUME NEW o \in lane.for
      PROVE  /\ o \in Op /\ op'[o] \in Asked /\ op'[o].kind = op[o].kind /\ RequestFits(o)'
             /\ op[o].kind = "retrieval" => op'[o].at = "published" /\ op'[o].answer = s
  <2>1. o \in Op /\ op'[o] = Store!Given(op[o], s) /\ op[o] \in Asked /\ s.corpus \in op[o].seen
    BY <1>1, <1>2, <1>3
  <2>2. op[o].current /\ file' \in op[o].seen
    BY <1>1, <1>2, <1>3, <2>1 DEF RequestFits, Store!Running
  <2>3. RequestFits(o)'
    BY <1>3, <1>7, <2>1, <2>2, GivenFits
  <2>4. /\ op'[o] \in Asked /\ op'[o].kind = op[o].kind
        /\ op[o].kind = "retrieval" => op'[o].at = "published" /\ op'[o].answer = s
    BY <1>3, <2>1, <2>2, GivenIs
  <2> QED BY <2>1, <2>3, <2>4
<1>9. ASSUME NEW o \in Op \ lane.for PROVE op'[o] = op[o] /\ RequestFits(o)'
  <2>1. op'[o] = op[o]
    BY <1>2
  <2> QED BY <1>1, <1>2, <1>6, <2>1, RequestStays
<1>10. op' \in [Op -> Asked]
  <2>1. \A o \in Op : op'[o] \in Asked
    BY <1>1, <1>8, <1>9
  <2>2. op' = [o \in Op |-> op'[o]]
    BY <1>2
  <2> QED BY <2>1, <2>2
<1>11. dense' \in Seq(Wanted)
  BY <1>1, <1>2, <1>5
<1>12. lane' \in Job /\ lane'.job = "none"
  BY <1>2 DEF Job, Store!NoJob
<1>13. StoreTypes'
  BY <1>1, <1>2, <1>4, <1>6, <1>10, <1>11, <1>12 DEF StoreTypes
<1>14. MadeFits'
  <2>1. ASSUME NEW m \in disk'.manifests, NEW p \in Part PROVE m.snap.by[p] = m.impl
    <3>1. CASE m \in disk.manifests
      BY <1>1, <3>1 DEF MadeFits, Store!MadeByOne
    <3>2. CASE m = [snap |-> s, impl |-> impl]
      BY <1>3, <3>2 DEF Own
    <3> QED BY <1>6, <2>1, <3>1, <3>2
  <2> QED BY <1>12, <2>1 DEF MadeFits, Store!MadeByOne
<1>15. LaneFits'
  BY <1>12 DEF LaneFits
<1>16. VectorsFit'
  <2> SUFFICES ASSUME OnlyVectored' PROVE Provided(e)'
    BY <1>2, <1>4 DEF VectorsFit
  <2>1. CASE \E o \in lane.for : op[o].prepare
    <3>1. dense' = Append(dense, d)
      BY <1>2, <2>1
    <3>2. Len(dense) + 1 \in 1 .. Len(dense') /\ dense'[Len(dense) + 1] = d
      BY <1>1, <1>5, <3>1
    <3>3. Awaits(e)'
      BY <1>4, <1>5, <3>2 DEF Awaits
    <3> QED BY <1>4, <1>7, <3>3 DEF Provided
  <2>2. CASE ~\E o \in lane.for : op[o].prepare
    <3>1. PICK o \in lane.for : ~op[o].prepare /\ o \in Op /\ op[o].at = "building"
      BY <1>3, <2>2
    <3>2. op[o].kind \in {"pin", "compact", "retrieval"}
      BY <1>1, <3>1 DEF RequestFits
    <3>3. op[o].kind \in Vectored
      BY <1>8, <3>1 DEF OnlyVectored
    <3>4. op[o].kind = "retrieval"
      BY <3>2, <3>3 DEF Vectored
    <3>5. op'[o].kind = "retrieval" /\ op'[o].at = "published" /\ op'[o].answer = e.snap
      BY <1>4, <1>8, <3>1, <3>4
    <3>6. AboutToAsk(e)'
      BY <3>1, <3>5 DEF AboutToAsk
    <3> QED BY <1>4, <1>7, <3>6 DEF Provided
  <2> QED BY <2>1, <2>2
<1>17. \A o \in Op : RequestFits(o)'
  BY <1>8, <1>9
<1> QED BY <1>13, <1>14, <1>15, <1>16, <1>17 DEF StoreInv

\* The editions are forgotten: nobody has them and a refresh is no more promised anything.
LEMMA StoreClears ==
  ASSUME StoreInv, NEW o \in Op, Store!Cleared(o)
  PROVE  StoreInv'
<1>1. /\ StoreTypes /\ MadeFits /\ LaneFits /\ op \in [Op -> Asked] /\ \A p \in Op : RequestFits(p)
  BY DEF StoreInv, StoreTypes
<1>2. PICK r : r = [Store!NoOp EXCEPT !.kind = "clear", !.at = "done"]
  OBVIOUS
<1>3. r \in Asked
  BY <1>2, FreshAsked DEF Asked, Kinds, Stages
<1>4. r.kind = "clear" /\ r.at = "done" /\ r.current
  BY <1>2, FreshAsked DEF Asked
<1>5. /\ lane = Store!NoJob /\ head' = << >> /\ op' = [op EXCEPT ![o] = r]
      /\ UNCHANGED <<file, impl, disk, loaded, lane, dense>>
  BY <1>2 DEF Store!Cleared
<1>6. op' \in [Op -> Asked] /\ op'[o] = r /\ \A p \in Op \ {o} : op'[p] = op[p]
  BY <1>1, <1>3, <1>5
<1>7. StoreTypes'
  BY <1>1, <1>5, <1>6 DEF StoreTypes
<1>8. lane'.job = "none"
  BY <1>5 DEF Store!NoJob
<1>9. MadeFits' /\ LaneFits'
  BY <1>1, <1>5, <1>8 DEF MadeFits, LaneFits, Store!MadeByOne
<1>10. ASSUME NEW p \in Op PROVE RequestFits(p)'
  <2>1. CASE p = o
    BY <1>4, <1>6, <2>1 DEF RequestFits, Store!Running
  <2>2. CASE p # o
    <3>1. Grows /\ op'[p] = op[p]
      BY <1>5, <1>6, <2>2 DEF Grows
    <3> QED BY <1>1, <1>5, <3>1, RequestStays
  <2> QED BY <2>1, <2>2
<1>11. VectorsFit'
  <2>1. "clear" \notin Vectored
    BY DEF Vectored
  <2> QED BY <1>4, <1>6, <2>1 DEF VectorsFit, OnlyVectored
<1> QED BY <1>7, <1>9, <1>10, <1>11 DEF StoreInv

\* Those who waited for vectors go on when no more are to be made.
LEMMA NoMoreIs ==
  ASSUME StoreInv, NEW queue, op' = Store!NoMoreDense(op, queue)
  PROVE  /\ op' \in [Op -> Asked]
         /\ \A o \in Op : op'[o] = op[o] \/ (op[o].at = "retrieving" /\ op'[o] = Store!Done(op[o]))
         /\ \A o \in Op : /\ op'[o].kind = op[o].kind
                          /\ op[o].at \in {"published", "building", "done"} => op'[o] = op[o]
                          /\ Refreshed(o)' => Refreshed(o)
<1>1. op \in [Op -> Asked] /\ \A o \in Op : op[o] \in Asked /\ RequestFits(o)
  BY DEF StoreInv, StoreTypes
<1>2. \A o \in Op : op'[o] = op[o] \/ (op[o].at = "retrieving" /\ op'[o] = Store!Done(op[o]))
  <2>1. op' = op \/ op' = [o \in Op |-> IF op[o].at = "retrieving" THEN Store!Done(op[o]) ELSE op[o]]
    BY DEF Store!NoMoreDense
  <2> QED BY <2>1
<1>3. ASSUME NEW o \in Op
      PROVE  /\ op'[o] \in Asked /\ op'[o].kind = op[o].kind
             /\ op[o].at \in {"published", "building", "done"} => op'[o] = op[o]
             /\ Refreshed(o)' => Refreshed(o)
  <2>1. CASE op'[o] = op[o]
    BY <1>1, <2>1 DEF Refreshed
  <2>2. CASE op[o].at = "retrieving" /\ op'[o] = Store!Done(op[o])
    <3>1. op'[o] \in Asked /\ op'[o].kind = op[o].kind
      BY <1>1, <2>2, DoneIs
    <3>2. op[o].kind = "retrieval"
      BY <1>1, <2>2 DEF RequestFits
    <3> QED BY <2>2, <3>1, <3>2 DEF Refreshed
  <2> QED BY <1>2, <2>1, <2>2
<1>4. op' \in [Op -> Asked]
  <2>1. op' = [o \in Op |-> op'[o]]
    BY <1>1 DEF Store!NoMoreDense
  <2> QED BY <1>3, <2>1
<1> QED BY <1>2, <1>3, <1>4

LEMMA NoMoreFits ==
  ASSUME StoreInv, NEW queue, op' = Store!NoMoreDense(op, queue), file' = file, Grows, NEW o \in Op
  PROVE  RequestFits(o)'
<1>1. op[o] \in Asked /\ RequestFits(o)
  BY RequestKnown
<1>2. CASE op'[o] = op[o]
  BY <1>1, <1>2, RequestStays
<1>3. CASE op[o].at = "retrieving" /\ op'[o] = Store!Done(op[o])
  <2>1. op'[o].at = "done" /\ op'[o].current
    BY <1>1, <1>3, DoneIs DEF RequestFits
  <2> QED BY <2>1 DEF RequestFits, Store!Running
<1> QED BY <1>2, <1>3, NoMoreIs

\* What is taken from the queue was not what a refresh waits for, or is being made.
LEMMA ShorterAwaits ==
  ASSUME dense \in Seq(Wanted), dense # << >>, dense' = Tail(dense), NEW e, Awaits(e),
         ~(dense[1].snap = e.snap /\ (dense[1].force \/ e.dense # "fresh"))
  PROVE  Awaits(e)'
<1>1. PICK i \in 1 .. Len(dense) : dense[i].snap = e.snap /\ (dense[i].force \/ e.dense # "fresh")
  BY DEF Awaits
<1>2. i # 1
  BY <1>1
<1>3. i - 1 \in 1 .. Len(dense') /\ dense'[i - 1] = dense[i]
  BY <1>1, <1>2
<1> QED BY <1>1, <1>3 DEF Awaits

LEMMA StoreTakes ==
  ASSUME StoreInv, Store!TakeDense
  PROVE  StoreInv'
<1>1. /\ StoreTypes /\ MadeFits /\ LaneFits /\ VectorsFit /\ dense \in Seq(Wanted) /\ \A p \in Op : RequestFits(p)
  BY DEF StoreInv, StoreTypes
<1> DEFINE d == Head(dense)
           dropped == \/ head = << >> \/ Head(head).snap /= d.snap
                      \/ (Head(head).dense = "fresh" /\ ~d.force) \/ ~Store!Readable(d.snap)
<1>2. lane = Store!NoJob /\ dense /= << >> /\ UNCHANGED <<file, impl, disk, head, loaded>>
  BY DEF Store!TakeDense
<1>3. Grows
  BY <1>2 DEF Grows
<1>4. CASE dropped
  <2>1. dense' = Tail(dense) /\ op' = Store!NoMoreDense(op, Tail(dense)) /\ lane' = lane
    BY <1>4 DEF Store!TakeDense
  <2>2. dense' \in Seq(Wanted) /\ d = dense[1]
    BY <1>1, <1>2, <2>1
  <2>3. /\ op' \in [Op -> Asked] /\ \A o \in Op : RequestFits(o)'
        /\ \A o \in Op : /\ op'[o].kind = op[o].kind /\ (Refreshed(o)' => Refreshed(o))
                         /\ op[o].at = "published" => op'[o] = op[o]
    BY <1>2, <1>3, <2>1, NoMoreIs, NoMoreFits
  <2>4. lane'.job = "none"
    BY <1>2, <2>1 DEF Store!NoJob
  <2>5. StoreTypes' /\ MadeFits' /\ LaneFits'
    BY <1>1, <1>2, <2>1, <2>2, <2>3, <2>4 DEF StoreTypes, MadeFits, LaneFits, Store!MadeByOne
  <2>6. VectorsFit'
    <3> SUFFICES ASSUME OnlyVectored', NEW p \in Op, Refreshed(p)' PROVE \E e \in Edition : head' = <<e>> /\ Provided(e)'
      BY DEF VectorsFit
    <3>1. OnlyVectored /\ Refreshed(p)
      BY <2>3 DEF OnlyVectored
    <3>2. PICK e \in Edition : head = <<e>> /\ Provided(e)
      BY <1>1, <3>1 DEF VectorsFit
    <3>3. Store!Readable(e.snap)' /\ Held(e.snap)' /\ (HasVectors(e) => HasVectors(e)')
      BY <1>2, <1>3, <3>2, HeldStays DEF Provided, HasVectors
    <3>4. AboutToAsk(e) => AboutToAsk(e)'
      BY <2>3 DEF AboutToAsk
    <3>5. Awaits(e) => Awaits(e)'
      <4>1. ~(dense[1].snap = e.snap /\ (dense[1].force \/ e.dense # "fresh"))
        BY <1>4, <2>2, <3>2 DEF Provided
      <4> QED BY <1>1, <1>2, <2>1, <4>1, ShorterAwaits
    <3> QED BY <1>2, <3>2, <3>3, <3>4, <3>5 DEF Provided
  <2> QED BY <2>3, <2>5, <2>6 DEF StoreInv
<1>5. CASE ~dropped
  <2>1. lane' = [job |-> "dense"] /\ UNCHANGED <<dense, op>> /\ head # << >>
    BY <1>5 DEF Store!TakeDense
  <2>2. lane' \in Job /\ lane'.job = "dense"
    BY <2>1 DEF Job
  <2>3. StoreTypes' /\ MadeFits' /\ LaneFits'
    BY <1>1, <1>2, <2>1, <2>2 DEF StoreTypes, MadeFits, LaneFits, Store!MadeByOne
  <2>4. \A o \in Op : RequestFits(o)'
    BY <1>1, <1>2, <1>3, <2>1, RequestStays
  <2>5. VectorsFit'
    <3>1. \A p \in Op : GoesOn(p)
      BY <2>1 DEF GoesOn
    <3> QED BY <1>2, <2>1, <3>1, ProvidedStays
  <2> QED BY <2>3, <2>4, <2>5 DEF StoreInv
<1> QED BY <1>4, <1>5

\* The vectors were made, or failed.
LEMMA StoreEndsDense ==
  ASSUME StoreInv, NEW ok \in BOOLEAN, Store!EndDense(ok)
  PROVE  StoreInv'
<1>1. /\ StoreTypes /\ MadeFits /\ LaneFits /\ VectorsFit /\ dense \in Seq(Wanted) /\ \A p \in Op : RequestFits(p)
      /\ disk \in OnDrive
  BY DEF StoreInv, StoreTypes
<1>2. /\ lane.job = "dense" /\ dense' = Tail(dense) /\ op' = Store!NoMoreDense(op, Tail(dense)) /\ lane' = Store!NoJob
      /\ UNCHANGED <<file, impl, loaded>>
  BY DEF Store!EndDense
<1>3. head # << >> /\ dense # << >>
  BY <1>1, <1>2 DEF LaneFits
<1>4. PICK e \in Edition : head = <<e>> /\ Head(head) = e /\ e.snap \in Snap
  BY <1>1, <1>3, HeadIs
<1> DEFINE word == IF ok THEN "fresh" ELSE "failed"
<1>5. PICK f : f = [e EXCEPT !.dense = word]
  OBVIOUS
<1>6. head' = <<f>>
  <2>1. head' = [head EXCEPT ![1].dense = word]
    BY DEF Store!EndDense
  <2>2. head' = [head EXCEPT ![1] = [head[1] EXCEPT !.dense = word]]
    BY <2>1
  <2> QED BY <1>4, <1>5, <2>2
<1>7. f \in Edition /\ f.snap = e.snap /\ f.dense = word
  BY <1>4, <1>5 DEF Edition
<1>8. /\ disk' \in OnDrive /\ Grows /\ disk'.manifests = disk.manifests
      /\ ok => f.snap \in disk'.retrievals
  <2>1. CASE ok
    <3>1. disk' = [disk EXCEPT !.retrievals = disk.retrievals \cup {e.snap}]
      BY <1>4, <2>1 DEF Store!EndDense
    <3>2. disk' \in OnDrive
      BY <1>1, <1>4, <3>1 DEF OnDrive
    <3>3. disk'.segments = disk.segments /\ disk'.damaged = disk.damaged /\ disk'.graphs = disk.graphs
      BY <1>1, <3>1 DEF OnDrive
    <3>4. disk'.manifests = disk.manifests /\ disk'.retrievals = disk.retrievals \cup {e.snap}
      BY <1>1, <3>1 DEF OnDrive
    <3> QED BY <1>2, <1>7, <3>2, <3>3, <3>4 DEF Grows
  <2>2. CASE ~ok
    BY <1>1, <1>2, <2>2 DEF Store!EndDense, Grows
  <2> QED BY <2>1, <2>2
<1>9. dense' \in Seq(Wanted) /\ lane' \in Job /\ lane'.job = "none"
  BY <1>1, <1>2, <1>3 DEF Job, Store!NoJob
<1>10. /\ op' \in [Op -> Asked] /\ \A o \in Op : RequestFits(o)'
       /\ \A o \in Op : op'[o].kind = op[o].kind /\ (Refreshed(o)' => Refreshed(o))
  BY <1>2, <1>8, NoMoreIs, NoMoreFits
<1>11. StoreTypes' /\ MadeFits' /\ LaneFits'
  BY <1>1, <1>2, <1>6, <1>7, <1>8, <1>9, <1>10 DEF StoreTypes, MadeFits, LaneFits, Store!MadeByOne
<1>12. VectorsFit'
  <2> SUFFICES ASSUME OnlyVectored', NEW p \in Op, Refreshed(p)' PROVE Provided(f)'
    BY <1>6, <1>7 DEF VectorsFit
  <2>1. OnlyVectored /\ Refreshed(p)
    BY <1>10 DEF OnlyVectored
  <2>2. PICK g \in Edition : head = <<g>> /\ Provided(g)
    BY <1>1, <2>1 DEF VectorsFit
  <2>3. Provided(e)
    BY <1>4, <2>2
  <2>4. Store!Readable(e.snap)' /\ Held(e.snap)'
    BY <1>8, <2>3, HeldStays DEF Provided
  <2>5. HasVectors(f)'
    BY <1>7, <1>8 DEF HasVectors
  <2>6. Store!Readable(f.snap)' /\ Held(f.snap)'
    BY <1>7, <2>4 DEF Store!Readable, Store!HasGraph, Store!Segments, Held, Store!Whole
  <2> QED BY <2>5, <2>6 DEF Provided
<1> QED BY <1>10, <1>11, <1>12 DEF StoreInv

\* A note is edited: those who run see it.
LEMMA StoreSeesEdits ==
  ASSUME StoreInv, NEW p \in Part, Store!Edit(p)
  PROVE  StoreInv'
<1>1. /\ StoreTypes /\ MadeFits /\ LaneFits /\ file \in Versions /\ op \in [Op -> Asked] /\ lane \in Job
      /\ \A o \in Op : op[o] \in Asked /\ RequestFits(o)
  BY DEF StoreInv, StoreTypes
<1>2. /\ file' = [file EXCEPT ![p] = @ + 1] /\ UNCHANGED <<impl, disk, head, loaded, lane, dense>>
      /\ op' = [o \in Op |-> IF Store!Running(o) THEN [op[o] EXCEPT !.seen = @ \union {file'}] ELSE op[o]]
  BY DEF Store!Edit
<1>3. file' \in Versions
  BY <1>1, <1>2 DEF Versions
<1>4. ASSUME NEW o \in Op
      PROVE  /\ op'[o] \in Asked /\ op'[o].kind = op[o].kind /\ op'[o].at = op[o].at /\ op'[o].hurt = op[o].hurt
             /\ op'[o].answer = op[o].answer /\ op'[o].current = op[o].current /\ op'[o].prepare = op[o].prepare
             /\ op[o].seen \subseteq op'[o].seen /\ (Store!Running(o) => file' \in op'[o].seen)
  <2>1. CASE Store!Running(o)
    <3>1. op'[o] = [op[o] EXCEPT !.seen = op[o].seen \union {file'}]
      BY <1>2, <2>1
    <3>2. op'[o] \in Asked
      BY <1>1, <1>3, <3>1 DEF Asked
    <3>3. op'[o].kind = op[o].kind /\ op'[o].at = op[o].at /\ op'[o].hurt = op[o].hurt /\ op'[o].answer = op[o].answer
      BY <1>1, <3>1 DEF Asked
    <3>4. op'[o].current = op[o].current /\ op'[o].prepare = op[o].prepare /\ op'[o].seen = op[o].seen \union {file'}
      BY <1>1, <3>1 DEF Asked
    <3> QED BY <3>2, <3>3, <3>4
  <2>2. CASE ~Store!Running(o)
    BY <1>1, <1>2, <2>2
  <2> QED BY <2>1, <2>2
<1>5. op' \in [Op -> Asked]
  <2>1. op' = [o \in Op |-> op'[o]]
    BY <1>2
  <2> QED BY <1>4, <2>1
<1>6. StoreTypes' /\ MadeFits'
  BY <1>1, <1>2, <1>3, <1>5 DEF StoreTypes, MadeFits, Store!MadeByOne, Own
<1>7. LaneFits'
  <2>1. lane.job \in {"build", "publish"} => lane.for \subseteq Op
    BY <1>1, JobIs
  <2> QED BY <1>1, <1>2, <1>4, <2>1 DEF LaneFits
<1>8. ASSUME NEW o \in Op PROVE RequestFits(o)'
  <2>1. Held(op[o].answer) => Held(op[o].answer)'
    BY <1>2 DEF Held, Store!Whole, Store!Segments
  <2>2. (op[o].at = "published" /\ ~op[o].hurt => Held(op[o].answer))'
    BY <1>1, <1>2, <1>4, <2>1 DEF RequestFits, Held, Store!Whole, Store!Segments
  <2>3. (Store!Running(o) /\ op[o].at # "lost" => file \in op[o].seen)'
    BY <1>4 DEF Store!Running
  <2>4. /\ op[o].current /\ (op[o].at \in {"published", "retrieving"} => op[o].answer.corpus \in op[o].seen)
        /\ (op[o].at = "failed" => op[o].hurt) /\ (op[o].at = "off" => op[o].kind = "none")
        /\ (op[o].at = "retrieving" => op[o].kind = "retrieval")
        /\ (op[o].at \in {"queued", "building"} =>
              /\ op[o].kind \in {"pin", "compact", "refresh", "warm", "rebuild", "retrieval"}
              /\ op[o].kind \in {"refresh", "warm", "rebuild"} => op[o].prepare)
    BY <1>1 DEF RequestFits
  <2> QED BY <1>4, <2>2, <2>3, <2>4 DEF RequestFits
<1>9. VectorsFit'
  <2>1. \A o \in Op : GoesOn(o)
    BY <1>4 DEF GoesOn
  <2> QED BY <1>2, <2>1, ProvidedStays
<1> QED BY <1>6, <1>7, <1>8, <1>9 DEF StoreInv

\* A file of the head is damaged or lost: all that run, and all refreshes, have been hurt.
LEMMA WorseIs ==
  ASSUME disk \in OnDrive, NEW e \in Edition, head = <<e>>, NEW d \in Store!Worse
  PROVE  d \in OnDrive /\ d.manifests \subseteq disk.manifests
<1> DEFINE s == e.snap
<1>0. Head(head).snap = s /\ s \in Snap
  BY DEF Edition
<1>1. \/ \E g \in disk.segments : d = [disk EXCEPT !.segments = @ \ {g}, !.damaged = @ \union {g}]
      \/ \E g \in disk.segments : d = [disk EXCEPT !.segments = @ \ {g}]
      \/ d = [disk EXCEPT !.manifests = {m \in @ : m.snap /= s}]
      \/ d = [disk EXCEPT !.graphs = @ \ {s}] \/ d = [disk EXCEPT !.retrievals = @ \ {s}]
  <2> DEFINE hit(g) == {[disk EXCEPT !.segments = @ \ {g}, !.damaged = @ \union {g}], [disk EXCEPT !.segments = @ \ {g}]}
             gone   == {[disk EXCEPT !.manifests = {m \in @ : m.snap /= s}], [disk EXCEPT !.graphs = @ \ {s}],
                        [disk EXCEPT !.retrievals = @ \ {s}]}
  <2>1. d \in (UNION {hit(g) : g \in Store!Segments(s) \intersect disk.segments}) \union gone
    BY <1>0, ZenonT(60) DEF Store!Worse
  <2>2. (\E g \in disk.segments : d \in hit(g)) \/ d \in gone
    <3>1. CASE d \in gone
      BY <3>1
    <3>2. CASE d \notin gone
      <4> DEFINE hits == {hit(g) : g \in Store!Segments(s) \intersect disk.segments}
      <4>1. d \in UNION hits
        <5>1. d \in (UNION hits) \union gone
          BY <2>1
        <5> HIDE DEF hits, gone
        <5> QED BY <3>2, <5>1
      <4> HIDE DEF hit
      <4>2. PICK h \in {hit(g) : g \in Store!Segments(s) \intersect disk.segments} : d \in h
        BY <4>1
      <4>3. PICK g \in Store!Segments(s) \intersect disk.segments : h = hit(g)
        BY <4>2
      <4> QED BY <4>2, <4>3
    <3> QED BY <3>1, <3>2
  <2> QED BY <2>2
<1> HIDE DEF s
<1>2. ASSUME NEW g \in disk.segments, d = [disk EXCEPT !.segments = disk.segments \ {g}, !.damaged = disk.damaged \union {g}]
      PROVE  d \in OnDrive /\ d.manifests = disk.manifests
  <2>1. g \in Segment
    BY DEF OnDrive
  <2> QED BY <1>2, <2>1 DEF OnDrive
<1>3. ASSUME NEW g \in disk.segments, d = [disk EXCEPT !.segments = disk.segments \ {g}]
      PROVE  d \in OnDrive /\ d.manifests = disk.manifests
  BY <1>3 DEF OnDrive
<1>4. ASSUME d = [disk EXCEPT !.manifests = {m \in disk.manifests : m.snap /= s}]
      PROVE  d \in OnDrive /\ d.manifests = {m \in disk.manifests : m.snap /= s}
  <2>1. {m \in disk.manifests : m.snap /= s} \in SUBSET Manifest
    BY DEF OnDrive
  <2> QED BY <1>4, <2>1 DEF OnDrive
<1>5. ASSUME d = [disk EXCEPT !.graphs = disk.graphs \ {s}]
      PROVE  d \in OnDrive /\ d.manifests = disk.manifests
  BY <1>5 DEF OnDrive
<1>6. ASSUME d = [disk EXCEPT !.retrievals = disk.retrievals \ {s}]
      PROVE  d \in OnDrive /\ d.manifests = disk.manifests
  BY <1>6 DEF OnDrive
<1> QED BY <1>1, <1>2, <1>3, <1>4, <1>5, <1>6

LEMMA HurtIs ==
  ASSUME NEW r \in Asked, NEW h \in BOOLEAN, NEW n, n = [r EXCEPT !.hurt = h]
  PROVE  /\ n \in Asked /\ n.kind = r.kind /\ n.at = r.at /\ n.answer = r.answer /\ n.seen = r.seen
         /\ n.current = r.current /\ n.prepare = r.prepare /\ n.hurt = h
<1>1. n \in Asked
  BY DEF Asked
<1>2. n.kind = r.kind /\ n.at = r.at /\ n.answer = r.answer /\ n.seen = r.seen
  BY DEF Asked
<1>3. n.current = r.current /\ n.prepare = r.prepare /\ n.hurt = h
  BY DEF Asked
<1> QED BY <1>1, <1>2, <1>3

LEMMA StoreIsHurt ==
  ASSUME StoreInv, Store!Damage
  PROVE  StoreInv'
<1>1. /\ StoreTypes /\ MadeFits /\ LaneFits /\ lane \in Job /\ disk \in OnDrive /\ op \in [Op -> Asked]
      /\ \A o \in Op : op[o] \in Asked /\ RequestFits(o)
  BY DEF StoreInv, StoreTypes
<1>2. /\ head /= << >> /\ disk' \in Store!Worse /\ UNCHANGED <<file, impl, head, loaded, lane, dense>>
      /\ op' = [o \in Op |-> [op[o] EXCEPT !.hurt = Store!Running(o) \/ @ \/ op[o].kind = "refresh"]]
  BY DEF Store!Damage
<1>3. disk' \in OnDrive /\ disk'.manifests \subseteq disk.manifests
  BY <1>1, <1>2, HeadIs, WorseIs
<1>4. ASSUME NEW o \in Op
      PROVE  /\ op'[o] \in Asked /\ op'[o].kind = op[o].kind /\ op'[o].at = op[o].at /\ op'[o].answer = op[o].answer
             /\ op'[o].seen = op[o].seen /\ op'[o].current = op[o].current /\ op'[o].prepare = op[o].prepare
             /\ op[o].hurt \/ Store!Running(o) \/ op[o].kind = "refresh" => op'[o].hurt
  <2> DEFINE h == Store!Running(o) \/ op[o].hurt \/ op[o].kind = "refresh"
  <2>1. h \in BOOLEAN
    OBVIOUS
  <2>2. op'[o] = [op[o] EXCEPT !.hurt = h]
    BY <1>2
  <2> HIDE DEF h
  <2>3. /\ op'[o] \in Asked /\ op'[o].kind = op[o].kind /\ op'[o].at = op[o].at /\ op'[o].answer = op[o].answer
        /\ op'[o].seen = op[o].seen /\ op'[o].current = op[o].current /\ op'[o].prepare = op[o].prepare
        /\ op'[o].hurt = h
    <3>1. op[o] \in Asked
      BY <1>1
    <3>2. op'[o] \in Asked
      BY <2>1, <2>2, <3>1 DEF Asked
    <3>3. op'[o].kind = op[o].kind /\ op'[o].at = op[o].at /\ op'[o].answer = op[o].answer /\ op'[o].seen = op[o].seen
      BY <2>2, <3>1 DEF Asked
    <3>4. op'[o].current = op[o].current /\ op'[o].prepare = op[o].prepare /\ op'[o].hurt = h
      BY <2>2, <3>1 DEF Asked
    <3> QED BY <3>2, <3>3, <3>4
  <2> QED BY <2>3 DEF h
<1>5. op' \in [Op -> Asked]
  <2>1. op' = [o \in Op |-> op'[o]]
    BY <1>2
  <2> QED BY <1>4, <2>1
<1>6. StoreTypes' /\ MadeFits'
  BY <1>1, <1>2, <1>3, <1>5 DEF StoreTypes, MadeFits, Store!MadeByOne, Own
<1>7. LaneFits'
  <2>1. lane.job \in {"build", "publish"} => lane.for \subseteq Op
    BY <1>1, JobIs
  <2>2. lane' = lane /\ head' = head /\ dense' = dense
    BY <1>2
  <2>3. \A o \in Op : op'[o].at = op[o].at /\ op'[o].seen = op[o].seen
    BY <1>4
  <2>4. lane.job \in {"build", "publish"} => lane.for # {} /\ \A o \in lane.for : op'[o].at = "building"
    <3>1. lane.job \in {"build", "publish"} => lane.for # {} /\ \A o \in lane.for : op[o].at = "building"
      BY <1>1 DEF LaneFits
    <3> QED BY <2>1, <2>3, <3>1
  <2>5. lane.job = "publish" => \A o \in lane.for : lane.snap.corpus \in op'[o].seen
    <3>1. lane.job = "publish" => \A o \in lane.for : lane.snap.corpus \in op[o].seen
      BY <1>1 DEF LaneFits
    <3> QED BY <2>1, <2>3, <3>1
  <2>6. lane.job = "dense" => head # << >> /\ dense # << >>
    BY <1>1 DEF LaneFits
  <2> QED BY <2>2, <2>4, <2>5, <2>6 DEF LaneFits
<1>8. ASSUME NEW o \in Op PROVE RequestFits(o)'
  <2>0. op'[o].at = op[o].at /\ op'[o].seen = op[o].seen /\ file' = file
    BY <1>2, <1>4
  <2>1. (op[o].at = "published" /\ ~op[o].hurt => Held(op[o].answer))'
    BY <1>4 DEF Store!Running
  <2>2. (Store!Running(o) /\ op[o].at # "lost" => file \in op[o].seen)'
    <3>1. Store!Running(o) /\ op[o].at # "lost" => file \in op[o].seen
      BY <1>1 DEF RequestFits
    <3>2. Store!Running(o)' <=> Store!Running(o)
      BY <2>0 DEF Store!Running
    <3> QED BY <2>0, <3>1, <3>2
  <2>3. /\ op[o].current /\ (op[o].at \in {"published", "retrieving"} => op[o].answer.corpus \in op[o].seen)
        /\ (op[o].at = "failed" => op[o].hurt) /\ (op[o].at = "off" => op[o].kind = "none")
        /\ (op[o].at = "retrieving" => op[o].kind = "retrieval")
        /\ (op[o].at \in {"queued", "building"} =>
              /\ op[o].kind \in {"pin", "compact", "refresh", "warm", "rebuild", "retrieval"}
              /\ op[o].kind \in {"refresh", "warm", "rebuild"} => op[o].prepare)
    BY <1>1 DEF RequestFits
  <2> QED BY <1>4, <2>1, <2>2, <2>3 DEF RequestFits
<1>9. VectorsFit'
  <2>1. \A o \in Op : ~Refreshed(o)'
    BY <1>4 DEF Refreshed
  <2> QED BY <2>1 DEF VectorsFit
<1> QED BY <1>6, <1>7, <1>8, <1>9 DEF StoreInv

\* Another build of the daemon starts: it runs nothing and has promised nothing.
LEMMA StoreRestarts ==
  ASSUME StoreInv, Store!Restart
  PROVE  StoreInv'
<1>1. StoreTypes /\ MadeFits /\ op \in [Op -> Asked]
  BY DEF StoreInv, StoreTypes
<1>2. /\ impl' = impl + 1 /\ loaded' = {} /\ lane' = Store!NoJob /\ dense' = << >> /\ UNCHANGED <<file, disk, head>>
      /\ op' = [o \in Op |-> IF op[o].at = "off" THEN Store!NoOp ELSE [Store!NoOp EXCEPT !.at = "lost"]]
  BY DEF Store!Restart
<1>3. PICK n : n = [Store!NoOp EXCEPT !.at = "lost"]
  OBVIOUS
<1>4. n \in Asked
  BY <1>3, FreshAsked DEF Asked, Stages
<1>5. n.at = "lost" /\ n.kind = "none" /\ n.current
  BY <1>3, FreshAsked DEF Asked
<1>6. Store!NoOp.at = "off"
  BY DEF Store!NoOp
<1>7. ASSUME NEW o \in Op PROVE op'[o] \in Asked /\ op'[o].at \in {"off", "lost"} /\ op'[o].kind = "none" /\ op'[o].current
  BY <1>2, <1>3, <1>4, <1>5, <1>6, FreshAsked
<1>8. op' \in [Op -> Asked]
  <2>1. op' = [o \in Op |-> op'[o]]
    BY <1>2
  <2> QED BY <1>7, <2>1
<1>9. lane' \in Job /\ lane'.job = "none" /\ dense' \in Seq(Wanted)
  BY <1>2 DEF Job, Store!NoJob
<1>10. StoreTypes'
  BY <1>1, <1>2, <1>8, <1>9 DEF StoreTypes
<1>11. MadeFits' /\ LaneFits'
  BY <1>1, <1>2, <1>9 DEF MadeFits, LaneFits, Store!MadeByOne
<1>12. \A o \in Op : RequestFits(o)'
  BY <1>7 DEF RequestFits, Store!Running
<1>13. VectorsFit'
  BY <1>7 DEF VectorsFit, Refreshed
<1> QED BY <1>10, <1>11, <1>12, <1>13 DEF StoreInv

LEMMA StoreStarts ==
  ASSUME Store!Init
  PROVE  StoreInv
<1> DEFINE F == Store!First
           m == [snap |-> F, impl |-> 1]
           e == [snap |-> F, dense |-> "fresh"]
<1>1. /\ file = F.corpus /\ impl = 1 /\ head = <<e>> /\ loaded \in {{}, {F}} /\ op = [o \in Op |-> Store!NoOp]
      /\ lane = Store!NoJob /\ dense = << >>
      /\ disk = [segments |-> Store!Segments(F), damaged |-> {}, graphs |-> {F}, manifests |-> {m}, retrievals |-> {F}]
  BY DEF Store!Init
<1>2. F \in Snap /\ F.corpus \in Versions /\ \A p \in Part : F.by[p] = 1
  BY FreshAsked DEF Store!First, Versions
<1> HIDE DEF F
<1>3. m \in Manifest /\ e \in Edition /\ Store!Segments(F) \subseteq Segment
  BY <1>2, SegmentsAre DEF Manifest, Edition
<1>4. disk \in OnDrive /\ disk.manifests = {m}
  BY <1>1, <1>2, <1>3 DEF OnDrive
<1>5. lane \in Job /\ lane.job = "none"
  BY <1>1 DEF Job, Store!NoJob
<1>6. StoreTypes
  BY <1>1, <1>2, <1>3, <1>4, <1>5, FreshAsked DEF StoreTypes
<1>7. MadeFits /\ LaneFits
  BY <1>2, <1>4, <1>5 DEF MadeFits, LaneFits, Store!MadeByOne
<1>8. Store!NoOp.at = "off" /\ \A o \in Op : op[o] = Store!NoOp
  BY <1>1 DEF Store!NoOp
<1>9. (\A o \in Op : RequestFits(o)) /\ VectorsFit
  BY <1>8, FreshAsked DEF RequestFits, VectorsFit, Refreshed, Store!Running
<1> QED BY <1>6, <1>7, <1>9 DEF StoreInv

LEMMA StoreGoesOn ==
  ASSUME StoreInv, [Store!Next]_(Store!vars)
  PROVE  StoreInv'
<1>1. CASE UNCHANGED Store!vars
  <2>1. UNCHANGED <<file, impl, disk, head, loaded, op, lane, dense>>
    BY <1>1 DEF Store!vars
  <2>2. StoreTypes' /\ MadeFits' /\ LaneFits'
    BY <2>1 DEF StoreInv, StoreTypes, MadeFits, LaneFits, Store!MadeByOne, Own
  <2>3. Grows /\ \A o \in Op : RequestFits(o)
    BY <2>1 DEF Grows, StoreInv
  <2>4. \A o \in Op : RequestFits(o)'
    BY <2>1, <2>3, RequestStays
  <2>5. VectorsFit'
    <3>1. \A p \in Op : GoesOn(p)
      BY <2>1 DEF GoesOn
    <3> QED BY <2>1, <3>1, ProvidedStays
  <2> QED BY <2>2, <2>4, <2>5 DEF StoreInv
<1>2. CASE Store!Next
  <2>1. ASSUME NEW o \in Op, \/ \E k \in {"pin", "compact"} : Store!PinOrCompact(o, k)
                             \/ \E k \in {"refresh", "warm"} : Store!RefreshOrWarm(o, k)
                             \/ Store!Rebuild(o) \/ Store!Clear(o) \/ Store!Begin(o) \/ Store!Cleared(o)
                             \/ Store!Pin(o) \/ Store!Prepare(o) \/ Store!Retrieve(o)
        PROVE  StoreInv'
    BY <2>1, StorePins, StoreRefreshes, StoreRebuilds, StoreBegins, StoreClears, StoreLoads, StorePrepares,
       StoreRetrieves
  <2>2. CASE Store!Build \/ Store!Publish \/ Store!TakeDense
    BY <2>2, StoreBuilds, StorePublishes, StoreTakes
  <2>3. CASE \E ok \in BOOLEAN : Store!EndDense(ok)
    BY <2>3, StoreEndsDense
  <2>4. CASE \E p \in Part : Store!Edit(p)
    BY <2>4, StoreSeesEdits
  <2>5. CASE Store!Damage \/ Store!Restart
    BY <2>5, StoreIsHurt, StoreRestarts
  <2> QED BY <1>2, <2>1, <2>2, <2>3, <2>4, <2>5 DEF Store!Next
<1> QED BY <1>1, <1>2

\* What the invariant says of the properties.
LEMMA StoreIsSound ==
  ASSUME StoreInv
  PROVE  Store!Sound
<1>1. Store!MadeByOne
  BY DEF StoreInv, MadeFits
<1>2. Store!AnswersAreCurrent /\ Store!FailuresAreNew
  BY DEF StoreInv, RequestFits, Store!AnswersAreCurrent, Store!FailuresAreNew
<1>3. Store!RefreshBringsVectors
  <2> SUFFICES ASSUME NEW o \in Op, op[o].at = "done", op[o].kind = "refresh", ~op[o].hurt,
                      \A p \in Op : op[p].kind \in {"none", "refresh", "rebuild", "warm", "retrieval"},
                      lane = Store!NoJob, dense = << >>, \A p \in Op : ~Store!Running(p)
               PROVE  Store!RetrievalReady(Head(head)) \/ Head(head).dense = "failed"
    BY DEF Store!RefreshBringsVectors
  <2>1. OnlyVectored /\ Refreshed(o)
    BY DEF OnlyVectored, Vectored, Refreshed
  <2>2. PICK e \in Edition : head = <<e>> /\ Provided(e)
    BY <2>1 DEF StoreInv, VectorsFit
  <2>3. ~AboutToAsk(e)
    BY DEF AboutToAsk, Store!Running
  <2>4. ~Awaits(e)
    BY DEF Awaits
  <2>5. Head(head) = e
    BY <2>2
  <2> QED BY <2>2, <2>3, <2>4, <2>5 DEF Provided, HasVectors, Store!RetrievalReady
<1> QED BY <1>1, <1>2, <1>3 DEF Store!Sound

\* The snapshot store stays sound: the segments of a snapshot are all of one program, a request is
\* answered with the vault of a moment it ran in, fails only for a file that was lost meanwhile, and a
\* refresh brings vectors, however requests, edits, damage and restarts come.
THEOREM StoreStaysSound == Store!Spec => []Store!Sound
<1>1. Store!Init => StoreInv
  BY StoreStarts
<1>2. StoreInv /\ [Store!Next]_(Store!vars) => StoreInv'
  BY StoreGoesOn
<1>3. StoreInv => Store!Sound
  BY StoreIsSound
<1> QED BY <1>1, <1>2, <1>3, PTL DEF Store!Spec

\* What is published is whole on disk at that moment, whatever was damaged before and while it was made.
THEOREM PublishingStaysWhole == Store!Spec => [][Store!PublishingRepairs]_(Store!vars)
<1>1. Store!Init => StoreInv
  BY StoreStarts
<1>2. StoreInv /\ [Store!Next]_(Store!vars) => StoreInv'
  BY StoreGoesOn
<1>3. StoreInv /\ [Store!Next]_(Store!vars) => [Store!PublishingRepairs]_(Store!vars)
  <2> SUFFICES ASSUME StoreInv, Store!Next, lane.job = "publish", head' /= head
               PROVE  Store!Whole(disk', Head(head').snap)
    BY DEF Store!PublishingRepairs
  <2>1. lane # Store!NoJob
    BY DEF Store!NoJob
  <2>2. Store!Publish
    BY <2>1 DEF Store!Next, Store!PinOrCompact, Store!RefreshOrWarm, Store!Rebuild, Store!Clear, Store!Begin,
      Store!Cleared, Store!Pin, Store!Prepare, Store!Retrieve, Store!Build, Store!TakeDense, Store!EndDense,
      Store!Edit, Store!Damage, Store!Restart
  <2>3. /\ lane.snap \in Snap /\ disk \in OnDrive /\ impl \in Nat /\ disk' = Store!Stored(lane.snap) /\ loaded' = loaded
        /\ head' = <<[snap |-> lane.snap, dense |-> "unavailable"]>>
    BY <2>2, JobIs DEF Store!Publish, StoreInv, StoreTypes
  <2>4. Store!Whole(disk', lane.snap)
    BY <2>3, StoredIs
  <2>5. Head(head').snap = lane.snap
    BY <2>3
  <2> QED BY <2>4, <2>5
<1> QED BY <1>1, <1>2, <1>3, PTL DEF Store!Spec
=============================================================================
