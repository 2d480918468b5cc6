------------------------------ MODULE CacheCatalog ------------------------------
(***************************************************************************)
(* The record of when each search store was last used, and the pruning of   *)
(* those that nobody uses (daemon/search-store/cache-catalog.ts, with its   *)
(* callers in snapshot-store.ts and profile-manager.ts).  Each store keeps  *)
(* its record in store.json; catalog.json lists them all.  Both are shared  *)
(* by the daemons of a user, each of which remembers its own touches.  What *)
(* one process does between two awaits is one chain of file operations that *)
(* only another process can come between.  Links and files in the place of  *)
(* a store's directory are never removed and left out.                      *)
(***************************************************************************)
EXTENDS Integers, FiniteSets

CONSTANTS Process, Actor, ProcessOf,   \* the daemons, and the requests each of them serves
          Stores,                      \* the stores are 1..Stores
          Day, UnusedDays,             \* the throttle of touches, and the age that is pruned
          MaxTime, MaxEdition, MaxOps, MaxFaults   \* bounds

VARIABLES now,      \* the clock
          disk,     \* the directory of each store
          catalog,  \* catalog.json
          memo,     \* recentTouches of each process
          loaded,   \* the stores with a snapshot in the memory of each process
          op,       \* the requests
          last,     \* when each store was last used (of the model, as the next two)
          hurt,     \* the stores that lost a record
          spent     \* how many requests and faults there were

vars == <<now, disk, catalog, memo, loaded, op, last, hurt, spent>>

Store == 1..Stores
NoRecord == [used |-> 0, edition |-> 0]
NoStore == [dir |-> FALSE, record |-> NoRecord, edition |-> 0, mtime |-> 0]
Idle == [kind |-> "none", step |-> "idle", store |-> 0, record |-> NoRecord, list |-> [s \in Store |-> NoRecord],
         todo |-> {}, gone |-> {}, dry |-> FALSE]

Init ==
  /\ now = 1
  /\ disk \in [Store -> {NoStore, [dir |-> TRUE, record |-> [used |-> 1, edition |-> 1], edition |-> 1, mtime |-> 1]}]
  /\ catalog \in {[s \in Store |-> disk[s].record], [s \in Store |-> NoRecord]}
  /\ memo = [p \in Process |-> [s \in Store |-> NoRecord]]
  /\ loaded = [p \in Process |-> {}]
  /\ op = [a \in Actor |-> Idle]
  /\ last = [s \in Store |-> disk[s].mtime]
  /\ hurt = {}
  /\ spent = [ops |-> 0, faults |-> 0]

\* The steps after which the process gives nobody else of its own a turn.
InChain(a) == op[a].step \notin {"idle", "opened", "build"}
Turn(a) == \A b \in Actor \ {a} : ProcessOf[b] = ProcessOf[a] => ~InChain(b)

-----------------------------------------------------------------------------
(* Using a store                                                            *)

\* withLifecycleStore holds the store for the request; recoverVault makes its directory.
Open(a, s, kind) ==
  /\ op[a] = Idle /\ Turn(a)
  /\ spent.ops < MaxOps
  /\ spent' = [spent EXCEPT !.ops = @ + 1]
  /\ op' = [op EXCEPT ![a] = [Idle EXCEPT !.kind = kind, !.step = "opened", !.store = s]]
  /\ disk' = IF disk[s].dir THEN disk ELSE [disk EXCEPT ![s] = [NoStore EXCEPT !.dir = TRUE, !.mtime = now]]
  /\ UNCHANGED <<now, catalog, memo, loaded, last, hurt>>

\* ensureActiveSnapshot: the edition is served if the vault has not changed, and built anew otherwise.
EnsureActive(a) ==
  LET s == op[a].store IN
  /\ op[a].kind = "use" /\ op[a].step = "opened" /\ Turn(a)
  /\ \/ /\ disk[s].edition > 0
        /\ loaded' = [loaded EXCEPT ![ProcessOf[a]] = @ \union {s}]
        /\ op' = [op EXCEPT ![a].step = "touch", ![a].record.edition = disk[s].edition]
     \/ /\ disk[s].edition < MaxEdition
        /\ op' = [op EXCEPT ![a].step = "build"]
        /\ UNCHANGED loaded
  /\ UNCHANGED <<now, disk, catalog, memo, last, hurt, spent>>

\* readRecordForPaths
Existing(s) == IF disk[s].record # NoRecord THEN disk[s].record ELSE catalog[s]

Throttled(r, edition) == r.used > 0 /\ r.edition = edition /\ now - r.used < Day

\* touchUsed writes once a day, or when the snapshot is another one.
TouchUsed_ByAge(a) ==
  LET s == op[a].store
      p == ProcessOf[a]
      new == [used |-> now, edition |-> op[a].record.edition]
  IN /\ UNCHANGED memo
     /\ op' = IF memo[p][s].used > 0 /\ now - memo[p][s].used < 2 * Day
              THEN [op EXCEPT ![a].step = "done"]
              ELSE [op EXCEPT ![a].step = "write", ![a].record = new]

TouchUsed(a) ==
  LET s == op[a].store
      p == ProcessOf[a]
      old == Existing(s)
      new == [used |-> now, edition |-> op[a].record.edition]
  IN IF Throttled(memo[p][s], new.edition)
     THEN op' = [op EXCEPT ![a].step = "done"] /\ UNCHANGED memo
     ELSE IF disk[s].record # NoRecord /\ Throttled(old, new.edition)
     THEN IF catalog[s] = NoRecord
          THEN op' = [op EXCEPT ![a].step = "write", ![a].record = old] /\ UNCHANGED memo
          ELSE op' = [op EXCEPT ![a].step = "done"] /\ memo' = [memo EXCEPT ![p][s] = old]
     ELSE op' = [op EXCEPT ![a].step = "write", ![a].record = new] /\ UNCHANGED memo

Touch(a) ==
  /\ op[a].step = "touch"
  /\ TouchUsed(a)
  /\ UNCHANGED <<now, disk, catalog, loaded, last, hurt, spent>>

\* recordIndexed, when the artifacts of a build are published and before its edition is.
RecordIndexed(a) ==
  /\ op[a].step = "build" /\ Turn(a)
  /\ op' = [op EXCEPT ![a].step = "write", ![a].record = [used |-> now, edition |-> disk[op[a].store].edition + 1]]
  /\ UNCHANGED <<now, disk, catalog, memo, loaded, last, hurt, spent>>

\* recordCleared: the ledgers are removed, and the record keeps no snapshot.
RecordCleared(a) ==
  /\ op[a].kind = "clear" /\ op[a].step = "opened" /\ Turn(a)
  /\ disk' = [disk EXCEPT ![op[a].store].edition = 0]
  /\ op' = [op EXCEPT ![a].step = "write", ![a].record = [used |-> now, edition |-> 0]]
  /\ UNCHANGED <<now, catalog, memo, loaded, last, hurt, spent>>

\* upsert writes store.json, remembers the touch, and reads the catalog ...
Write(a) ==
  LET s == op[a].store IN
  /\ op[a].step = "write"
  /\ disk' = [disk EXCEPT ![s] = [@ EXCEPT !.dir = TRUE, !.record = op[a].record, !.mtime = now]]
  /\ memo' = [memo EXCEPT ![ProcessOf[a]][s] = op[a].record]
  /\ hurt' = IF op[a].record.used < disk[s].record.used THEN hurt \union {s} ELSE hurt
  /\ op' = [op EXCEPT ![a].step = "enter", ![a].list = catalog]
  /\ UNCHANGED <<now, catalog, loaded, last, spent>>

\* ... which it writes with this record in it.
Enter(a) ==
  /\ op[a].step = "enter"
  /\ catalog' = [op[a].list EXCEPT ![op[a].store] = op[a].record]
  /\ op' = [op EXCEPT ![a].step = "done"]
  /\ UNCHANGED <<now, disk, memo, loaded, last, hurt, spent>>

\* The edition that was built is appended, and the store is let go.
Done(a) ==
  LET s == op[a].store
      d == disk[s]
  IN
  /\ op[a].step = "done"
  /\ disk' = IF op[a].kind = "use" /\ op[a].record.edition = d.edition + 1
             THEN [disk EXCEPT ![s] = [d EXCEPT !.dir = TRUE, !.edition = d.edition + 1,
                                               !.mtime = IF d.dir THEN d.mtime ELSE now]]
             ELSE disk
  /\ op' = [op EXCEPT ![a] = Idle]
  /\ last' = [last EXCEPT ![s] = now]
  /\ UNCHANGED <<now, catalog, memo, loaded, hurt, spent>>

\* enforceBudget, and the close of an idle profile.
Evict(p, s) ==
  /\ s \in loaded[p]
  /\ ~\E a \in Actor : ProcessOf[a] = p /\ (InChain(a) \/ op[a].store = s)
  /\ loaded' = [loaded EXCEPT ![p] = @ \ {s}]
  /\ UNCHANGED <<now, disk, catalog, memo, op, last, hurt, spent>>

-----------------------------------------------------------------------------
(* Pruning                                                                  *)

\* protectedStoreIdsForPrune: what this daemon has loaded or is working on.
Protected_Loaded(p) == loaded[p]

Protected(p) == loaded[p] \union {op[a].store : a \in {b \in Actor : ProcessOf[b] = p /\ op[b].kind # "prune"}}

\* prune reads the catalog and looks at the stores that it or the directory lists.
Prune(a, dry) ==
  /\ op[a] = Idle /\ Turn(a)
  /\ spent.ops < MaxOps
  /\ spent' = [spent EXCEPT !.ops = @ + 1]
  /\ op' = [op EXCEPT ![a] = [Idle EXCEPT !.kind = "prune", !.step = "judge", !.list = catalog, !.dry = dry,
                                          !.todo = {s \in Store : disk[s].dir \/ catalog[s] # NoRecord}]]
  /\ UNCHANGED <<now, disk, catalog, memo, loaded, last, hurt>>

\* A store tells itself when it was used; the catalog, then the directory, stand in for it.
LastUsed_ByCatalog(s, list) ==
  IF list[s] # NoRecord THEN list[s].used
  ELSE IF disk[s].record # NoRecord THEN disk[s].record.used ELSE disk[s].mtime

LastUsed(s, list) ==
  IF disk[s].record # NoRecord THEN disk[s].record.used
  ELSE IF list[s] # NoRecord THEN list[s].used ELSE disk[s].mtime

Judge(a) ==
  LET s == CHOOSE t \in op[a].todo : \A u \in op[a].todo : t <= u
      old == LastUsed(s, op[a].list) < now - UnusedDays * Day
  IN /\ op[a].step = "judge" /\ op[a].todo # {}
     /\ IF s \in Protected(ProcessOf[a]) \/ (disk[s].dir /\ ~old)
        THEN op' = [op EXCEPT ![a].todo = @ \ {s}]
        ELSE op' = [op EXCEPT ![a].todo = @ \ {s}, ![a].gone = @ \union {s}, ![a].store = s,
                              ![a].record = disk[s].record,
                              ![a].step = IF op[a].dry \/ ~disk[s].dir THEN "judge" ELSE "remove"]
     /\ UNCHANGED <<now, disk, catalog, memo, loaded, last, hurt, spent>>

\* A request of another process has the store that is being removed; or it has written another
\* record since the store was judged.
Elsewhere(a) ==
  \E b \in Actor : ProcessOf[b] # ProcessOf[a] /\ op[b].store = op[a].store /\ op[b].kind # "prune"

Remove(a) ==
  /\ op[a].step = "remove"
  /\ disk' = [disk EXCEPT ![op[a].store] = NoStore]
  /\ hurt' = IF Elsewhere(a) \/ disk[op[a].store].record # op[a].record THEN hurt \union {op[a].store} ELSE hurt
  /\ op' = [op EXCEPT ![a].step = "judge"]
  /\ UNCHANGED <<now, catalog, memo, loaded, last, spent>>

\* The catalog is written as it was read, without what is gone; the memo is that of a new object.
Finish(a) ==
  /\ op[a].step = "judge" /\ op[a].todo = {}
  /\ catalog' = IF op[a].dry THEN catalog
                ELSE [s \in Store |-> IF s \in op[a].gone \/ ~disk[s].dir THEN NoRecord ELSE op[a].list[s]]
  /\ op' = [op EXCEPT ![a] = Idle]
  /\ UNCHANGED <<now, disk, memo, loaded, last, hurt, spent>>

-----------------------------------------------------------------------------
(* Faults and time                                                          *)

\* A metadata file that cannot be parsed counts as missing.
Damage(s) ==
  /\ spent.faults < MaxFaults
  /\ spent' = [spent EXCEPT !.faults = @ + 1]
  /\ disk[s].record # NoRecord
  /\ disk' = [disk EXCEPT ![s].record = NoRecord]
  /\ hurt' = hurt \union {s}
  /\ UNCHANGED <<now, catalog, memo, loaded, op, last>>

Crash(p) ==
  /\ spent.faults < MaxFaults
  /\ spent' = [spent EXCEPT !.faults = @ + 1]
  /\ memo' = [memo EXCEPT ![p] = [s \in Store |-> NoRecord]]
  /\ loaded' = [loaded EXCEPT ![p] = {}]
  /\ op' = [a \in Actor |-> IF ProcessOf[a] = p THEN Idle ELSE op[a]]
  /\ UNCHANGED <<now, disk, catalog, last, hurt>>

\* A chain takes no time that counts.
Tick ==
  /\ now < MaxTime
  /\ \A a \in Actor : ~InChain(a)
  /\ now' = now + 1
  /\ UNCHANGED <<disk, catalog, memo, loaded, op, last, hurt, spent>>

Next ==
  \/ \E a \in Actor, s \in Store : Open(a, s, "use") \/ Open(a, s, "clear")
  \/ \E a \in Actor : EnsureActive(a) \/ Touch(a) \/ RecordIndexed(a) \/ RecordCleared(a) \/ Write(a) \/ Enter(a) \/ Done(a)
  \/ \E a \in Actor : Prune(a, TRUE) \/ Prune(a, FALSE) \/ Judge(a) \/ Remove(a) \/ Finish(a)
  \/ \E p \in Process, s \in Store : Evict(p, s)
  \/ \E s \in Store : Damage(s)
  \/ \E p \in Process : Crash(p)
  \/ Tick

Spec == Init /\ [][Next]_vars

-----------------------------------------------------------------------------
(* The properties                                                           *)

\* What store.json says is at most a day behind the last use, whatever the processes remember and
\* however they overwrite the catalog, unless a fault or another process took the file, or an old record was written back.
RecordKeepsUp ==
  \A s \in Store : disk[s].record # NoRecord /\ s \notin hurt => last[s] < disk[s].record.used + Day

\* Only a store is removed that nobody has used for the days asked for, less the one that the throttle
\* hides, and never one that the pruning daemon uses; a use in another process at that time is a race
\* (README.md:151 "Read-only vaults that are searched regularly are kept").
RemovesTheUnused ==
  \A a \in Actor : op[a].step = "remove" /\ op'[a].step = "judge" =>
    LET s == op[a].store IN
    /\ ~\E b \in Actor \ {a} : ProcessOf[b] = ProcessOf[a] /\ op[b].store = s /\ op[b].kind # "prune"
    /\ s \notin loaded[ProcessOf[a]]
    /\ \/ last[s] < now - (UnusedDays - 1) * Day
       \/ s \in hurt'
====
