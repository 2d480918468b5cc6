------------------------------ MODULE SearchState ------------------------------
(***************************************************************************)
(* What a search needs of a snapshot in memory: the daemon and each of its  *)
(* search workers keep the snapshots they used last                         *)
(* (search-store/search-execution-state.ts), loading a vault or building    *)
(* its index warms them (search-store/service.ts, pools.ts), and a worker   *)
(* that is asked for some partitions takes them from what it keeps.  The    *)
(* worker pool is in WorkerPool, how a query is cut into tasks in           *)
(* QueryScheduler; here a job waits for its worker or for any.              *)
(***************************************************************************)
EXTENDS Naturals, Sequences, FiniteSets, SequencesExt

CONSTANTS SlotCount,        \* workers of the pool
          Editions,         \* what the store may serve: snapshots, each with a link graph
          SegmentsOf,       \* the partitions of a snapshot
          Limit,            \* SEARCH_EXECUTION_STATE_CACHE_LIMIT
          Callers,          \* requests, which come in the order of their numbers
          MaxCrashes        \* bound; a job survives as many crashes (DEFAULT_MAX_CRASH_RETRIES)

VARIABLES active,   \* the edition that the store serves
          states,   \* the snapshots that each process keeps, oldest first
          bounds,   \* the score bounds that each process keeps, oldest first
          recent,   \* the keys each process has used, the last one at the end (history)
          ready,    \* workers that have warmed up
          queue,    \* jobs of the pool
          call,     \* the requests
          crashes

vars == <<active, states, bounds, recent, ready, queue, call, crashes>>

Slots == 1..SlotCount
Daemon == 0
AnySlot == 0

\* What the store hands out of a pinned snapshot, and a part of it for a task.
HandleFor(e) == [id |-> e.id, graph |-> e.graph, segs |-> SegmentsOf[e.id], stats |-> SegmentsOf[e.id]]
Part(handle, segs) == [handle EXCEPT !.segs = segs]

\* Mutant: the cache does not tell link graphs apart.
Key_OfSnapshot(handle) == handle.id

Key(handle) == <<handle.id, handle.graph>>

\* A snapshot in memory: the partitions, the statistics and the link graph of its handle.
FromHandle(handle) == handle

NoCall == [kind |-> "none", step |-> "idle", handle |-> [id |-> "none"], bound |-> {}, need |-> 0,
           left |-> {}, ran |-> << >>, got |-> {}, disturbed |-> FALSE]

Init ==
  /\ active \in Editions
  /\ states = [p \in {Daemon} \union Slots |-> << >>]
  /\ bounds = [p \in {Daemon} \union Slots |-> << >>]
  /\ recent = [p \in {Daemon} \union Slots |-> << >>]
  /\ ready = {1} /\ queue = << >> /\ crashes = 0
  /\ call = [c \in Callers |-> NoCall]

-----------------------------------------------------------------------------
(* A cache of one process                                                   *)

Has(cache, key) == \E n \in DOMAIN cache : cache[n].key = key
Kept(cache, key) == cache[CHOOSE n \in DOMAIN cache : cache[n].key = key].value
Without(cache, key) == SelectSeq(cache, LAMBDA entry : entry.key # key)

\* Mutant: a full cache does not take another snapshot out.
Used_Refuses(cache, key, value) ==
  LET rest == Without(cache, key)
  IN IF Len(rest) = Limit THEN rest ELSE Append(rest, [key |-> key, value |-> value])

\* An entry that is used becomes the youngest, and the oldest goes when there are too many.
Used(cache, key, value) ==
  LET put == Append(Without(cache, key), [key |-> key, value |-> value])
  IN IF Len(put) > Limit THEN Tail(put) ELSE put

\* The whole snapshot of a handle, from the cache or into it.
WholeState(p, handle) == IF Has(states[p], Key(handle)) THEN Kept(states[p], Key(handle)) ELSE FromHandle(handle)

\* The best score of a term is taken over all partitions of the snapshot, and kept under its id.
BoundsOf(p, state) == IF Has(bounds[p], state.id) THEN Kept(bounds[p], state.id) ELSE state.segs

Uses(p, key) == recent' = [recent EXCEPT ![p] = Append(SelectSeq(@, LAMBDA k : k # key), key)]

\* What warming does, and planning a query: the process has the whole snapshot and its bounds.
WarmSnapshot(p, handle) ==
  /\ states' = [states EXCEPT ![p] = Used(@, Key(handle), WholeState(p, handle))]
  /\ bounds' = [bounds EXCEPT ![p] = Used(@, handle.id, BoundsOf(p, WholeState(p, handle)))]
  /\ Uses(p, Key(handle))

\* The partitions of a task are those of the snapshot that is kept, if it has them all; otherwise
\* they are read from the handle, and nothing is kept of them.
ShardState(p, handle) ==
  IF Has(states[p], Key(handle)) /\ handle.segs \subseteq Kept(states[p], Key(handle)).segs
  THEN [Kept(states[p], Key(handle)) EXCEPT !.segs = handle.segs]
  ELSE FromHandle(handle)

TouchCached(p, handle) ==
  IF Has(states[p], Key(handle))
  THEN /\ states' = [states EXCEPT ![p] = Used(@, Key(handle), Kept(@, Key(handle)))]
       /\ Uses(p, Key(handle))
  ELSE UNCHANGED <<states, recent>>

-----------------------------------------------------------------------------
(* Requests                                                                 *)

Comes(c) == call[c].step = "idle" /\ \A d \in Callers : d < c => call[d].step # "idle"

\* A save, a refresh or a build puts another edition in the place of the one that is served.
Publish(e) ==
  /\ e # active /\ active' = e
  /\ \E c \in Callers : call[c].step = "idle"      \* what is served when all have their snapshot is read by nobody
  /\ UNCHANGED <<states, bounds, recent, ready, queue, call, crashes>>

\* Loading, building, refreshing and compacting warm what is then served: first the daemon itself,
\* which plans queries, then as many workers as the caller waits for.
StartPreload(c, need, kind) ==
  /\ Comes(c)
  /\ WarmSnapshot(Daemon, HandleFor(active))
  /\ call' = [call EXCEPT ![c] = [NoCall EXCEPT !.kind = kind, !.step = "warming",
                                                !.handle = HandleFor(active), !.need = need]]
  /\ UNCHANGED <<active, ready, queue, crashes>>

ReadySlotIds == SelectSeq([n \in Slots |-> n], LAMBDA w : w \in ready)

\* Mutant: the jobs are not bound to their workers.
PreloadJob_Anywhere(c, w) == [kind |-> "preload", call |-> c, target |-> AnySlot, waited |-> TRUE, segs |-> {}]

PreloadJob(c, w) == [kind |-> "preload", call |-> c, target |-> w, waited |-> TRUE, segs |-> {}]

\* When enough workers are ready the first of them get the job; the others get it too when the caller
\* wants them warm without waiting for them.
PreloadOnSlots(c) ==
  LET blocking == SubSeq(ReadySlotIds, 1, call[c].need)
      others == SelectSeq([n \in Slots |-> n], LAMBDA w : w \notin ToSet(blocking))
      waited == [n \in DOMAIN blocking |-> PreloadJob(c, blocking[n])]
      later == [n \in DOMAIN others |-> [PreloadJob(c, others[n]) EXCEPT !.waited = FALSE]]
  IN /\ call[c].step = "warming" /\ Cardinality(ready) >= call[c].need
     /\ queue' = queue \o waited \o (IF call[c].kind = "background" THEN later ELSE << >>)
     /\ call' = [call EXCEPT ![c].step = "running"]
     /\ UNCHANGED <<active, states, bounds, recent, ready, crashes>>

\* A query is planned in the daemon: the bound on its scores comes from the whole snapshot.
PlanQuery(c) ==
  LET handle == HandleFor(active)
  IN /\ Comes(c)
     /\ WarmSnapshot(Daemon, handle)
     /\ call' = [call EXCEPT ![c] = [NoCall EXCEPT !.kind = "query", !.step = "running", !.handle = handle,
                                       !.bound = BoundsOf(Daemon, WholeState(Daemon, handle)),
                                       !.left = handle.segs]]
     /\ UNCHANGED <<active, ready, queue, crashes>>

\* A task with some of the partitions goes to a worker that is idle.
DispatchTask(c, w, segs) ==
  /\ call[c].kind = "query" /\ call[c].step = "running" /\ segs # {} /\ segs \subseteq call[c].left
  /\ w \in ready /\ \A n \in DOMAIN queue : queue[n].target # w
  /\ queue' = Append(queue, [kind |-> "shard", call |-> c, target |-> w, waited |-> TRUE, segs |-> segs])
  /\ call' = [call EXCEPT ![c].left = @ \ segs]
  /\ UNCHANGED <<active, states, bounds, recent, ready, crashes>>

-----------------------------------------------------------------------------
(* Workers                                                                  *)

\* The next job of a worker: one that is for it before one that is for any.
IsNext(w, n) ==
  /\ queue[n].target \in {w, AnySlot}
  /\ \A m \in DOMAIN queue :
       ((queue[m].target = w /\ m < n) \/ (queue[m].target = AnySlot /\ queue[n].target = AnySlot /\ m < n)) => m = n
  /\ queue[n].target = AnySlot => \A m \in DOMAIN queue : queue[m].target # w

\* A request ends when all it waits for has come.
Answered(record) ==
  LET all == IF record.kind = "query"
             THEN record.left = {} /\ UNION {a.handle.segs : a \in record.got} = record.handle.segs
             ELSE Len(record.ran) = record.need
  IN IF all THEN [record EXCEPT !.step = "done", !.bound = {}] ELSE record

RunPreload(w, n) ==
  LET job == queue[n]
      record == [call[job.call] EXCEPT !.ran = IF job.waited THEN Append(@, w) ELSE @]
  IN /\ w \in ready /\ job.kind = "preload" /\ IsNext(w, n)
     /\ WarmSnapshot(w, call[job.call].handle)
     /\ queue' = RemoveAt(queue, n)
     /\ call' = [call EXCEPT ![job.call] = IF job.waited THEN Answered(record) ELSE record]
     /\ UNCHANGED <<active, ready, crashes>>

RunShard(w, n) ==
  LET job == queue[n]
      handle == Part(call[job.call].handle, job.segs)
      answer == [handle |-> handle, state |-> ShardState(w, handle), bound |-> call[job.call].bound]
  IN /\ w \in ready /\ job.kind = "shard" /\ IsNext(w, n)
     /\ TouchCached(w, handle)
     /\ queue' = RemoveAt(queue, n)
     /\ call' = [call EXCEPT ![job.call] = Answered([@ EXCEPT !.got = @ \union {answer}])]
     /\ UNCHANGED <<active, bounds, ready, crashes>>

\* A worker that dies loses what it keeps.  The job in its hands goes to whoever is free next, the
\* jobs that wait for it to its successor.
Crash(w) ==
  /\ w \in ready /\ crashes < MaxCrashes /\ crashes' = crashes + 1
  /\ ready' = ready \ {w}
  /\ states' = [states EXCEPT ![w] = << >>]
  /\ bounds' = [bounds EXCEPT ![w] = << >>]
  /\ recent' = [recent EXCEPT ![w] = << >>]
  /\ \/ queue' = queue
     \/ \E n \in DOMAIN queue :
          IsNext(w, n) /\ queue' = <<[queue[n] EXCEPT !.target = AnySlot]>> \o RemoveAt(queue, n)
  /\ call' = [c \in Callers |-> IF call[c].step = "running" THEN [call[c] EXCEPT !.disturbed = TRUE] ELSE call[c]]
  /\ UNCHANGED active

\* A worker is ready when its warm-up has answered.
WarmsUp(w) ==
  /\ w \notin ready /\ ready' = ready \union {w}
  /\ UNCHANGED <<active, states, bounds, recent, queue, call, crashes>>

Next ==
  \/ \E e \in Editions : Publish(e)
  \/ \E c \in Callers :
       \/ StartPreload(c, SlotCount, "all")
       \/ StartPreload(c, 1, "background")
       \/ PreloadOnSlots(c)
       \/ PlanQuery(c)
       \/ \E w \in Slots, segs \in SUBSET UNION {SegmentsOf[e.id] : e \in Editions} : DispatchTask(c, w, segs)
  \/ \E w \in Slots :
       \/ \E n \in DOMAIN queue : RunPreload(w, n) \/ RunShard(w, n)
       \/ Crash(w)
       \/ WarmsUp(w)

Spec == Init /\ [][Next]_vars

-----------------------------------------------------------------------------

\* A task is answered from the snapshot it was planned for: its partitions, the statistics of the whole
\* snapshot and the link graph of the pinned edition, whatever the worker kept before
\* (search-execution-state.ts:97-118); and the bound on exact matches is that of the whole snapshot.
AnswersAreOfTheSnapshot ==
  \A c \in Callers : \A a \in call[c].got :
    /\ a.state = FromHandle(a.handle)
    /\ a.bound = SegmentsOf[a.handle.id]

\* What a process keeps is the last it has used, so a snapshot that is in use is not built again while
\* fewer than Limit others are used (search-execution-state.ts:73-77).
KeepsTheLastUsed ==
  \A p \in DOMAIN states :
    LET n == Len(recent[p])
        first == IF n > Limit THEN n - Limit + 1 ELSE 1
    IN [k \in DOMAIN states[p] |-> states[p][k].key] = SubSeq(recent[p], first, n)

\* A command that warms all workers has warmed each of them when it ends, unless one died meanwhile
\* (docs/search.md:321-323).
WarmIsWarm ==
  \A c \in Callers :
    call[c].kind \in {"all", "background"} /\ call[c].step = "done" /\ ~call[c].disturbed =>
      Cardinality(ToSet(call[c].ran)) = call[c].need
================================================================================
