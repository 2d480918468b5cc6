----------------------------- MODULE QueryScheduler -----------------------------
(***************************************************************************)
(* The scheduler of search queries (search-store/query-scheduler.ts) over   *)
(* the search pool.  A query is a session of shard units; idle slots are    *)
(* shared among the active sessions, and a leased slot runs a batch of      *)
(* units.  The handlers of one message and the microtasks that they queue,  *)
(* the scheduler's drain among them, run before the next message: each is   *)
(* one action that ends with the drain where the code requests one.         *)
(***************************************************************************)
EXTENDS Naturals, Sequences, FiniteSets, SequencesExt

CONSTANTS Query,       \* sessions
          Units(_),    \* the shard units of a query's plan
          IsTimed(_),  \* the query has a time budget
          Slot,        \* 1..n, the slots of the pool
          MaxFaults    \* bound: crashes, restarts, expiries, cancellations, other jobs

VARIABLES order,   \* activeSessions
          next,    \* nextSessionIndex, from 0
          session, \* the sessions
          slot,    \* the pool's slots: state, leased, and the job that runs
          retry,   \* jobs that lost their worker and wait in the pool's queue
          missed,  \* slots that became idle since the scheduler last looked, history
          faults

vars == <<order, next, session, slot, retry, missed, faults>>

NoJob == [query |-> "none", units |-> 0, tries |-> 0]
OtherJob == [NoJob EXCEPT !.query = "other"]
Down == [state |-> "down", job |-> NoJob]

Init ==
  /\ order = <<>> /\ next = 0 /\ retry = <<>> /\ missed = {} /\ faults = 0
  /\ session = [q \in Query |-> [state |-> "new", pending |-> Units(q), got |-> 0, stopped |-> FALSE]]
  /\ slot \in [Slot -> {Down, [Down EXCEPT !.state = "ready"]}]

\* What the drain reads and changes.
Here == [order |-> order, next |-> next, session |-> session, slot |-> slot, retry |-> retry]

Become(p) ==
  /\ order' = p.order /\ next' = p.next /\ session' = p.session
  /\ slot' = p.slot /\ retry' = p.retry

Fault == faults < MaxFaults /\ faults' = faults + 1

-----------------------------------------------------------------------------
(* The pool: the part of worker-pool.ts that a session can see.             *)

IsIdle(s) == s.state = "ready" /\ s.job = NoJob
IdleSlots(p) == {i \in Slot : IsIdle(p.slot[i])}
FirstOf(S) == CHOOSE i \in S : \A j \in S : i <= j

\* The pool's own drain gives an idle slot to a job that lost its worker.
PoolDrain(p) ==
  FoldLeft(LAMBDA r, k :
             IF r.retry = <<>> \/ IdleSlots(r) = {} THEN r
             ELSE [r EXCEPT !.slot[FirstOf(IdleSlots(r))].job = Head(r.retry), !.retry = Tail(@)],
           p, [k \in 1..Len(p.retry) |-> k])

\* cancel: the jobs of the query end; the workers that ran them are restarted.
PoolCancel(p, q) ==
  [p EXCEPT !.retry = SelectSeq(@, LAMBDA j : j.query # q),
            !.slot = [i \in Slot |-> IF p.slot[i].job.query = q THEN Down ELSE p.slot[i]]]

-----------------------------------------------------------------------------
(* Sessions.                                                                *)

\* The jobs in flight of a session.
Running(p, q) ==
  Cardinality({i \in Slot : p.slot[i].job.query = q}) +
  Cardinality({k \in DOMAIN p.retry : p.retry[k].query = q})

CanSchedule(s) == s.state = "active" /\ ~s.stopped /\ s.pending > 0

\* removeSession: the index of the next turn, which counts from 0, follows the sessions that stay.
RemovedAt(p, index) ==
  [p EXCEPT !.order = RemoveAt(@, index),
            !.next = IF Len(p.order) = 1 THEN 0
                     ELSE IF @ >= index THEN @ - 1
                     ELSE @ % (Len(p.order) - 1)]

Removed(p, q) ==
  IF Contains(p.order, q) THEN RemovedAt(p, CHOOSE k \in DOMAIN p.order : p.order[k] = q) ELSE p

Fulfil(p, q) == Removed([p EXCEPT !.session[q].state = "fulfilled"], q)

\* reject: what still runs is cancelled.
Reject(p, q) ==
  LET gone == [p EXCEPT !.session[q] = [@ EXCEPT !.state = "rejected", !.pending = 0, !.stopped = TRUE]]
  IN  Removed(IF Running(p, q) > 0 THEN PoolCancel(gone, q) ELSE gone, q)

IsDone_Pending(p, q) == p.session[q].pending = 0

\* Everything was taken and everything taken has come back.
IsDone(p, q) == p.session[q].pending = 0 /\ Running(p, q) = 0

\* completeShard, for a job that no longer occupies a slot.
Complete(p, job) ==
  LET q   == job.query
      all == [p EXCEPT !.session[q].got = @ + job.units]
  IN  IF p.session[q].state # "active" THEN p
      ELSE IF IsDone(all, q) THEN Fulfil(all, q) ELSE all

-----------------------------------------------------------------------------
(* The drain of the scheduler.                                              *)

\* selectNextSession: the first from the next turn on that may have a slot, if any.
Candidates(p, a, May(_, _)) ==
  {k \in 0..(Len(p.order) - 1) : May(a, p.order[((a.next + k) % Len(p.order)) + 1])}

TurnAt(p, a, at) ==
  [a EXCEPT !.next = (at + 1) % Len(p.order), !.given[p.order[at + 1]] = @ + 1, !.out = Append(@, p.order[at + 1])]

TurnAmong(p, a, S) == IF S = {} THEN a ELSE TurnAt(p, a, (a.next + FirstOf(S)) % Len(p.order))

Turn(p, a, May(_, _)) == TurnAmong(p, a, Candidates(p, a, May))

Wants(p, a, q) == CanSchedule(p.session[q]) /\ p.session[q].pending > a.given[q]

\* The share of a session, when the idle and the running slots are divided.
FairTarget(p) ==
  LET able  == {q \in ToSet(p.order) : CanSchedule(p.session[q])}
      total == Cardinality(IdleSlots(p)) + FoldSet(LAMBDA q, n : n + Running(p, q), 0, able)
  IN  IF able = {} \/ total < Cardinality(able) THEN 1 ELSE total \div Cardinality(able)

Allocate_Greedy(p) ==
  LET idle == Cardinality(IdleSlots(p))
      none == [next |-> p.next, given |-> [q \in Query |-> 0], out |-> <<>>]
  IN  FoldLeft(LAMBDA a, k : Turn(p, a, LAMBDA b, q : Wants(p, b, q)), none, [k \in 1..idle |-> k])

Allocate_Strict(p) ==
  LET none   == [next |-> p.next, given |-> [q \in Query |-> 0], out |-> <<>>]
      target == FairTarget(p)
  IN  FoldLeft(LAMBDA a, k : Turn(p, a, LAMBDA b, q : Wants(p, b, q) /\ Running(p, q) + b.given[q] < target),
               none, [k \in 1..Cardinality(IdleSlots(p)) |-> k])

FairRound(p, target, a) ==
  Turn(p, a, LAMBDA b, q : Wants(p, b, q) /\ Running(p, q) + b.given[q] < target)

RestRound(p, a) == Turn(p, a, LAMBDA b, q : Wants(p, b, q))

\* allocateLeaseOrder: first up to the fair share, then what is left.
AllocateIdle(p, target, idle) ==
  FoldLeft(LAMBDA a, k : IF Len(a.out) = Len(idle) THEN a ELSE RestRound(p, a),
           FoldLeft(LAMBDA a, k : FairRound(p, target, a),
                    [next |-> p.next, given |-> [q \in Query |-> 0], out |-> <<>>], idle),
           idle)

Allocate(p) == AllocateIdle(p, FairTarget(p), [k \in 1..Cardinality(IdleSlots(p)) |-> k])

\* shardBatchSize: a query with a time budget takes one unit at a time, another divides what
\* it has left by the slots that it is about to get.
BatchSize(p, q, left) ==
  LET pending == p.session[q].pending IN
  IF IsTimed(q) THEN 1 ELSE (pending + left - 1) \div left

\* scheduleOne and dispatch.
Dispatch(p, q, left) ==
  LET units == BatchSize(p, q, left) IN
  IF CanSchedule(p.session[q]) /\ IdleSlots(p) # {}
  THEN [p EXCEPT !.session[q].pending = @ - units,
                 !.slot[FirstOf(IdleSlots(p))].job = [query |-> q, units |-> units, tries |-> 0]]
  ELSE p

\* The slots are leased in the order of the allocation.
Lease(p, out) ==
  FoldLeft(LAMBDA r, k : Dispatch(r, out[k], Cardinality({j \in k..Len(out) : out[j] = out[k]})),
           p, [k \in 1..Len(out) |-> k])

Allocated(p, a) == Lease([p EXCEPT !.next = a.next], a.out)

Drain(p) == IF p.order = <<>> THEN p ELSE Allocated(p, Allocate(p))

\* A handler that ends with the scheduler's drain.
Settle(p) == Become(Drain(p)) /\ missed' = {}

-----------------------------------------------------------------------------
(* Events.                                                                  *)

\* submit and start: a plan without units is answered at once.
Submit(q) ==
  /\ session[q].state = "new"
  /\ IF Units(q) = 0
     THEN Become([Here EXCEPT !.session[q].state = "fulfilled"]) /\ UNCHANGED missed
     ELSE Settle([Here EXCEPT !.session[q].state = "active", !.order = Append(@, q)])
  /\ UNCHANGED faults

\* A worker answers; its memory may be over the limit, and it is restarted.
Answer(i, restart) ==
  LET freed == PoolDrain([Here EXCEPT !.slot[i] = IF restart THEN Down ELSE [@ EXCEPT !.job = NoJob]]) IN
  /\ slot[i].job.query \in Query
  /\ Settle(Complete(freed, slot[i].job))
  /\ IF restart THEN Fault ELSE UNCHANGED faults

\* A worker dies with its job: the pool gives the job to another once.
Crash(i) ==
  LET job  == slot[i].job
      down == [Here EXCEPT !.slot[i] = Down] IN
  /\ slot[i].state = "ready" /\ Fault
  /\ IF job.query \notin Query
     THEN Become(down) /\ missed' = missed \ {i}
     ELSE IF job.tries = 0
     THEN /\ Become([down EXCEPT !.retry = <<[job EXCEPT !.tries = 1]>> \o @])
          /\ missed' = missed \ {i}
     ELSE Settle(Reject(down, job.query))

\* A worker answers with an error.
Refuse(i) ==
  LET job == slot[i].job IN
  /\ job.query \in Query /\ Fault
  /\ Settle(Reject(PoolDrain([Here EXCEPT !.slot[i].job = NoJob]), job.query))

\* A worker is warm: nobody tells the scheduler.
Warm(i) ==
  LET p == PoolDrain([Here EXCEPT !.slot[i].state = "ready"]) IN
  /\ slot[i].state = "down"
  /\ Become(p)
  /\ missed' = missed \cup {i}
  /\ UNCHANGED faults

\* A preload or a request for statistics takes the slot, and leaves it: nor is it told of that.
Occupy(i) ==
  /\ IsIdle(slot[i]) /\ Fault
  /\ slot' = [slot EXCEPT ![i].job = OtherJob]
  /\ missed' = missed \ {i}
  /\ UNCHANGED <<order, next, session, retry>>

Vacate(i) ==
  /\ slot[i].job = OtherJob
  /\ Become(PoolDrain([Here EXCEPT !.slot[i].job = NoJob]))
  /\ missed' = missed \cup {i}
  /\ UNCHANGED faults

\* The deadline passes, or the client cancels.
Expire(q) ==
  /\ session[q].state = "active" /\ Fault
  /\ Settle(Reject(Here, q))

\* The time budget is used up: what runs is waited for, the rest is dropped.
TimeBudget(q) ==
  LET p == [Here EXCEPT !.session[q].stopped = TRUE, !.session[q].pending = 0] IN
  /\ session[q].state = "active" /\ IsTimed(q) /\ ~session[q].stopped
  /\ IF Running(p, q) = 0 THEN Settle(Fulfil(p, q)) ELSE Become(p) /\ UNCHANGED missed
  /\ UNCHANGED faults

Next ==
  \/ \E q \in Query : Submit(q) \/ Expire(q) \/ TimeBudget(q)
  \/ \E i \in Slot : Crash(i) \/ Refuse(i) \/ Warm(i) \/ Occupy(i) \/ Vacate(i)
  \/ \E i \in Slot, restart \in BOOLEAN : Answer(i, restart)

Spec == Init /\ [][Next]_vars

-----------------------------------------------------------------------------
\* A query is answered with every unit of its plan, each one once, whatever workers were lost;
\* only a time budget leaves units out, and never one that was running.
AnswerIsWhole ==
  \A q \in Query :
    /\ session[q].state = "fulfilled" => session[q].stopped \/ session[q].got = Units(q)
    /\ session[q].state \in {"fulfilled", "rejected"} => Running(Here, q) = 0

\* Active sessions share the idle slots first (docs/ARCHITECTURE.md:161): no step gives a
\* session a slot beside another of its own while a session that waits has none.
ShareIsFair ==
  \A q \in Query :
    /\ session'[q].pending < session[q].pending /\ ~session'[q].stopped
    /\ Running(Here', q) > 1
    => \A r \in Query : CanSchedule(session'[r]) => Running(Here', r) > 0

\* No slot that the scheduler has seen idle is idle while a session waits for one.
SeenSlotsAreUsed ==
  (\E q \in Query : CanSchedule(session[q])) => \A i \in Slot : IsIdle(slot[i]) => i \in missed
=================================================================================
