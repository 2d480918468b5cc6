------------------------------ MODULE WorkerPool ------------------------------
(***************************************************************************)
(* A pool of worker threads (src/daemon/worker-pool.ts): jobs wait in one   *)
(* queue, some of them for a certain slot; a slot takes a job when its      *)
(* worker is warm and free.  Workers fail, run over a memory guard or are   *)
(* restarted because their job was cancelled or ran out of time.            *)
(*                                                                         *)
(* The event loop runs one handler at a time, so every handler is one      *)
(* action; terminate() and the restart timer end in handlers of their own.  *)
(* A job that fails is not told from one that succeeds.  Progress, memory   *)
(* figures and statistics are left out.                                     *)
(***************************************************************************)
EXTENDS Naturals, FiniteSets, Sequences, SequencesExt

CONSTANTS
  Job,             \* the calls of run, runOnSlot and runOnSlotIndex
  VaultOf,         \* the vault of a job
  Reach,           \* how a job may be aimed: "any", "id", "index"
  Size,            \* options.size
  MaxQueueSize,    \* options.maxQueueSize
  MaxCrashRetries, \* options.maxCrashRetries
  MaxRestarts,     \* MAX_SLOT_RESTART_ATTEMPTS
  MaxFaults,       \* bounds failures, guards, cancellations and lapses
  MaxId            \* bounds the slots that are ever created

VARIABLES
  slots,     \* the ids of the pool's slots, in order
  slot,      \* the slot with each id
  queue,     \* the waiting jobs
  job,       \* what the pool knows of each call
  last,      \* lastVault
  nextSlot,  \* nextSlotId
  revival,   \* how often a dead pool was recreated: "fresh", "cooling", "due"
  closed,
  faults

vars == <<slots, slot, queue, job, last, nextSlot, revival, closed, faults>>

NoJob == "none"
NoVault == "none"
Id == 1..MaxId

\* Where a call may run: on any slot, on the slot with an id (runOnSlot), on
\* the slot at a position (runOnSlotIndex).
Anywhere == [by |-> "any", n |-> 0]
ById(n) == [by |-> "id", n |-> n]
ByIndex(n) == [by |-> "index", n |-> n]

\* A slot is "running"; restarted, it is "ending" until its worker has ended
\* and "waiting" until the back-off is over, or "retiring" when it is given up.
\* `at` is the position that the back-off timer will write to.
Slot(index, attempts) ==
  [index |-> index, state |-> "running", warming |-> FALSE, ready |-> FALSE,
   attempts |-> attempts, busy |-> NoJob, leased |-> FALSE, at |-> 0]

Gone == [Slot(0, 0) EXCEPT !.state = "gone"]

\* A new slot for each index, the first one with the next id.
Fresh(first) == FoldLeft(LAMBDA s, k : Append(s, first + k - 1), << >>, [k \in 1..Size |-> k])
WithFresh(all, first) ==
  [i \in Id |-> IF i \in first..first + Size - 1 THEN Slot(i - first + 1, 0) ELSE all[i]]

Known(answer) ==
  [answer |-> answer, target |-> Anywhere, crashes |-> 0, late |-> FALSE, cancelled |-> FALSE]

Init ==
  /\ slots = Fresh(1)
  /\ slot = WithFresh([i \in Id |-> Gone], 1)
  /\ queue = << >>
  /\ job = [j \in Job |-> Known("none")]
  /\ last = NoVault
  /\ nextSlot = Size + 1
  /\ revival = "fresh"
  /\ closed = FALSE
  /\ faults = 0

Restarting(s) == s.state # "running"
Occupied(s) == s.busy # NoJob \/ s.leased
IdleReady(s) == s.ready /\ ~Occupied(s) /\ ~Restarting(s)
IsOpen(j) == job[j].answer = "open"
Listed == ToSet(slots)

-----------------------------------------------------------------------------
(* drain: the part of the pool that dispatching reads and writes is a      *)
(* record p with the fields slots, slot, queue, job and last.              *)

Here == [slots |-> slots, slot |-> slot, queue |-> queue, job |-> job, last |-> last]

Become(p) ==
  /\ slots' = p.slots /\ slot' = p.slot
  /\ queue' = p.queue /\ job' = p.job /\ last' = p.last

\* A promise keeps its first answer; what the pool knew of the call is dropped.
Tell(jobs, j) ==
  IF jobs[j].answer = "open" THEN [jobs EXCEPT ![j] = Known("given")] ELSE jobs

Dispatch(p, i, j) ==
  IF p.job[j].late \/ p.job[j].cancelled THEN [p EXCEPT !.job = Tell(@, j)]
  ELSE [p EXCEPT !.slot[i].busy = j]

\* The queued jobs meant for slot i, and those that may run anywhere.
Targeted(p, i) ==
  {n \in DOMAIN p.queue : p.job[p.queue[n]].target \in {ById(i), ByIndex(p.slot[i].index)}}
Untargeted(p) == {n \in DOMAIN p.queue : p.job[p.queue[n]].target = Anywhere}

First(S) == CHOOSE n \in S : \A m \in S : n <= m

VaultInTurn_Sticky(p) ==
  LET Of(n) == VaultOf[p.queue[n]]
      lastAt == {n \in Untargeted(p) : Of(n) = p.last}
  IN  IF lastAt # {} THEN First(lastAt) ELSE First(Untargeted(p))

\* The vaults of the queue take turns, in the order of their first job: after
\* the last one served, then from the front.
VaultInTurn(p) ==
  LET Of(n) == VaultOf[p.queue[n]]
      firsts == {n \in Untargeted(p) : \A m \in Untargeted(p) : Of(m) = Of(n) => n <= m}
      lastAt == {n \in firsts : Of(n) = p.last}
      behind == {n \in firsts : \E m \in lastAt : n > m}
  IN  IF behind # {} THEN First(behind) ELSE First(firsts)

Take(p, i) ==
  LET n == IF Targeted(p, i) # {} THEN First(Targeted(p, i)) ELSE VaultInTurn(p)
      j == p.queue[n]
      left == [p EXCEPT !.queue = RemoveAt(@, n),
                        !.last = IF p.job[j].target = Anywhere THEN VaultOf[j] ELSE @]
  IN  Dispatch(left, i, j)

Serve(p, i) ==
  IF IdleReady(p.slot[i]) /\ Targeted(p, i) \cup Untargeted(p) # {} THEN Take(p, i) ELSE p

Drain(p) == IF closed THEN p ELSE FoldLeft(Serve, p, p.slots)

-----------------------------------------------------------------------------
(* Callers.                                                                *)

\* A pool without slots is built anew when a caller comes after the cool-down.
Revived == slots = << >> /\ revival # "cooling"
Present ==
  IF Revived THEN [Here EXCEPT !.slots = Fresh(nextSlot), !.slot = WithFresh(@, nextSlot)]
  ELSE Here

RecreateIfDue ==
  /\ Revived => nextSlot + Size - 1 <= MaxId
  /\ nextSlot' = IF Revived THEN nextSlot + Size ELSE nextSlot
  /\ revival' = IF Revived THEN "cooling" ELSE revival

StartWarmup(p, ids) ==
  [p EXCEPT !.slot = [i \in Id |-> IF i \in ids /\ ~Restarting(p.slot[i])
                                   THEN [p.slot[i] EXCEPT !.warming = TRUE] ELSE p.slot[i]]]

Warmup ==
  /\ ~closed
  /\ RecreateIfDue
  /\ Become(StartWarmup(Present, ToSet(Present.slots)))
  /\ UNCHANGED <<closed, faults>>

Enqueue(j, target) ==
  LET Aimed(i) == target \in {Anywhere, ById(i), ByIndex(Present.slot[i].index)}
      found == {n \in DOMAIN Present.slots : Aimed(Present.slots[n])}
      ids == {Present.slots[n] : n \in IF target = Anywhere THEN found ELSE {First(found)}}
      warmed == StartWarmup([Present EXCEPT !.job[j].answer = "open", !.job[j].target = target],
                            ids)
      full == /\ Len(queue) >= MaxQueueSize
              /\ ~\E i \in ToSet(Present.slots) : IdleReady(Present.slot[i])
      leased == {i \in ids : /\ target # Anywhere /\ Present.slot[i].leased
                             /\ IdleReady([Present.slot[i] EXCEPT !.leased = FALSE])}
  IN
  /\ job[j].answer = "none"
  /\ IF closed \/ job[j].late \/ job[j].cancelled
     THEN /\ job' = [job EXCEPT ![j] = Known("given")]
          /\ UNCHANGED <<slots, slot, queue, last, nextSlot, revival>>
     ELSE /\ RecreateIfDue
          /\ Become(IF full \/ (target # Anywhere /\ found = {})
                    THEN [Present EXCEPT !.job[j] = Known("given")]
                    ELSE IF leased # {}
                    THEN [warmed EXCEPT !.slot[First(leased)].leased = FALSE,
                                        !.slot[First(leased)].busy = j]
                    ELSE Drain([warmed EXCEPT !.queue = Append(@, j)]))
  /\ UNCHANGED <<closed, faults>>

Targets(j) ==
  {t \in {Anywhere} \cup {ById(i) : i \in Listed} \cup {ByIndex(k) : k \in 1..Size} :
     t.by \in Reach[j]}

LeaseIdleSlot ==
  LET idle == {n \in DOMAIN slots : IdleReady(slot[slots[n]])}
  IN
  /\ ~closed
  /\ idle # {}
  /\ slot' = [slot EXCEPT ![slots[First(idle)]].leased = TRUE]
  /\ UNCHANGED <<slots, queue, job, last, nextSlot, revival, closed, faults>>

ReleaseIdleSlot(i) ==
  /\ slot[i].leased
  /\ slot[i].busy = NoJob
  /\ ~Restarting(slot[i])
  /\ Become(Drain([Here EXCEPT !.slot[i].leased = FALSE]))
  /\ UNCHANGED <<nextSlot, revival, closed, faults>>

\* restartSlot: with attempts left the slot waits for a new worker, otherwise
\* it is removed when its worker has gone and the jobs that wait for it may
\* run anywhere.
Restart(p, i) ==
  LET s == p.slot[i] IN
  IF closed \/ Restarting(s) THEN p
  ELSE IF s.attempts < MaxRestarts
  THEN [p EXCEPT !.slot[i].state = "ending", !.slot[i].leased = FALSE]
  ELSE [p EXCEPT !.slot[i].state = "retiring", !.slot[i].leased = FALSE,
                 !.job = [j \in Job |-> IF j \in ToSet(p.queue) /\ p.job[j].target = ById(i)
                                        THEN [p.job[j] EXCEPT !.target = Anywhere]
                                        ELSE p.job[j]]]

FreedOf_StillBusy(j) ==
  FoldLeft(LAMBDA p, i : IF p.slot[i].busy # j THEN p ELSE Restart(p, i), Here, slots)

\* The slots that work for j are freed and restarted.
FreedOf(j) ==
  FoldLeft(LAMBDA p, i : IF p.slot[i].busy # j THEN p
                         ELSE Restart([p EXCEPT !.slot[i].busy = NoJob], i), Here, slots)

\* The call is answered with a refusal, wherever it is.
Withdraw(j) ==
  LET freed == FreedOf(j)
  IN  Become([freed EXCEPT !.queue = SelectSeq(@, LAMBDA k : k # j), !.job = Tell(@, j)])

Cancel(j) ==
  /\ faults < MaxFaults
  /\ ~job[j].cancelled
  /\ job[j].answer # "given"
  /\ IF IsOpen(j) THEN Withdraw(j)
     ELSE /\ job' = [job EXCEPT ![j].cancelled = TRUE]
          /\ UNCHANGED <<slots, slot, queue, last>>
  /\ faults' = faults + 1
  /\ UNCHANGED <<nextSlot, revival, closed>>

\* The deadline of j passes; the timer that was set for it fires later.
Lapse(j) ==
  /\ faults < MaxFaults
  /\ ~job[j].late
  /\ job[j].answer # "given"
  /\ job' = [job EXCEPT ![j].late = TRUE]
  /\ faults' = faults + 1
  /\ UNCHANGED <<slots, slot, queue, last, nextSlot, revival, closed>>

DeadlineFires(j) ==
  /\ IsOpen(j)
  /\ job[j].late
  /\ Withdraw(j)
  /\ UNCHANGED <<nextSlot, revival, closed, faults>>

Close ==
  /\ ~closed
  /\ closed' = TRUE
  /\ queue' = << >>
  /\ slot' = [i \in Id |-> IF i \in Listed THEN [slot[i] EXCEPT !.busy = NoJob] ELSE slot[i]]
  /\ job' = [j \in Job |->
               IF j \in ToSet(queue) \/ \E i \in Listed : slot[i].busy = j
               THEN Tell(job, j)[j] ELSE job[j]]
  /\ UNCHANGED <<slots, last, nextSlot, revival, faults>>

-----------------------------------------------------------------------------
(* Workers.                                                                *)

\* The warm-up is under way; a worker that is being ended may still answer.
WarmingUp(i) == slot[i].warming /\ ~slot[i].ready /\ slot[i].state \in {"running", "ending", "retiring"}

Warm(i) ==
  /\ WarmingUp(i)
  /\ Become(Drain([Here EXCEPT !.slot[i].ready = TRUE]))
  /\ revival' = "fresh"
  /\ UNCHANGED <<nextSlot, closed, faults>>

\* recordSlotRetirement, when the last slot has gone.
Retired(left) ==
  revival' = IF left = << >> /\ ~closed /\ revival # "fresh" THEN "cooling" ELSE revival

\* The slot is removed, unless it is restarting; the jobs that wait for it are
\* not looked at.
WarmFails(i) ==
  /\ faults < MaxFaults
  /\ WarmingUp(i)
  /\ LET left == IF Restarting(slot[i]) THEN Here
                 ELSE [Here EXCEPT !.slots = SelectSeq(@, LAMBDA k : k # i), !.slot[i] = Gone]
     IN  Become(Drain(left)) /\ Retired(left.slots)
  /\ faults' = faults + 1
  /\ UNCHANGED <<nextSlot, closed>>

\* The worker uses more memory than the guard allows: it is restarted.
GuardTrips(p, i) == faults < MaxFaults /\ Become(Drain(Restart(p, i))) /\ faults' = faults + 1

\* A job is done, or its worker says that it failed.
Reply(i) ==
  LET j == slot[i].busy
      done == [Here EXCEPT !.slot[i].busy = NoJob, !.slot[i].attempts = 0, !.job = Tell(@, j)]
  IN
  /\ j # NoJob
  /\ ~Restarting(slot[i])
  /\ \/ Become(Drain(done)) /\ UNCHANGED faults
     \/ GuardTrips(done, i)
  /\ revival' = "fresh"
  /\ UNCHANGED <<nextSlot, closed>>

\* The worker throws or exits.  Its job goes back to the front of the queue,
\* free of a target that was this slot, unless it was tried too often.
Fail(i) ==
  LET j == slot[i].busy
      again == j # NoJob /\ job[j].crashes < MaxCrashRetries /\ ~job[j].late
      known == IF again
               THEN [job EXCEPT ![j].crashes = @ + 1,
                                ![j].target = IF @ = ById(i) THEN Anywhere ELSE @]
               ELSE IF j # NoJob THEN Tell(job, j) ELSE job
      freed == [Here EXCEPT !.slot[i].busy = NoJob, !.slot[i].leased = FALSE, !.job = known,
                            !.queue = IF again THEN <<j>> \o @ ELSE @]
  IN
  /\ faults < MaxFaults
  /\ ~Restarting(slot[i])
  /\ ~closed
  /\ Become(Restart(freed, i))
  /\ faults' = faults + 1
  /\ UNCHANGED <<nextSlot, revival, closed>>

\* The old worker has ended.  A slot that is to be replaced waits, and what is
\* kept for the timer is its position now.
Ended(i) ==
  /\ slot[i].state \in {"ending", "retiring"}
  /\ IF slot[i].state = "ending" /\ ~closed
     THEN /\ slot' = [slot EXCEPT ![i].state = "waiting",
                                  ![i].at = CHOOSE n \in DOMAIN slots : slots[n] = i]
          /\ UNCHANGED <<slots, revival>>
     ELSE LET left == IF slot[i].state = "ending" THEN slots ELSE SelectSeq(slots, LAMBDA k : k # i)
          IN  slot' = [slot EXCEPT ![i] = Gone] /\ slots' = left /\ Retired(left)
  /\ UNCHANGED <<queue, job, last, nextSlot, closed, faults>>

\* The back-off is over: the new slot goes to the position that was kept, which
\* is another slot's, or none's, when a slot before it was removed meanwhile.
\* (With two slots it is at most the first free position.)
Replace(i) ==
  LET s == slot[i]
      fresh == [Slot(s.index, s.attempts + 1) EXCEPT !.warming = s.warming]
  IN
  /\ s.state = "waiting"
  /\ ~closed
  /\ nextSlot <= MaxId
  /\ slot' = [slot EXCEPT ![i] = Gone, ![nextSlot] = fresh]
  /\ slots' = IF s.at \in DOMAIN slots THEN ReplaceAt(slots, s.at, nextSlot)
              ELSE Append(slots, nextSlot)
  /\ job' = [j \in Job |-> IF j \in ToSet(queue) /\ job[j].target = ById(i)
                           THEN [job[j] EXCEPT !.target = ById(nextSlot)] ELSE job[j]]
  /\ nextSlot' = nextSlot + 1
  /\ UNCHANGED <<queue, last, revival, closed, faults>>

CoolDown ==
  /\ revival = "cooling"
  /\ revival' = "due"
  /\ UNCHANGED <<slots, slot, queue, job, last, nextSlot, closed, faults>>

Next ==
  \/ \E j \in Job : \E target \in Targets(j) : Enqueue(j, target)
  \/ \E j \in Job : Cancel(j) \/ Lapse(j) \/ DeadlineFires(j)
  \/ \E i \in Id :
       \/ ReleaseIdleSlot(i)
       \/ Warm(i)
       \/ WarmFails(i)
       \/ Reply(i)
       \/ Fail(i)
       \/ Ended(i)
       \/ Replace(i)
  \/ LeaseIdleSlot
  \/ Warmup
  \/ CoolDown
  \/ Close

Spec == Init /\ [][Next]_vars

-----------------------------------------------------------------------------

Places(j) ==
  {<<"queue", n>> : n \in {n \in DOMAIN queue : queue[n] = j}}
  \cup {<<"slot", i>> : i \in {i \in Id : slot[i].busy = j}}

\* A call that has no answer is in the queue or with one worker, and in one
\* place only; a call that has one is in none.  Crashes, cancellations,
\* deadlines and restarts meet in every order, and none may lose a call, run it
\* twice at a time or keep a slot busy for a caller that has gone.
EveryCallHasOnePlace ==
  \A j \in Job : IF IsOpen(j) THEN \E x \in Places(j) : Places(j) = {x} ELSE Places(j) = {}

\* The slots to which this step gave a job.
Served == {i \in Id : slot'[i].busy \notin {slot[i].busy, NoJob}}

\* The step gives one slot a queued call that any slot may run.
GivesOne(j) ==
  /\ Cardinality(Served) = 1
  /\ \E i \in Served : slot'[i].busy = j
  /\ j \in ToSet(queue)
  /\ job[j].target = Anywhere

\* Vaults take turns: a call of the vault served last is not given to a worker
\* while another vault has a call waiting that any slot may run.
VaultTakesTurn ==
  \A j \in Job :
    GivesOne(j) /\ VaultOf[j] = last
    => \A n \in DOMAIN queue : job[queue[n]].target = Anywhere => VaultOf[queue[n]] = last
================================================================================
