---------------------------- MODULE EmbedScheduler ----------------------------
(***************************************************************************)
(* The embedding scheduler and the device that it feeds                     *)
(* (src/daemon/embed-scheduler.ts).  Queries for one text share one encode, *)
(* a flight; each caller waits for it with a deadline of its own.  The      *)
(* device runs one job at a time: queries first, then the save, refresh and *)
(* rebuild lanes, profiles taking turns; it falls back to the CPU when the  *)
(* GPU is lost.  Closing waits for the scopes that are open.                *)
(*                                                                         *)
(* What a promise's handlers do is an action of its own.  Vectors, rates    *)
(* and statistics are left out.                                            *)
(***************************************************************************)
EXTENDS Naturals, FiniteSets, Sequences, SequencesExt

CONSTANTS
  Query,     \* the calls that encode a query
  TextOf,    \* the single-flight key of a query
  Bulk,      \* the callers that encode documents, each in a scope of its lane
  LaneOf,    \* the lane of a bulk caller
  ProfileOf, \* the fairness key of a bulk caller
  MaxFlight, \* bounds the flights
  MaxFaults  \* bounds cancellations, lapses and lost devices

VARIABLES
  call,    \* what became of each call
  flight,  \* the flights, in the order they were started
  current, \* querySingleFlights: the flight of each text, or 0
  dev,     \* GpuEmbeddingDevice
  loaded,  \* the model-load barrier has let the first call pass
  stage,   \* "open", "closing" (drain), "draining" (device was idle), "closed"
  faults

vars == <<call, flight, current, dev, loaded, stage, faults>>

Lanes == <<"save", "refresh", "rebuild">>
FlightId == 1..MaxFlight
NoJob == <<"none", 0>>
QueryJob(f) == <<"query", f>>
BulkJob(b) == <<"bulk", b>>

NoFlight == [text |-> "none", first |-> "none", waiters |-> {}, phase |-> "none"]

Init ==
  /\ call = [c \in Query \cup Bulk |-> [state |-> "none", late |-> FALSE, cancelled |-> FALSE]]
  /\ flight = [f \in FlightId |-> NoFlight]
  /\ current = [t \in {TextOf[q] : q \in Query} |-> 0]
  /\ dev = [queries |-> << >>, keys |-> [n \in 1..3 |-> << >>], jobs |-> [n \in 1..3 |-> << >>],
            active |-> NoJob, on |-> "none", gpu |-> "ready", cancelled |-> {},
            lastKey |-> "none", closed |-> FALSE]
  /\ loaded = FALSE
  /\ stage = "open"
  /\ faults = 0

\* A flight has the deadline of the caller that started it.
IsLate(s, job) ==
  s.call[IF job[1] = "query" THEN s.flight[job[2]].first ELSE job[2]].late

\* The promise of a job is settled: its bulk caller goes on, or its flight
\* has an outcome that the flight's own handler will pass on.
Settle(job, calls, flights) ==
  IF job[1] = "bulk"
  THEN [calls |-> [calls EXCEPT ![job[2]].state = "scoped"], flights |-> flights]
  ELSE [calls |-> calls, flights |-> [flights EXCEPT ![job[2]].phase = "landing"]]

-----------------------------------------------------------------------------
(* The device.                                                             *)

Key(job) == ProfileOf[job[2]]

Idle(d) == d.active = NoJob /\ d.queries = << >> /\ \A n \in 1..3 : d.jobs[n] = << >>

AddBulk(d, job) ==
  LET n == CHOOSE n \in 1..3 : Lanes[n] = LaneOf[job[2]]
      known == \E k \in ToSet(d.jobs[n]) : Key(k) = Key(job)
  IN  [d EXCEPT !.jobs[n] = Append(@, job), !.keys[n] = IF known THEN @ ELSE Append(@, Key(job))]

\* takeNextKey and dequeue: the first profile, but not the one served last when
\* there is another one; it goes to the end while it has more jobs.
TakeBulk(d, n) ==
  LET other == {i \in DOMAIN d.keys[n] : d.keys[n][i] # d.lastKey}
      at == IF other = {} THEN 1 ELSE CHOOSE i \in other : \A j \in other : i <= j
      key == d.keys[n][at]
      of == {i \in DOMAIN d.jobs[n] : Key(d.jobs[n][i]) = key}
      first == CHOOSE i \in of : \A j \in of : i <= j
      rest == RemoveAt(d.keys[n], at)
  IN  [d EXCEPT !.active = d.jobs[n][first],
                !.jobs[n] = RemoveAt(@, first),
                !.keys[n] = IF Cardinality(of) > 1 THEN Append(rest, key) ELSE rest,
                !.lastKey = key]

SelectNext(d) ==
  LET lanes == {n \in 1..3 : d.jobs[n] # << >>}
  IN  IF d.queries # << >>
      THEN [d EXCEPT !.active = Head(d.queries), !.queries = Tail(@)]
      ELSE TakeBulk(d, CHOOSE n \in lanes : \A m \in lanes : n <= m)

\* The state that draining the device's queue ends in: jobs that were cancelled
\* or are too late are refused until one starts or none is left.
RECURSIVE Drained(_)
Drained(s) ==
  LET d == s.dev
      next == SelectNext(d)
      job == next.active
  IN  IF d.closed \/ d.active # NoJob \/ Idle(d) THEN s
      ELSE IF job \in d.cancelled \/ IsLate(s, job)
      THEN LET refused == Settle(job, s.call, s.flight)
           IN  Drained([dev |-> [next EXCEPT !.active = NoJob],
                        call |-> refused.calls, flight |-> refused.flights])
      ELSE [s EXCEPT !.dev = [next EXCEPT !.on = IF d.gpu = "lost" THEN "cpu" ELSE "gpu"]]

Become(s) == call' = s.call /\ flight' = s.flight /\ dev' = s.dev

State == [call |-> call, flight |-> flight, dev |-> dev]

\* enqueue: a closed device refuses, as it does with a job that is cancelled.
Enqueue(s, job) ==
  IF s.dev.closed /\ job[1] = "bulk" THEN [s EXCEPT !.call[job[2]].state = "refused"]
  ELSE IF s.dev.closed \/ job \in s.dev.cancelled
  THEN LET refused == Settle(job, s.call, s.flight)
       IN  [s EXCEPT !.call = refused.calls, !.flight = refused.flights]
  ELSE Drained([s EXCEPT !.dev = IF job[1] = "query" THEN [@ EXCEPT !.queries = Append(@, job)]
                                 ELSE AddBulk(@, job)])

\* The worker's answer: the job ends, well or not.
Answer ==
  /\ dev.active # NoJob
  /\ dev.on \in {"gpu", "cpu"}
  /\ LET told == Settle(dev.active, call, flight)
         gpu == IF dev.on = "gpu" THEN "ready" ELSE dev.gpu
     IN  Become([call |-> told.calls, flight |-> told.flights,
                 dev |-> [dev EXCEPT !.on = "done", !.gpu = gpu]])
  /\ UNCHANGED <<current, loaded, stage, faults>>

\* The GPU is not available: the job moves to the CPU, and the jobs after it
\* start there until the retry time.
LoseGpu ==
  /\ faults < MaxFaults
  /\ dev.on = "gpu"
  /\ dev' = [dev EXCEPT !.on = "cpu", !.gpu = "lost"]
  /\ faults' = faults + 1
  /\ UNCHANGED <<call, flight, current, loaded, stage>>

RetryDue ==
  /\ dev.gpu = "lost"
  /\ dev' = [dev EXCEPT !.gpu = "ready"]
  /\ UNCHANGED <<call, flight, current, loaded, stage, faults>>

\* The handler after the job's promise: the device takes the next job.
MoveOn ==
  /\ dev.on = "done"
  /\ Become(Drained([State EXCEPT !.dev.active = NoJob, !.dev.on = "none"]))
  /\ UNCHANGED <<current, loaded, stage, faults>>

\* cancel of the device: the active job's worker is told, and answers.
CancelJob(s, job) == Drained([s EXCEPT !.dev.cancelled = @ \cup {job}])

\* cancelQueuedWork of the device.
CancelQueued(s) ==
  LET d == s.dev
      queued == ToSet(d.queries) \cup UNION {ToSet(d.jobs[n]) : n \in 1..3}
      told == [c \in DOMAIN s.call |->
                 IF BulkJob(c) \in queued THEN [s.call[c] EXCEPT !.state = "scoped"] ELSE s.call[c]]
      landing == [f \in FlightId |-> IF QueryJob(f) \in queued
                                     THEN [s.flight[f] EXCEPT !.phase = "landing"] ELSE s.flight[f]]
  IN  [call |-> told, flight |-> landing,
       dev |-> [d EXCEPT !.queries = << >>, !.keys = [n \in 1..3 |-> << >>],
                         !.jobs = [n \in 1..3 |-> << >>],
                         !.cancelled = @ \cup queued \cup ({d.active} \ {NoJob})]]

-----------------------------------------------------------------------------
(* The scheduler.                                                          *)

Scoped(b) == call[b].state \in {"scoped", "asked", "queued"}
Scopes == {b \in Bulk : Scoped(b)}

OpenScope(b) ==
  /\ call[b].state = "none"
  /\ stage = "open"
  /\ call' = [call EXCEPT ![b].state = "scoped"]
  /\ UNCHANGED <<flight, current, dev, loaded, stage, faults>>

EndScope(b) ==
  /\ call[b].state \in {"scoped", "refused"}
  /\ call' = [call EXCEPT ![b].state = "ended"]
  /\ UNCHANGED <<flight, current, dev, loaded, stage, faults>>

\* encode waits for the barrier before it looks at anything.
Ask(c) ==
  /\ call[c].state = IF c \in Bulk THEN "scoped" ELSE "none"
  /\ call' = [call EXCEPT ![c].state = "asked"]
  /\ UNCHANGED <<flight, current, dev, loaded, stage, faults>>

PassBarrier ==
  /\ ~loaded
  /\ \E c \in Query \cup Bulk : call[c].state = "asked"
  /\ loaded' = TRUE
  /\ UNCHANGED <<call, flight, current, dev, stage, faults>>

\* assertCanAdmit.
Shut(lane) ==
  \/ stage = "closed"
  \/ stage # "open" /\ ~\E b \in Scopes : LaneOf[b] = lane

\* What admission says to c before it looks for a flight or a lane.
Refusal(c, lane) ==
  IF Shut(lane) THEN "refused"
  ELSE IF call[c].late \/ call[c].cancelled THEN "turned away"
  ELSE "none"

Refuse(c) ==
  LET answer == Refusal(c, IF c \in Bulk THEN LaneOf[c] ELSE "query")
      state == IF c \in Query THEN "answered"
               ELSE IF answer = "refused" THEN "refused" ELSE "scoped"
  IN
  /\ loaded
  /\ call[c].state = "asked"
  /\ answer # "none"
  /\ call' = [call EXCEPT ![c].state = state]
  /\ UNCHANGED <<flight, current, dev, loaded, stage, faults>>

Attach_Unsettled(s, q, f) ==
  [s EXCEPT !.call[q].state = "waiting", !.flight[f].waiters = @ \cup {q}]

\* A flight that has settled answers at once: its waiters are about to be cleared.
Attach(s, q, f) ==
  IF s.flight[f].phase = "settled" THEN [s EXCEPT !.call[q].state = "answered"]
  ELSE [s EXCEPT !.call[q].state = "waiting", !.flight[f].waiters = @ \cup {q}]

\* The first caller of a text starts a flight, with its own deadline.
EncodeQuery(q) ==
  LET text == TextOf[q]
      free == {f \in FlightId : flight[f].phase = "none"}
      f == IF current[text] # 0 THEN current[text] ELSE CHOOSE f \in free : \A e \in free : f <= e
      new == [text |-> text, first |-> q, waiters |-> {}, phase |-> "flying"]
      flown == IF current[text] # 0 THEN State
               ELSE Enqueue([State EXCEPT !.flight[f] = new], QueryJob(f))
  IN
  /\ loaded
  /\ call[q].state = "asked"
  /\ Refusal(q, "query") = "none"
  /\ current[text] = 0 => free # {}
  /\ current' = [current EXCEPT ![text] = f]
  /\ Become(Attach(flown, q, f))
  /\ UNCHANGED <<loaded, stage, faults>>

EncodeBulk(b) ==
  /\ loaded
  /\ call[b].state = "asked"
  /\ Refusal(b, LaneOf[b]) = "none"
  /\ Become(Enqueue([State EXCEPT !.call[b].state = "queued"], BulkJob(b)))
  /\ UNCHANGED <<current, loaded, stage, faults>>

Answered(calls, waiters) ==
  [c \in DOMAIN calls |-> IF c \in waiters THEN [calls[c] EXCEPT !.state = "answered"] ELSE calls[c]]

\* The flight's own handler tells its waiters.
Land(f) ==
  /\ flight[f].phase = "landing"
  /\ flight' = [flight EXCEPT ![f].phase = "settled"]
  /\ call' = Answered(call, flight[f].waiters)
  /\ UNCHANGED <<current, dev, loaded, stage, faults>>

Forget_AnyFlight(f) ==
  /\ flight[f].phase = "settled"
  /\ flight' = [flight EXCEPT ![f] = [NoFlight EXCEPT !.phase = "gone"]]
  /\ current' = [current EXCEPT ![flight[f].text] = 0]
  /\ dev' = [dev EXCEPT !.cancelled = @ \ {QueryJob(f)}]
  /\ UNCHANGED <<call, loaded, stage, faults>>

\* The next handler forgets the flight, and its text unless another flight has it.
Forget(f) ==
  /\ flight[f].phase = "settled"
  /\ flight' = [flight EXCEPT ![f] = [NoFlight EXCEPT !.phase = "gone"]]
  /\ current' = [current EXCEPT ![flight[f].text] = IF @ = f THEN 0 ELSE @]
  /\ dev' = [dev EXCEPT !.cancelled = @ \ {QueryJob(f)}]
  /\ UNCHANGED <<call, loaded, stage, faults>>

\* The flights among fs that nobody waits for are cancelled and forgotten.
Abandon(s, fs) ==
  LET empty == {f \in fs : s.flight[f].waiters = {}}
  IN  FoldSet(LAMBDA f, t : CancelJob(t, QueryJob(f)), s, empty)

DropFlights(s, fs) ==
  current' = [t \in DOMAIN current |->
                IF current[t] \in fs /\ s.flight[current[t]].waiters = {} THEN 0 ELSE current[t]]

Flown == {current[t] : t \in DOMAIN current} \ {0}

Cancel(c) ==
  LET marked == [State EXCEPT !.call[c].cancelled = TRUE]
      at == {f \in Flown : c \in flight[f].waiters}
      left == [marked EXCEPT !.flight = [f \in FlightId |-> IF f \in Flown
                                           THEN [flight[f] EXCEPT !.waiters = @ \ {c}] ELSE flight[f]],
                             !.call[c].state = IF at # {} THEN "answered" ELSE @]
      abandoned == Abandon(left, Flown)
  IN
  /\ faults < MaxFaults
  /\ ~call[c].cancelled
  /\ call[c].state \notin {"answered", "ended"}
  /\ Become(IF c \in Bulk THEN CancelJob(abandoned, BulkJob(c)) ELSE Drained(abandoned))
  /\ DropFlights(left, Flown)
  /\ faults' = faults + 1
  /\ UNCHANGED <<loaded, stage>>

\* A deadline passes; the timer of a waiter fires later.
Lapse(c) ==
  /\ faults < MaxFaults
  /\ ~call[c].late
  /\ \/ call[c].state \notin {"answered", "ended"}
     \/ \E f \in FlightId : flight[f].first = c
  /\ call' = [call EXCEPT ![c].late = TRUE]
  /\ faults' = faults + 1
  /\ UNCHANGED <<flight, current, dev, loaded, stage>>

WaiterExpires(q, f) ==
  LET left == [State EXCEPT !.flight[f].waiters = @ \ {q}, !.call[q].state = "answered"]
  IN
  /\ call[q].late
  /\ call[q].state = "waiting"
  /\ q \in flight[f].waiters
  /\ Become(Abandon(left, {f}))
  /\ DropFlights(left, {f})
  /\ UNCHANGED <<loaded, stage, faults>>

\* drain with the option cancel, of a daemon that is replaced.
DrainCancelling ==
  LET waiters == UNION {flight[f].waiters : f \in Flown}
      quiet == CancelQueued(State)
      cleared == [f \in FlightId |-> IF f \in Flown
                                     THEN [quiet.flight[f] EXCEPT !.waiters = {}] ELSE quiet.flight[f]]
  IN
  /\ faults < MaxFaults
  /\ stage \in {"open", "closing", "draining"}
  /\ Become([quiet EXCEPT !.flight = cleared, !.call = Answered(@, waiters),
                          !.dev.cancelled = @ \cup {QueryJob(f) : f \in Flown}])
  /\ current' = [t \in DOMAIN current |-> 0]
  /\ faults' = faults + 1
  /\ UNCHANGED <<loaded, stage>>

BeginClose ==
  /\ stage = "open"
  /\ stage' = "closing"
  /\ UNCHANGED <<call, flight, current, dev, loaded, faults>>

DeviceWasIdle ==
  /\ stage = "closing"
  /\ Idle(dev)
  /\ stage' = "draining"
  /\ UNCHANGED <<call, flight, current, dev, loaded, faults>>

IsDrained_DeviceOnly == Idle(dev)

IsDrained == Idle(dev) /\ Scopes = {}

\* Nothing runs and no scope is open: the device closes, the model is unloaded.
CloseDevice ==
  /\ stage = "draining"
  /\ IsDrained
  /\ stage' = "unloading"
  /\ dev' = [dev EXCEPT !.closed = TRUE]
  /\ UNCHANGED <<call, flight, current, loaded, faults>>

Closed ==
  /\ stage = "unloading"
  /\ stage' = "closed"
  /\ UNCHANGED <<call, flight, current, dev, loaded, faults>>

Next ==
  \/ \E b \in Bulk : OpenScope(b) \/ EndScope(b) \/ EncodeBulk(b)
  \/ \E q \in Query : EncodeQuery(q) \/ \E f \in FlightId : WaiterExpires(q, f)
  \/ \E c \in Query \cup Bulk : Ask(c) \/ Refuse(c) \/ Cancel(c) \/ Lapse(c)
  \/ \E f \in FlightId : Land(f) \/ Forget(f)
  \/ PassBarrier \/ Answer \/ LoseGpu \/ RetryDue \/ MoveOn
  \/ DrainCancelling \/ BeginClose \/ DeviceWasIdle \/ CloseDevice \/ Closed

Spec == Init /\ [][Next]_vars

-----------------------------------------------------------------------------

\* A caller that waits is known to a flight that has yet to tell its waiters:
\* a flight that lands, is cancelled or is replaced by another one of its text
\* leaves nobody behind.
NobodyLeftBehind ==
  \A q \in Query :
    call[q].state = "waiting" =>
      \E f \in FlightId : q \in flight[f].waiters /\ flight[f].phase \in {"flying", "landing"}

\* Callers of one text share the encode: no two flights with waiters have the
\* same text, however flights are abandoned and forgotten around them.
TextIsEncodedOnce ==
  \A e, f \in FlightId :
    /\ e # f /\ flight[e].text = flight[f].text
    /\ {flight[e].phase, flight[f].phase} \subseteq {"flying", "landing"}
    => {} \in {flight[e].waiters, flight[f].waiters}

\* A caller inside its lane's scope is never told that the scheduler is closed:
\* closing waits for the scope, also between two of its encodes.
ScopeIsServed == \A b \in Bulk : call[b].state # "refused"
================================================================================
