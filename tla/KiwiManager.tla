------------------------------ MODULE KiwiManager ------------------------------
(***************************************************************************)
(* The Korean analyser of a thread (core/kiwi/manager.ts): one handle is    *)
(* active at a time, callers lease it, a load that is under way is shared,  *)
(* a handle that was replaced is disposed with its last lease and one that  *)
(* nobody leases is evicted by an idle timer.  Handles bear the number of   *)
(* the load that made them; disposing takes no time.                        *)
(***************************************************************************)
EXTENDS Naturals, FiniteSets

CONSTANTS
  Caller,
  Env,         \* data directories that analysers are loaded from
  MaxLoad,     \* bound on loads
  MaxCalls     \* bound on calls

VARIABLES
  active,      \* the active handle, 0 without one
  pending,     \* the load that is joined, 0 without one
  owner,       \* the load that may install, 0 for none
  load,        \* load -> [env, installs, st, leases, closed, disposed]
  timer,       \* the handle the idle timer was armed for, 0 when it is off
  closed,      \* is the manager closed?
  op,          \* caller -> [pc, env, installs, at]
  count        \* [loads, calls] so far

vars == <<active, pending, owner, load, timer, closed, op, count>>

Loads == 1 .. MaxLoad
NoLoad == [env |-> "none", installs |-> FALSE, st |-> "none", leases |-> 0,
           closed |-> FALSE, disposed |-> FALSE]
Idle == [pc |-> "idle", env |-> "none", installs |-> FALSE, at |-> 0]

Init ==
  /\ active = 0 /\ pending = 0 /\ owner = 0 /\ timer = 0
  /\ load = [h \in Loads |-> NoLoad]
  /\ closed = FALSE
  /\ op = [c \in Caller |-> Idle]
  /\ count = [loads |-> 0, calls |-> 0]

Serves(h, e) == h # 0 /\ ~load[h].closed /\ load[h].env = e
Disposed(ls, h) == [ls EXCEPT ![h].closed = TRUE, ![h].disposed = TRUE]

\* A load is shared by those who ask for its environment and for no more than it does;
\* others wait for it to settle and look again.
Shared(e, installs) == load[pending].env = e /\ (load[pending].installs \/ ~installs)

\* The active handle is leased, its idle timer off meanwhile; else the load under way is
\* waited for; else a load is started.
EnsureLoaded(c, e, installs) ==
  LET Goto(pc, h) == op' = [op EXCEPT ![c] = [pc |-> pc, env |-> e, installs |-> installs, at |-> h]]
      h == count.loads + 1
  IN  /\ IF Serves(active, e)
         THEN /\ timer' = 0
              /\ load' = [load EXCEPT ![active].leases = @ + 1]
              /\ Goto("leased", active)
              /\ UNCHANGED <<pending, owner>>
         ELSE IF pending # 0
         THEN /\ Goto(IF Shared(e, installs) THEN "wait" ELSE "settle", pending)
              /\ UNCHANGED <<pending, owner, load, timer>>
         ELSE /\ h \in Loads
              /\ timer' = 0
              /\ pending' = h /\ owner' = h
              /\ load' = [load EXCEPT ![h] = [NoLoad EXCEPT !.env = e, !.installs = installs,
                                                            !.st = "loading"]]
              /\ Goto("wait", h)
      /\ count' = [loads |-> IF pending' # 0 /\ pending' # pending THEN h ELSE count.loads,
                   calls |-> IF op[c].pc = "idle" THEN count.calls + 1 ELSE count.calls]
      /\ UNCHANGED <<active, closed>>

\* A caller asks for a lease and will have a load install what is missing, or not.
Acquire(c, e, installs) ==
  /\ op[c].pc = "idle" /\ count.calls < MaxCalls /\ ~closed
  /\ EnsureLoaded(c, e, installs)

\* The load it only waited for has settled.  Nobody asks again whether the manager is closed.
LookAgain(c) == op[c].pc = "ensure" /\ EnsureLoaded(c, op[c].env, op[c].installs)

Settled(h) ==
  /\ pending' = IF pending = h THEN 0 ELSE pending
  /\ owner' = IF owner = h /\ pending = h THEN 0 ELSE owner

\* Those who wait for a load that failed go on without an analyser, those who only
\* waited for it to end look again.
Failed(h) ==
  [c \in Caller |-> IF op[c].at # h THEN op[c]
                    ELSE IF op[c].pc = "wait" THEN Idle
                    ELSE IF op[c].pc = "settle" THEN [op[c] EXCEPT !.pc = "ensure", !.at = 0]
                    ELSE op[c]]

LoadFails(h) ==
  /\ load[h].st = "loading"
  /\ load' = [load EXCEPT ![h].st = "failed"]
  /\ op' = Failed(h)
  /\ Settled(h)
  /\ UNCHANGED <<active, timer, closed, count>>

Replaced_Leased(ls, h) == IF active = 0 THEN ls ELSE Disposed(ls, active)

\* The handle that is replaced is disposed, or marked for it while it is leased.
Replaced(ls, h) ==
  IF active = 0 \/ active = h THEN ls
  ELSE IF ls[active].disposed THEN ls
  ELSE IF ls[active].leases > 0 THEN [ls EXCEPT ![active].closed = TRUE]
  ELSE Disposed(ls, active)

LoadDone_Closed(h) ==
  /\ load[h].st = "loading"
  /\ LET waiting == {c \in Caller : op[c].pc = "wait" /\ op[c].at = h}
     IN  /\ load' = [Replaced(load, h) EXCEPT ![h].st = "loaded", ![h].leases = Cardinality(waiting)]
         /\ active' = h
         /\ timer' = IF waiting = {} THEN timer ELSE 0
         /\ op' = [c \in Caller |->
              IF c \in waiting THEN [op[c] EXCEPT !.pc = "leased"] ELSE Failed(h)[c]]
  /\ Settled(h)
  /\ UNCHANGED <<closed, count>>

\* A load has ended well: its handle is installed and leased by all who wait for it; it
\* is disposed when the manager was closed meanwhile.
LoadDone(h) ==
  /\ load[h].st = "loading"
  /\ LET waiting == {c \in Caller : op[c].pc = "wait" /\ op[c].at = h}
     IN  IF owner # h \/ closed
         THEN /\ load' = [Disposed(load, h) EXCEPT ![h].st = "failed"]
              /\ op' = Failed(h)
              /\ UNCHANGED <<active, timer>>
         ELSE /\ load' = [Replaced(load, h) EXCEPT ![h].st = "loaded",
                                                   ![h].leases = Cardinality(waiting)]
              /\ active' = h
              /\ timer' = IF waiting = {} THEN timer ELSE 0
              /\ op' = [c \in Caller |->
                   IF c \in waiting THEN [op[c] EXCEPT !.pc = "leased"] ELSE Failed(h)[c]]
  /\ Settled(h)
  /\ UNCHANGED <<closed, count>>

Release_Forgets(c) ==
  LET h == op[c].at
  IN  /\ op[c].pc = "leased"
      /\ op' = [op EXCEPT ![c] = Idle]
      /\ load' = [load EXCEPT ![h].leases = @ - 1]
      /\ timer' = IF load[h].leases = 1 /\ active = h THEN h ELSE timer
      /\ UNCHANGED <<active, pending, owner, closed, count>>

\* With its last lease a handle that was replaced is disposed, the active one is timed.
Release(c) ==
  LET h == op[c].at
      freed == [load EXCEPT ![h].leases = @ - 1]
  IN  /\ op[c].pc = "leased"
      /\ op' = [op EXCEPT ![c] = Idle]
      /\ IF freed[h].leases > 0 THEN load' = freed /\ UNCHANGED <<timer, active>>
         ELSE IF load[h].closed \/ active # h
              THEN /\ load' = Disposed(freed, h)
                   /\ active' = IF active = h THEN 0 ELSE active
                   /\ UNCHANGED timer
              ELSE load' = freed /\ timer' = h /\ UNCHANGED active
      /\ UNCHANGED <<pending, owner, closed, count>>

\* The idle timer: it looks whether the handle is still the active one and unleased.
Evict ==
  /\ timer # 0
  /\ timer' = 0
  /\ IF load[timer].leases > 0 \/ active # timer \/ load[timer].closed
     THEN UNCHANGED <<load, active>>
     ELSE load' = Disposed(load, timer) /\ active' = 0
  /\ UNCHANGED <<pending, owner, closed, op, count>>

\* The manager is closed: the active handle is disposed, leased or not, and a load that
\* is under way is disowned.
Close ==
  /\ ~closed
  /\ closed' = TRUE /\ timer' = 0
  /\ pending' = 0
  /\ owner' = IF pending # 0 /\ owner = pending THEN 0 ELSE owner
  /\ load' = IF active = 0 THEN load ELSE Disposed(load, active)
  /\ active' = 0
  /\ UNCHANGED <<op, count>>

Next ==
  \/ \E c \in Caller : LookAgain(c) \/ Release(c)
  \/ \E c \in Caller, e \in Env, installs \in BOOLEAN : Acquire(c, e, installs)
  \/ \E h \in Loads : LoadDone(h) \/ LoadFails(h)
  \/ Evict \/ Close

Spec == Init /\ [][Next]_vars

---------------------------------------------------------------------------
Leases(h) == Cardinality({c \in Caller : op[c].pc = "leased" /\ op[c].at = h})

\* An analyser that somebody works with was not disposed of, unless the whole manager
\* was closed meanwhile.
LeasedIsLive ==
  \A c \in Caller : op[c].pc = "leased" => closed \/ ~load[op[c].at].disposed

\* No analyser stays in memory that nobody can reach: it is the active one or somebody
\* works with it; after the manager was closed none is active.
NoneIsLost ==
  /\ closed => active = 0
  /\ \A h \in Loads :
       /\ load[h].st = "loaded" /\ ~load[h].disposed => active = h \/ Leases(h) > 0
       /\ load[h].st = "loaded" => load[h].leases = Leases(h)

\* An active analyser that nobody works with will be evicted: its timer runs, or the
\* timer was stopped for a later load that is under way or has failed.
IdleIsEvicted ==
  active # 0 /\ load[active].leases = 0 =>
    timer = active \/ \E h \in Loads : h > active /\ load[h].st \in {"loading", "failed"}

Leased == LeasedIsLive /\ NoneIsLost /\ IdleIsEvicted
================================================================================
