------------------------------ MODULE ModelSession ------------------------------
(***************************************************************************)
(* The resident embedding model of a worker (daemon/model-session/          *)
(* lifecycle.ts) and the attempts that load it (core/lifecycle/             *)
(* conditional-commit.ts).  Calls share a load: each waits with a deadline  *)
(* of its own, and the load is aborted when the last one leaves.  A session *)
(* that a load produces is installed only for the attempt that its owner    *)
(* still points to; an idle timer unloads it.                               *)
(*                                                                         *)
(* The promotion of a CPU session to the GPU is left out: the worker always *)
(* suppresses it.  A session bears the number of the attempt that made it.  *)
(***************************************************************************)
EXTENDS Naturals, FiniteSets

CONSTANTS
  Caller,
  Policies,    \* device policies that are asked for: "auto", "gpu", "cpu"
  MaxAttempt,  \* bound on load attempts
  MaxCalls     \* bound on calls

VARIABLES
  session,     \* the resident session, 0 without one
  current,     \* the load attempt that new calls join, 0 without one
  owner,       \* the attempt that may install, 0 for none
  attempt,     \* attempt -> its state
  open,        \* sessions that are loaded and not closed
  op,          \* caller -> the state of its call
  timer,       \* is the idle timer armed?
  unloading,   \* is an unload waiting for an attempt to settle?
  env          \* [gpuOut, calls, made]: GPU marked unavailable, calls and attempts so far

vars == <<session, current, owner, attempt, open, op, timer, unloading, env>>

Attempts == 1 .. MaxAttempt
Done == [pc |-> "done", policy |-> "none", at |-> 0, again |-> FALSE]
NoAttempt == [st |-> "none", requested |-> "none", device |-> "none", policy |-> "none",
              aborted |-> FALSE, waiters |-> {}]

Init ==
  /\ session = 0 /\ current = 0 /\ owner = 0
  /\ attempt = [a \in Attempts |-> NoAttempt]
  /\ open = {}
  /\ op = [c \in Caller |-> Done]
  /\ timer = FALSE /\ unloading = FALSE
  /\ env = [gpuOut |-> FALSE, calls |-> 0, made |-> 0]

Active(c) == op[c].pc # "done"
Admitted(s, policy) == policy \in {"gpu", "cpu"} => attempt[s].device = policy

GotoOp(c, pc) == op' = [op EXCEPT ![c].pc = pc]

\* A call ends: the idle timer starts again when a session is resident.
EndCall(c) ==
  /\ op' = [op EXCEPT ![c] = Done]
  /\ timer' = IF session # 0 THEN TRUE ELSE timer

\* A call starts.  Calls with different policies at once are refused.
Begin(c, policy) ==
  /\ ~Active(c) /\ env.calls < MaxCalls
  /\ \A d \in Caller : Active(d) => op[d].policy = policy
  /\ op' = [op EXCEPT ![c] = [pc |-> "ensure", policy |-> policy, at |-> 0, again |-> FALSE]]
  /\ env' = [env EXCEPT !.calls = @ + 1]
  /\ UNCHANGED <<session, current, owner, attempt, open, timer, unloading>>

\* The resident session is closed and forgotten.
Retire(s) ==
  /\ session' = IF session = s THEN 0 ELSE session
  /\ open' = open \ {s}

\* A new attempt picks its device: what the policy demands, and under "auto" the GPU
\* unless it is marked unavailable or has too little memory free.
PickLoadDevice(policy) ==
  CASE policy = "cpu" -> {"cpu"}
    [] policy = "gpu" -> {"gpu"}
    [] OTHER -> IF env.gpuOut THEN {"cpu"} ELSE {"gpu", "cpu"}

StartAttempt(c) ==
  LET a == env.made + 1
  IN  /\ a \in Attempts
      /\ \E device \in PickLoadDevice(op[c].policy) :
           /\ attempt' = [attempt EXCEPT ![a] =
                [NoAttempt EXCEPT !.st = "loading", !.requested = device,
                                  !.policy = op[c].policy, !.waiters = {c}]]
           /\ env' = [env EXCEPT !.made = a,
                                 !.gpuOut = @ \/ (op[c].policy = "auto" /\ device = "cpu")]
      /\ owner' = a /\ current' = a
      /\ op' = [op EXCEPT ![c].pc = "wait", ![c].at = a]

\* A load that is under way is joined, one that was aborted is waited for.
Join(c) ==
  IF current = 0 THEN StartAttempt(c)
  ELSE /\ UNCHANGED <<current, owner, env>>
       /\ IF attempt[current].aborted
          THEN op' = [op EXCEPT ![c].pc = "settle", ![c].at = current] /\ UNCHANGED attempt
          ELSE /\ op' = [op EXCEPT ![c].pc = "wait", ![c].at = current]
               /\ attempt' = [attempt EXCEPT ![current].waiters = @ \cup {c}]

\* A resident session is used when the policy admits it and retired otherwise; closing
\* it lets others run before the call goes on at `next`.
UseResident(c, next) ==
  /\ session # 0
  /\ timer' = FALSE
  /\ IF Admitted(session, op[c].policy)
     THEN op' = [op EXCEPT ![c].pc = "run", ![c].at = session] /\ UNCHANGED <<session, open>>
     ELSE GotoOp(c, next) /\ Retire(session)
  /\ UNCHANGED <<current, owner, attempt, env>>

\* ensureSession: the resident session, else the load under way, else a new load; after
\* a wait the resident session is looked at once more.
EnsureSession(c) ==
  /\ \/ op[c].pc = "ensure" /\ UseResident(c, "join")
     \/ op[c].pc = "ensure" /\ session = 0 /\ Join(c) /\ UNCHANGED <<session, open, timer>>
     \/ op[c].pc = "join" /\ Join(c) /\ UNCHANGED <<session, open, timer>>
     \/ op[c].pc = "again" /\ UseResident(c, "start")
     \/ op[c].pc = "again" /\ session = 0 /\ StartAttempt(c) /\ UNCHANGED <<session, open, timer>>
     \/ op[c].pc = "start" /\ StartAttempt(c) /\ UNCHANGED <<session, open, timer>>
  /\ UNCHANGED unloading

\* The provider has loaded: what was asked for, or the CPU in place of the GPU.
Load(a, device) ==
  /\ attempt[a].st = "loading" /\ ~attempt[a].aborted
  /\ device = attempt[a].requested \/ device = "cpu"
  /\ attempt[a].policy = "gpu" => device = "gpu"
  /\ attempt' = [attempt EXCEPT ![a].st = "loaded", ![a].device = device]
  /\ open' = open \cup {a}
  /\ env' = [env EXCEPT !.gpuOut =
       IF attempt[a].requested # "gpu" THEN @ ELSE device # "gpu" /\ attempt[a].policy = "auto"]
  /\ UNCHANGED <<session, current, owner, op, timer, unloading>>

\* A failing GPU load falls back to the CPU under "auto".
FallBack(a) ==
  /\ attempt[a].st = "loading" /\ ~attempt[a].aborted
  /\ attempt[a].requested = "gpu" /\ attempt[a].policy = "auto"
  /\ attempt' = [attempt EXCEPT ![a].requested = "cpu"]
  /\ env' = [env EXCEPT !.gpuOut = TRUE]
  /\ UNCHANGED <<session, current, owner, open, op, timer, unloading>>

MayInstall_Superseded(a) == ~attempt[a].aborted

\* A session may be installed: the attempt was not aborted and none replaced it.
MayInstall(a) == ~attempt[a].aborted /\ owner = a

\* What those who wait for an attempt do once it has settled.
Told(a, ok) ==
  [c \in Caller |->
     IF op[c].at = a /\ op[c].pc = "wait"
     THEN IF ok THEN [op[c] EXCEPT !.pc = "got"] ELSE [op[c] EXCEPT !.pc = "failed"]
     ELSE IF op[c].at = a /\ op[c].pc = "settle" THEN [op[c] EXCEPT !.pc = "again"]
     ELSE op[c]]

\* The attempt settles: its session is installed or closed, its waiters are told, and
\* its owner forgets it.
Settle(a) ==
  LET ok == attempt[a].st = "loaded" /\ MayInstall(a)
  IN  /\ attempt[a].st \in {"loading", "loaded"}
      /\ attempt' = [attempt EXCEPT ![a] =
           [NoAttempt EXCEPT !.st = "settled", !.device = attempt[a].device]]
      /\ session' = IF ok THEN a ELSE session
      /\ open' = IF ok THEN open ELSE open \ {a}
      /\ op' = Told(a, ok)
      /\ current' = IF current = a THEN 0 ELSE current
      /\ owner' = IF current = a /\ owner = a THEN 0 ELSE owner
      /\ UNCHANGED <<timer, unloading, env>>

WithoutWaiter_LoadsOn(a, c) == [attempt[a] EXCEPT !.waiters = @ \ {c}]

\* A caller gives up, for its deadline or its signal: the last one to leave a load
\* aborts it.
WithoutWaiter(a, c) ==
  [attempt[a] EXCEPT !.waiters = @ \ {c}, !.aborted = @ \/ attempt[a].waiters = {c}]

Leave(c) ==
  /\ op[c].pc \in {"wait", "settle", "run"}
  /\ EndCall(c)
  /\ attempt' = IF op[c].pc # "wait" THEN attempt
                ELSE [attempt EXCEPT ![op[c].at] = WithoutWaiter(op[c].at, c)]
  /\ UNCHANGED <<session, current, owner, open, unloading, env>>

\* The awaited session has arrived; one that the policy does not admit is retired.
Take(c) ==
  /\ op[c].pc = "got"
  /\ IF Admitted(op[c].at, op[c].policy)
     THEN GotoOp(c, "run") /\ UNCHANGED <<session, open>>
     ELSE GotoOp(c, "again") /\ Retire(op[c].at)
  /\ UNCHANGED <<current, owner, attempt, timer, unloading, env>>

Fail(c) ==
  /\ op[c].pc = "failed" /\ EndCall(c)
  /\ UNCHANGED <<session, current, owner, attempt, open, unloading, env>>

Encoded(c) ==
  /\ op[c].pc = "run" /\ EndCall(c)
  /\ UNCHANGED <<session, current, owner, attempt, open, unloading, env>>

\* The GPU fails during an encode: its session is retired; under "auto" the call tries
\* once more with what it then finds.
DeviceFails(c) ==
  LET s == op[c].at
  IN  /\ op[c].pc = "run" /\ attempt[s].device = "gpu" /\ op[c].policy # "cpu"
      /\ Retire(s)
      /\ op' = [op EXCEPT ![c].pc =
           IF op[c].policy = "gpu" \/ op[c].again THEN "failed" ELSE "ensure", ![c].again = TRUE]
      /\ env' = [env EXCEPT !.gpuOut = @ \/ op[c].policy = "auto"]
      /\ UNCHANGED <<current, owner, attempt, timer, unloading>>

\* The time for which the GPU was marked unavailable is over.
GpuMayBeBack ==
  /\ env.gpuOut /\ env' = [env EXCEPT !.gpuOut = FALSE]
  /\ UNCHANGED <<session, current, owner, attempt, open, op, timer, unloading>>

\* The idle timer fires: a load is cancelled with its waiters and waited for ...
Unload ==
  /\ timer /\ ~unloading
  /\ timer' = FALSE /\ unloading' = TRUE
  /\ owner' = IF owner = current THEN 0 ELSE owner
  /\ IF current = 0 THEN UNCHANGED <<attempt, op>>
     ELSE /\ attempt' = [attempt EXCEPT ![current].aborted = TRUE, ![current].waiters = {}]
          /\ op' = [c \in Caller |->
               IF op[c].pc = "wait" /\ op[c].at = current THEN [op[c] EXCEPT !.pc = "failed"]
               ELSE op[c]]
  /\ UNCHANGED <<session, current, open, env>>

\* ... and then the session is closed.
Unloaded ==
  /\ unloading /\ \A a \in Attempts : ~attempt[a].aborted
  /\ unloading' = FALSE /\ current' = 0
  /\ session' = 0 /\ open' = open \ {session}
  /\ UNCHANGED <<owner, attempt, op, timer, env>>

Next ==
  \/ \E c \in Caller :
       \/ \E policy \in Policies : Begin(c, policy)
       \/ EnsureSession(c) \/ Take(c) \/ Fail(c) \/ Encoded(c) \/ DeviceFails(c) \/ Leave(c)
  \/ \E a \in Attempts :
       \/ \E device \in {"gpu", "cpu"} : Load(a, device)
       \/ FallBack(a) \/ Settle(a)
  \/ GpuMayBeBack \/ Unload \/ Unloaded

Spec == Init /\ [][Next]_vars

-----------------------------------------------------------------------------

\* No model is left in memory without an owner: a session that is open is the resident
\* one, or belongs to a load that has yet to settle.
NoSessionIsLost ==
  \A s \in open : s = session \/ attempt[s].st = "loaded"

\* Nothing stays in memory at rest: a resident session that no call uses has its idle
\* timer, or is being unloaded.
RestIsTimed ==
  session # 0 /\ (\A c \in Caller : ~Active(c)) => timer \/ unloading

\* The session is accounted for: in memory it has an owner, and at rest a timer.
ModelIsOwned == NoSessionIsLost /\ RestIsTimed
================================================================================
