------------------------------ MODULE VaultStates ------------------------------
(***************************************************************************)
(* What the daemon says of one vault: its state, its progress and its save  *)
(* watcher, over requests that run at once and builds that are shared, or   *)
(* left behind at a deadline (daemon/server dispatchQuery, dispatchControl, *)
(* updating, progressReporter; daemon/vault-registry; daemon/profile-manager *)
(* startSaveWatcherForVault).                                               *)
(***************************************************************************)
EXTENDS Naturals, FiniteSets

CONSTANTS
  Op,          \* requests
  MaxReport    \* bound on the progress reports

VARIABLES
  rec,       \* the vault's record: [st, progress, error]
  watcher,   \* TRUE: the save watcher of the vault runs
  op,        \* request -> [kind, st]
  builds,    \* builds that run: [leader, members], members = {} for one left behind
  reports,
  past       \* [late, served]: what the properties refer to

vars == <<rec, watcher, op, builds, reports, past>>

Kinds == {"search", "load", "update", "clear"}

Init ==
  /\ rec = [st |-> "unloaded", progress |-> FALSE, error |-> FALSE]
  /\ watcher = FALSE
  /\ op = [o \in Op |-> [kind |-> "none", st |-> "none"]]
  /\ builds = {}
  /\ reports = 0
  /\ past = [late |-> FALSE, served |-> FALSE]

Busy == {o \in Op : op[o].st \in {"running", "building"}}
Building == {o \in Op : op[o].st = "building"}

Transition_KeepsProgress(st, progress, error) ==
  rec' = [st |-> st, progress |-> progress \/ rec.progress, error |-> error \/ rec.error]

\* transition: progress goes when the vault comes to rest; an error stays.
Transition(st, progress, error) ==
  rec' = [st |-> st, progress |-> progress \/ (rec.progress /\ st \notin {"ready", "unloaded"}),
          error |-> error \/ rec.error]

StateOf(o) == IF op[o].kind = "load" THEN "loading" ELSE "updating"

\* A request begins; all but a search say so.
Begin(o, k) ==
  /\ op[o].st = "none"
  /\ op' = [op EXCEPT ![o] = [kind |-> k, st |-> "running"]]
  /\ IF k = "search" THEN UNCHANGED rec ELSE Transition(IF k = "load" THEN "loading" ELSE "updating", FALSE, FALSE)
  /\ UNCHANGED <<watcher, builds, reports, past>>

\* The publisher takes the requests that wait into one build, which reports to the first.
StartBuild ==
  /\ Building = {}
  /\ \E ms \in SUBSET {o \in Busy : op[o].kind \in {"load", "update"}} : \E l \in ms :
       /\ builds' = builds \cup {[leader |-> l, members |-> ms]}
       /\ op' = [o \in Op |-> IF o \in ms THEN [op[o] EXCEPT !.st = "building"] ELSE op[o]]
  /\ UNCHANGED <<rec, watcher, reports, past>>

\* A build reports, also one that nobody waits for any more.
Report(b) ==
  /\ reports < MaxReport
  /\ reports' = reports + 1
  /\ Transition(StateOf(b.leader), TRUE, FALSE)
  /\ past' = [past EXCEPT !.late = op[b.leader].st = "ended"]
  /\ UNCHANGED <<watcher, op, builds>>

StopsAtFailure_Never(kind) == FALSE

\* A vault that failed to load is not watched any more.
StopsAtFailure(kind) == kind = "load"

\* A request ends.
Says(o, ok) ==
  /\ CASE ok -> Transition("ready", FALSE, FALSE)
       [] ~ok /\ op[o].kind = "search" -> UNCHANGED rec
       [] ~ok /\ op[o].kind = "load" -> Transition("unloaded", FALSE, TRUE)
       [] ~ok /\ op[o].kind \in {"update", "clear"} -> Transition("ready", FALSE, TRUE)
  /\ watcher' = IF ok THEN watcher \/ op[o].kind # "clear" ELSE watcher /\ ~StopsAtFailure(op[o].kind)
  /\ past' = [late |-> past.late /\ ~ok /\ op[o].kind = "search",
              served |-> IF ok THEN past.served \/ op[o].kind # "clear" ELSE past.served /\ op[o].kind # "load"]

Ended(o) == op' = [op EXCEPT ![o].st = "ended"]

\* Without a build: a search, a clear, an edition that is fresh; or it fails.
EndAlone(o) ==
  /\ op[o].st = "running"
  /\ \E ok \in BOOLEAN : Says(o, ok)
  /\ Ended(o)
  /\ UNCHANGED <<builds, reports>>

Without(o) == {[b EXCEPT !.members = @ \ {o}] : b \in builds}

\* One of a build is cancelled, or, at the earliest deadline of the group, all are, one after the
\* other: the build goes on.
Leave(o) ==
  /\ op[o].st = "building"
  /\ Says(o, FALSE)
  /\ Ended(o)
  /\ builds' = Without(o)
  /\ UNCHANGED reports

\* A build is done, or fails: its members end one after the other.
EndBuild(b) ==
  /\ IF b.members = {} THEN /\ builds' = builds \ {b}
                            /\ UNCHANGED <<rec, watcher, op, past>>
     ELSE \E o \in b.members :
       /\ \E ok \in BOOLEAN : Says(o, ok)
       /\ Ended(o)
       /\ builds' = IF b.members = {o} THEN builds \ {b} ELSE Without(o)
  /\ UNCHANGED reports

Next ==
  \/ \E o \in Op : (\E k \in Kinds : Begin(o, k)) \/ EndAlone(o) \/ Leave(o)
  \/ StartBuild
  \/ \E b \in builds : Report(b) \/ EndBuild(b)

Spec == Init /\ [][Next]_vars

---------------------------------------------------------------------------
\* A vault nobody works at is shown as ready or unloaded and without progress, unless a build that
\* was left behind at a deadline has reported after its request had ended (server.ts:966).
RestIsShown ==
  Busy = {} /\ ~past.late => rec.st \in {"ready", "unloaded"} /\ ~rec.progress

\* A vault that has answered a request is watched until a load of it fails, and one that is shown
\* as unloaded is not (profile-manager.ts:273).
ServedIsWatched ==
  /\ past.served => watcher
  /\ rec.st = "unloaded" => ~watcher

StatusIsTrue == RestIsShown /\ ServedIsWatched
================================================================================
