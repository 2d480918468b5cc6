------------------------------ MODULE AnalyzerPool ------------------------------
(***************************************************************************)
(* Building snapshots with a pool of analyser threads (AnalyzerWorkerPool in *)
(* daemon/pools.ts, daemon/worker-entry.ts).  A worker analyses with the    *)
(* Korean model when it can load it and without it otherwise, and says so   *)
(* with every answer; its warm-up is remembered until it is restarted.  A   *)
(* build is labelled with what the warm-up said, and every answer is        *)
(* compared with one value that all builds of the pool share.               *)
(*                                                                         *)
(* A batch is one document here.  An analyser identity is "ko" or "plain";  *)
(* the store takes "ko" for the identity a current snapshot has.            *)
(***************************************************************************)
EXTENDS Naturals, FiniteSets, FiniteSetsExt

CONSTANTS
  Worker,      \* slots of the pool, numbers
  Vault,
  Doc,         \* documents of a vault
  MaxChange,   \* bound on changes of the model's files, edits and restarts together
  MaxBuild     \* bound on builds

VARIABLES
  loads,       \* can the Korean model be loaded now?
  worker,      \* worker -> [warm, kiwi]: what its warm-up said, is the model in memory?
  shared,      \* the pool's analyzerIdentityValue, "none" before the first warm-up
  build,       \* vault -> its build [pc, label, taken, fresh, out, doc, raced]
  snapshot,    \* vault -> its published snapshot [label, doc, raced], label "none" without one
  changed,     \* vault -> documents edited since
  spent        \* [changes, builds] so far

vars == <<loads, worker, shared, build, snapshot, changed, spent>>

Target == "ko"
NoDocs == [d \in Doc |-> "none"]
NoBuild == [pc |-> "idle", label |-> "none", taken |-> {}, fresh |-> {}, out |-> NoDocs,
            doc |-> NoDocs, raced |-> FALSE]
Cold == [warm |-> "none", kiwi |-> FALSE]

Init ==
  /\ loads \in BOOLEAN
  /\ worker = [w \in Worker |-> Cold]
  /\ shared = "none"
  /\ build = [v \in Vault |-> NoBuild]
  /\ snapshot = [v \in Vault |-> [label |-> "none", doc |-> NoDocs, raced |-> FALSE]]
  /\ changed = [v \in Vault |-> {}]
  /\ spent = [changes |-> 0, builds |-> 0]

\* What a lease on the worker's analyser comes to: the Korean model when it is in memory
\* or loads, else the analyser without it.
Leased(w) == IF worker[w].kiwi \/ loads THEN "ko" ELSE "plain"

\* What a job may have been done with: when it fails under the lease it is done again with
\* the analyser without the Korean model.
Outcomes(w) == {Leased(w), "plain"}

\* A worker is warmed up once; the answer is kept for as long as it lives.
Warm(w) ==
  /\ worker[w].warm = "none"
  /\ worker' = [worker EXCEPT ![w] = [warm |-> Leased(w), kiwi |-> Leased(w) = "ko"]]
  /\ UNCHANGED <<loads, shared, build, snapshot, changed, spent>>

Ready == {w \in Worker : worker[w].warm # "none"}

\* The shared value is overwritten for one build: what the others compare with has changed.
Overwrite(v, identity, own) ==
  /\ shared' = identity
  /\ build' = [u \in Vault |->
       IF u = v THEN own
       ELSE [build[u] EXCEPT !.raced = @ \/ (build[u].pc = "parsing" /\ identity # shared)]]

BaseOf_Any(v) == {d \in Doc \ changed[v] : snapshot[v].label # "none"}

\* What a build takes over from the published snapshot: the documents that have not
\* changed, when that is one of the identity the store asks for.
BaseOf(v) == {d \in Doc \ changed[v] : snapshot[v].label = Target}

\* buildSnapshot: the build is labelled with the first answer among the warmed workers,
\* which every build of the pool is compared with from now on.
Begin(v) ==
  LET label == worker[Min(Ready)].warm
      kept == BaseOf(v)
  IN  /\ Ready # {} /\ build[v].pc = "idle" /\ spent.builds < MaxBuild
      /\ snapshot[v].label # Target \/ changed[v] # {}
      /\ Overwrite(v, label,
           [pc |-> "parsing", label |-> label, taken |-> changed[v], fresh |-> Doc \ kept, out |-> NoDocs,
            doc |-> [d \in Doc |-> IF d \in kept THEN snapshot[v].doc[d] ELSE "none"],
            raced |-> kept # {} /\ snapshot[v].raced])
      /\ changed' = [changed EXCEPT ![v] = {}]
      /\ spent' = [spent EXCEPT !.builds = @ + 1]
      /\ UNCHANGED <<loads, worker, snapshot>>

\* A warm worker parses and analyses a document.
Parse(v, d, w) ==
  /\ build[v].pc = "parsing" /\ d \in build[v].fresh /\ w \in Ready
  /\ \E identity \in Outcomes(w) :
       build' = [build EXCEPT ![v].fresh = @ \ {d}, ![v].out[d] = identity]
  /\ worker' = [worker EXCEPT ![w].kiwi = Leased(w) = "ko"]
  /\ UNCHANGED <<loads, shared, snapshot, changed, spent>>

Common_OwnOnly(identity) == TRUE

\* commonAnalyzerIdentity: the answers of all workers are of one identity.
Common(identity) == identity = shared

\* The answer of a worker is compared with the shared value; the first that differs
\* fails the build.
Collect(v, d) ==
  LET identity == build[v].out[d]
  IN  /\ build[v].pc = "parsing" /\ identity # "none"
      /\ build' = IF Common(identity)
                  THEN [build EXCEPT ![v].doc[d] = identity, ![v].out[d] = "none"]
                  ELSE [build EXCEPT ![v] = NoBuild]
      /\ changed' = IF Common(identity) THEN changed
                    ELSE [changed EXCEPT ![v] = @ \cup build[v].taken]
      /\ UNCHANGED <<loads, worker, shared, snapshot, spent>>

\* All documents are there: the segments are made and the snapshot is published under the
\* label of the build, which the shared value becomes once more.
Finish(v) ==
  /\ build[v].pc = "parsing" /\ \A d \in Doc : build[v].doc[d] # "none"
  /\ snapshot' = [snapshot EXCEPT ![v] = [label |-> build[v].label, doc |-> build[v].doc,
                                         raced |-> build[v].raced]]
  /\ Overwrite(v, build[v].label, NoBuild)
  /\ UNCHANGED <<loads, worker, changed, spent>>

\* A build is cancelled, runs into its deadline or loses its worker.
Abandon(v) ==
  /\ build[v].pc = "parsing"
  /\ build' = [build EXCEPT ![v] = NoBuild]
  /\ changed' = [changed EXCEPT ![v] = @ \cup build[v].taken]
  /\ UNCHANGED <<loads, worker, shared, snapshot, spent>>

Spend == spent.changes < MaxChange /\ spent' = [spent EXCEPT !.changes = @ + 1]

\* The files of the model appear or vanish.
Toggle ==
  /\ Spend /\ loads' = ~loads
  /\ UNCHANGED <<worker, shared, build, snapshot, changed>>

Edit(v, d) ==
  /\ Spend /\ changed' = [changed EXCEPT ![v] = @ \cup {d}]
  /\ UNCHANGED <<loads, worker, shared, build, snapshot>>

\* A worker is replaced: its warm-up starts anew.
Replace(w) ==
  /\ Spend /\ worker' = [worker EXCEPT ![w] = Cold]
  /\ UNCHANGED <<loads, shared, build, snapshot, changed>>

\* The idle timer of the Korean model of a worker.
Evict(w) ==
  /\ worker[w].kiwi
  /\ worker' = [worker EXCEPT ![w].kiwi = FALSE]
  /\ UNCHANGED <<loads, shared, build, snapshot, changed, spent>>

Next ==
  \/ \E w \in Worker : Warm(w) \/ Replace(w) \/ Evict(w)
  \/ \E v \in Vault : Begin(v) \/ Finish(v) \/ Abandon(v)
  \/ \E v \in Vault, d \in Doc : Edit(v, d) \/ Collect(v, d) \/ \E w \in Worker : Parse(v, d, w)
  \/ Toggle

Spec == Init /\ [][Next]_vars

---------------------------------------------------------------------------
\* A snapshot that passes for one of the identity the store asks for holds no document
\* that was analysed otherwise, and no snapshot holds one that was analysed with less than
\* its label says; unless another build of the pool overwrote the value that the answers
\* are compared with while it, or the snapshot it was made upon, was built.
LabelIsTrue ==
  \A v \in Vault : snapshot[v].label # "none" =>
    snapshot[v].raced \/ \A d \in Doc : snapshot[v].doc[d] \in {snapshot[v].label, Target}
================================================================================
