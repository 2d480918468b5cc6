----------------------------- MODULE ArtifactInstall -----------------------------
(***************************************************************************)
(* Installation of downloaded artifacts (artifact-install.ts) as the Kiwi   *)
(* model and binary and the native vector binding use it, with the load     *)
(* that follows and repairs what it cannot read.  Processes and worker      *)
(* threads share the artifact directories; a process has one staging        *)
(* namespace for all of its threads, with a file that names its owner.      *)
(***************************************************************************)
EXTENDS Naturals, FiniteSets

CONSTANTS Task,        \* loads: one thread of a process that wants one artifact
          ProcOf(_), KindOf(_),
          DepthOf(_),  \* what an installed artifact is checked by: "metadata" or "digest"
          MaxEvents,   \* bound: crashes, failed downloads, time-outs, damaged files
          None

VARIABLES dir,     \* the artifact on disk: "none", "good", or "corrupt" with the right sizes
          claim,   \* the install claims
          task,    \* the loads
          ns,      \* the staging namespaces
          alive,   \* the living processes
          excused, \* loads that met a fault, history
          events

vars == <<dir, claim, task, ns, alive, excused, events>>

Kind == {KindOf(t) : t \in Task}
Proc == {ProcOf(t) : t \in Task}

NoNamespace == [dir |-> FALSE, owner |-> "none", old |-> FALSE, staged |-> {}]

\* A process that has installed before has left its namespace with its owner file.
Init ==
  /\ dir \in [Kind -> {"none", "good", "corrupt"}]
  /\ claim = [k \in Kind |-> None]
  /\ task = [t \in Task |-> [pc |-> "idle", force |-> FALSE, activated |-> FALSE, doomed |-> {}]]
  /\ ns \in [Proc -> {NoNamespace, [NoNamespace EXCEPT !.dir = TRUE, !.owner = "whole", !.old = TRUE]}]
  /\ alive = Proc /\ excused = {} /\ events = 0

Event == events < MaxEvents /\ events' = events + 1

\* verifyInstalled: an install that was forced by a failed read asks for the digests.
Looks(t) ==
  IF task[t].force \/ DepthOf(KindOf(t)) = "digest" THEN dir[KindOf(t)] = "good"
  ELSE dir[KindOf(t)] # "none"

Accepts_Never(t) == ~task[t].force

\* acceptExisting: a forced install takes no artifact but the one that it has activated.
Accepts(t) == ~task[t].force \/ task[t].activated

Repairs(t) == DepthOf(KindOf(t)) = "metadata"

At(t, pc) == ProcOf(t) \in alive /\ task[t].pc = pc
Go(t, pc) == task' = [task EXCEPT ![t].pc = pc]

\* ensure...: the fast path.
Start(t) ==
  /\ At(t, "idle")
  /\ Go(t, IF Accepts(t) /\ Looks(t) THEN "reading" ELSE "claiming")
  /\ UNCHANGED <<dir, claim, ns, alive, excused, events>>

HeldByTheLiving(k) == IF claim[k] = None THEN FALSE ELSE ProcOf(claim[k]) \in alive

\* The claim is free or its holder is dead.
Acquire(t) ==
  LET k == KindOf(t) IN
  /\ At(t, "claiming") /\ ~HeldByTheLiving(k)
  /\ claim' = [claim EXCEPT ![k] = t]
  /\ Go(t, "claimed")
  /\ UNCHANGED <<dir, ns, alive, excused, events>>

ClaimTimesOut(t) ==
  /\ At(t, "claiming") /\ HeldByTheLiving(KindOf(t))
  /\ Event
  /\ Go(t, "failed") /\ excused' = excused \cup {t}
  /\ UNCHANGED <<dir, claim, ns, alive>>

\* sweepDeadArtifactStaging: the namespaces whose owner is dead, and the old ones whose
\* owner file is missing or half written.
Doomed ==
  {p \in Proc : /\ ns[p].dir
                /\ IF ns[p].owner = "whole" THEN p \notin alive ELSE ns[p].old}

SweepLook(t) ==
  /\ At(t, "claimed")
  /\ task' = [task EXCEPT ![t].pc = "sweeping", ![t].doomed = Doomed]
  /\ UNCHANGED <<dir, claim, ns, alive, excused, events>>

SweepRemove(t) ==
  LET gone == task[t].doomed IN
  /\ At(t, "sweeping")
  /\ ns' = [p \in Proc |-> IF p \in gone THEN NoNamespace ELSE ns[p]]
  /\ excused' = excused \cup
       {u \in Task : ProcOf(u) \in gone /\ (u \in ns[ProcOf(u)].staged \/ task[u].pc = "owner")}
  /\ task' = [task EXCEPT ![t].pc = "swept", ![t].doomed = {}]
  /\ UNCHANGED <<dir, claim, alive, events>>

Rechecked_No(t) == FALSE

\* Somebody else may have installed it while this one waited for the claim.
Rechecked(t) == Accepts(t) /\ Looks(t)

\* prepareStagingNamespace opens the owner file, which truncates it, ...
Prepare(t) ==
  LET p == ProcOf(t) IN
  /\ At(t, "swept")
  /\ IF Rechecked(t)
     THEN Go(t, "succeeding") /\ UNCHANGED ns
     ELSE /\ Go(t, "owner")
          /\ ns' = [ns EXCEPT ![p].dir = TRUE, ![p].owner = "torn",
                              ![p].old = @ /\ ns[p].owner # "none"]
  /\ UNCHANGED <<dir, claim, alive, excused, events>>

\* ... and writes it; it is synced by name, which fails when it was removed meanwhile.
WriteOwner(t) ==
  LET p == ProcOf(t) IN
  /\ At(t, "owner")
  /\ IF ns[p].owner = "none"
     THEN Go(t, "failing") /\ UNCHANGED ns
     ELSE Go(t, "owned") /\ ns' = [ns EXCEPT ![p].owner = "whole"]
  /\ UNCHANGED <<dir, claim, alive, excused, events>>

\* The staging directory of the claim; its parents are made again when they are gone.
MakeStaging(t) ==
  LET p == ProcOf(t) IN
  /\ At(t, "owned")
  /\ ns' = [ns EXCEPT ![p].dir = TRUE, ![p].old = FALSE, ![p].staged = @ \cup {t}]
  /\ Go(t, "staging")
  /\ UNCHANGED <<dir, claim, alive, excused, events>>

Staged(t) == t \in ns[ProcOf(t)].staged

\* stage: the archive is downloaded, verified, and its files are written.
Stage(t) ==
  /\ At(t, "staging")
  /\ Go(t, IF Staged(t) THEN "staged" ELSE "failing")
  /\ UNCHANGED <<dir, claim, ns, alive, excused, events>>

DownloadFails(t) ==
  /\ At(t, "staging")
  /\ Event
  /\ Go(t, "failing") /\ excused' = excused \cup {t}
  /\ UNCHANGED <<dir, claim, ns, alive>>

\* computeChecksum, and the first half of replaceArtifactDir: what was there is removed.
Remove(t) ==
  LET k == KindOf(t) IN
  /\ At(t, "staged")
  /\ IF Staged(t)
     THEN /\ dir' = [dir EXCEPT ![k] = "none"]
          /\ task' = [task EXCEPT ![t].pc = "renaming", ![t].activated = TRUE]
          /\ excused' = excused \cup
               {u \in Task : KindOf(u) = k /\ task[u].pc = "reading" /\ task[u].force}
     ELSE Go(t, "failing") /\ UNCHANGED <<dir, excused>>
  /\ UNCHANGED <<claim, ns, alive, events>>

\* The second half: the staged files take its place.
Rename(t) ==
  LET p == ProcOf(t) IN
  /\ At(t, "renaming")
  /\ IF Staged(t)
     THEN /\ dir' = [dir EXCEPT ![KindOf(t)] = "good"]
          /\ ns' = [ns EXCEPT ![p].staged = @ \ {t}, ![p].old = FALSE]
          /\ Go(t, "activated")
     ELSE Go(t, "failing") /\ UNCHANGED <<dir, ns>>
  /\ UNCHANGED <<claim, alive, excused, events>>

\* What was activated is verified once more.
Verify(t) ==
  /\ At(t, "activated")
  /\ Go(t, IF Accepts(t) /\ Looks(t) THEN "succeeding" ELSE "failing")
  /\ UNCHANGED <<dir, claim, ns, alive, excused, events>>

\* finally: the staging directory goes, the namespace if it is empty, then the claim.
Finish(t) ==
  LET p == ProcOf(t)
      rest == [ns[p] EXCEPT !.staged = @ \ {t}, !.old = @ /\ ~Staged(t)] IN
  /\ \/ At(t, "succeeding") /\ Go(t, "reading")
     \/ At(t, "failing") /\ Go(t, "failed")
  /\ ns' = [ns EXCEPT ![p] = IF rest.owner = "none" /\ rest.staged = {} THEN NoNamespace ELSE rest]
  /\ claim' = [claim EXCEPT ![KindOf(t)] = None]
  /\ UNCHANGED <<dir, alive, excused, events>>

\* readLoadable...: files that do not have their digests are installed again, once.
Read(t) ==
  /\ At(t, "reading")
  /\ \/ /\ dir[KindOf(t)] = "good" \/ ~Repairs(t)
        /\ Go(t, "loaded")
     \/ /\ dir[KindOf(t)] # "good" /\ Repairs(t) /\ ~task[t].force
        /\ task' = [task EXCEPT ![t].pc = "claiming", ![t].force = TRUE, ![t].activated = FALSE]
     \/ /\ dir[KindOf(t)] # "good" /\ Repairs(t) /\ task[t].force
        /\ Go(t, "failed")
  /\ UNCHANGED <<dir, claim, ns, alive, excused, events>>

\* A process dies where it is.
Crash(p) ==
  /\ p \in alive /\ Event
  /\ alive' = alive \ {p}
  /\ task' = [t \in Task |-> IF ProcOf(t) = p /\ task[t].pc \notin {"idle", "loaded", "failed"}
                             THEN [task[t] EXCEPT !.pc = "dead", !.doomed = {}] ELSE task[t]]
  /\ UNCHANGED <<dir, claim, ns, excused>>

\* A minute passes without a change in a namespace's own entries.
Age(p) ==
  /\ ns[p].dir /\ ~ns[p].old
  /\ ns' = [ns EXCEPT ![p].old = TRUE]
  /\ UNCHANGED <<dir, claim, task, alive, excused, events>>

\* A file is damaged: the staged files are not synced before they are renamed.
Damage(k) ==
  /\ dir[k] = "good" /\ Event
  /\ dir' = [dir EXCEPT ![k] = "corrupt"]
  /\ excused' = excused \cup {t \in Task : KindOf(t) = k}
  /\ UNCHANGED <<claim, task, ns, alive>>

Next ==
  \/ \E t \in Task :
       \/ Start(t) \/ Acquire(t) \/ ClaimTimesOut(t) \/ SweepLook(t) \/ SweepRemove(t)
       \/ Prepare(t) \/ WriteOwner(t) \/ MakeStaging(t) \/ Stage(t) \/ DownloadFails(t)
       \/ Remove(t) \/ Rename(t) \/ Verify(t) \/ Finish(t) \/ Read(t)
  \/ \E p \in Proc : Crash(p) \/ Age(p)
  \/ \E k \in Kind : Damage(k)

Spec == Init /\ [][Next]_vars

-----------------------------------------------------------------------------
\* A load fails only after a fault that it has met itself: its download or its wait for the
\* claim, files damaged under it, a forced install of another thread between its own install
\* and its read, or a sweep that took its half-written owner file for an abandoned one.
FailureHasACause == \A t \in Task : task[t].pc = "failed" => t \in excused

\* A good artifact is removed only by an install that a failed read has forced: whoever
\* waited for the claim while another installed it leaves it alone.
GoodStays ==
  \A k \in Kind : dir[k] = "good" /\ dir'[k] = "none" =>
    \E t \in Task : KindOf(t) = k /\ task[t].pc = "staged" /\ task[t].force
=================================================================================
