----------------------------- MODULE ExclusiveClaim -----------------------------
(***************************************************************************)
(* A claim directory (src/core/lifecycle/exclusive-claim.ts): processes     *)
(* acquire it by creating the directory, poll it while another one holds    *)
(* it, reclaim it from the dead, hand it to a child they spawn, and release  *)
(* it.  There is no lock below it: every file operation is one action, and  *)
(* other processes act, die or stall between any two of them.               *)
(*                                                                         *)
(* A process token is a pid with a start identity.  Where the platform      *)
(* gives the start time the token is authoritative: a process that reuses   *)
(* the pid is told apart from the holder.  Elsewhere it is not.             *)
(***************************************************************************)
EXTENDS Naturals

CONSTANTS
  Process,       \* the processes that ever meet at this claim
  Started,       \* those that run from the beginning; others are spawned
  NoProcess,
  Authoritative, \* does the platform tell process start times?
  MayStall,      \* may a process stop for the time to live between two steps?
  MaxClaims,     \* bounds the calls of acquire
  MaxCrashes     \* bounds the processes that die or exit on their own

ASSUME StartedAssumption == Started \subseteq Process
ASSUME NoProcessAssumption == NoProcess \notin Process
ASSUME PlatformAssumption == Authoritative \in BOOLEAN /\ MayStall \in BOOLEAN

VARIABLES
  dir,      \* the claim directory
  process,  \* process[p]: unborn, alive or dead
  reused,   \* the dead processes whose pid runs again
  pc,       \* pc[p]: where p stands in acquire, rebindToken or release
  mine,     \* mine[p]: the claim id p acquires, rebinds or holds
  after,    \* after[p]: where p goes when it has removed the directory
  nextId,   \* claim ids are fresh: this one was not used yet
  crashes

vars == <<dir, process, reused, pc, mine, after, nextId, crashes>>

idVars == <<mine, nextId>>
worldVars == <<process, reused, crashes>>

NoOwner == [id |-> 0, token |-> NoProcess]

NoDir == [there |-> FALSE, by |-> 0, owner |-> NoOwner, tmps |-> {}, old |-> FALSE]

\* by: the claim the directory was created for; owner: what owner.json says,
\* if it is there and parses; tmps: the temporary files of rebinds in it; old:
\* its modification time is a time to live ago.
Dir == [there : BOOLEAN, by : Nat,
        owner : [id : Nat, token : Process \cup {NoProcess}],
        tmps : SUBSET Process, old : BOOLEAN]

Location == {"idle", "trying", "created", "written", "reclaiming", "expiring",
             "waiting", "removing", "emptied", "holding",
             "rebinding", "staging", "comparing", "renaming", "rebound"}

\* Every variable holds a value the code could hold, and an absent directory
\* has no content.
TypeOK ==
  /\ dir \in Dir
  /\ ~dir.there => dir = NoDir
  /\ process \in [Process -> {"unborn", "alive", "dead"}]
  /\ reused \in SUBSET Process
  /\ pc \in [Process -> Location]
  /\ mine \in [Process -> Nat]
  /\ after \in [Process -> {"idle", "trying"}]
  /\ nextId \in Nat \ {0}
  /\ crashes \in Nat

Init ==
  /\ dir = NoDir
  /\ process = [p \in Process |-> IF p \in Started THEN "alive" ELSE "unborn"]
  /\ reused = {}
  /\ pc = [p \in Process |-> "idle"]
  /\ mine = [p \in Process |-> 0]
  /\ after = [p \in Process |-> "idle"]
  /\ nextId = 1
  /\ crashes = 0

At(p, location) == process[p] = "alive" /\ pc[p] = location

Goto(p, location) == pc' = [pc EXCEPT ![p] = location]

MyOwner(p) == [id |-> mine[p], token |-> p]

-----------------------------------------------------------------------------
(* acquire.                                                                *)

Acquire(p) ==
  /\ At(p, "idle")
  /\ nextId <= MaxClaims
  /\ mine' = [mine EXCEPT ![p] = nextId]
  /\ nextId' = nextId + 1
  /\ Goto(p, "trying")
  /\ UNCHANGED <<dir, after, worldVars>>

TryCreate_Recursive(p) ==
  /\ At(p, "trying")
  /\ dir' = IF dir.there THEN dir ELSE [NoDir EXCEPT !.there = TRUE, !.by = mine[p]]
  /\ Goto(p, "created")
  /\ UNCHANGED <<after, idVars, worldVars>>

\* mkdir without recursive: exactly one of two callers creates the directory.
TryCreate(p) ==
  /\ At(p, "trying")
  /\ \/ /\ ~dir.there
        /\ dir' = [NoDir EXCEPT !.there = TRUE, !.by = mine[p]]
        /\ Goto(p, "created")
     \/ dir.there /\ Goto(p, "reclaiming") /\ UNCHANGED dir
  /\ UNCHANGED <<after, idVars, worldVars>>

WriteOwner_NotRecreating(p) ==
  /\ At(p, "created")
  /\ dir' = [dir EXCEPT !.owner = MyOwner(p), !.old = FALSE]
  /\ Goto(p, "written")
  /\ UNCHANGED <<after, idVars, worldVars>>

\* writeOwner creates the directory again if it is gone, and overwrites.
WriteOwner(p) ==
  LET d == IF dir.there THEN dir
           ELSE [NoDir EXCEPT !.there = TRUE, !.by = mine[p]]
  IN
  /\ At(p, "created")
  /\ dir' = [d EXCEPT !.owner = MyOwner(p),
                      !.old = @ /\ dir.owner # NoOwner]
  /\ Goto(p, "written")
  /\ UNCHANGED <<after, idVars, worldVars>>

\* The file is opened again to be synced; when that fails the directory is
\* removed and acquire throws.
SyncOwner(p) ==
  /\ At(p, "written")
  /\ \/ dir.owner # NoOwner /\ Goto(p, "holding") /\ UNCHANGED after
     \/ /\ dir.owner = NoOwner
        /\ Goto(p, "removing")
        /\ after' = [after EXCEPT ![p] = "idle"]
  /\ UNCHANGED <<dir, idVars, worldVars>>

Retry(p) ==
  /\ At(p, "waiting")
  /\ Goto(p, "trying")
  /\ UNCHANGED <<dir, after, idVars, worldVars>>

GiveUp(p) ==
  /\ At(p, "waiting")
  /\ Goto(p, "idle")
  /\ UNCHANGED <<dir, after, idVars, worldVars>>

-----------------------------------------------------------------------------
(* reclaimExclusiveClaim, and the removal of a directory.                  *)

\* isAlive: the pid exists, with the start identity of the token.
SeemsAlive(p) ==
  \/ process[p] = "alive"
  \/ ~Authoritative /\ p \in reused

Reclaim_Impatient(p) ==
  /\ At(p, "reclaiming")
  /\ IF dir.owner = NoOwner \/ ~SeemsAlive(dir.owner.token)
     THEN Goto(p, "removing") /\ after' = [after EXCEPT ![p] = "trying"]
     ELSE Goto(p, "waiting") /\ UNCHANGED after
  /\ UNCHANGED <<dir, idVars, worldVars>>

Reclaim_OwnerOnly(p) ==
  /\ At(p, "reclaiming")
  /\ IF dir.owner # NoOwner /\ ~SeemsAlive(dir.owner.token)
     THEN Goto(p, "removing") /\ after' = [after EXCEPT ![p] = "trying"]
     ELSE Goto(p, "waiting") /\ UNCHANGED after
  /\ UNCHANGED <<dir, idVars, worldVars>>

Reclaim(p) ==
  LET holder == dir.owner.token IN
  /\ At(p, "reclaiming")
  /\ \/ /\ dir.owner # NoOwner
        /\ SeemsAlive(holder)
        /\ Authoritative
        /\ Goto(p, "waiting")
        /\ UNCHANGED after
     \/ /\ dir.owner # NoOwner
        /\ ~SeemsAlive(holder)
        /\ Goto(p, "removing")
        /\ after' = [after EXCEPT ![p] = "trying"]
     \/ /\ dir.owner # NoOwner => SeemsAlive(holder) /\ ~Authoritative
        /\ Goto(p, "expiring")
        /\ UNCHANGED after
  /\ UNCHANGED <<dir, idVars, worldVars>>

\* reclaimByTtl.
Expire(p) ==
  /\ At(p, "expiring")
  /\ \/ /\ dir.there /\ dir.old
        /\ Goto(p, "removing")
        /\ after' = [after EXCEPT ![p] = "trying"]
     \/ ~(dir.there /\ dir.old) /\ Goto(p, "waiting") /\ UNCHANGED after
  /\ UNCHANGED <<dir, idVars, worldVars>>

\* rmSync removes the entries it finds, then the directory.
RemoveEntries(p) ==
  /\ At(p, "removing")
  /\ dir' = IF dir.there THEN [dir EXCEPT !.owner = NoOwner, !.tmps = {},
                                          !.old = FALSE]
            ELSE dir
  /\ Goto(p, "emptied")
  /\ UNCHANGED <<after, idVars, worldVars>>

\* An entry written meanwhile makes rmdir fail: rmSync starts again or throws.
RemoveDir(p) ==
  /\ At(p, "emptied")
  /\ \/ /\ dir.owner = NoOwner /\ dir.tmps = {}
        /\ dir' = NoDir
        /\ Goto(p, after[p])
     \/ /\ dir.owner # NoOwner \/ dir.tmps # {}
        /\ Goto(p, "removing") \/ Goto(p, "idle")
        /\ UNCHANGED dir
  /\ UNCHANGED <<after, idVars, worldVars>>

-----------------------------------------------------------------------------
(* release, and the hand-over to a child.                                  *)

Release(p) ==
  /\ At(p, "holding")
  /\ \/ /\ dir.owner = MyOwner(p)
        /\ Goto(p, "removing")
        /\ after' = [after EXCEPT ![p] = "idle"]
     \/ dir.owner # MyOwner(p) /\ Goto(p, "idle") /\ UNCHANGED after
  /\ UNCHANGED <<dir, idVars, worldVars>>

\* The client passes the claim id to the daemon it spawns and forgets it.
Spawn(p, q) ==
  /\ At(p, "holding")
  /\ process[q] = "unborn"
  /\ process' = [process EXCEPT ![q] = "alive"]
  /\ mine' = [mine EXCEPT ![q] = mine[p]]
  /\ pc' = [pc EXCEPT ![p] = "idle", ![q] = "rebinding"]
  /\ UNCHANGED <<dir, reused, after, nextId, crashes>>

\* The child exits when the claim it was given is not there any more.
Exit(q) ==
  /\ process' = [process EXCEPT ![q] = "dead"]
  /\ dir' = [dir EXCEPT !.tmps = @ \ {q}]
  /\ Goto(q, "idle")

Rebind(q) ==
  /\ At(q, "rebinding")
  /\ \/ /\ dir.owner.id = mine[q]
        /\ Goto(q, "staging")
        /\ UNCHANGED <<dir, process>>
     \/ dir.owner.id # mine[q] /\ Exit(q)
  /\ UNCHANGED <<reused, after, idVars, crashes>>

\* The new owner file is staged inside the claim directory.
StageOwner(q) ==
  /\ At(q, "staging")
  /\ \/ /\ dir.there
        /\ dir' = [dir EXCEPT !.tmps = @ \cup {q}, !.old = FALSE]
        /\ Goto(q, "comparing")
        /\ UNCHANGED process
     \/ ~dir.there /\ Exit(q)
  /\ UNCHANGED <<reused, after, idVars, crashes>>

CompareOwner(q) ==
  /\ At(q, "comparing")
  /\ \/ /\ dir.owner.id = mine[q]
        /\ Goto(q, "renaming")
        /\ UNCHANGED <<dir, process>>
     \/ dir.owner.id # mine[q] /\ Exit(q)
  /\ UNCHANGED <<reused, after, idVars, crashes>>

RenameOwner_StagedOutside(q) ==
  /\ At(q, "renaming")
  /\ \/ /\ dir.there
        /\ dir' = [dir EXCEPT !.owner = MyOwner(q), !.tmps = @ \ {q},
                              !.old = FALSE]
        /\ Goto(q, "rebound")
        /\ UNCHANGED process
     \/ ~dir.there /\ Exit(q)
  /\ UNCHANGED <<reused, after, idVars, crashes>>

\* rename fails when the staged file went with a removed directory.
RenameOwner(q) ==
  /\ At(q, "renaming")
  /\ \/ /\ q \in dir.tmps
        /\ dir' = [dir EXCEPT !.owner = MyOwner(q), !.tmps = @ \ {q},
                              !.old = FALSE]
        /\ Goto(q, "rebound")
        /\ UNCHANGED process
     \/ q \notin dir.tmps /\ Exit(q)
  /\ UNCHANGED <<reused, after, idVars, crashes>>

ConfirmOwner(q) ==
  /\ At(q, "rebound")
  /\ \/ /\ dir.owner = MyOwner(q)
        /\ Goto(q, "holding")
        /\ UNCHANGED <<dir, process>>
     \/ dir.owner # MyOwner(q) /\ Exit(q)
  /\ UNCHANGED <<reused, after, idVars, crashes>>

-----------------------------------------------------------------------------
(* The world.                                                              *)

Crash(p) ==
  /\ process[p] = "alive"
  /\ crashes < MaxCrashes
  /\ process' = [process EXCEPT ![p] = "dead"]
  /\ Goto(p, "idle")
  /\ crashes' = crashes + 1
  /\ UNCHANGED <<dir, reused, after, idVars>>

ReusePid(p) ==
  /\ process[p] = "dead"
  /\ p \notin reused
  /\ ~Authoritative
  /\ reused' = reused \cup {p}
  /\ UNCHANGED <<dir, process, pc, after, idVars, crashes>>

Working(p) ==
  \E location \in {"created", "written", "expiring", "removing", "emptied",
                   "comparing", "renaming", "rebound"} : At(p, location)

\* The time to live passes since the last change of the directory.
Age ==
  /\ dir.there
  /\ ~dir.old
  /\ MayStall \/ \A p \in Process : ~Working(p)
  /\ dir' = [dir EXCEPT !.old = TRUE]
  /\ UNCHANGED <<pc, after, idVars, worldVars>>

\* What a process does on its own once it has begun.
Proceed(p) ==
  \/ TryCreate(p)
  \/ WriteOwner(p)
  \/ SyncOwner(p)
  \/ Retry(p)
  \/ Reclaim(p)
  \/ Expire(p)
  \/ RemoveEntries(p)
  \/ RemoveDir(p)
  \/ Rebind(p)
  \/ StageOwner(p)
  \/ CompareOwner(p)
  \/ RenameOwner(p)
  \/ ConfirmOwner(p)

Next ==
  \/ \E p \in Process :
       \/ Acquire(p)
       \/ Proceed(p)
       \/ GiveUp(p)
       \/ Release(p)
       \/ \E q \in Process : Spawn(p, q)
       \/ Crash(p)
       \/ ReusePid(p)
  \/ Age

Spec == Init /\ [][Next]_vars

\* A live process runs on, and time passes; nobody has to acquire or release.
FairSpec ==
  Spec /\ WF_vars(Age) /\ \A p \in Process : WF_vars(Proceed(p))

-----------------------------------------------------------------------------

Holds(p) == At(p, "holding")

\* No two live processes hold the claim: what its callers build on.
AtMostOneHolder ==
  \A p, q \in Process : Holds(p) /\ Holds(q) => p = q

\* ... which stands as long as nobody has died.
ExclusiveAmongLiving == crashes = 0 => AtMostOneHolder

\* As long as nobody has died, the directory names who holds the claim: nobody
\* took it away, so that a release or a check of the owner file finds it.
HolderIsRecorded ==
  crashes = 0 => \A p \in Process : Holds(p) => dir.owner = MyOwner(p)

Polls(p) ==
  \E location \in {"trying", "reclaiming", "expiring", "waiting"} : At(p, location)

\* Somebody asks for a claim that only the dead, or nobody, stands for.
DeadBlock ==
  /\ \E p \in Process : Polls(p)
  /\ dir.there
  /\ dir.owner # NoOwner => process[dir.owner.token] # "alive"

\* Somebody asks for a claim that no live process holds, nor is going to
\* rebind or release.
Abandoned ==
  /\ \E p \in Process : Polls(p)
  /\ dir.owner # NoOwner
  /\ \A p \in Process :
       process[p] = "alive" /\ mine[p] = dir.owner.id => pc[p] = "idle" \/ Polls(p)

\* A claim whose child died before it published is free for others again.
AbandonedYields == Abandoned ~> ~Abandoned
=============================================================================
