--------------------------- MODULE MC_ExclusiveClaim ---------------------------
(***************************************************************************)
(* Small instances of ExclusiveClaim for TLC.  The configurations that say  *)
(* Authoritative look at a platform that tells start times and at processes *)
(* that do not stall; BothSpec adds a hostile platform, chosen in the       *)
(* initial state, where one process has already died.                       *)
(***************************************************************************)
EXTENDS ExclusiveClaim, TLAPS

CONSTANTS p1, p2, p3

VARIABLES
  hostile,
  compared  \* history: whose acquire created the directory that q compared

Hostile == INSTANCE ExclusiveClaim WITH
  Authoritative <- FALSE, MayStall <- TRUE, MaxClaims <- 3, MaxCrashes <- 3

HostileInit ==
  /\ dir = NoDir
  /\ process = [p \in Process |-> IF p \in Started THEN "alive" ELSE "unborn"]
  /\ reused = {}
  /\ pc = [p \in Process |-> "idle"]
  /\ mine = [p \in Process |-> 0]
  /\ after = [p \in Process |-> "idle"]
  /\ nextId = 1
  /\ crashes = 1

bothVars == <<hostile, compared, vars>>

BothInit ==
  /\ compared = [q \in Process |-> 0]
  /\ \/ hostile = FALSE /\ Init
     \/ hostile = TRUE /\ HostileInit

\* What a child compared is remembered until it renames or gives up.
Compares ==
  /\ UNCHANGED hostile
  /\ compared' = [q \in Process |->
       IF pc'[q] # "renaming" THEN 0
       ELSE IF pc[q] = "comparing" THEN dir.by ELSE compared[q]]

BothNext ==
  /\ \/ ~hostile /\ Next
     \/ hostile /\ Hostile!Next
  /\ Compares

BothAge == (IF hostile THEN Hostile!Age ELSE Age) /\ Compares

BothProceed(p) == (IF hostile THEN Hostile!Proceed(p) ELSE Proceed(p)) /\ Compares

BothSpec ==
  /\ BothInit /\ [][BothNext]_bothVars
  /\ WF_bothVars(BothAge) /\ \A p \in Process : WF_bothVars(BothProceed(p))

\* A rebind renames the name of the child into the directory in which it has
\* compared the claim id, on every platform: the compare and the rename are two
\* file operations, and the claim may be reclaimed and created again by others
\* between them.
RebindTakesOwn ==
  [][\A q \in Process :
       pc[q] = "renaming" /\ pc'[q] = "rebound" => dir.by = compared[q]]_bothVars

\* Where pids are reused, start times unknown and processes stall, neither a
\* holder that died, nor one that died between creating the directory and
\* writing its owner file, blocks the claim for ever.
DeadYieldsAnywhere == hostile /\ DeadBlock ~> ~DeadBlock

\* The trusted platform alone.
TrustedNext == Next /\ Compares

TrustedSpec ==
  hostile = FALSE /\ compared = [q \in Process |-> 0] /\ Init /\ [][TrustedNext]_bothVars

TrustedFairSpec ==
  TrustedSpec /\ WF_bothVars(BothAge) /\ \A p \in Process : WF_bothVars(BothProceed(p))

-----------------------------------------------------------------------------
\* The claim directory excludes any number of processes as long as none of
\* them dies, none stalls for the time to live, and the platform tells
\* process start times.  The run claim_two_reclaimers shows that one death
\* is enough to lose this.  The types hold on every platform, and so does
\* RebindTakesOwn, with the history of compares that is kept above.

\* Nobody has died, and who has not started does nothing.
NoneDead ==
  /\ crashes = 0
  /\ \A p \in Process :
       /\ process[p] # "dead"
       /\ process[p] = "unborn" => pc[p] = "idle"

\* p stands for the directory: it created it, holds it, removes its own or is
\* the child the claim was handed to.
Stands(p) ==
  pc[p] \in {"created", "written", "holding", "removing", "emptied",
             "rebinding", "staging", "comparing", "renaming", "rebound"}

OneStands == \A p, q \in Process : Stands(p) /\ Stands(q) => p = q

\* What a process knows of the directory from where it stands.
Knows(p) ==
  /\ pc[p] # "idle" => mine[p] # 0
  /\ Stands(p) => dir.there
  /\ pc[p] \in {"created", "emptied"} => dir.owner = NoOwner /\ dir.tmps = {}
  /\ pc[p] \in {"written", "holding", "removing", "rebound"}
       => dir.owner = MyOwner(p)
  /\ pc[p] \in {"rebinding", "staging", "comparing", "renaming"}
       => dir.owner.id = mine[p]
  /\ pc[p] \in {"comparing", "renaming"} => p \in dir.tmps
  /\ pc[p] = "expiring" => ~dir.old

\* An ownerless directory is young and somebody stands for it; an owner lives.
OwnerLives ==
  /\ dir.owner = NoOwner => ~dir.old
  /\ dir.owner = NoOwner /\ dir.there
       => \E p \in Process : pc[p] \in {"created", "emptied"}
  /\ dir.owner # NoOwner
       => dir.owner.token \in Process /\ process[dir.owner.token] = "alive"

Inv ==
  /\ TypeOK
  /\ NoneDead
  /\ OneStands
  /\ \A p \in Process : Knows(p)
  /\ OwnerLives

\* Nothing exists and nobody acts: the invariant holds.
LEMMA InitInv == Init => Inv
BY StartedAssumption
   DEF Init, Inv, TypeOK, NoneDead, OneStands, Stands, Knows, OwnerLives, NoDir,
       NoOwner, Dir, Location

\* The next step is nobody's death.
NobodyDies == crashes' = 0

\* The invariant is inductive.
LEMMA StepInv ==
  ASSUME Authoritative, ~MayStall, Inv, [Next]_vars, NobodyDies
  PROVE  Inv'
<1> USE NoProcessAssumption
    DEF Inv, TypeOK, NoneDead, OneStands, Stands, Knows, OwnerLives, Dir,
        Location, At, Goto, MyOwner, NoOwner, idVars, worldVars
<1>1. ASSUME NEW p \in Process, Acquire(p) PROVE Inv'
  BY <1>1 DEF Acquire
<1>2. ASSUME NEW p \in Process, TryCreate(p) PROVE Inv'
  <2>1. CASE dir.there
    BY <1>2, <2>1 DEF TryCreate
  <2>2. CASE ~dir.there
    <3>1. dir' = [NoDir EXCEPT !.there = TRUE, !.by = mine[p]]
      BY <1>2, <2>2 DEF TryCreate
    <3>2. /\ dir' \in Dir /\ dir'.there /\ dir'.owner = NoOwner
          /\ dir'.tmps = {} /\ ~dir'.old
      BY <3>1 DEF NoDir
    <3>3. /\ pc[p] = "trying" /\ process[p] = "alive"
          /\ pc' = [pc EXCEPT ![p] = "created"]
          /\ UNCHANGED <<process, reused, crashes, after, mine, nextId>>
      BY <1>2, <2>2 DEF TryCreate
    <3>4. \A q \in Process : ~Stands(q)
      BY <2>2
    <3>5. TypeOK'
      BY <3>2, <3>3
    <3>6. NoneDead' /\ OneStands'
      BY <3>3, <3>4
    <3>7. ASSUME NEW q \in Process PROVE Knows(q)'
      BY <3>2, <3>3, <3>4
    <3>8. OwnerLives'
      BY <3>2, <3>3
    <3>9. QED
      BY <3>5, <3>6, <3>7, <3>8
  <2>3. QED
    BY <2>1, <2>2
<1>3. ASSUME NEW p \in Process, WriteOwner(p) PROVE Inv'
  <2>1. TypeOK'
    BY <1>3 DEF WriteOwner, NoDir
  <2>2. NoneDead'
    BY <1>3 DEF WriteOwner, NoDir
  <2>3. OneStands'
    BY <1>3 DEF WriteOwner, NoDir
  <2>4. ASSUME NEW q \in Process PROVE Knows(q)'
    BY <1>3 DEF WriteOwner, NoDir
  <2>5. OwnerLives'
    BY <1>3 DEF WriteOwner, NoDir
  <2>6. QED
    BY <2>1, <2>2, <2>3, <2>4, <2>5
<1>4. ASSUME NEW p \in Process, SyncOwner(p) PROVE Inv'
  BY <1>4 DEF SyncOwner
<1>5. ASSUME NEW p \in Process, Retry(p) PROVE Inv'
  BY <1>5 DEF Retry
<1>6. ASSUME NEW p \in Process, GiveUp(p) PROVE Inv'
  BY <1>6 DEF GiveUp
<1>7. ASSUME NEW p \in Process, Reclaim(p) PROVE Inv'
  BY <1>7 DEF Reclaim, SeemsAlive
<1>8. ASSUME NEW p \in Process, Expire(p) PROVE Inv'
  BY <1>8 DEF Expire
<1>9. ASSUME NEW p \in Process, RemoveEntries(p) PROVE Inv'
  <2>1. TypeOK'
    BY <1>9 DEF RemoveEntries
  <2>2. NoneDead'
    BY <1>9 DEF RemoveEntries
  <2>3. OneStands'
    BY <1>9 DEF RemoveEntries
  <2>4. ASSUME NEW q \in Process PROVE Knows(q)'
    BY <1>9 DEF RemoveEntries
  <2>5. OwnerLives'
    BY <1>9 DEF RemoveEntries
  <2>6. QED
    BY <2>1, <2>2, <2>3, <2>4, <2>5
<1>10. ASSUME NEW p \in Process, RemoveDir(p) PROVE Inv'
  <2>1. /\ dir' = NoDir /\ dir.there
        /\ pc[p] = "emptied" /\ process[p] = "alive"
        /\ pc' = [pc EXCEPT ![p] = after[p]]
        /\ UNCHANGED <<process, reused, crashes, after, mine, nextId>>
    BY <1>10 DEF RemoveDir
  <2>2. /\ dir' \in Dir /\ ~dir'.there /\ dir'.owner = NoOwner
        /\ dir'.tmps = {} /\ ~dir'.old
    BY <2>1 DEF NoDir
  <2>3. \A q \in Process : Stands(q) => q = p
    BY <2>1
  <2>4. after[p] \in {"idle", "trying"}
    OBVIOUS
  <2>5. TypeOK'
    BY <2>1, <2>2, <2>4
  <2>6. NoneDead' /\ OneStands'
    BY <2>1, <2>3, <2>4
  <2>7. ASSUME NEW q \in Process PROVE Knows(q)'
    BY <2>1, <2>2, <2>3, <2>4
  <2>8. OwnerLives'
    BY <2>1, <2>2
  <2>9. QED
    BY <2>5, <2>6, <2>7, <2>8
<1>11. ASSUME NEW p \in Process, Release(p) PROVE Inv'
  BY <1>11 DEF Release
<1>12. ASSUME NEW p \in Process, NEW q \in Process, Spawn(p, q) PROVE Inv'
  BY <1>12 DEF Spawn
<1>13. ASSUME NEW p \in Process, Rebind(p) PROVE Inv'
  BY <1>13 DEF Rebind, Exit
<1>14. ASSUME NEW p \in Process, StageOwner(p) PROVE Inv'
  <2>1. /\ dir' = [dir EXCEPT !.tmps = @ \cup {p}, !.old = FALSE]
        /\ pc[p] = "staging" /\ process[p] = "alive" /\ dir.there
        /\ pc' = [pc EXCEPT ![p] = "comparing"]
        /\ UNCHANGED <<process, reused, crashes, after, mine, nextId>>
    BY <1>14 DEF StageOwner
  <2>2. /\ dir' \in Dir /\ dir'.there /\ dir'.owner = dir.owner
        /\ dir'.tmps = dir.tmps \cup {p} /\ ~dir'.old
    <3>1. dir.tmps \cup {p} \in SUBSET Process
      OBVIOUS
    <3>2. QED
      BY <2>1, <3>1
  <2>3. TypeOK'
    BY <2>1, <2>2
  <2>4. NoneDead'
    BY <2>1
  <2>5. OneStands'
    BY <2>1, <2>2
  <2>6. ASSUME NEW q \in Process PROVE Knows(q)'
    BY <2>1, <2>2
  <2>7. OwnerLives'
    BY <2>1, <2>2
  <2>8. QED
    BY <2>3, <2>4, <2>5, <2>6, <2>7
<1>15. ASSUME NEW p \in Process, CompareOwner(p) PROVE Inv'
  BY <1>15 DEF CompareOwner, Exit
<1>16. ASSUME NEW p \in Process, RenameOwner(p) PROVE Inv'
  <2>1. /\ dir' = [dir EXCEPT !.owner = MyOwner(p), !.tmps = @ \ {p},
                              !.old = FALSE]
        /\ pc[p] = "renaming" /\ process[p] = "alive" /\ dir.there
        /\ pc' = [pc EXCEPT ![p] = "rebound"]
        /\ UNCHANGED <<process, reused, crashes, after, mine, nextId>>
    BY <1>16 DEF RenameOwner
  <2>2. /\ dir' \in Dir /\ dir'.there /\ dir'.owner = MyOwner(p)
        /\ dir'.tmps = dir.tmps \ {p} /\ ~dir'.old
    BY <2>1
  <2>3. TypeOK'
    BY <2>1, <2>2
  <2>4. NoneDead'
    BY <2>1
  <2>5. OneStands'
    BY <2>1, <2>2
  <2>6. ASSUME NEW q \in Process PROVE Knows(q)'
    BY <2>1, <2>2
  <2>7. OwnerLives'
    BY <2>1, <2>2
  <2>8. QED
    BY <2>3, <2>4, <2>5, <2>6, <2>7
<1>17. ASSUME NEW p \in Process, ConfirmOwner(p) PROVE Inv'
  BY <1>17 DEF ConfirmOwner, Exit
<1>18. ASSUME NEW p \in Process, Crash(p) PROVE Inv'
  BY <1>18 DEF Crash, NobodyDies
<1>19. ASSUME NEW p \in Process, ReusePid(p) PROVE Inv'
  BY <1>19 DEF ReusePid
<1>20. CASE Age
  <2>1. TypeOK'
    BY <1>20 DEF Age, Working
  <2>2. NoneDead'
    BY <1>20 DEF Age, Working
  <2>3. OneStands'
    BY <1>20 DEF Age, Working
  <2>4. ASSUME NEW q \in Process PROVE Knows(q)'
    BY <1>20 DEF Age, Working
  <2>5. OwnerLives'
    BY <1>20 DEF Age, Working
  <2>6. QED
    BY <2>1, <2>2, <2>3, <2>4, <2>5
<1>21. CASE UNCHANGED vars
  BY <1>21 DEF vars
<1>22. QED
  BY <1>1, <1>2, <1>3, <1>4, <1>5, <1>6, <1>7, <1>8, <1>9, <1>10, <1>11, <1>12,
     <1>13, <1>14, <1>15, <1>16, <1>17, <1>18, <1>19, <1>20, <1>21
     DEF Next, Proceed

\* The invariant stands until somebody dies.
Until == crashes \in Nat /\ (crashes = 0 => Inv)

\* A death is never taken back, so that Until is inductive for any number of
\* deaths.
LEMMA StepUntil ==
  ASSUME Authoritative, ~MayStall, Until, [Next]_vars
  PROVE  Until'
<1>1. crashes' = crashes \/ crashes' = crashes + 1
  BY DEF Next, Proceed, vars, worldVars, Acquire, TryCreate, WriteOwner,
         SyncOwner, Retry, GiveUp, Reclaim, Expire, RemoveEntries, RemoveDir,
         Release, Spawn, Rebind, StageOwner, CompareOwner, RenameOwner,
         ConfirmOwner, Crash, ReusePid, Age
<1>2. crashes' \in Nat
  BY <1>1 DEF Until
<1>3. ASSUME crashes' = 0 PROVE Inv'
  <2>1. Inv
    BY <1>1, <1>3 DEF Until
  <2>2. QED
    BY <1>3, <2>1, StepInv DEF NobodyDies
<1>4. QED
  BY <1>2, <1>3 DEF Until

\* However many processes poll, acquire, release and hand over, none of them
\* loses the claim while it holds it, until somebody dies.
THEOREM ClaimKept ==
  ASSUME Authoritative, ~MayStall
  PROVE  Spec => []HolderIsRecorded
<1>1. Until => HolderIsRecorded
  BY DEF Until, Inv, Knows, HolderIsRecorded, Holds, At
<1>2. Init => Until
  BY InitInv DEF Until, Init
<1>3. Until /\ [Next]_vars => Until'
  BY StepUntil
<1>4. QED
  BY <1>1, <1>2, <1>3, PTL DEF Spec

\* ... and no two of them hold it.
THEOREM ClaimExclusive ==
  ASSUME Authoritative, ~MayStall
  PROVE  Spec => []ExclusiveAmongLiving
<1>1. Until => ExclusiveAmongLiving
  BY DEF Until, Inv, OneStands, Stands, ExclusiveAmongLiving, AtMostOneHolder,
         Holds, At
<1>2. Init => Until
  BY InitInv DEF Until, Init
<1>3. Until /\ [Next]_vars => Until'
  BY StepUntil
<1>4. QED
  BY <1>1, <1>2, <1>3, PTL DEF Spec
-----------------------------------------------------------------------------
(* Types, on every platform.                                               *)

\* Whoever dies, stalls or reuses a pid, every step keeps the types, and what is
\* not there is empty.
LEMMA TypeStep == TypeOK /\ [Next]_vars => TypeOK'
<1> SUFFICES ASSUME TypeOK, [Next]_vars PROVE TypeOK'
  OBVIOUS
<1> USE NoProcessAssumption
    DEF TypeOK, Dir, Location, At, Goto, MyOwner, NoOwner, idVars, worldVars
<1>0. NoDir \in Dir /\ ~NoDir.there /\ NoDir.tmps = {} /\ NoDir.owner = NoOwner /\ ~NoDir.old
  BY DEF NoDir
<1>1. ASSUME NEW p \in Process, Acquire(p) \/ Retry(p) \/ GiveUp(p) \/ Crash(p) \/ ReusePid(p)
      PROVE  TypeOK'
  BY <1>1 DEF Acquire, Retry, GiveUp, Crash, ReusePid
<1>2. ASSUME NEW p \in Process, TryCreate(p) PROVE TypeOK'
  <2>1. CASE dir.there
    BY <1>2, <2>1 DEF TryCreate
  <2>2. CASE ~dir.there
    <3>1. /\ dir' = [NoDir EXCEPT !.there = TRUE, !.by = mine[p]]
          /\ pc' = [pc EXCEPT ![p] = "created"]
          /\ UNCHANGED <<after, mine, nextId, process, reused, crashes>>
      BY <1>2, <2>2 DEF TryCreate
    <3>2. dir' \in Dir /\ dir'.there
      BY <3>1 DEF NoDir
    <3>3. QED
      BY <3>1, <3>2
  <2>3. QED
    BY <2>1, <2>2
<1>3. ASSUME NEW p \in Process, WriteOwner(p) PROVE TypeOK'
  <2>1. dir' \in Dir /\ dir'.there
    BY <1>3 DEF WriteOwner, NoDir
  <2>2. /\ pc' = [pc EXCEPT ![p] = "written"]
        /\ UNCHANGED <<after, mine, nextId, process, reused, crashes>>
    BY <1>3 DEF WriteOwner
  <2>3. QED
    BY <2>1, <2>2
<1>4. ASSUME NEW p \in Process, SyncOwner(p) \/ Reclaim(p) \/ Expire(p) \/ Release(p)
      PROVE  TypeOK'
  BY <1>4 DEF SyncOwner, Reclaim, Expire, Release
<1>5. ASSUME NEW p \in Process, RemoveEntries(p) PROVE TypeOK'
  <2>1. dir' \in Dir /\ (~dir'.there => dir' = dir /\ ~dir.there)
    BY <1>5 DEF RemoveEntries
  <2>2. /\ pc' = [pc EXCEPT ![p] = "emptied"]
        /\ UNCHANGED <<after, mine, nextId, process, reused, crashes>>
    BY <1>5 DEF RemoveEntries
  <2>3. QED
    BY <2>1, <2>2
<1>6. ASSUME NEW p \in Process, RemoveDir(p) PROVE TypeOK'
  <2>1. \E location \in Location : pc' = [pc EXCEPT ![p] = location]
    BY <1>6 DEF RemoveDir
  <2>2. dir' = NoDir \/ dir' = dir
    BY <1>6 DEF RemoveDir
  <2>3. UNCHANGED <<after, mine, nextId, process, reused, crashes>>
    BY <1>6 DEF RemoveDir
  <2>4. QED
    BY <1>0, <2>1, <2>2, <2>3
<1>7. ASSUME NEW p \in Process, NEW q \in Process, Spawn(p, q) PROVE TypeOK'
  BY <1>7 DEF Spawn
<1>8. ASSUME NEW q \in Process, Exit(q), UNCHANGED <<reused, after, idVars, crashes>>
      PROVE  TypeOK'
  <2>1. dir' = [dir EXCEPT !.tmps = @ \ {q}]
    BY <1>8 DEF Exit
  <2>2. dir' \in Dir /\ dir'.there = dir.there
    BY <2>1
  <2>3. ~dir.there => dir' = NoDir
    <3>1. NoDir.tmps \ {q} = NoDir.tmps
      BY DEF NoDir
    <3>2. [NoDir EXCEPT !.tmps = NoDir.tmps] = NoDir
      BY Zenon DEF NoDir
    <3>3. QED
      BY <2>1, <3>1, <3>2
  <2>4. /\ process' = [process EXCEPT ![q] = "dead"] /\ pc' = [pc EXCEPT ![q] = "idle"]
        /\ UNCHANGED <<after, mine, nextId, reused, crashes>>
    BY <1>8 DEF Exit
  <2>5. QED
    BY <2>2, <2>3, <2>4
<1>9. ASSUME NEW q \in Process, Rebind(q) PROVE TypeOK'
  BY <1>8, <1>9 DEF Rebind
<1>10. ASSUME NEW q \in Process, StageOwner(q) PROVE TypeOK'
  <2>1. CASE /\ dir.there
             /\ dir' = [dir EXCEPT !.tmps = @ \cup {q}, !.old = FALSE]
             /\ Goto(q, "comparing") /\ UNCHANGED <<process, reused, after, idVars, crashes>>
    <3>1. dir' \in Dir /\ dir'.there
      BY <2>1
    <3>2. QED
      BY <2>1, <3>1
  <2>2. QED
    BY <1>8, <1>10, <2>1 DEF StageOwner
<1>11. ASSUME NEW q \in Process, CompareOwner(q) PROVE TypeOK'
  BY <1>8, <1>11 DEF CompareOwner
<1>12. ASSUME NEW q \in Process, RenameOwner(q) PROVE TypeOK'
  <2>1. CASE /\ q \in dir.tmps
             /\ dir' = [dir EXCEPT !.owner = MyOwner(q), !.tmps = @ \ {q}, !.old = FALSE]
             /\ Goto(q, "rebound") /\ UNCHANGED <<process, reused, after, idVars, crashes>>
    <3>1. dir.there
      BY <1>0, <2>1
    <3>2. dir' \in Dir /\ dir'.there
      BY <2>1, <3>1
    <3>3. QED
      BY <2>1, <3>2
  <2>2. QED
    BY <1>8, <1>12, <2>1 DEF RenameOwner
<1>13. ASSUME NEW q \in Process, ConfirmOwner(q) PROVE TypeOK'
  BY <1>8, <1>13 DEF ConfirmOwner
<1>14. CASE Age \/ UNCHANGED vars
  BY <1>14 DEF Age, vars
<1>15. QED
  BY <1>1, <1>2, <1>3, <1>4, <1>5, <1>6, <1>7, <1>9, <1>10, <1>11, <1>12, <1>13, <1>14
     DEF Next, Proceed

\* Every variable of the claim keeps its type, and a directory that is not there
\* has no owner, no staged file and no age, whatever processes die or stall.
THEOREM ClaimTypes == Spec => []TypeOK
<1>1. Init => TypeOK
  BY StartedAssumption DEF Init, TypeOK, NoDir, NoOwner, Dir, Location
<1>2. QED
  BY <1>1, TypeStep, PTL DEF Spec

-----------------------------------------------------------------------------
(* The rename of a rebind, on any platform.                                 *)

\* The staged file of a child that has compared the claim id is in the directory it
\* compared: another directory would have been created without it.
StagedWhereCompared ==
  /\ ~dir.there => dir.tmps = {}
  /\ \A q \in Process : pc[q] = "renaming" /\ q \in dir.tmps => dir.by = compared[q]

\* What a step does to the directory and to a child that renames, on both platforms: a
\* directory is created without staged files and keeps its origin, and a child comes to
\* rename only from the compare, which leaves the directory alone.
DirectoryStep ==
  /\ ~dir'.there => dir'.tmps = {}
  /\ \A q \in Process : pc'[q] = "renaming" /\ q \in dir'.tmps =>
       \/ pc[q] = "comparing" /\ dir' = dir
       \/ pc[q] = "renaming" /\ q \in dir.tmps /\ dir'.by = dir.by
  /\ \A q \in Process : pc[q] = "renaming" /\ pc'[q] = "rebound" => q \in dir.tmps

\* A child that exits takes its staged file with it.
LEMMA ExitIs ==
  ASSUME TypeOK, StagedWhereCompared, NEW q \in Process, Exit(q) PROVE DirectoryStep
<1>1. dir'.there = dir.there /\ dir'.by = dir.by /\ dir'.tmps = dir.tmps \ {q}
  BY DEF Exit, TypeOK, Dir
<1>2. pc' = [pc EXCEPT ![q] = "idle"]
  BY DEF Exit, Goto
<1> QED BY <1>1, <1>2 DEF DirectoryStep, StagedWhereCompared, TypeOK

\* Every step treats the directory so.
LEMMA StepDirectory ==
  ASSUME TypeOK, StagedWhereCompared, [Next]_vars PROVE DirectoryStep
<1> USE DEF TypeOK, Dir, Location, At, Goto, MyOwner, idVars, worldVars, StagedWhereCompared
<1>0. ~NoDir.there /\ NoDir.tmps = {}
  BY DEF NoDir
<1>1. ASSUME NEW p \in Process, Acquire(p) \/ Retry(p) \/ GiveUp(p) \/ Crash(p) \/ ReusePid(p)
      PROVE  DirectoryStep
  BY <1>1 DEF DirectoryStep, Acquire, Retry, GiveUp, Crash, ReusePid
<1>2. ASSUME NEW p \in Process, TryCreate(p) PROVE DirectoryStep
  BY <1>2 DEF DirectoryStep, TryCreate, NoDir
<1>3. ASSUME NEW p \in Process, WriteOwner(p) PROVE DirectoryStep
  BY <1>3 DEF DirectoryStep, WriteOwner, NoDir
<1>4. ASSUME NEW p \in Process, SyncOwner(p) \/ Reclaim(p) \/ Expire(p) \/ Release(p) PROVE DirectoryStep
  BY <1>4 DEF DirectoryStep, SyncOwner, Reclaim, Expire, Release
<1>5. ASSUME NEW p \in Process, RemoveEntries(p) PROVE DirectoryStep
  BY <1>5 DEF DirectoryStep, RemoveEntries
<1>6. ASSUME NEW p \in Process, RemoveDir(p) PROVE DirectoryStep
  BY <1>6, <1>0 DEF DirectoryStep, RemoveDir
<1>7. ASSUME NEW p \in Process, NEW q \in Process, Spawn(p, q) PROVE DirectoryStep
  BY <1>7 DEF DirectoryStep, Spawn
<1>8. ASSUME NEW q \in Process, Rebind(q) \/ CompareOwner(q) \/ ConfirmOwner(q) PROVE DirectoryStep
  BY <1>8 DEF DirectoryStep, Rebind, CompareOwner, ConfirmOwner, Exit
<1>9. ASSUME NEW q \in Process, StageOwner(q) PROVE DirectoryStep
  <2>1. CASE /\ dir.there /\ dir' = [dir EXCEPT !.tmps = @ \cup {q}, !.old = FALSE]
             /\ pc' = [pc EXCEPT ![q] = "comparing"]
    <3>1. dir'.there /\ dir'.by = dir.by /\ dir'.tmps = dir.tmps \cup {q}
      BY <2>1
    <3> QED BY <2>1, <3>1, <1>9 DEF DirectoryStep, StageOwner
  <2>2. CASE Exit(q)
    BY <2>2, <1>9, ExitIs DEF StageOwner
  <2> QED BY <1>9, <2>1, <2>2 DEF StageOwner
<1>10. ASSUME NEW q \in Process, RenameOwner(q) PROVE DirectoryStep
  <2>1. CASE /\ q \in dir.tmps
             /\ dir' = [dir EXCEPT !.owner = MyOwner(q), !.tmps = @ \ {q}, !.old = FALSE]
             /\ pc' = [pc EXCEPT ![q] = "rebound"]
    <3>1. dir'.there = dir.there /\ dir'.by = dir.by /\ dir'.tmps = dir.tmps \ {q}
      BY <2>1
    <3> QED BY <2>1, <3>1, <1>10 DEF DirectoryStep, RenameOwner
  <2>2. CASE Exit(q)
    BY <2>2, <1>10, ExitIs DEF RenameOwner
  <2> QED BY <1>10, <2>1, <2>2 DEF RenameOwner
<1>11. ASSUME Age \/ UNCHANGED vars PROVE DirectoryStep
  BY <1>11 DEF DirectoryStep, Age, vars
<1> QED BY <1>1, <1>2, <1>3, <1>4, <1>5, <1>6, <1>7, <1>8, <1>9, <1>10, <1>11 DEF Next, Proceed


\* rebindToken (exclusive-claim.ts) never writes a child's name into a directory other than
\* the one whose claim id it compared, whatever is reclaimed, created or aged in between,
\* on a platform that tells start times or not, with processes that stall or do not: the
\* staged file lies in the directory, and goes with it.
THEOREM RebindIsOwn == TrustedSpec => RebindTakesOwn
<1> DEFINE Compared == \A q \in Process : pc[q] = "renaming" /\ pc'[q] = "rebound" => dir.by = compared[q]
<1>1. hostile = FALSE /\ compared = [q \in Process |-> 0] /\ Init => TypeOK /\ StagedWhereCompared
  BY StartedAssumption DEF Init, TypeOK, StagedWhereCompared, NoDir, NoOwner, Dir, Location
<1>2. TypeOK /\ [TrustedNext]_bothVars => TypeOK'
  BY TypeStep DEF TrustedNext, bothVars, vars
<1>3. ASSUME TypeOK, StagedWhereCompared, [TrustedNext]_bothVars
      PROVE  StagedWhereCompared' /\ [Compared]_bothVars
  <2>1. [Next]_vars /\ DirectoryStep
    BY <1>3, StepDirectory DEF TrustedNext, bothVars
  <2>2. CASE UNCHANGED bothVars
    BY <1>3, <2>2 DEF bothVars, vars, StagedWhereCompared
  <2>3. CASE TrustedNext
    <3>1. \A q \in Process : pc'[q] = "renaming" =>
            compared'[q] = IF pc[q] = "comparing" THEN dir.by ELSE compared[q]
      BY <2>3 DEF TrustedNext, Compares
    <3>2. StagedWhereCompared'
      BY <1>3, <2>1, <3>1 DEF StagedWhereCompared, DirectoryStep
    <3>3. Compared
      BY <1>3, <2>1 DEF StagedWhereCompared, DirectoryStep
    <3> QED BY <3>2, <3>3
  <2> QED BY <1>3, <2>2, <2>3
<1> QED BY <1>1, <1>2, <1>3, PTL DEF TrustedSpec, RebindTakesOwn
=============================================================================
