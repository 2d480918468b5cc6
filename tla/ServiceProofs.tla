----------------------------- MODULE ServiceProofs -----------------------------
(***************************************************************************)
(* Proofs about the smaller services.  Each section is about one component, *)
(* taken as an instance under its own name; variables of different           *)
(* components that have one name have nothing to do with each other.         *)
(***************************************************************************)
EXTENDS Integers, FiniteSets, Sequences, FiniteSetTheorems, WellFoundedInduction, TLAPS

-----------------------------------------------------------------------------
(* RequestDesk.                                                             *)

CONSTANTS Req, Conn, ConnOf, IdOf, RuntimeTries
VARIABLES mode, step, conn, req, told, remembered, runtime, idle, marker

Desk == INSTANCE RequestDesk

\* What the constants are.
DeskConstants == \A r \in Req : ConnOf[r] \in Conn

Runtime == [is : {"none", "creating", "open", "closed"}, tries : Nat]

DeskTypes ==
  /\ step \in {"serving", "relinquishing", "handlers", "profiles", "done"}
  /\ mode \in {"none", "asked", "plain", "bounded"}
  /\ conn \in [Conn -> {"open", "destroyed", "closed"}]
  /\ req \in [Req -> {"unsent", "building", "working", "answered", "cancelled", "failed", "lost"}]
  /\ runtime \in Runtime

\* Once the drain has begun nothing is sent, and how it drains stays.
DrainFits ==
  /\ step # "serving" => mode \in {"plain", "bounded"} /\ \A k \in Conn : conn[k] # "open"
  /\ step = "serving" => mode \in {"none", "asked"}

\* An id is remembered because a connection of that id was lost, or the daemon was superseded.
Lost(id) == \E q \in Req : IdOf[q] = id /\ conn[ConnOf[q]] = "closed"

RememberedFits == mode # "bounded" => \A id \in remembered : Lost(id)

DeskInv ==
  /\ DeskTypes /\ DrainFits /\ RememberedFits
  /\ Desk!StoresOutliveWork /\ Desk!IdleIsTimed /\ Desk!CancelledByItsOwn

\* The requests of the daemon and its connections begin well.
LEMMA DeskStarts == ASSUME Desk!Init PROVE DeskInv
<1>1. DeskTypes /\ DrainFits /\ RememberedFits
  BY DEF Desk!Init, DeskTypes, DrainFits, RememberedFits, Runtime
<1>2. Desk!StoresOutliveWork /\ Desk!IdleIsTimed /\ Desk!CancelledByItsOwn
  BY DEF Desk!Init, Desk!StoresOutliveWork, Desk!IdleIsTimed, Desk!CancelledByItsOwn, Desk!Managing,
    Desk!Active,
    Desk!Underway
<1> QED BY <1>1, <1>2 DEF DeskInv

\* Types, and how the drain goes.
LEMMA DeskTypesStep ==
  ASSUME DeskConstants, DeskTypes, DrainFits, [Desk!Next]_Desk!vars
  PROVE  DeskTypes' /\ DrainFits'
<1> USE DEF DeskTypes, DrainFits
<1>1. ASSUME NEW r \in Req, Desk!Send(r) PROVE DeskTypes' /\ DrainFits'
  <2>1. runtime' \in Runtime
    <3>1. runtime.tries \in Nat
      BY DEF Runtime
    <3>2. CASE runtime' = [is |-> "creating", tries |-> runtime.tries + 1]
      BY <3>1, <3>2 DEF Runtime
    <3>3. runtime' = [is |-> "creating", tries |-> runtime.tries + 1] \/ runtime' = runtime
      BY <1>1 DEF Desk!Send
    <3> QED BY <3>2, <3>3
  <2>2. req' \in [Req -> {"unsent", "building", "working", "answered", "cancelled", "failed", "lost"}]
    BY <1>1 DEF Desk!Send
  <2> QED BY <1>1, <2>1, <2>2 DEF Desk!Send
<1>2. CASE Desk!Created \/ Desk!CreateFails
  <2>1. runtime' \in Runtime
    BY <1>2 DEF Desk!Created, Desk!CreateFails, Runtime
  <2>2. CASE Desk!Created
    BY <2>1, <2>2 DEF Desk!Created, Desk!Settled
  <2>3. CASE Desk!CreateFails
    BY <2>1, <2>3 DEF Desk!CreateFails, Desk!Settled
  <2> QED BY <1>2, <2>2, <2>3
<1>3. ASSUME NEW r \in Req, Desk!Finish(r) \/ Desk!Fail(r) PROVE DeskTypes' /\ DrainFits'
  BY <1>3 DEF Desk!Finish, Desk!Fail, Desk!Settled
<1>4. ASSUME NEW k \in Conn, Desk!Closed(k) PROVE DeskTypes' /\ DrainFits'
  BY <1>4 DEF Desk!Closed
<1>5. ASSUME NEW b \in BOOLEAN, Desk!Drain(b) PROVE DeskTypes' /\ DrainFits'
  BY <1>5 DEF Desk!Drain
<1>6. CASE Desk!Shutdown \/ Desk!Relinquished \/ Desk!HandlersDrained
  BY <1>6 DEF Desk!Shutdown, Desk!Relinquished, Desk!HandlersDrained
<1>7. ASSUME NEW b \in BOOLEAN, Desk!ProfilesClosed(b) PROVE DeskTypes' /\ DrainFits'
  <2>1. runtime' \in Runtime
    BY <1>7 DEF Desk!ProfilesClosed, Runtime
  <2> QED BY <1>7, <2>1 DEF Desk!ProfilesClosed
<1>8. CASE UNCHANGED Desk!vars
  BY <1>8 DEF Desk!vars
<1> QED BY <1>1, <1>2, <1>3, <1>4, <1>5, <1>6, <1>7, <1>8 DEF Desk!Next

\* A connection that is lost stays lost.
LEMMA LostStays ==
  ASSUME DeskConstants, DeskTypes, [Desk!Next]_Desk!vars, NEW id, Lost(id)
  PROVE  Lost(id)'
<1>1. \A k \in Conn : conn[k] = "closed" => conn'[k] = "closed"
  BY DEF DeskTypes, Desk!Next, Desk!vars, Desk!Send, Desk!Created, Desk!CreateFails, Desk!Finish, Desk!Fail,
    Desk!Closed, Desk!Drain, Desk!Shutdown, Desk!Relinquished, Desk!HandlersDrained, Desk!ProfilesClosed
<1> QED BY <1>1 DEF Lost, DeskConstants

\* What is cancelled was asked for on a connection that is lost, or all is.
LEMMA CancelledStep ==
  ASSUME DeskConstants, DeskInv, [Desk!Next]_Desk!vars
  PROVE  RememberedFits' /\ Desk!CancelledByItsOwn'
<1>0. DeskTypes /\ DrainFits /\ RememberedFits /\ Desk!CancelledByItsOwn /\ DeskTypes' /\ DrainFits'
  BY DeskTypesStep DEF DeskInv
<1> DEFINE G == RememberedFits' /\ Desk!CancelledByItsOwn'
<1>1. CASE mode' = "bounded"
  BY <1>1 DEF RememberedFits, Desk!CancelledByItsOwn
<1>2. ASSUME mode' # "bounded" PROVE G
  <2>1. mode # "bounded"
    BY <1>0, <1>2 DEF Desk!Next, Desk!vars, DrainFits, Desk!Send, Desk!Created, Desk!CreateFails, Desk!Finish,
      Desk!Fail, Desk!Closed, Desk!Drain, Desk!Shutdown, Desk!Relinquished, Desk!HandlersDrained, Desk!ProfilesClosed
  <2>2. \A id \in remembered' : id \in remembered \/ Lost(id)'
    <3>1. ASSUME NEW k \in Conn, Desk!Closed(k), NEW id \in remembered' PROVE id \in remembered \/ Lost(id)'
      BY <1>0, <3>1
        DEF Desk!Closed, Desk!Cancel, Desk!CancelledWith, Lost, Desk!Active, DeskTypes, DeskConstants
    <3>2. ASSUME NEW b \in BOOLEAN, Desk!Drain(b) PROVE remembered' = remembered
      BY <1>2, <3>2 DEF Desk!Drain
    <3> QED BY <3>1, <3>2 DEF Desk!Next, Desk!vars, Desk!Send, Desk!Created, Desk!CreateFails, Desk!Finish,
      Desk!Fail, Desk!Shutdown, Desk!Relinquished, Desk!HandlersDrained, Desk!ProfilesClosed
  <2>3. \A id \in remembered' : Lost(id)'
    BY <1>0, <2>1, <2>2, LostStays DEF RememberedFits
  <2>4. \A r \in Req : r \in told' => r \in told \/ IdOf[r] \in remembered'
    <3>1. ASSUME NEW k \in Conn, Desk!Closed(k)
          PROVE \A r \in Req : r \in told' => r \in told \/ IdOf[r] \in remembered'
      BY <3>1 DEF Desk!Closed, Desk!Cancel
    <3>2. ASSUME NEW b \in BOOLEAN, Desk!Drain(b) PROVE told' = told
      BY <1>2, <3>2 DEF Desk!Drain
    <3> QED BY <3>1, <3>2 DEF Desk!Next, Desk!vars, Desk!Send, Desk!Created, Desk!CreateFails, Desk!Finish,
      Desk!Fail, Desk!Shutdown, Desk!Relinquished, Desk!HandlersDrained, Desk!ProfilesClosed
  <2>5. \A r \in Req : req'[r] = "cancelled" => req[r] = "cancelled" \/ r \in told \/ IdOf[r] \in remembered
    <3> DEFINE P == \A r \in Req :
                 req'[r] = "cancelled" => req[r] = "cancelled" \/ r \in told \/ IdOf[r] \in remembered
    <3>1. ASSUME NEW q \in Req, Desk!Send(q) PROVE P
      <4>1. \/ req' = [req EXCEPT ![q] = "cancelled"] /\ IdOf[q] \in remembered
            \/ req' = [req EXCEPT ![q] = "working"] \/ req' = [req EXCEPT ![q] = "building"]
        BY <3>1 DEF Desk!Send
      <4> QED BY <1>0, <4>1 DEF DeskTypes
    <3>2. CASE Desk!Created
      BY <1>0, <3>2 DEF DeskTypes, Desk!Created, Desk!Settled
    <3>3. CASE Desk!CreateFails
      BY <1>0, <3>3 DEF DeskTypes, Desk!CreateFails, Desk!Settled
    <3>4. ASSUME NEW q \in Req, Desk!Finish(q) PROVE P
      BY <1>0, <3>4 DEF DeskTypes, Desk!Finish, Desk!Settled
    <3>5. ASSUME NEW q \in Req, Desk!Fail(q) PROVE P
      BY <1>0, <3>5 DEF DeskTypes, Desk!Fail, Desk!Settled
    <3>6. CASE req' = req
      BY <3>6
    <3> QED BY <3>1, <3>2, <3>3, <3>4, <3>5, <3>6
      DEF Desk!Next, Desk!vars, Desk!Closed, Desk!Drain, Desk!Shutdown,
      Desk!Relinquished, Desk!HandlersDrained, Desk!ProfilesClosed
  <2>6. \A r \in Req : r \in told \/ req[r] = "cancelled" => Lost(IdOf[r])
    BY <1>0, <2>1 DEF Desk!CancelledByItsOwn, Lost
  <2>7. \A r \in Req : r \in told' \/ req'[r] = "cancelled" => Lost(IdOf[r])'
    BY <1>0, <2>1, <2>3, <2>4, <2>5, <2>6, LostStays DEF RememberedFits
  <2> QED BY <2>3, <2>7 DEF RememberedFits, Desk!CancelledByItsOwn, Lost
<1> QED BY <1>1, <1>2

\* What becomes of the requests under way.
LEMMA IdleStep ==
  ASSUME DeskConstants, DeskInv, [Desk!Next]_Desk!vars
  PROVE  Desk!IdleIsTimed'
<1>0. DeskTypes /\ Desk!IdleIsTimed
  BY DEF DeskInv
<1> SUFFICES ASSUME step' = "serving" PROVE idle' <=> Desk!Active' = {}
  BY DEF Desk!IdleIsTimed
<1> USE DEF Desk!Active, Desk!Underway, DeskTypes
<1>1. ASSUME NEW r \in Req, Desk!Send(r) PROVE idle' <=> Desk!Active' = {}
  <2>0. step = "serving" /\ (idle <=> Desk!Active = {})
    BY <1>0, <1>1 DEF Desk!Send, Desk!IdleIsTimed
  <2>1. CASE IdOf[r] \in remembered
    <3>1. req' = [req EXCEPT ![r] = "cancelled"] /\ req[r] = "unsent" /\ (idle' <=> Desk!Active = {})
      BY <1>1, <2>0, <2>1 DEF Desk!Send, Desk!IdleAfter
    <3>2. Desk!Active' = Desk!Active
      BY <1>0, <3>1
    <3> QED BY <3>1, <3>2
  <2>2. CASE IdOf[r] \notin remembered
    <3>1. idle' = FALSE /\ (req' = [req EXCEPT ![r] = "working"] \/ req' = [req EXCEPT ![r] = "building"])
      BY <1>1, <2>2 DEF Desk!Send
    <3>2. r \in Desk!Active'
      BY <1>0, <3>1
    <3> QED BY <3>1, <3>2
  <2> QED BY <2>1, <2>2
<1>2. CASE Desk!Created
  BY <1>0, <1>2 DEF Desk!Created, Desk!IdleAfter, Desk!Building, Desk!IdleIsTimed, Desk!Settled
<1>3. CASE Desk!CreateFails
  BY <1>0, <1>3 DEF Desk!CreateFails, Desk!IdleAfter, Desk!Building, Desk!IdleIsTimed, Desk!Settled
<1>4. ASSUME NEW r \in Req, Desk!Finish(r) \/ Desk!Fail(r) PROVE idle' <=> Desk!Active' = {}
  BY <1>0, <1>4 DEF Desk!Finish, Desk!Fail, Desk!IdleAfter, Desk!IdleIsTimed, Desk!Settled
<1>5. CASE UNCHANGED <<step, req, idle>>
  BY <1>0, <1>5 DEF Desk!IdleIsTimed
<1>6. \/ \E r \in Req : Desk!Send(r) \/ Desk!Finish(r) \/ Desk!Fail(r)
      \/ Desk!Created \/ Desk!CreateFails \/ UNCHANGED <<step, req, idle>>
  BY <1>0
    DEF Desk!Next, Desk!vars, Desk!Closed, Desk!Drain, Desk!Shutdown, Desk!Relinquished, Desk!HandlersDrained,
    Desk!ProfilesClosed
<1> QED BY <1>1, <1>2, <1>3, <1>4, <1>5, <1>6

\* The stores close after the work.
LEMMA StoresStep ==
  ASSUME DeskConstants, DeskInv, [Desk!Next]_Desk!vars
  PROVE  Desk!StoresOutliveWork'
<1>0. DeskTypes /\ DrainFits /\ Desk!StoresOutliveWork
  BY DEF DeskInv
<1> USE DEF Desk!StoresOutliveWork, Desk!Active, Desk!Underway, Desk!Managing, DeskTypes, DrainFits
<1>1. ASSUME NEW r \in Req, Desk!Send(r) PROVE Desk!StoresOutliveWork'
  BY <1>0, <1>1 DEF Desk!Send, DeskConstants
<1>2. CASE Desk!Created \/ Desk!CreateFails
  BY <1>0, <1>2 DEF Desk!Created, Desk!CreateFails, Desk!Settled, Runtime
<1>3. ASSUME NEW r \in Req, Desk!Finish(r) \/ Desk!Fail(r) PROVE Desk!StoresOutliveWork'
  <2>1. UNCHANGED <<step, mode, runtime, marker>> /\ r \in Desk!Active
    BY <1>3 DEF Desk!Finish, Desk!Fail
  <2>2. CASE Desk!Active # {} /\ ~(mode = "plain" /\ ~Desk!Managing)
    BY <1>0, <2>1, <2>2
  <2> QED BY <1>0, <2>1, <2>2
<1>4. ASSUME NEW b \in BOOLEAN, Desk!ProfilesClosed(b) PROVE Desk!StoresOutliveWork'
  BY <1>0, <1>4 DEF Desk!ProfilesClosed, Runtime
<1>5. CASE Desk!HandlersDrained
  BY <1>0, <1>5 DEF Desk!HandlersDrained, Desk!HandlersOver
<1>6. ASSUME NEW b \in BOOLEAN, Desk!Drain(b) PROVE Desk!StoresOutliveWork'
  BY <1>0, <1>6 DEF Desk!Drain
<1>7. CASE Desk!Shutdown
  BY <1>0, <1>7 DEF Desk!Shutdown
<1>8. CASE Desk!Relinquished
  BY <1>0, <1>8 DEF Desk!Relinquished
<1>9. CASE UNCHANGED <<step, mode, req, runtime, marker>>
  BY <1>0, <1>9
<1>10. (\E k \in Conn : Desk!Closed(k)) \/ UNCHANGED Desk!vars => UNCHANGED <<step, mode, req, runtime, marker>>
  BY DEF Desk!Closed, Desk!vars
<1> QED BY <1>1, <1>2, <1>3, <1>4, <1>5, <1>6, <1>7, <1>8, <1>9, <1>10 DEF Desk!Next

\* For any requests, connections, cancellation ids and drains: no request is under way when a
\* plain drain closes the stores and no runtime is open after it (server.ts drain,
\* profile-manager.ts close), the idle timer runs exactly when nothing is under way
\* (armIdleTimer), and one lost connection cancels only what has its id (cancelRequest).
THEOREM DeskIsOrderly ==
  ASSUME DeskConstants
  PROVE  Desk!Spec => [](Desk!StoresOutliveWork /\ Desk!IdleIsTimed /\ Desk!CancelledByItsOwn)
<1>1. Desk!Init => DeskInv
  BY DeskStarts
<1>2. DeskInv /\ [Desk!Next]_Desk!vars => DeskInv'
  BY DeskTypesStep, CancelledStep, IdleStep, StoresStep DEF DeskInv
<1>3. DeskInv => Desk!StoresOutliveWork /\ Desk!IdleIsTimed /\ Desk!CancelledByItsOwn
  BY DEF DeskInv
<1> QED BY <1>1, <1>2, <1>3, PTL DEF Desk!Spec

-----------------------------------------------------------------------------
(* VaultStates.                                                             *)

CONSTANTS Op, MaxReport
VARIABLES rec, watcher, op, builds, reports, past

Status == INSTANCE VaultStates

Shown   == [st : {"unloaded", "loading", "updating", "ready"}, progress : BOOLEAN, error : BOOLEAN]
Request == [kind : {"none", "search", "load", "update", "clear"}, st : {"none", "running", "building", "ended"}]
Build   == [leader : Op, members : SUBSET Op]
History == [late : BOOLEAN, served : BOOLEAN]

StatusTypes ==
  /\ rec \in Shown /\ watcher \in BOOLEAN /\ past \in History
  /\ op \in [Op -> Request] /\ builds \subseteq Build

\* A build was begun by loads and updates, and its leader waits for it or has ended.
BuildsFit ==
  /\ \A o \in Op : op[o].st # "none" <=> op[o].kind # "none"
  /\ \A b \in builds :
       /\ \A o \in b.members : op[o].kind \in {"load", "update"}
       /\ op[b.leader].kind \in {"load", "update"} /\ op[b.leader].st \in {"building", "ended"}

\* Searches alone leave the record as it is: only the others unsettle it.
Unsettled == \E o \in Status!Busy : op[o].kind # "search"
Rested    == rec.st \in {"ready", "unloaded"} /\ ~rec.progress
RestFits  == Unsettled \/ past.late \/ Rested

StatusInv == StatusTypes /\ BuildsFit /\ RestFits /\ Status!ServedIsWatched

\* The vault of a daemon that starts is unloaded and unwatched (vault-registry.ts).
LEMMA StatusStarts == ASSUME Status!Init PROVE StatusInv
<1>1. StatusTypes
  BY DEF Status!Init, StatusTypes, Shown, Request, Build, History
<1>2. BuildsFit /\ RestFits /\ Status!ServedIsWatched
  BY DEF Status!Init, BuildsFit, RestFits, Rested, Status!ServedIsWatched
<1> QED BY <1>1, <1>2 DEF StatusInv

\* What a step of the record comes to (transition).
LEMMA TransitionIs ==
  ASSUME rec \in Shown, NEW st \in {"unloaded", "loading", "updating", "ready"}, NEW p \in BOOLEAN,
         NEW e \in BOOLEAN,
         Status!Transition(st, p, e)
  PROVE  rec' \in Shown /\ rec'.st = st /\ (~p /\ st \in {"ready", "unloaded"} => ~rec'.progress)
<1>1. rec.progress \in BOOLEAN /\ rec.error \in BOOLEAN
  BY DEF Shown
<1>2. PICK q \in BOOLEAN, f \in BOOLEAN :
         rec' = [st |-> st, progress |-> q, error |-> f] /\ (~p /\ st \in {"ready", "unloaded"} => ~q)
  BY <1>1 DEF Status!Transition
<1> QED BY <1>2 DEF Shown

\* A request that ends says how: the record rests unless a search fails, and the watcher keeps up.
LEMMA SaysRests ==
  ASSUME StatusInv, NEW o \in Op, NEW ok \in BOOLEAN, op[o].kind \in {"search", "load", "update", "clear"},
         Status!Says(o, ok)
  PROVE  /\ rec' \in Shown /\ watcher' \in BOOLEAN /\ past' \in History
         /\ Rested' \/ (op[o].kind = "search" /\ rec' = rec /\ past'.late = past.late)
         /\ Status!ServedIsWatched'
<1>0. rec \in Shown /\ watcher \in BOOLEAN /\ past \in History /\ Status!ServedIsWatched
  BY DEF StatusInv, StatusTypes
<1>1. past.late \in BOOLEAN /\ past.served \in BOOLEAN
  BY <1>0 DEF History
<1>2. past' \in History
  BY <1>1 DEF Status!Says, History
<1>3. watcher' = (IF ok THEN watcher \/ op[o].kind # "clear" ELSE watcher /\ op[o].kind # "load")
  BY DEF Status!Says, Status!StopsAtFailure
<1>4. past'.served = (IF ok THEN past.served \/ op[o].kind # "clear" ELSE past.served /\ op[o].kind # "load")
  BY DEF Status!Says
<1>5. watcher' \in BOOLEAN /\ (past'.served => watcher')
  BY <1>0, <1>3, <1>4 DEF Status!ServedIsWatched
<1>6. CASE ~ok /\ op[o].kind = "search"
  <2>1. rec' = rec /\ past'.late = past.late /\ watcher' = watcher
    BY <1>0, <1>1, <1>3, <1>6 DEF Status!Says
  <2> QED BY <1>0, <1>2, <1>5, <1>6, <2>1 DEF Status!ServedIsWatched
<1>7. CASE ok \/ op[o].kind # "search"
  <2>1. PICK st \in {"ready", "unloaded"}, e \in BOOLEAN :
           Status!Transition(st, FALSE, e) /\ (st = "unloaded" => ~ok /\ op[o].kind = "load")
    <3>1. CASE ok
      BY <3>1 DEF Status!Says
    <3>2. CASE ~ok /\ op[o].kind = "load"
      BY <3>2 DEF Status!Says
    <3>3. CASE ~ok /\ op[o].kind \in {"update", "clear"}
      BY <3>3 DEF Status!Says
    <3> QED BY <1>7, <3>1, <3>2, <3>3
  <2>2. rec' \in Shown /\ rec'.st = st /\ ~rec'.progress
    BY <1>0, <2>1, TransitionIs
  <2> QED BY <1>2, <1>3, <1>5, <2>1, <2>2 DEF Rested, Status!ServedIsWatched
<1> QED BY <1>6, <1>7

\* Once a request has ended, the builds and the record fit with what is left.
LEMMA EndStep ==
  ASSUME StatusInv, NEW o \in Op, NEW ok \in BOOLEAN, op[o].kind \in {"search", "load", "update", "clear"},
         Status!Says(o, ok), Status!Ended(o),
         \A b \in builds' : \E c \in builds : b.leader = c.leader /\ b.members \subseteq c.members,
         builds' \subseteq Build
  PROVE  StatusInv'
<1>0. StatusTypes /\ BuildsFit /\ RestFits /\ op[o] \in Request
  BY DEF StatusInv, StatusTypes
<1>1. op' = [op EXCEPT ![o].st = "ended"]
  BY DEF Status!Ended
<1>2. op' \in [Op -> Request] /\ \A r \in Op : op'[r].kind = op[r].kind
  BY <1>0, <1>1 DEF StatusTypes, Request
<1>3. \A r \in Op : op'[r].st = op[r].st \/ (r = o /\ op'[r].st = "ended")
  <2>1. op'[o].st = "ended" /\ op'[o].kind = op[o].kind
    BY <1>0, <1>1 DEF StatusTypes, Request
  <2>2. \A r \in Op \ {o} : op'[r] = op[r]
    BY <1>0, <1>1 DEF StatusTypes
  <2> QED BY <2>1, <2>2
<1>4. StatusTypes' /\ Status!ServedIsWatched'
  BY <1>2, SaysRests DEF StatusTypes
<1>5. BuildsFit'
  BY <1>0, <1>2, <1>3 DEF BuildsFit, StatusTypes, Build
<1>6. Rested' \/ (op[o].kind = "search" /\ rec' = rec /\ past'.late = past.late)
  BY SaysRests
<1>7. ASSUME op[o].kind = "search", rec' = rec, past'.late = past.late PROVE RestFits'
  <2>1. Unsettled => Unsettled'
    BY <1>2, <1>3, <1>7 DEF Unsettled, Status!Busy
  <2> QED BY <1>0, <1>7, <2>1 DEF RestFits, Rested
<1> QED BY <1>4, <1>5, <1>6, <1>7 DEF StatusInv, RestFits

\* Builds that lose a member are still builds.
LEMMA WithoutIs ==
  ASSUME StatusTypes, NEW o \in Op
  PROVE  /\ Status!Without(o) \subseteq Build
         /\ \A d \in Status!Without(o) : \E c \in builds : d.leader = c.leader /\ d.members \subseteq c.members
<1> SUFFICES ASSUME NEW d \in Status!Without(o)
             PROVE  d \in Build /\ \E c \in builds : d.leader = c.leader /\ d.members \subseteq c.members
  OBVIOUS
<1>1. PICK c \in builds : d = [c EXCEPT !.members = @ \ {o}]
  BY DEF Status!Without
<1>2. c \in Build
  BY DEF StatusTypes
<1>3. d = [leader |-> c.leader, members |-> c.members \ {o}]
  BY <1>1, <1>2 DEF Build
<1> QED BY <1>2, <1>3 DEF Build

\* Every step of the daemon keeps it.
LEMMA StatusStep ==
  ASSUME StatusInv, [Status!Next]_Status!vars
  PROVE  StatusInv'
<1>0. /\ StatusTypes /\ BuildsFit /\ RestFits /\ Status!ServedIsWatched
      /\ rec \in Shown /\ past \in History /\ op \in [Op -> Request] /\ builds \subseteq Build
  BY DEF StatusInv, StatusTypes
<1>1. ASSUME NEW o \in Op, NEW k \in Status!Kinds, Status!Begin(o, k) PROVE StatusInv'
  <2>1. /\ op' = [op EXCEPT ![o] = [kind |-> k, st |-> "running"]] /\ op[o].st = "none"
        /\ k \in {"search", "load", "update", "clear"}
        /\ UNCHANGED <<watcher, builds, past>>
    BY <1>1 DEF Status!Begin, Status!Kinds
  <2>2. /\ op' \in [Op -> Request] /\ op'[o].kind = k /\ op'[o].st = "running"
        /\ \A r \in Op \ {o} : op'[r] = op[r]
    BY <1>0, <2>1 DEF Request
  <2>3. BuildsFit'
    <3>1. ASSUME NEW b \in builds PROVE b.leader # o /\ b.leader \in Op
      BY <1>0, <2>1, <3>1 DEF BuildsFit, Build
    <3>2. ASSUME NEW b \in builds, NEW r \in b.members PROVE op'[r].kind \in {"load", "update"}
      <4>1. r \in Op /\ op[r].kind \in {"load", "update"} /\ op[o].kind = "none"
        BY <1>0, <2>1, <3>2 DEF BuildsFit, Build
      <4> QED BY <2>2, <4>1
    <3>3. \A r \in Op : op'[r].st # "none" <=> op'[r].kind # "none"
      BY <1>0, <2>1, <2>2 DEF BuildsFit
    <3> QED BY <1>0, <2>1, <2>2, <3>1, <3>2, <3>3 DEF BuildsFit
  <2>4. CASE k = "search"
    <3>1. rec' = rec
      BY <1>1, <2>4 DEF Status!Begin
    <3>2. Unsettled => Unsettled'
      BY <1>0, <2>1, <2>2 DEF Unsettled, Status!Busy
    <3> QED BY <1>0, <2>1, <2>2, <2>3, <3>1, <3>2
      DEF StatusInv, StatusTypes, RestFits, Rested, Status!ServedIsWatched
  <2>5. CASE k # "search"
    <3>1. PICK st \in {"loading", "updating"} : Status!Transition(st, FALSE, FALSE)
      BY <1>1, <2>5 DEF Status!Begin
    <3>2. rec' \in Shown /\ rec'.st = st
      BY <1>0, <3>1, TransitionIs
    <3>3. Unsettled'
      BY <2>2, <2>5 DEF Unsettled, Status!Busy
    <3> QED BY <1>0, <2>1, <2>2, <2>3, <3>2, <3>3 DEF StatusInv, StatusTypes, RestFits, Status!ServedIsWatched
  <2> QED BY <2>4, <2>5
<1>2. CASE Status!StartBuild
  <2>0. PICK ms \in SUBSET {o \in Status!Busy : op[o].kind \in {"load", "update"}} : \E l \in ms :
           /\ builds' = builds \cup {[leader |-> l, members |-> ms]}
           /\ op' = [o \in Op |-> IF o \in ms THEN [op[o] EXCEPT !.st = "building"] ELSE op[o]]
    BY <1>2 DEF Status!StartBuild
  <2>1. PICK l \in ms :
           /\ builds' = builds \cup {[leader |-> l, members |-> ms]}
           /\ op' = [o \in Op |-> IF o \in ms THEN [op[o] EXCEPT !.st = "building"] ELSE op[o]]
    BY <2>0
  <2>2. UNCHANGED <<rec, watcher, past>> /\ Status!Building = {}
    BY <1>2 DEF Status!StartBuild
  <2>3. ms \subseteq Op /\ \A o \in ms : op[o].kind \in {"load", "update"}
    BY <2>1 DEF Status!Busy
  <2>4. op' \in [Op -> Request] /\ \A o \in Op : op'[o].kind = op[o].kind
    BY <1>0, <2>1 DEF Request
  <2>5. \A o \in Op : op'[o].st = op[o].st \/ op'[o].st = "building"
    BY <1>0, <2>1 DEF Request
  <2>6. [leader |-> l, members |-> ms] \in Build /\ op'[l].st = "building"
    BY <1>0, <2>1, <2>3 DEF Build, Request
  <2>7. BuildsFit'
    <3>1. ASSUME NEW b \in builds' PROVE \/ b \in builds
                                         \/ b.leader = l /\ b.members = ms
      BY <2>1, <3>1
    <3>2. ASSUME NEW b \in builds
          PROVE op'[b.leader].st \in {"building", "ended"} /\ b.leader \in Op /\ b.members \subseteq Op
      BY <1>0, <2>5, <3>2 DEF BuildsFit, Build
    <3>3. \A o \in Op : op'[o].st # "none" <=> op'[o].kind # "none"
      BY <1>0, <2>1, <2>3, <2>4, <2>5 DEF BuildsFit, Request
    <3>4. ASSUME NEW b \in builds', NEW o \in b.members PROVE op'[o].kind \in {"load", "update"}
      BY <1>0, <2>3, <2>4, <3>1, <3>2, <3>4 DEF BuildsFit
    <3>5. ASSUME NEW b \in builds'
          PROVE op'[b.leader].kind \in {"load", "update"} /\ op'[b.leader].st \in {"building", "ended"}
      <4>1. CASE b \in builds
        BY <1>0, <2>4, <3>2, <4>1 DEF BuildsFit
      <4>2. CASE b.leader = l
        BY <2>3, <2>4, <2>6, <4>2
      <4> QED BY <3>1, <3>5, <4>1, <4>2
    <3> QED BY <3>3, <3>4, <3>5 DEF BuildsFit
  <2>8. Unsettled'
    BY <2>1, <2>3, <2>4, <2>6 DEF Unsettled, Status!Busy
  <2> QED BY <1>0, <2>1, <2>2, <2>4, <2>6, <2>7, <2>8
    DEF StatusInv, StatusTypes, RestFits, Status!ServedIsWatched
<1>3. ASSUME NEW b \in builds, Status!Report(b) PROVE StatusInv'
  <2>1. Status!Transition(Status!StateOf(b.leader), TRUE, FALSE) /\ UNCHANGED <<watcher, op, builds>>
        /\ past' = [past EXCEPT !.late = op[b.leader].st = "ended"]
    BY <1>3 DEF Status!Report
  <2>2. Status!StateOf(b.leader) \in {"loading", "updating"}
    BY DEF Status!StateOf
  <2>3. rec' \in Shown /\ rec'.st \in {"loading", "updating"}
    BY <1>0, <2>1, <2>2, TransitionIs
  <2>4. past' \in History /\ past'.late = (op[b.leader].st = "ended") /\ past'.served = past.served
    BY <1>0, <2>1 DEF History
  <2>5. b.leader \in Op /\ op[b.leader].kind \in {"load", "update"} /\ op[b.leader].st \in {"building", "ended"}
    BY <1>0, <1>3 DEF BuildsFit, Build
  <2>6. past'.late \/ Unsettled'
    BY <2>1, <2>4, <2>5 DEF Unsettled, Status!Busy
  <2> QED BY <1>0, <2>1, <2>3, <2>4, <2>6
    DEF StatusInv, StatusTypes, BuildsFit, RestFits, Status!ServedIsWatched
<1>4. ASSUME NEW o \in Op, Status!EndAlone(o) PROVE StatusInv'
  <2>1. PICK ok \in BOOLEAN : Status!Says(o, ok)
    BY <1>4 DEF Status!EndAlone
  <2>2. op[o].kind \in {"search", "load", "update", "clear"}
    BY <1>0, <1>4 DEF Status!EndAlone, BuildsFit, Request
  <2>3. Status!Ended(o) /\ builds' = builds
    BY <1>4 DEF Status!EndAlone
  <2> QED BY <1>0, <2>1, <2>2, <2>3, EndStep
<1>5. ASSUME NEW o \in Op, Status!Leave(o) PROVE StatusInv'
  <2>1. Status!Says(o, FALSE) /\ Status!Ended(o) /\ builds' = Status!Without(o)
    BY <1>5 DEF Status!Leave
  <2>2. op[o].kind \in {"search", "load", "update", "clear"}
    BY <1>0, <1>5 DEF Status!Leave, BuildsFit, Request
  <2> QED BY <1>0, <2>1, <2>2, WithoutIs, EndStep
<1>6. ASSUME NEW b \in builds, Status!EndBuild(b) PROVE StatusInv'
  <2>1. CASE b.members = {}
    <3>1. builds' = builds \ {b} /\ UNCHANGED <<rec, watcher, op, past>>
      BY <1>6, <2>1 DEF Status!EndBuild
    <3> QED BY <1>0, <3>1 DEF StatusInv, StatusTypes, BuildsFit, RestFits, Unsettled, Rested, Status!Busy,
      Status!ServedIsWatched
  <2>2. CASE b.members # {}
    <3>1. PICK o \in b.members : /\ \E ok \in BOOLEAN : Status!Says(o, ok)
                                /\ Status!Ended(o)
                                /\ builds' = IF b.members = {o} THEN builds \ {b} ELSE Status!Without(o)
      BY <1>6, <2>2 DEF Status!EndBuild
    <3>2. PICK ok \in BOOLEAN : Status!Says(o, ok)
      BY <3>1
    <3>3. o \in Op /\ op[o].kind \in {"search", "load", "update", "clear"}
      BY <1>0, <3>1 DEF BuildsFit, Build
    <3>4. /\ builds' \subseteq Build
          /\ \A d \in builds' : \E c \in builds : d.leader = c.leader /\ d.members \subseteq c.members
      BY <1>0, <3>1, <3>3, WithoutIs
    <3> QED BY <3>1, <3>2, <3>3, <3>4, EndStep
  <2> QED BY <2>1, <2>2
<1>7. CASE UNCHANGED Status!vars
  BY <1>0, <1>7 DEF Status!vars, StatusInv, StatusTypes, BuildsFit, RestFits, Unsettled, Rested, Status!Busy,
    Status!ServedIsWatched
<1> QED BY <1>1, <1>2, <1>3, <1>4, <1>5, <1>6, <1>7 DEF Status!Next

\* For any requests at once, and however many builds are shared or left behind: a vault nobody
\* works at is shown at rest unless a build that was left behind has reported since
\* (server.ts progressReporter), and one that was served is watched until a load of it fails
\* (server.ts dispatchControl, profile-manager.ts startSaveWatcherForVault).
THEOREM StatusStaysTrue == Status!Spec => []Status!StatusIsTrue
<1>1. Status!Init => StatusInv
  BY StatusStarts
<1>2. StatusInv /\ [Status!Next]_Status!vars => StatusInv'
  BY StatusStep
<1>3. StatusInv => Status!StatusIsTrue
  BY DEF StatusInv, RestFits, Unsettled, Rested, Status!StatusIsTrue, Status!RestIsShown
<1> QED BY <1>1, <1>2, <1>3, PTL DEF Status!Spec

-----------------------------------------------------------------------------
(* RpcCalls.                                                                *)

CONSTANTS Call, MaxInc, MaxTry, FixedPath, MaxFaults
VARIABLES life, call, att, faults

Calls == INSTANCE RpcCalls

\* What the constants are: a call has time for at least one attempt.
CallConstants ==
  /\ MaxInc \in Nat /\ MaxTry \in Nat \ {0} /\ MaxFaults \in Nat
  /\ FixedPath \in BOOLEAN

ACall == [st : {"idle", "ready", "sent", "ok", "failed", "unavailable", "dead"}, try : Nat, owner : Nat]
Attempt ==
  [link : {"none", "open", "cut", "dropped", "closed"}, inc : Nat, got : {0, 1, 2},
   exec : {"none", "running", "refused", "done", "ended", "lost"}, cancelled : BOOLEAN,
   resp : {"none", "ok", "failed", "again"}, due : BOOLEAN]

CallTypes ==
  /\ life \in [Calls!Inc -> {"none", "up", "draining", "gone"}]
  /\ call \in [Call -> ACall]
  /\ att \in [Calls!Att -> Attempt]
  /\ faults \in Nat

\* One daemon serves at a time, and one that serves no more had a fault.
DaemonsFit ==
  /\ \A i, j \in Calls!Up : i = j
  /\ \A i \in Calls!Inc : life[i] \in {"draining", "gone"} => faults > 0

\* Where a call is: at a daemon that was started, in its last attempt, and tried again with reason.
CallFits(c) ==
  /\ call[c].st \in {"ready", "sent"} => call[c].owner \in Calls!Inc /\ life[call[c].owner] # "none"
  /\ call[c].st \in {"sent", "ok"} => call[c].try \in 1..MaxTry
  /\ call[c].st = "ready" => call[c].try < MaxTry
  /\ call[c].st \in {"idle", "ready", "unavailable"} /\ call[c].try > 0 => faults > 0
  /\ call[c].st = "unavailable" \/ call[c].try > 1 => faults > 0
  /\ call[c].st = "ok" => att[<<c, call[c].try>>].exec = "done"

\* What is known of an attempt: how far it came, and why it is answered as it is.
AttemptFits(a) ==
  /\ a[2] > call[a[1]].try => att[a] = Calls!None
  /\ att[a].got = 2 <=> att[a].exec # "none"
  /\ att[a].link = "open" => Calls!Waits(a)
  /\ Calls!Waits(a) => att[a].link \in {"open", "dropped"}
  /\ att[a].link = "none" => att[a] = Calls!None
  /\ att[a].link \in {"dropped", "closed"} /\ att[a].exec = "running" => att[a].cancelled
  /\ att[a].link = "open" /\ att[a].exec \in {"refused", "done", "ended"} => att[a].resp # "none"
  /\ att[a].due => faults > 0
  /\ att[a].link = "dropped" => faults > 0
  /\ att[a].exec = "lost" => faults > 0
  /\ att[a].resp = "ok" => att[a].exec = "done"
  /\ att[a].resp = "again" => faults > 0
  /\ Calls!Waits(a) /\ att[a].inc # call[a[1]].owner => faults > 0
  /\ Calls!Waits(a) /\ att[a].exec \in {"running", "done"} => att[a].inc = call[a[1]].owner

CallInv == CallTypes /\ DaemonsFit /\ (\A c \in Call : CallFits(c)) /\ (\A a \in Calls!Att : AttemptFits(a))

\* Before the first call there is nothing to hold.
LEMMA CallsStart == ASSUME CallConstants, Calls!Init PROVE CallInv
<1>1. CallTypes /\ DaemonsFit
  BY DEF Calls!Init, CallTypes, DaemonsFit, ACall, Attempt, Calls!None, Calls!Up
<1>2. ASSUME NEW c \in Call PROVE CallFits(c)
  BY DEF Calls!Init, CallFits
<1>3. ASSUME NEW a \in Calls!Att PROVE AttemptFits(a)
  <2>1. att[a] = Calls!None /\ a[1] \in Call /\ call[a[1]] = [st |-> "idle", try |-> 0, owner |-> 0]
    BY DEF Calls!Init, Calls!Att
  <2> QED BY <2>1 DEF AttemptFits, Calls!None, Calls!Waits
<1> QED BY <1>1, <1>2, <1>3 DEF CallInv

\* A call that stays as it is fits while what it refers to stays.
LEMMA CallFrame ==
  ASSUME CallTypes, NEW c \in Call, CallFits(c), call' = call \/ call'[c] = call[c],
         faults > 0 => faults' > 0, \A i \in Calls!Inc : life[i] # "none" => life'[i] # "none",
         \A a \in Calls!Att : att[a].exec = "done" => att'[a].exec = "done"
  PROVE  CallFits(c)'
<1>1. call'[c] = call[c]
  OBVIOUS
<1>2. call[c].try \in 1..MaxTry => <<c, call[c].try>> \in Calls!Att
  BY DEF Calls!Att
<1> QED BY <1>1, <1>2 DEF CallFits

\* An attempt that stays as it is fits while its call does.
LEMMA AttemptFrame ==
  ASSUME NEW a \in Calls!Att, AttemptFits(a), att'[a] = att[a], call'[a[1]] = call[a[1]],
         faults > 0 => faults' > 0
  PROVE  AttemptFits(a)'
BY DEF AttemptFits, Calls!Waits

\* An attempt that nobody waits for fits whatever becomes of its call.
LEMMA AttemptPast ==
  ASSUME CallConstants, CallTypes, NEW a \in Calls!Att, AttemptFits(a), att'[a] = att[a], ~Calls!Waits(a)',
         att[a].link # "open",
         call'[a[1]].try \in Nat, call[a[1]].try <= call'[a[1]].try, faults > 0 => faults' > 0
  PROVE  AttemptFits(a)'
<1>1. a[2] > call'[a[1]].try => a[2] > call[a[1]].try
  BY DEF CallTypes, Calls!Att, ACall, CallConstants
<1> QED BY <1>1 DEF AttemptFits

\* The attempts of a call.
LEMMA Attempts ==
  ASSUME CallConstants, CallTypes, NEW a \in Calls!Att
  PROVE  /\ a[1] \in Call /\ a[2] \in 1..MaxTry /\ a = <<a[1], a[2]>>
         /\ att[a] \in Attempt /\ call[a[1]] \in ACall
BY DEF Calls!Att, CallTypes

\* Daemons that start and end.
LEMMA DaemonStep ==
  ASSUME CallConstants, CallInv, [Calls!Next]_Calls!vars
  PROVE  /\ DaemonsFit' /\ life' \in [Calls!Inc -> {"none", "up", "draining", "gone"}]
         /\ faults' \in Nat /\ (faults > 0 => faults' > 0)
         /\ \A i \in Calls!Inc : life[i] # "none" => life'[i] # "none"
<1>0. CallTypes /\ DaemonsFit
  BY SMTT(60) DEF CallInv
<1>1. faults' = faults \/ faults' = faults + 1
  BY DEF Calls!Next, Calls!vars, Calls!Ready, Calls!GiveUp, Calls!Send, Calls!CallerDies, Calls!Answer,
    Calls!LinkLost,
    Calls!Overrun, Calls!TimesOut, Calls!Finish, Calls!Ends, Calls!HungUp, Calls!IdleTimeout, Calls!Receive,
    Calls!Start, Calls!Drain, Calls!Drained, Calls!Crash, Calls!Fault
<1>2. faults' \in Nat /\ (faults > 0 => faults' > 0)
  BY <1>0, <1>1 DEF CallTypes
<1>3. CASE life' = life
  BY <1>0, <1>2, <1>3 DEF DaemonsFit, CallTypes, Calls!Up
<1>4. ASSUME NEW i \in Calls!Inc, Calls!Start(i)
      PROVE  life' = [life EXCEPT ![i] = "up"] /\ life[i] = "none" /\ Calls!Up = {}
  BY <1>4 DEF Calls!Start
<1>5. ASSUME NEW i \in Calls!Inc, life' = [life EXCEPT ![i] = "up"] /\ life[i] = "none" /\ Calls!Up = {}
      PROVE  /\ DaemonsFit' /\ life' \in [Calls!Inc -> {"none", "up", "draining", "gone"}]
             /\ \A j \in Calls!Inc : life[j] # "none" => life'[j] # "none"
  BY <1>0, <1>2, <1>5 DEF DaemonsFit, CallTypes, Calls!Up
<1>6. ASSUME NEW i \in Calls!Inc, Calls!Drain(i) \/ Calls!Drained(i) \/ Calls!Crash(i)
      PROVE  faults' > 0 /\ (life' = [life EXCEPT ![i] = "draining"] \/ life' = [life EXCEPT ![i] = "gone"])
  BY <1>0, <1>6 DEF Calls!Drain, Calls!Drained, Calls!Crash, Calls!Fault, CallTypes, DaemonsFit
<1>7. ASSUME NEW i \in Calls!Inc, faults' > 0,
             life' = [life EXCEPT ![i] = "draining"] \/ life' = [life EXCEPT ![i] = "gone"]
      PROVE  /\ DaemonsFit' /\ life' \in [Calls!Inc -> {"none", "up", "draining", "gone"}]
             /\ \A j \in Calls!Inc : life[j] # "none" => life'[j] # "none"
  BY <1>0, <1>2, <1>7, SMTT(60) DEF DaemonsFit, CallTypes, Calls!Up
<1>8. life' = life \/ \E i \in Calls!Inc : Calls!Start(i) \/ Calls!Drain(i) \/ Calls!Drained(i) \/ Calls!Crash(i)
  BY DEF Calls!Next, Calls!vars, Calls!Ready, Calls!GiveUp, Calls!Send, Calls!CallerDies, Calls!Answer,
    Calls!LinkLost,
    Calls!Overrun, Calls!TimesOut, Calls!Finish, Calls!Ends, Calls!HungUp, Calls!IdleTimeout, Calls!Receive
<1> QED BY <1>2, <1>3, <1>4, <1>5, <1>6, <1>7, <1>8

\* A call that moves on while no attempt of it is waited for.
LEMMA CallMoves ==
  ASSUME CallConstants, CallInv, [Calls!Next]_Calls!vars, NEW c \in Call,
         NEW n \in ACall, call' = [call EXCEPT ![c] = n], UNCHANGED att,
         call[c].st \in {"idle", "ready"}, n.st # "sent", n.try >= call[c].try, CallFits(c)'
  PROVE  CallInv'
<1>0. CallTypes /\ (\A d \in Call : CallFits(d)) /\ (\A a \in Calls!Att : AttemptFits(a))
  BY DEF CallInv
<1>1. CallTypes' /\ DaemonsFit'
  BY <1>0, DaemonStep DEF CallTypes
<1>2. \A d \in Call \ {c} : CallFits(d)'
  BY <1>0, DaemonStep, CallFrame DEF CallTypes
<1>3. ASSUME NEW a \in Calls!Att PROVE AttemptFits(a)'
  <2>0. a[1] \in Call /\ AttemptFits(a) /\ att'[a] = att[a]
    BY <1>0, Attempts
  <2>1. CASE a[1] # c
    BY <1>0, <2>0, <2>1, AttemptFrame, DaemonStep DEF CallTypes
  <2>2. CASE a[1] = c
    <3>1. call'[c] = n
      BY <1>0 DEF CallTypes
    <3>2. ~Calls!Waits(a) /\ ~Calls!Waits(a)'
      BY <2>2, <3>1 DEF Calls!Waits
    <3>3. call[c].try <= n.try /\ n.try \in Nat
      BY <1>0 DEF ACall, CallTypes
    <3>4. att[a].link # "open"
      BY <2>0, <3>2 DEF AttemptFits
    <3> QED BY <1>0, <2>0, <2>2, <3>1, <3>2, <3>3, <3>4, AttemptPast, DaemonStep
  <2> QED BY <2>1, <2>2
<1> QED BY <1>1, <1>2, <1>3 DEF CallInv

\* One attempt changes, and its call with it or not.
LEMMA AttemptMoves ==
  ASSUME CallConstants, CallInv, [Calls!Next]_Calls!vars, NEW a \in Calls!Att,
         NEW n \in Attempt, att' = [att EXCEPT ![a] = n],
         att[a].exec = "done" => n.exec = "done",
         call' = call \/ (Calls!Waits(a) /\ \E m \in ACall : /\ call' = [call EXCEPT ![a[1]] = m] /\ m.st # "sent"
                                                            /\ m.try = call[a[1]].try),
         CallFits(a[1])', AttemptFits(a)'
  PROVE  CallInv'
<1>0. CallTypes /\ (\A d \in Call : CallFits(d)) /\ (\A b \in Calls!Att : AttemptFits(b))
  BY DEF CallInv
<1>1. CallTypes' /\ DaemonsFit'
  BY <1>0, DaemonStep DEF CallTypes
<1>2. \A d \in Call \ {a[1]} : CallFits(d)'
  <2>1. \A b \in Calls!Att : att[b].exec = "done" => att'[b].exec = "done"
    BY <1>0 DEF CallTypes
  <2>2. \A d \in Call \ {a[1]} : call'[d] = call[d]
    BY <1>0 DEF CallTypes
  <2> QED BY <1>0, <2>1, <2>2, DaemonStep, CallFrame
<1>3. ASSUME NEW b \in Calls!Att, b # a PROVE AttemptFits(b)'
  <2>0. b[1] \in Call /\ AttemptFits(b) /\ att'[b] = att[b]
    BY <1>0, <1>3, Attempts DEF CallTypes
  <2>1. CASE call'[b[1]] = call[b[1]]
    BY <1>0, <2>0, <2>1, AttemptFrame, DaemonStep DEF CallTypes
  <2>2. CASE call'[b[1]] # call[b[1]]
    <3>1. PICK m \in ACall : call' = [call EXCEPT ![a[1]] = m] /\ m.st # "sent" /\ m.try = call[a[1]].try
      BY <2>2
    <3>2. b[1] = a[1] /\ call'[b[1]] = m /\ Calls!Waits(a)
      BY <1>0, <2>0, <2>2, <3>1 DEF CallTypes
    <3>3. b[2] # a[2]
      BY <1>0, <1>3, <3>2, Attempts
    <3>4. ~Calls!Waits(b) /\ ~Calls!Waits(b)'
      BY <3>1, <3>2, <3>3 DEF Calls!Waits
    <3>5. att[b].link # "open"
      BY <2>0, <3>4 DEF AttemptFits
    <3>6. call[b[1]].try <= call'[b[1]].try /\ call'[b[1]].try \in Nat
      BY <1>0, <2>0, <3>1, <3>2 DEF CallTypes, ACall
    <3> QED BY <1>0, <2>0, <3>4, <3>5, <3>6, AttemptPast, DaemonStep
  <2> QED BY <2>1, <2>2
<1> QED BY <1>0, <1>1, <1>2, <1>3, Attempts DEF CallInv

\* The steps of the client before and after an attempt (withDaemon).
LEMMA ClientStep ==
  ASSUME CallConstants, CallInv, [Calls!Next]_Calls!vars, NEW c \in Call,
         Calls!Ready(c) \/ Calls!GiveUp(c) \/ (Calls!Send(c) /\ UNCHANGED att)
  PROVE  CallInv'
<1>0. CallTypes /\ CallFits(c) /\ DaemonsFit /\ call[c] \in ACall
  BY DEF CallInv, CallTypes
<1>1. ASSUME NEW i \in Calls!Up, call' = [call EXCEPT ![c].st = "ready", ![c].owner = i],
             call[c].st = "idle", call[c].try < MaxTry, UNCHANGED <<life, att, faults>>
      PROVE  CallInv'
  <2> DEFINE n == [call[c] EXCEPT !.st = "ready", !.owner = i]
  <2>1. n \in ACall /\ n.st = "ready" /\ n.try = call[c].try /\ n.owner = i /\ call' = [call EXCEPT ![c] = n]
    <3>1. i \in Nat
      BY DEF Calls!Up, Calls!Inc
    <3> QED BY <1>0, <1>1, <3>1 DEF ACall, CallTypes
  <2>2. call'[c] = n
    BY <1>0, <2>1 DEF CallTypes
  <2> HIDE DEF n
  <2>3. CallFits(c)'
    BY <1>0, <1>1, <2>1, <2>2 DEF CallFits, Calls!Up
  <2>4. n.try >= call[c].try
    BY <1>0, <2>1 DEF ACall
  <2> QED BY <1>1, <2>1, <2>3, <2>4, CallMoves
<1>2. ASSUME Calls!GiveUp(c) PROVE CallInv'
  <2> DEFINE n == [call[c] EXCEPT !.st = "unavailable"]
  <2>1. /\ n \in ACall /\ n.st = "unavailable" /\ n.try = call[c].try /\ n.try = MaxTry
        /\ call' = [call EXCEPT ![c] = n]
        /\ call[c].st = "idle" /\ UNCHANGED <<life, att, faults>>
    BY <1>0, <1>2 DEF Calls!GiveUp, Calls!Settled, ACall, CallTypes
  <2>2. call'[c] = n
    BY <1>0, <2>1 DEF CallTypes
  <2> HIDE DEF n
  <2>3. faults > 0
    BY <1>0, <2>1 DEF CallFits, CallConstants
  <2>4. CallFits(c)'
    BY <1>0, <2>1, <2>2, <2>3 DEF CallFits
  <2>5. n.try >= call[c].try
    BY <1>0, <2>1 DEF ACall
  <2> QED BY <2>1, <2>4, <2>5, CallMoves
<1>3. ASSUME Calls!Send(c), UNCHANGED att PROVE CallInv'
  <2> DEFINE t == IF FixedPath THEN Calls!Up ELSE Calls!Up \cap {call[c].owner}
  <2>0. /\ IF t = {} THEN call' = [Calls!Settled(c, "again") EXCEPT ![c].try = @ + 1] /\ UNCHANGED att
           ELSE /\ call' = [call EXCEPT ![c].st = "sent", ![c].try = @ + 1]
                /\ \E i \in t : att' = [att EXCEPT ![<<c, call[c].try + 1>>].link = "open", ![<<c, call[c].try + 1>>].inc = i]
        /\ call[c].st = "ready" /\ UNCHANGED <<life, faults>>
    BY <1>3 DEF Calls!Send
  <2>1. call[c].owner \in Calls!Inc /\ life[call[c].owner] # "none" /\ call[c].try < MaxTry
    BY <1>0, <2>0 DEF CallFits
  <2>2. CASE t = {}
    <3> DEFINE n == [call[c] EXCEPT !.st = "idle", !.try = call[c].try + 1]
    <3>1. call' = [call EXCEPT ![c] = n]
      BY <1>0, <2>0, <2>2 DEF Calls!Settled, CallTypes, ACall
    <3>2. call[c].try \in Nat /\ call[c].try + 1 \in Nat
      BY <1>0 DEF ACall
    <3>3. n \in ACall /\ n.st = "idle" /\ n.try = call[c].try + 1
      BY <1>0, <3>2 DEF ACall
    <3>4. call'[c] = n
      BY <1>0, <3>1 DEF CallTypes
    <3> HIDE DEF n
    <3>5. faults > 0
      <4>1. life[call[c].owner] # "up"
        BY <2>0, <2>1, <2>2 DEF Calls!Up
      <4> QED BY <1>0, <2>1, <4>1 DEF DaemonsFit, CallTypes
    <3>6. CallFits(c)'
      BY <2>0, <3>3, <3>4, <3>5 DEF CallFits
    <3>7. n.try >= call[c].try
      BY <3>2, <3>3
    <3> QED BY <1>3, <2>0, <3>1, <3>3, <3>6, <3>7, CallMoves
  <2>3. CASE t # {}
    <3>1. PICK i \in t : att' = [att EXCEPT ![<<c, call[c].try + 1>>].link = "open", ![<<c, call[c].try + 1>>].inc = i]
      BY <2>0, <2>3
    <3>2. <<c, call[c].try + 1>> \in Calls!Att
      BY <1>0, <2>1 DEF Calls!Att, ACall, CallConstants
    <3>3. att[<<c, call[c].try + 1>>] = Calls!None
      <4>1. AttemptFits(<<c, call[c].try + 1>>)
        BY <3>2 DEF CallInv
      <4>2. call[c].try + 1 > call[c].try
        BY <1>0 DEF ACall
      <4> QED BY <4>1, <4>2 DEF AttemptFits
    <3>4. att'[<<c, call[c].try + 1>>].link = "open"
      BY <1>0, <3>1, <3>2, <3>3 DEF CallTypes, Attempt
    <3>5. att[<<c, call[c].try + 1>>].link = "none"
      BY <3>3 DEF Calls!None
    <3> QED BY <1>3, <3>4, <3>5
  <2> QED BY <2>2, <2>3
<1> QED BY <1>1, <1>2, <1>3 DEF Calls!Ready

\* The request is sent on a connection of its own (requestOnce).
LEMMA SendStep ==
  ASSUME CallConstants, CallInv, [Calls!Next]_Calls!vars, NEW c \in Call, Calls!Send(c), ~UNCHANGED att
  PROVE  CallInv'
<1>0. CallTypes /\ CallFits(c) /\ DaemonsFit /\ call[c] \in ACall /\ (\A d \in Call : CallFits(d))
      /\ (\A b \in Calls!Att : AttemptFits(b))
  BY DEF CallInv, CallTypes
<1>a. PICK a : a = <<c, call[c].try + 1>>
  OBVIOUS
<1>1. /\ call' = [call EXCEPT ![c].st = "sent", ![c].try = call[c].try + 1]
      /\ call[c].st = "ready" /\ UNCHANGED <<life, faults>>
  BY DEF Calls!Send
<1>2. PICK i \in Calls!Up : att' = [att EXCEPT ![a].link = "open", ![a].inc = i] /\ (i = call[c].owner \/ FixedPath)
  BY <1>a DEF Calls!Send
<1>3. call[c].owner \in Calls!Inc /\ life[call[c].owner] # "none" /\ call[c].try < MaxTry /\ call[c].try \in Nat
  BY <1>0, <1>1 DEF CallFits, ACall
<1>4. a \in Calls!Att /\ call[c].try + 1 \in 1..MaxTry /\ call[c].try + 1 \in Nat
  BY <1>3, <1>a DEF Calls!Att, CallConstants
<1>5. AttemptFits(a) /\ a[1] = c /\ a[2] = call[c].try + 1
  BY <1>0, <1>4, <1>a
<1>6. att[a] = Calls!None
  BY <1>3, <1>5 DEF AttemptFits
<1>7. i \in Nat /\ i \in Calls!Inc /\ life[i] = "up"
  BY DEF Calls!Up, Calls!Inc
<1> DEFINE n == [Calls!None EXCEPT !.link = "open", !.inc = i]
           m == [call[c] EXCEPT !.st = "sent", !.try = call[c].try + 1]
<1>8. /\ n \in Attempt /\ n.link = "open" /\ n.inc = i /\ n.got = 0 /\ n.exec = "none" /\ n.resp = "none"
      /\ n.due = FALSE
      /\ att' = [att EXCEPT ![a] = n]
  BY <1>0, <1>2, <1>4, <1>6, <1>7 DEF Attempt, Calls!None, CallTypes
<1>9. /\ m \in ACall /\ m.st = "sent" /\ m.try = call[c].try + 1 /\ m.owner = call[c].owner
      /\ call' = [call EXCEPT ![c] = m]
  BY <1>0, <1>1, <1>4 DEF ACall, CallTypes
<1>10. att'[a] = n /\ call'[c] = m /\ \A b \in Calls!Att \ {a} : att'[b] = att[b]
  BY <1>0, <1>4, <1>8, <1>9 DEF CallTypes
<1> HIDE DEF n, m
<1>11. i = call[c].owner \/ faults > 0
  <2>1. CASE life[call[c].owner] = "up"
    BY <1>0, <1>3, <1>7, <2>1 DEF DaemonsFit, Calls!Up
  <2>2. CASE life[call[c].owner] # "up"
    BY <1>0, <1>3, <2>2 DEF DaemonsFit, CallTypes
  <2> QED BY <2>1, <2>2
<1>12. CallTypes' /\ DaemonsFit'
  BY <1>0, <1>8, <1>9, DaemonStep DEF CallTypes
<1>13. CallFits(c)'
  BY <1>0, <1>1, <1>3, <1>4, <1>9, <1>10 DEF CallFits, ACall
<1>14. \A d \in Call \ {c} : CallFits(d)'
  <2>1. \A b \in Calls!Att : att[b].exec = "done" => att'[b].exec = "done"
    BY <1>6, <1>10 DEF Calls!None
  <2>2. \A d \in Call \ {c} : call'[d] = call[d]
    BY <1>0, <1>9 DEF CallTypes
  <2> QED BY <1>0, <2>1, <2>2, DaemonStep, CallFrame
<1>15. AttemptFits(a)'
  BY <1>1, <1>3, <1>4, <1>5, <1>8, <1>9, <1>10, <1>11 DEF AttemptFits, Calls!Waits
<1>16. ASSUME NEW b \in Calls!Att, b # a PROVE AttemptFits(b)'
  <2>0. b[1] \in Call /\ AttemptFits(b) /\ att'[b] = att[b]
    BY <1>0, <1>10, <1>16, Attempts
  <2>1. CASE b[1] # c
    BY <1>0, <1>9, <2>0, <2>1, AttemptFrame, DaemonStep DEF CallTypes
  <2>2. CASE b[1] = c
    <3>1. b[2] # a[2]
      BY <1>0, <1>4, <1>5, <1>16, <2>2, Attempts
    <3>2. ~Calls!Waits(b) /\ ~Calls!Waits(b)'
      BY <1>1, <1>5, <1>9, <1>10, <2>2, <3>1 DEF Calls!Waits
    <3>3. att[b].link # "open"
      BY <2>0, <3>2 DEF AttemptFits
    <3>4. call[b[1]].try <= call'[b[1]].try /\ call'[b[1]].try \in Nat
      BY <1>3, <1>4, <1>9, <1>10, <2>2
    <3> QED BY <1>0, <2>0, <3>2, <3>3, <3>4, AttemptPast, DaemonStep
  <2> QED BY <2>1, <2>2
<1> QED BY <1>12, <1>13, <1>14, <1>15, <1>16 DEF CallInv

\* Whatever ends an attempt, its connection is closed and its answer is gone.
LEMMA LeaveStep ==
  ASSUME CallConstants, CallInv, [Calls!Next]_Calls!vars, NEW a \in Calls!Att, Calls!Waits(a),
         NEW how \in {"idle", "ok", "failed", "dead"},
         how = "idle" => faults' > 0, how = "ok" => att[a].exec = "done",
         call' = [call EXCEPT ![a[1]].st = how],
         att' = [att EXCEPT ![a] = [att[a] EXCEPT !.link = Calls!Left(a), !.resp = "none"]]
  PROVE  CallInv'
<1>0. /\ CallTypes /\ a[1] \in Call /\ CallFits(a[1]) /\ AttemptFits(a) /\ att[a] \in Attempt
      /\ call[a[1]] \in ACall
      /\ a = <<a[1], a[2]>> /\ a[2] = call[a[1]].try /\ call[a[1]].st = "sent"
      /\ att[a].link \in {"open", "dropped"}
      /\ (faults > 0 => faults' > 0)
  BY Attempts, DaemonStep DEF CallInv, Calls!Waits, AttemptFits
<1> DEFINE n == [att[a] EXCEPT !.link = Calls!Left(a), !.resp = "none"]
           m == [call[a[1]] EXCEPT !.st = how]
<1>1. /\ n \in Attempt /\ n.link = (IF att[a].link = "dropped" THEN "closed" ELSE "cut") /\ n.resp = "none"
      /\ n.exec = att[a].exec /\ n.got = att[a].got /\ n.cancelled = att[a].cancelled /\ n.due = att[a].due
      /\ n.inc = att[a].inc
  BY <1>0 DEF Attempt, Calls!Left
<1>2. /\ m \in ACall /\ m.st = how /\ m.try = call[a[1]].try /\ m.owner = call[a[1]].owner
      /\ call' = [call EXCEPT ![a[1]] = m]
  BY <1>0 DEF ACall, CallTypes
<1>3. att'[a] = n /\ call'[a[1]] = m /\ att' = [att EXCEPT ![a] = n]
  BY <1>0, <1>2 DEF CallTypes
<1> HIDE DEF n, m
<1>4. ~Calls!Waits(a)'
  BY <1>2, <1>3 DEF Calls!Waits
<1>5. ~(a[2] > call'[a[1]].try)
  BY <1>0, <1>2, <1>3 DEF ACall
<1>6. AttemptFits(a)'
  <2>1. n.link \in {"dropped", "closed"} /\ n.exec = "running" => n.cancelled
    BY <1>0, <1>1 DEF AttemptFits
  <2>2. (n.got = 2 <=> n.exec # "none") /\ n.link \in {"cut", "closed"} /\ n.resp = "none"
    BY <1>0, <1>1 DEF AttemptFits
  <2>3. (n.due => faults' > 0) /\ (n.exec = "lost" => faults' > 0)
    BY <1>0, <1>1 DEF AttemptFits
  <2> QED BY <1>3, <1>4, <1>5, <2>1, <2>2, <2>3 DEF AttemptFits
<1>7. CallFits(a[1])'
  <2>1. call'[a[1]].try = a[2] /\ a[2] \in 1..MaxTry /\ (how = "ok" => att'[<<a[1], a[2]>>].exec = "done")
    BY <1>0, <1>1, <1>2, <1>3, Attempts
  <2>2. how = "idle" \/ a[2] > 1 => faults' > 0
    BY <1>0 DEF CallFits
  <2> QED BY <1>2, <1>3, <2>1, <2>2 DEF CallFits
<1>8. \E k \in ACall : call' = [call EXCEPT ![a[1]] = k] /\ k.st # "sent" /\ k.try = call[a[1]].try
  BY <1>2
<1> QED BY <1>1, <1>3, <1>6, <1>7, <1>8, AttemptMoves

\* The answer, the close event, the timer of the request and the end of the caller (connectRpc).
LEMMA WaiterStep ==
  ASSUME CallConstants, CallInv, [Calls!Next]_Calls!vars, NEW a \in Calls!Att,
         \/ Calls!Answer(a) \/ (Calls!LinkLost(a) /\ Calls!Waits(a)) \/ Calls!TimesOut(a)
         \/ Calls!CallerDies(a[1]) /\ a[2] = call[a[1]].try
  PROVE  CallInv'
<1>0. /\ CallTypes /\ a[1] \in Call /\ AttemptFits(a) /\ att[a] \in Attempt /\ a = <<a[1], a[2]>>
      /\ call[a[1]] \in ACall
  BY Attempts DEF CallInv
<1>1. CASE Calls!Answer(a)
  <2> DEFINE how == IF att[a].resp = "again" THEN "idle" ELSE att[a].resp
  <2>1. /\ Calls!Waits(a) /\ call' = [call EXCEPT ![a[1]].st = how] /\ UNCHANGED faults
        /\ att' = [att EXCEPT ![a].link = Calls!Left(a), ![a].resp = "none"] /\ att[a].resp # "none"
    BY <1>1 DEF Calls!Answer, Calls!Settled
  <2>2. att' = [att EXCEPT ![a] = [att[a] EXCEPT !.link = Calls!Left(a), !.resp = "none"]]
    BY <1>0, <2>1 DEF CallTypes, Attempt
  <2>3. /\ how \in {"idle", "ok", "failed", "dead"} /\ (how = "idle" => faults' > 0)
        /\ (how = "ok" => att[a].exec = "done")
    BY <1>0, <2>1 DEF AttemptFits, Attempt
  <2> HIDE DEF how
  <2> QED BY <2>1, <2>2, <2>3, LeaveStep
<1>2. CASE Calls!LinkLost(a) /\ Calls!Waits(a)
  <2>1. /\ call' = [call EXCEPT ![a[1]].st = "idle"] /\ UNCHANGED faults /\ att[a].link = "dropped"
        /\ att' = [att EXCEPT ![a].link = "closed", ![a].resp = "none"]
    BY <1>2 DEF Calls!LinkLost, Calls!Settled
  <2>2. att' = [att EXCEPT ![a] = [att[a] EXCEPT !.link = Calls!Left(a), !.resp = "none"]]
    BY <1>0, <2>1 DEF CallTypes, Attempt, Calls!Left
  <2>3. faults' > 0
    BY <1>0, <2>1 DEF AttemptFits
  <2> QED BY <1>2, <2>1, <2>2, <2>3, LeaveStep
<1>3. CASE Calls!TimesOut(a)
  <2>1. /\ Calls!Waits(a) /\ call' = [call EXCEPT ![a[1]].st = "idle"] /\ UNCHANGED faults /\ att[a].due
        /\ att' = [att EXCEPT ![a].link = Calls!Left(a), ![a].resp = "none"]
    BY <1>3 DEF Calls!TimesOut, Calls!Settled
  <2>2. att' = [att EXCEPT ![a] = [att[a] EXCEPT !.link = Calls!Left(a), !.resp = "none"]]
    BY <1>0, <2>1 DEF CallTypes, Attempt
  <2>3. faults' > 0
    BY <1>0, <2>1 DEF AttemptFits
  <2> QED BY <2>1, <2>2, <2>3, LeaveStep
<1>4. CASE Calls!CallerDies(a[1]) /\ a[2] = call[a[1]].try
  <2>1. /\ call[a[1]].st = "sent" /\ call' = [call EXCEPT ![a[1]].st = "dead"]
        /\ att' = [att EXCEPT ![a] = [att[a] EXCEPT !.link = Calls!Left(a), !.resp = "none"]]
    BY <1>0, <1>4 DEF Calls!CallerDies
  <2>2. Calls!Waits(a)
    BY <1>4, <2>1 DEF Calls!Waits
  <2> QED BY <2>1, <2>2, LeaveStep
<1> QED BY <1>1, <1>2, <1>3, <1>4

\* The frames, the answers and the closed connections on the side of the server (createRpcServer),
\* the deadline that both sides see, and the close of a connection that nobody waits on.
LEMMA ServerStep ==
  ASSUME CallConstants, CallInv, [Calls!Next]_Calls!vars, NEW a \in Calls!Att,
         \/ (\E k \in 1..2 : Calls!Receive(a, k)) \/ Calls!Finish(a) \/ Calls!Ends(a) \/ Calls!HungUp(a)
         \/ Calls!IdleTimeout(a) \/ Calls!Overrun(a) \/ (Calls!LinkLost(a) /\ ~Calls!Waits(a))
  PROVE  CallInv'
<1>0. /\ CallTypes /\ AttemptFits(a) /\ att[a] \in Attempt /\ call[a[1]] \in ACall /\ a[1] \in Call
      /\ CallFits(a[1]) /\ (faults > 0 => faults' > 0) /\ (\A d \in Call : CallFits(d))
  BY Attempts, DaemonStep DEF CallInv
<1>1. ASSUME NEW n \in Attempt, att' = [att EXCEPT ![a] = n], call' = call,
             att[a].exec = "done" => n.exec = "done",
             AttemptFits(a)'
      PROVE  CallInv'
  <2>1. \A b \in Calls!Att : att[b].exec = "done" => att'[b].exec = "done"
    BY <1>0, <1>1 DEF CallTypes
  <2>2. CallFits(a[1])'
    BY <1>0, <1>1, <2>1, DaemonStep, CallFrame
  <2> QED BY <1>1, <2>2, AttemptMoves
<1>2. call' = call
  BY DEF Calls!Receive, Calls!Finish, Calls!Ends, Calls!HungUp, Calls!IdleTimeout, Calls!Overrun, Calls!LinkLost
<1>3. Calls!Waits(a)' <=> Calls!Waits(a)
  BY <1>2 DEF Calls!Waits
<1>4. ASSUME NEW k \in 1..2, Calls!Receive(a, k) PROVE CallInv'
  <2>1. att[a].link \in {"open", "cut"} /\ att[a].got < k /\ att[a].exec = "none" /\ UNCHANGED faults
    BY <1>0, <1>4 DEF Calls!Receive, AttemptFits, Attempt
  <2>2. ~(a[2] > call[a[1]].try)
    BY <1>0, <2>1, Attempts DEF AttemptFits, Calls!None, ACall
  <2>3. CASE k < 2
    <3> DEFINE n == [att[a] EXCEPT !.got = k]
    <3>1. /\ n \in Attempt /\ att' = [att EXCEPT ![a] = n] /\ n.link = att[a].link /\ n.exec = "none"
          /\ n.got = k
          /\ n.resp = att[a].resp /\ n.due = att[a].due /\ n.inc = att[a].inc
      BY <1>0, <1>4, <2>1, <2>3 DEF Calls!Receive, Attempt, CallTypes
    <3>2. att'[a] = n
      BY <1>0, <3>1 DEF CallTypes
    <3> HIDE DEF n
    <3>3. AttemptFits(a)'
      BY <1>0, <1>2, <1>3, <2>1, <2>2, <2>3, <3>1, <3>2 DEF AttemptFits
    <3> QED BY <1>1, <1>2, <2>1, <3>1, <3>3
  <2>4. CASE k = 2 /\ Calls!Refusal(a) = "none"
    <3> DEFINE n == [att[a] EXCEPT !.got = 2, !.exec = "running"]
    <3>1. /\ n \in Attempt /\ att' = [att EXCEPT ![a] = n] /\ n.link = att[a].link /\ n.exec = "running"
          /\ n.got = 2
          /\ n.resp = att[a].resp /\ n.due = att[a].due /\ n.inc = att[a].inc
      <4>1. att' = [att EXCEPT ![a] = n]
        BY <1>4, <2>4 DEF Calls!Receive
      <4>2. /\ n \in Attempt /\ n.link = att[a].link /\ n.exec = "running" /\ n.got = 2 /\ n.due = att[a].due
            /\ n.inc = att[a].inc
        BY <1>0, <2>4 DEF Attempt
      <4>3. n.resp = att[a].resp
        BY <1>0 DEF Attempt
      <4> QED BY <4>1, <4>2, <4>3
    <3>2. att'[a] = n
      BY <1>0, <3>1 DEF CallTypes
    <3>3. att[a].inc = call[a[1]].owner
      BY <2>4 DEF Calls!Refusal
    <3> HIDE DEF n
    <3>4. AttemptFits(a)'
      BY <1>0, <1>2, <1>3, <2>1, <2>2, <3>1, <3>2, <3>3 DEF AttemptFits
    <3> QED BY <1>1, <1>2, <2>1, <3>1, <3>4
  <2>5. CASE k = 2 /\ Calls!Refusal(a) # "none"
    <3> DEFINE n == [att[a] EXCEPT !.got = 2, !.exec = "refused", !.resp = Calls!Reply(a, Calls!Refusal(a))]
    <3>0. /\ Calls!Refusal(a) \in {"failed", "again"}
          /\ Calls!Refusal(a) = "again" => att[a].inc # call[a[1]].owner
          /\ Calls!Reply(a, Calls!Refusal(a)) = (IF att[a].link = "open" THEN Calls!Refusal(a) ELSE "none")
      BY <2>5 DEF Calls!Refusal, Calls!Reply
    <3>1. /\ n \in Attempt /\ att' = [att EXCEPT ![a] = n] /\ n.link = att[a].link /\ n.exec = "refused"
          /\ n.got = 2
          /\ n.resp = Calls!Reply(a, Calls!Refusal(a)) /\ n.due = att[a].due /\ n.inc = att[a].inc
      <4>1. att' = [att EXCEPT ![a] = n]
        BY <1>4, <2>5 DEF Calls!Receive
      <4>2. /\ n \in Attempt /\ n.link = att[a].link /\ n.exec = "refused" /\ n.got = 2 /\ n.due = att[a].due
            /\ n.inc = att[a].inc
        BY <1>0, <2>5, <3>0 DEF Attempt
      <4>3. n.resp = Calls!Reply(a, Calls!Refusal(a))
        BY <1>0 DEF Attempt
      <4> QED BY <4>1, <4>2, <4>3
    <3>2. att'[a] = n
      BY <1>0, <3>1 DEF CallTypes
    <3> HIDE DEF n
    <3>4. AttemptFits(a)'
      BY <1>0, <1>2, <1>3, <2>1, <2>2, <3>0, <3>1, <3>2 DEF AttemptFits
    <3> QED BY <1>1, <1>2, <2>1, <3>1, <3>4
  <2>6. k < 2 \/ k = 2
    OBVIOUS
  <2> QED BY <2>3, <2>4, <2>5, <2>6
<1>5. ASSUME NEW r \in {"ok", "failed"}, NEW e \in {"done", "ended"}, Calls!Active(a), r = "ok" => e = "done",
             UNCHANGED faults,
             att' = [att EXCEPT ![a].exec = e, ![a].resp = Calls!Reply(a, r)]
      PROVE  CallInv'
  <2> DEFINE n == [att[a] EXCEPT !.exec = e, !.resp = Calls!Reply(a, r)]
  <2>0. Calls!Reply(a, r) = (IF att[a].link = "open" THEN r ELSE "none") /\ att[a].exec = "running"
    BY <1>5 DEF Calls!Reply, Calls!Active
  <2>1. /\ n \in Attempt /\ att' = [att EXCEPT ![a] = n] /\ n.link = att[a].link /\ n.exec = e
        /\ n.got = att[a].got
        /\ n.resp = Calls!Reply(a, r) /\ n.due = att[a].due /\ n.inc = att[a].inc
        /\ n.cancelled = att[a].cancelled
    BY <1>0, <1>5, <2>0 DEF Attempt, CallTypes
  <2>2. att'[a] = n
    BY <1>0, <2>1 DEF CallTypes
  <2>3. ~(a[2] > call[a[1]].try)
    BY <1>0, <2>0, Attempts DEF AttemptFits, Calls!None, ACall
  <2> HIDE DEF n
  <2>4. AttemptFits(a)'
    <3>1. n.link \in {"dropped", "closed"} /\ n.exec = "running" => n.cancelled
      BY <2>0, <2>1
    <3>2. /\ n.got = 2 <=> n.exec # "none"
          /\ n.link = "open" => Calls!Waits(a)
          /\ Calls!Waits(a) => n.link \in {"open", "dropped"}
          /\ n.link # "none"
          /\ n.link = "open" /\ n.exec \in {"refused", "done", "ended"} => n.resp # "none"
          /\ n.resp = "ok" => n.exec = "done"
      BY <1>0, <1>5, <2>0, <2>1 DEF AttemptFits, Calls!None
    <3>3. /\ n.due => faults' > 0
          /\ n.link = "dropped" => faults' > 0
          /\ Calls!Waits(a) /\ n.inc # call[a[1]].owner => faults' > 0
          /\ Calls!Waits(a) /\ n.exec \in {"running", "done"} => n.inc = call[a[1]].owner
      BY <1>0, <2>0, <2>1 DEF AttemptFits
    <3> QED BY <1>2, <1>3, <2>0, <2>1, <2>2, <2>3, <3>1, <3>2, <3>3 DEF AttemptFits
  <2> QED BY <1>1, <1>2, <2>0, <2>1, <2>4
<1>6. CASE Calls!Finish(a) \/ Calls!Ends(a)
  <2>1. PICK r \in {"ok", "failed"}, e \in {"done", "ended"} :
           Calls!Active(a) /\ (r = "ok" => e = "done") /\ UNCHANGED faults
           /\ att' = [att EXCEPT ![a].exec = e, ![a].resp = Calls!Reply(a, r)]
    BY <1>6 DEF Calls!Finish, Calls!Ends
  <2> QED BY <1>5, <2>1
<1>7. ASSUME NEW l \in {"closed", "dropped"}, NEW s \in {att[a].resp, "none"}, NEW x \in BOOLEAN,
             att[a].exec = "running" => x, ~(Calls!Waits(a) /\ l = "closed"), l = "dropped" => faults' > 0,
             att[a].link # "none",
             att' = [att EXCEPT ![a] = [att[a] EXCEPT !.link = l, !.cancelled = x, !.resp = s]]
      PROVE  CallInv'
  <2> DEFINE n == [att[a] EXCEPT !.link = l, !.cancelled = x, !.resp = s]
  <2>1. /\ n \in Attempt /\ att' = [att EXCEPT ![a] = n] /\ n.link = l /\ n.exec = att[a].exec
        /\ n.got = att[a].got
        /\ n.resp = s /\ n.due = att[a].due /\ n.inc = att[a].inc /\ n.cancelled = x
    BY <1>0, <1>7 DEF Attempt
  <2>2. att'[a] = n
    BY <1>0, <2>1 DEF CallTypes
  <2>3. ~(a[2] > call[a[1]].try)
    BY <1>0, <1>7, Attempts DEF AttemptFits, Calls!None, ACall
  <2> HIDE DEF n
  <2>4. AttemptFits(a)'
    BY <1>0, <1>2, <1>3, <1>7, <2>1, <2>2, <2>3 DEF AttemptFits
  <2> QED BY <1>1, <1>2, <2>1, <2>4
<1>8. CASE Calls!HungUp(a)
  <2>1. att[a].link = "cut" /\ att' = [att EXCEPT ![a].link = "closed", ![a].cancelled = Calls!Cancelled(a)]
    BY <1>8 DEF Calls!HungUp
  <2>2. Calls!Cancelled(a) \in BOOLEAN /\ (att[a].exec = "running" => Calls!Cancelled(a))
    BY <1>0 DEF Calls!Cancelled, Calls!Active, Attempt
  <2>3. att' = [att EXCEPT
                   ![a] = [att[a] EXCEPT !.link = "closed", !.cancelled = Calls!Cancelled(a), !.resp = att[a].resp]]
    BY <1>0, <2>1, <2>2 DEF CallTypes, Attempt
  <2>4. ~Calls!Waits(a)
    BY <1>0, <2>1 DEF AttemptFits
  <2> QED BY <1>7, <2>1, <2>2, <2>3, <2>4
<1>9. CASE Calls!IdleTimeout(a)
  <2>1. /\ att[a].link = "open" /\ att[a].resp = "none" /\ att[a].exec # "running"
        /\ att' = [att EXCEPT ![a].link = "dropped", ![a].cancelled = Calls!Cancelled(a)]
        /\ faults' = IF att[a].got < 2 THEN faults + 1 ELSE faults
    BY <1>9 DEF Calls!IdleTimeout, Calls!Idles, Calls!Active
  <2>2. Calls!Cancelled(a) \in BOOLEAN
    BY <1>0 DEF Calls!Cancelled, Calls!Active, Attempt
  <2>3. att' = [att EXCEPT
                   ![a] = [att[a] EXCEPT !.link = "dropped", !.cancelled = Calls!Cancelled(a), !.resp = att[a].resp]]
    BY <1>0, <2>1, <2>2 DEF CallTypes, Attempt
  <2>4. faults' > 0
    BY <1>0, <2>1 DEF AttemptFits, Attempt, CallTypes
  <2> QED BY <1>7, <2>1, <2>2, <2>3, <2>4
<1>10. CASE Calls!LinkLost(a) /\ ~Calls!Waits(a)
  <2>1. att[a].link = "dropped" /\ att' = [att EXCEPT ![a].link = "closed", ![a].resp = "none"]
    BY <1>10 DEF Calls!LinkLost
  <2>2. att[a].cancelled \in BOOLEAN /\ (att[a].exec = "running" => att[a].cancelled)
    BY <1>0, <2>1 DEF AttemptFits, Attempt
  <2>3. att' = [att EXCEPT
                   ![a] = [att[a] EXCEPT !.link = "closed", !.cancelled = att[a].cancelled, !.resp = "none"]]
    BY <1>0, <2>1, <2>2 DEF CallTypes, Attempt
  <2> QED BY <1>7, <1>10, <2>1, <2>2, <2>3
<1>11. CASE Calls!Overrun(a)
  <2> DEFINE n == [att[a] EXCEPT !.due = TRUE]
  <2>0. Calls!Waits(a) /\ faults' > 0 /\ att' = [att EXCEPT ![a].due = TRUE]
    BY <1>0, <1>11 DEF Calls!Overrun, Calls!Fault, CallTypes
  <2>1. /\ n \in Attempt /\ att' = [att EXCEPT ![a] = n] /\ n.link = att[a].link /\ n.exec = att[a].exec
        /\ n.got = att[a].got
        /\ n.resp = att[a].resp /\ n.due /\ n.inc = att[a].inc /\ n.cancelled = att[a].cancelled
    BY <1>0, <2>0 DEF Attempt, CallTypes
  <2>2. att'[a] = n
    BY <1>0, <2>1 DEF CallTypes
  <2>3. ~(a[2] > call[a[1]].try) /\ att[a].link # "none"
    BY <1>0, <2>0, Attempts DEF AttemptFits, Calls!Waits, ACall
  <2> HIDE DEF n
  <2>4. AttemptFits(a)'
    BY <1>0, <1>2, <1>3, <2>0, <2>1, <2>2, <2>3 DEF AttemptFits
  <2> QED BY <1>1, <1>2, <2>1, <2>4
<1> QED BY <1>4, <1>6, <1>8, <1>9, <1>10, <1>11

\* Daemons start and end, and take their connections and requests with them (relinquish, drain).
LEMMA EndsStep ==
  ASSUME CallConstants, CallInv, [Calls!Next]_Calls!vars, NEW i \in Calls!Inc,
         Calls!Start(i) \/ Calls!Drain(i) \/ Calls!Drained(i) \/ Calls!Crash(i)
  PROVE  CallInv'
<1>0. CallTypes /\ (\A d \in Call : CallFits(d)) /\ (\A b \in Calls!Att : AttemptFits(b))
  BY DEF CallInv
<1>1. call' = call
  BY DEF Calls!Start, Calls!Drain, Calls!Drained, Calls!Crash
<1>2. ASSUME att' \in [Calls!Att -> Attempt], \A a \in Calls!Att : AttemptFits(a)',
             \A a \in Calls!Att : att[a].exec = "done" => att'[a].exec = "done"
      PROVE  CallInv'
  <2>1. CallTypes' /\ DaemonsFit'
    BY <1>0, <1>1, <1>2, DaemonStep DEF CallTypes
  <2>2. \A d \in Call : CallFits(d)'
    BY <1>0, <1>1, <1>2, DaemonStep, CallFrame
  <2> QED BY <1>2, <2>1, <2>2 DEF CallInv
<1>3. CASE Calls!Start(i) \/ Calls!Drained(i)
  <2>1. att' = att
    BY <1>3 DEF Calls!Start, Calls!Drained
  <2>2. \A a \in Calls!Att : AttemptFits(a)'
    BY <1>0, <1>1, <2>1, AttemptFrame, DaemonStep
  <2> QED BY <1>0, <1>2, <2>1, <2>2 DEF CallTypes
<1>4. ASSUME NEW running \in {"running", "lost"}, Calls!Drops(i, running), faults' > 0 PROVE CallInv'
  <2>1. ASSUME NEW a \in Calls!Att, att[a].inc = i
        PROVE  /\ att'[a] \in Attempt
               /\ att'[a].link = (CASE att[a].link = "open" -> "dropped" [] att[a].link = "cut" -> "closed" [] OTHER -> att[a].link)
               /\ att'[a].cancelled = Calls!Cancelled(a)
               /\ att'[a].exec = (IF Calls!Active(a) THEN running ELSE att[a].exec)
               /\ att'[a].got = att[a].got /\ att'[a].resp = att[a].resp
               /\ att'[a].due = att[a].due /\ att'[a].inc = att[a].inc
    <3> DEFINE l == CASE att[a].link = "open" -> "dropped" [] att[a].link = "cut" -> "closed" [] OTHER -> att[a].link
               x == Calls!Cancelled(a)
               e == IF Calls!Active(a) THEN running ELSE att[a].exec
    <3>1. att[a] \in Attempt
      BY <1>0 DEF CallTypes
    <3>2. l \in {"none", "open", "cut", "dropped", "closed"}
      BY <3>1 DEF Attempt
    <3>3. x \in BOOLEAN
      BY <3>1 DEF Calls!Cancelled, Calls!Active, Attempt
    <3>4. e \in {"none", "running", "refused", "done", "ended", "lost"}
      BY <3>1 DEF Attempt
    <3>5. att'[a] = [att[a] EXCEPT !.link = l, !.cancelled = x, !.exec = e]
      BY <1>4, <2>1, <3>1 DEF Calls!Drops, Attempt
    <3> HIDE DEF l, x, e
    <3>6. /\ att'[a] \in Attempt /\ att'[a].link = l /\ att'[a].cancelled = x /\ att'[a].exec = e
          /\ att'[a].got = att[a].got /\ att'[a].resp = att[a].resp
          /\ att'[a].due = att[a].due /\ att'[a].inc = att[a].inc
      BY <3>1, <3>2, <3>3, <3>4, <3>5 DEF Attempt
    <3> QED BY <3>6 DEF l, x, e
  <2>2. \A a \in Calls!Att : att[a].inc # i => att'[a] = att[a]
    BY <1>4 DEF Calls!Drops
  <2>3. att' \in [Calls!Att -> Attempt]
    <3>1. \A a \in Calls!Att : att'[a] \in Attempt
      BY <1>0, <2>1, <2>2 DEF CallTypes
    <3>2. att' = [a \in Calls!Att |-> att'[a]]
      BY <1>4 DEF Calls!Drops
    <3> QED BY <3>1, <3>2
  <2>4. \A a \in Calls!Att : att[a].exec = "done" => att'[a].exec = "done"
    BY <2>1, <2>2 DEF Calls!Active
  <2>5. ASSUME NEW a \in Calls!Att PROVE AttemptFits(a)'
    <3>0. AttemptFits(a) /\ a[1] \in Call /\ att[a] \in Attempt
      BY <1>0, Attempts
    <3>1. CASE att[a].inc # i
      BY <1>1, <2>2, <3>0, <3>1, AttemptFrame, DaemonStep
    <3>2. CASE att[a].inc = i
      <4>1. att[a].link # "none" /\ ~(a[2] > call[a[1]].try)
        <5>1. att[a] # Calls!None
          BY <3>2 DEF Calls!None, Calls!Inc
        <5> QED BY <3>0, <5>1 DEF AttemptFits
      <4>2. att'[a].link \in {"dropped", "closed"} /\ (Calls!Waits(a) => att'[a].link = "dropped")
        BY <2>1, <3>0, <3>2, <4>1 DEF AttemptFits, Attempt
      <4>3. att'[a].exec = "running" => att'[a].cancelled
        BY <2>1, <3>2 DEF Calls!Active, Calls!Cancelled
      <4>4. att'[a].got = 2 <=> att'[a].exec # "none"
        BY <2>1, <3>0, <3>2 DEF AttemptFits, Calls!Active
      <4>5. att'[a].resp = "ok" => att'[a].exec = "done"
        BY <2>1, <3>0, <3>2 DEF AttemptFits, Calls!Active
      <4>6. Calls!Waits(a)' <=> Calls!Waits(a)
        BY <1>1 DEF Calls!Waits
      <4>7. Calls!Waits(a) /\ att'[a].exec \in {"running", "done"} => att'[a].inc = call[a[1]].owner
        BY <2>1, <3>0, <3>2 DEF AttemptFits, Calls!Active
      <4> QED BY <1>1, <1>4, <4>1, <4>2, <4>3, <4>4, <4>5, <4>6, <4>7 DEF AttemptFits
    <3> QED BY <3>1, <3>2
  <2> QED BY <1>2, <2>3, <2>4, <2>5
<1>5. CASE Calls!Drain(i) \/ Calls!Crash(i)
  <2>1. Calls!Drops(i, "running") \/ Calls!Drops(i, "lost")
    BY <1>5 DEF Calls!Drain, Calls!Crash
  <2>2. faults' > 0
    BY <1>0, <1>5 DEF Calls!Drain, Calls!Crash, Calls!Fault, CallTypes
  <2> QED BY <1>4, <2>1, <2>2
<1> QED BY <1>3, <1>5

\* Every step keeps it.
LEMMA CallStep == ASSUME CallConstants, CallInv, [Calls!Next]_Calls!vars PROVE CallInv'
<1>1. ASSUME NEW c \in Call, Calls!Ready(c) \/ Calls!GiveUp(c) \/ Calls!Send(c) PROVE CallInv'
  BY <1>1, ClientStep, SendStep
<1>2. ASSUME NEW c \in Call, Calls!CallerDies(c) PROVE CallInv'
  <2>1. call[c].st = "sent" /\ CallFits(c)
    BY <1>2 DEF Calls!CallerDies, CallInv
  <2>2. PICK a \in Calls!Att : a = <<c, call[c].try>>
    BY <2>1 DEF CallFits, Calls!Att
  <2>3. a[1] = c /\ a[2] = call[c].try
    BY <2>2
  <2> QED BY <1>2, <2>3, WaiterStep
<1>3. ASSUME NEW a \in Calls!Att, Calls!Answer(a) \/ Calls!LinkLost(a) \/ Calls!Overrun(a) \/ Calls!TimesOut(a)
      PROVE CallInv'
  BY <1>3, WaiterStep, ServerStep
<1>4. ASSUME NEW a \in Calls!Att,
             \/ Calls!Finish(a) \/ Calls!Ends(a) \/ Calls!HungUp(a) \/ Calls!IdleTimeout(a)
             \/ \E k \in 1..2 : Calls!Receive(a, k)
      PROVE  CallInv'
  BY <1>4, ServerStep
<1>5. ASSUME NEW i \in Calls!Inc, Calls!Start(i) \/ Calls!Drain(i) \/ Calls!Drained(i) \/ Calls!Crash(i)
      PROVE CallInv'
  BY <1>5, EndsStep
<1>6. CASE UNCHANGED Calls!vars
  <2>1. UNCHANGED <<life, call, att, faults>>
    BY <1>6 DEF Calls!vars
  <2>2. (\A d \in Call : CallFits(d)') /\ (\A b \in Calls!Att : AttemptFits(b)')
    BY <2>1, CallFrame, AttemptFrame DEF CallInv
  <2>3. CallTypes' /\ DaemonsFit'
    BY <2>1 DEF CallInv, CallTypes, DaemonsFit, Calls!Up
  <2> QED BY <2>2, <2>3 DEF CallInv
<1> QED BY <1>1, <1>2, <1>3, <1>4, <1>5, <1>6 DEF Calls!Next

\* For any calls, daemons, attempts and faults, and whether daemons share a path or not: a call
\* that ends well was carried out, in its last attempt, by the daemon it was meant for
\* (server.ts validateRequest); what runs for a connection that is lost has been cancelled
\* (onConnectionClosed); and nobody waits on a closed connection or tries again without a fault.
THEOREM CallsStayAnswered ==
  ASSUME CallConstants
  PROVE  Calls!Spec => []Calls!CallsAreAnswered
<1>1. Calls!Init => CallInv
  BY CallsStart
<1>2. CallInv /\ [Calls!Next]_Calls!vars => CallInv'
  BY CallStep
<1>3. ASSUME CallInv PROVE Calls!CallsAreAnswered
  <2>1. Calls!AnsweredByItsOwn
    BY <1>3 DEF CallInv, CallFits, AttemptFits, Calls!AnsweredByItsOwn
  <2>2. Calls!OrphansAreCancelled
    BY <1>3 DEF CallInv, AttemptFits, Calls!OrphansAreCancelled, Calls!Active
  <2>3. Calls!CallsSettle
    BY <1>3 DEF CallInv, CallFits, AttemptFits, Calls!CallsSettle
  <2> QED BY <2>1, <2>2, <2>3 DEF Calls!CallsAreAnswered
<1> QED BY <1>1, <1>2, <1>3, PTL DEF Calls!Spec

-----------------------------------------------------------------------------
(* KiwiManager.                                                             *)

CONSTANTS Caller, Env, MaxLoad, MaxCalls
VARIABLES active, pending, owner, load, timer, closed, count

Kiwi == INSTANCE KiwiManager

KiwiConstants == IsFiniteSet(Caller) /\ MaxLoad \in Nat /\ MaxCalls \in Nat

Handle ==
  [env : Env \cup {"none"}, installs : BOOLEAN, st : {"none", "loading", "loaded", "failed"}, leases : Nat,
   closed : BOOLEAN, disposed : BOOLEAN]
Asks ==
  [pc : {"idle", "ensure", "wait", "settle", "leased"}, env : Env \cup {"none"}, installs : BOOLEAN, at : 0..MaxLoad]

KiwiTypes ==
  /\ active \in 0..MaxLoad /\ pending \in 0..MaxLoad /\ timer \in 0..MaxLoad
  /\ load \in [Kiwi!Loads -> Handle]
  /\ op \in [Caller -> Asks]
  /\ count \in [loads : 0..MaxLoad, calls : Nat]

Holders(h) == {c \in Caller : op[c].pc = "leased" /\ op[c].at = h}

\* A handle is counted by those who lease it, in memory while somebody can reach it, and loading
\* while somebody waits for it.
HandleFits(h) ==
  /\ h > count.loads => load[h].st = "none"
  /\ load[h].leases = Cardinality(Holders(h))
  /\ load[h].st = "loading" => ~load[h].disposed /\ ~load[h].closed /\ \E c \in Caller : op[c].pc = "wait" /\ op[c].at = h
  /\ load[h].st = "loaded" /\ ~load[h].disposed => active = h \/ load[h].leases > 0
  /\ load[h].disposed => closed \/ load[h].leases = 0

\* Who waits, waits for a load that is under way; who leases has a handle that was loaded.
AskFits(c) ==
  /\ op[c].pc \in {"wait", "settle"} => op[c].at \in Kiwi!Loads /\ load[op[c].at].st = "loading"
  /\ op[c].pc = "leased" => op[c].at \in Kiwi!Loads /\ load[op[c].at].st = "loaded"

ActiveFits ==
  /\ active # 0 => load[active].st = "loaded" /\ ~load[active].closed /\ ~load[active].disposed
  /\ closed => active = 0
  /\ pending # 0 => load[pending].st = "loading"

KiwiInv ==
  /\ KiwiTypes /\ ActiveFits /\ Kiwi!IdleIsEvicted
  /\ \A h \in Kiwi!Loads : HandleFits(h)
  /\ \A c \in Caller : AskFits(c)

\* Before the first call nothing is loaded.
LEMMA KiwiStarts == ASSUME KiwiConstants, Kiwi!Init PROVE KiwiInv
<1>1. KiwiTypes /\ ActiveFits /\ Kiwi!IdleIsEvicted
  BY DEF Kiwi!Init, KiwiConstants, KiwiTypes, ActiveFits, Kiwi!IdleIsEvicted, Kiwi!NoLoad, Kiwi!Idle, Handle,
    Asks
<1>2. ASSUME NEW h \in Kiwi!Loads PROVE HandleFits(h)
  <2>1. Holders(h) = {}
    BY DEF Kiwi!Init, Kiwi!Idle, Holders
  <2>2. load[h].leases = 0 /\ load[h].st = "none" /\ ~load[h].disposed
    BY DEF Kiwi!Init, Kiwi!NoLoad
  <2> QED BY <2>1, <2>2, FS_EmptySet DEF HandleFits
<1>3. \A c \in Caller : AskFits(c)
  BY DEF Kiwi!Init, Kiwi!Idle, AskFits
<1> QED BY <1>1, <1>2, <1>3 DEF KiwiInv

\* The manager counts with the Cardinality of this module.
LEMMA KiwiCounts == \A S : Kiwi!Cardinality(S) = Cardinality(S)
  BY DEF Kiwi!Cardinality, Cardinality

\* The leases of a handle, one more and one less.
LEMMA HoldersCount ==
  ASSUME KiwiConstants, KiwiTypes, NEW h
  PROVE  /\ IsFiniteSet(Holders(h)) /\ Cardinality(Holders(h)) \in Nat
         /\ \A c \in Holders(h) : /\ Cardinality(Holders(h) \ {c}) = Cardinality(Holders(h)) - 1
                                  /\ Cardinality(Holders(h)) > 0
         /\ \A c \in Caller \ Holders(h) : Cardinality(Holders(h) \cup {c}) = Cardinality(Holders(h)) + 1
<1>1. IsFiniteSet(Holders(h))
  BY FS_Subset DEF Holders, KiwiConstants
<1>2. Cardinality(Holders(h)) \in Nat
  BY <1>1, FS_CardinalityType
<1>3. ASSUME NEW c \in Holders(h)
      PROVE  Cardinality(Holders(h) \ {c}) = Cardinality(Holders(h)) - 1 /\ Cardinality(Holders(h)) > 0
  <2>1. Cardinality(Holders(h) \ {c}) = Cardinality(Holders(h)) - 1
    BY <1>1, FS_RemoveElement
  <2>2. Cardinality(Holders(h)) # 0
    BY <1>1, FS_EmptySet
  <2> QED BY <1>2, <2>1, <2>2
<1>4. ASSUME NEW c \in Caller \ Holders(h)
      PROVE  Cardinality(Holders(h) \cup {c}) = Cardinality(Holders(h)) + 1
  BY <1>1, FS_AddElement
<1> QED BY <1>1, <1>2, <1>3, <1>4

\* The active handle is leased (ensureLoaded).
LEMMA LeaseStep ==
  ASSUME KiwiConstants, KiwiInv, NEW c \in Caller, op[c].pc \in {"idle", "ensure"}, active # 0, NEW n \in Asks,
         n.pc = "leased", n.at = active, op' = [op EXCEPT ![c] = n],
         load' = [load EXCEPT ![active].leases = @ + 1], timer' = 0,
         UNCHANGED <<active, pending, closed>>, count' \in [loads : 0..MaxLoad, calls : Nat], count'.loads = count.loads
  PROVE  KiwiInv'
<1>0. /\ KiwiTypes /\ ActiveFits /\ active \in Kiwi!Loads /\ load[active] \in Handle
      /\ load[active].leases \in Nat
      /\ (\A h \in Kiwi!Loads : HandleFits(h)) /\ (\A d \in Caller : AskFits(d))
  BY DEF KiwiInv, KiwiTypes, Kiwi!Loads, Handle
<1> DEFINE m == [load[active] EXCEPT !.leases = load[active].leases + 1]
<1>1. /\ m \in Handle /\ m.leases = load[active].leases + 1 /\ m.st = load[active].st
      /\ m.closed = load[active].closed /\ m.disposed = load[active].disposed
      /\ load' = [load EXCEPT ![active] = m]
  <2>1. PICK k \in Nat : k = load[active].leases + 1
    BY <1>0
  <2>2. m = [load[active] EXCEPT !.leases = k] /\ load' = [load EXCEPT ![active] = m]
    BY <1>0, <2>1 DEF KiwiTypes
  <2>3. /\ m \in Handle /\ m.leases = k /\ m.st = load[active].st
        /\ m.closed = load[active].closed /\ m.disposed = load[active].disposed
    BY <1>0, <2>2 DEF Handle
  <2> QED BY <2>1, <2>2, <2>3
<1>2. load'[active] = m /\ \A h \in Kiwi!Loads \ {active} : load'[h] = load[h]
  BY <1>0, <1>1 DEF KiwiTypes
<1>3. op'[c] = n /\ \A d \in Caller \ {c} : op'[d] = op[d]
  BY <1>0 DEF KiwiTypes
<1> HIDE DEF m
<1>4. KiwiTypes'
  <2>1. load' \in [Kiwi!Loads -> Handle] /\ op' \in [Caller -> Asks]
    BY <1>0, <1>1 DEF KiwiTypes
  <2>2. 0 \in 0..MaxLoad
    BY DEF KiwiConstants
  <2> QED BY <1>0, <2>1, <2>2 DEF KiwiTypes
<1>5. ActiveFits'
  BY <1>0, <1>1, <1>2 DEF ActiveFits, KiwiTypes, Kiwi!Loads
<1>6. m.leases > 0 /\ m.leases # 0
  BY <1>0, <1>1
<1>7. Kiwi!IdleIsEvicted'
  <2>1. active' = active /\ load'[active].leases # 0
    BY <1>2, <1>6
  <2> QED BY <2>1 DEF Kiwi!IdleIsEvicted
<1>8. \A d \in Caller : AskFits(d)'
  <2>1. AskFits(c)'
    BY <1>0, <1>1, <1>2, <1>3 DEF AskFits, ActiveFits
  <2>2. \A h \in Kiwi!Loads : load'[h].st = load[h].st
    BY <1>1, <1>2
  <2> QED BY <1>0, <1>3, <2>1, <2>2 DEF AskFits
<1>9. ASSUME NEW h \in Kiwi!Loads, h # active PROVE HandleFits(h)'
  <2>1. Holders(h)' = Holders(h)
    BY <1>3, <1>9 DEF Holders
  <2>3. HandleFits(h) /\ load'[h] = load[h]
    BY <1>0, <1>2, <1>9
  <2>4. (\E d \in Caller : op[d].pc = "wait" /\ op[d].at = h) => \E e \in Caller : op'[e].pc = "wait" /\ op'[e].at = h
    BY <1>3
  <2> QED BY <2>1, <2>3, <2>4 DEF HandleFits
<1>10. HandleFits(active)'
  <2>1. Holders(active)' = Holders(active) \cup {c} /\ c \notin Holders(active)
    BY <1>3 DEF Holders
  <2>2. Cardinality(Holders(active)') = load[active].leases + 1
    BY <1>0, <2>1, HoldersCount DEF HandleFits
  <2>3. HandleFits(active)
    BY <1>0
  <2> QED BY <1>0, <1>1, <1>2, <1>6, <2>2, <2>3 DEF HandleFits, ActiveFits
<1> QED BY <1>4, <1>5, <1>7, <1>8, <1>9, <1>10 DEF KiwiInv

\* The load under way is waited for, or waited out.
LEMMA WaitStep ==
  ASSUME KiwiConstants, KiwiInv, NEW c \in Caller, op[c].pc \in {"idle", "ensure"}, pending # 0, NEW n \in Asks,
         n.pc \in {"wait", "settle"}, n.at = pending, op' = [op EXCEPT ![c] = n],
         UNCHANGED <<active, pending, closed, load, timer>>, count' \in [loads : 0..MaxLoad, calls : Nat],
         count'.loads = count.loads
  PROVE  KiwiInv'
<1>0. /\ KiwiTypes /\ ActiveFits /\ pending \in Kiwi!Loads /\ Kiwi!IdleIsEvicted
      /\ (\A h \in Kiwi!Loads : HandleFits(h)) /\ (\A d \in Caller : AskFits(d))
  BY DEF KiwiInv, KiwiTypes, Kiwi!Loads
<1>1. op'[c] = n /\ \A d \in Caller \ {c} : op'[d] = op[d]
  BY <1>0 DEF KiwiTypes
<1>2. KiwiTypes' /\ ActiveFits' /\ Kiwi!IdleIsEvicted'
  BY <1>0 DEF KiwiTypes, ActiveFits, Kiwi!IdleIsEvicted
<1>3. \A d \in Caller : AskFits(d)'
  BY <1>0, <1>1 DEF AskFits, ActiveFits
<1>4. ASSUME NEW h \in Kiwi!Loads PROVE HandleFits(h)'
  <2>1. Holders(h)' = Holders(h)
    BY <1>1 DEF Holders
  <2>2. (\E d \in Caller : op[d].pc = "wait" /\ op[d].at = h) => \E e \in Caller : op'[e].pc = "wait" /\ op'[e].at = h
    BY <1>1
  <2> QED BY <1>0, <2>1, <2>2 DEF HandleFits
<1> QED BY <1>2, <1>3, <1>4 DEF KiwiInv

\* A load begins, and its caller waits for it.
LEMMA LoadStep ==
  ASSUME KiwiConstants, KiwiInv, NEW c \in Caller, op[c].pc \in {"idle", "ensure"}, NEW n \in Asks,
         NEW h \in Kiwi!Loads,
         h = count.loads + 1, n.pc = "wait", n.at = h, op' = [op EXCEPT ![c] = n], NEW m \in Handle,
         m.st = "loading", m.leases = 0, ~m.closed, ~m.disposed, load' = [load EXCEPT ![h] = m],
         pending' = h, timer' = 0, UNCHANGED <<active, closed>>, count' \in [loads : 0..MaxLoad, calls : Nat],
         count'.loads = h
  PROVE  KiwiInv'
<1>0. /\ KiwiTypes /\ ActiveFits /\ count.loads \in Nat /\ h \in Nat /\ h > count.loads /\ active \in Nat
      /\ (\A k \in Kiwi!Loads : HandleFits(k)) /\ (\A d \in Caller : AskFits(d))
  BY DEF KiwiInv, KiwiTypes, Kiwi!Loads
<1>1. op'[c] = n /\ \A d \in Caller \ {c} : op'[d] = op[d]
  BY <1>0 DEF KiwiTypes
<1>2. load'[h] = m /\ \A k \in Kiwi!Loads \ {h} : load'[k] = load[k]
  BY <1>0 DEF KiwiTypes
<1>3. load[h].st = "none"
  BY <1>0 DEF HandleFits
<1>4. active # h /\ (active # 0 => active \in Kiwi!Loads /\ active < h)
  <2>1. active # 0 => active \in Kiwi!Loads /\ load[active].st = "loaded"
    BY <1>0 DEF ActiveFits, KiwiTypes, Kiwi!Loads
  <2>2. active # 0 => ~(active > count.loads)
    BY <1>0, <2>1 DEF HandleFits
  <2> QED BY <1>0, <1>3, <2>1, <2>2
<1>5. KiwiTypes'
  <2>1. load' \in [Kiwi!Loads -> Handle] /\ op' \in [Caller -> Asks]
    BY <1>0 DEF KiwiTypes
  <2>2. h \in 0..MaxLoad /\ 0 \in 0..MaxLoad
    BY DEF Kiwi!Loads, KiwiConstants
  <2> QED BY <1>0, <2>1, <2>2 DEF KiwiTypes
<1>6. ActiveFits'
  BY <1>0, <1>2, <1>4 DEF ActiveFits
<1>7. Kiwi!IdleIsEvicted'
  BY <1>0, <1>2, <1>4 DEF Kiwi!IdleIsEvicted
<1>8. ASSUME NEW d \in Caller PROVE AskFits(d)'
  <2>1. CASE d = c
    BY <1>1, <1>2, <2>1 DEF AskFits
  <2>2. CASE d # c
    <3>1. op'[d] = op[d] /\ AskFits(d)
      BY <1>0, <1>1, <2>2
    <3> QED BY <1>2, <1>3, <3>1 DEF AskFits
  <2> QED BY <2>1, <2>2
<1>9. ASSUME NEW k \in Kiwi!Loads, k # h PROVE HandleFits(k)'
  <2>1. Holders(k)' = Holders(k)
    BY <1>1 DEF Holders
  <2>2. (\E d \in Caller : op[d].pc = "wait" /\ op[d].at = k) => \E e \in Caller : op'[e].pc = "wait" /\ op'[e].at = k
    BY <1>1
  <2>3. k > h => k > count.loads
    BY <1>0 DEF Kiwi!Loads
  <2>4. HandleFits(k) /\ load'[k] = load[k]
    BY <1>0, <1>2, <1>9
  <2> QED BY <2>1, <2>2, <2>3, <2>4 DEF HandleFits
<1>10. HandleFits(h)'
  <2>1. Holders(h)' = {}
    <3>1. ASSUME NEW d \in Holders(h)' PROVE FALSE
      <4>1. d \in Caller /\ op'[d].pc = "leased" /\ op'[d].at = h
        BY <3>1 DEF Holders
      <4>2. d # c /\ op[d].pc = "leased" /\ op[d].at = h
        BY <1>1, <4>1
      <4>3. AskFits(d)
        BY <1>0, <4>1
      <4> QED BY <1>3, <4>2, <4>3 DEF AskFits
    <3> QED BY <3>1
  <2>2. Cardinality(Holders(h)') = 0
    BY <2>1, FS_EmptySet
  <2>3. op'[c].pc = "wait" /\ op'[c].at = h /\ ~(h > count'.loads)
    BY <1>0, <1>1
  <2> QED BY <1>2, <2>2, <2>3 DEF HandleFits
<1> QED BY <1>5, <1>6, <1>7, <1>8, <1>9, <1>10 DEF KiwiInv

\* What a caller is after.
Ask(c, e, i, pc, h) == [pc |-> pc, env |-> e, installs |-> i, at |-> h]

\* The active handle, the load under way or a new load serve the caller.
LEMMA EnsureStep ==
  ASSUME KiwiConstants, KiwiInv, NEW c \in Caller, op[c].pc \in {"idle", "ensure"}, NEW e \in Env \cup {"none"},
         NEW i \in BOOLEAN, Kiwi!EnsureLoaded(c, e, i)
  PROVE  KiwiInv'
<1>0. KiwiTypes /\ count.loads \in Nat /\ count.calls \in Nat /\ active \in 0..MaxLoad /\ pending \in 0..MaxLoad
  BY DEF KiwiInv, KiwiTypes, KiwiConstants
<1>1. \A pc \in {"wait", "settle", "leased"}, h \in 0..MaxLoad :
        Ask(c, e, i, pc, h) \in Asks /\ Ask(c, e, i, pc, h).pc = pc /\ Ask(c, e, i, pc, h).at = h
  BY DEF Ask, Asks
<1> DEFINE calls == IF op[c].pc = "idle" THEN count.calls + 1 ELSE count.calls
<1>2. calls \in Nat
  BY <1>0
<1> HIDE DEF calls
<1>3. CASE Kiwi!Serves(active, e)
  <2>1. /\ active # 0 /\ timer' = 0 /\ load' = [load EXCEPT ![active].leases = @ + 1]
        /\ op' = [op EXCEPT ![c] = Ask(c, e, i, "leased", active)] /\ UNCHANGED <<active, pending, closed>>
        /\ count' = [loads |-> count.loads, calls |-> calls]
    BY <1>3 DEF Kiwi!EnsureLoaded, Kiwi!Serves, Ask, calls
  <2>2. count' \in [loads : 0..MaxLoad, calls : Nat] /\ count'.loads = count.loads
    BY <1>0, <1>2, <2>1 DEF KiwiTypes
  <2> QED BY <1>0, <1>1, <2>1, <2>2, LeaseStep, ZenonT(60)
<1>4. CASE ~Kiwi!Serves(active, e) /\ pending # 0
  <2>1. /\ op' = [op EXCEPT ![c] = Ask(c, e, i, IF Kiwi!Shared(e, i) THEN "wait" ELSE "settle", pending)]
        /\ UNCHANGED <<active, pending, closed, load, timer>>
        /\ count' = [loads |-> count.loads, calls |-> calls]
    BY <1>4 DEF Kiwi!EnsureLoaded, Ask, calls
  <2>2. count' \in [loads : 0..MaxLoad, calls : Nat] /\ count'.loads = count.loads
    BY <1>0, <1>2, <2>1 DEF KiwiTypes
  <2>3. PICK pc \in {"wait", "settle"} : op' = [op EXCEPT ![c] = Ask(c, e, i, pc, pending)]
    BY <2>1
  <2>4. PICK n \in Asks : n = Ask(c, e, i, pc, pending)
    BY <1>0, <1>1
  <2>5. n.pc \in {"wait", "settle"} /\ n.at = pending /\ op' = [op EXCEPT ![c] = n]
    BY <1>0, <1>1, <2>3, <2>4
  <2> QED BY <1>4, <2>1, <2>2, <2>5, WaitStep
<1>5. CASE ~Kiwi!Serves(active, e) /\ pending = 0
  <2>1. PICK h \in Kiwi!Loads : h = count.loads + 1
    BY <1>5 DEF Kiwi!EnsureLoaded
  <2>2. PICK m : m = [Kiwi!NoLoad EXCEPT !.env = e, !.installs = i, !.st = "loading"]
    OBVIOUS
  <2>3. m \in Handle /\ m.st = "loading" /\ m.leases = 0 /\ ~m.closed /\ ~m.disposed
    BY <2>2 DEF Kiwi!NoLoad, Handle
  <2>4. h # 0 /\ h \in 0..MaxLoad
    BY <2>1 DEF Kiwi!Loads
  <2>5. /\ load' = [load EXCEPT ![h] = m] /\ pending' = h /\ timer' = 0
        /\ op' = [op EXCEPT ![c] = Ask(c, e, i, "wait", h)] /\ UNCHANGED <<active, closed>>
    BY <1>5, <2>1, <2>2 DEF Kiwi!EnsureLoaded, Ask
  <2>6. count' = [loads |-> h, calls |-> calls]
    BY <1>5, <2>1, <2>4, <2>5 DEF Kiwi!EnsureLoaded, calls
  <2>7. count' \in [loads : 0..MaxLoad, calls : Nat] /\ count'.loads = h
    BY <1>2, <2>4, <2>6
  <2> QED BY <1>1, <2>1, <2>3, <2>4, <2>5, <2>7, LoadStep
<1> QED BY <1>3, <1>4, <1>5

\* The waiting of those who wait for a load ends.
LEMMA FailedFits ==
  ASSUME KiwiConstants, KiwiInv, NEW h \in Kiwi!Loads, load[h].st = "loading"
  PROVE  /\ Kiwi!Failed(h) \in [Caller -> Asks]
         /\ \A d \in Caller : op[d].at # h \/ op[d].pc = "leased" => Kiwi!Failed(h)[d] = op[d]
         /\ \A d \in Caller : op[d].at = h => Kiwi!Failed(h)[d].pc \notin {"wait", "settle", "leased"}
<1>1. /\ KiwiTypes /\ \A d \in Caller : AskFits(d)
  BY DEF KiwiInv
<1>2. ASSUME NEW d \in Caller
      PROVE  /\ Kiwi!Failed(h)[d] \in Asks
             /\ op[d].at # h \/ op[d].pc = "leased" => Kiwi!Failed(h)[d] = op[d]
             /\ op[d].at = h => Kiwi!Failed(h)[d].pc \notin {"wait", "settle", "leased"}
  <2>1. op[d] \in Asks /\ AskFits(d)
    BY <1>1 DEF KiwiTypes
  <2>2. 0 \in 0..MaxLoad
    BY DEF KiwiConstants
  <2>3. Kiwi!Idle \in Asks /\ Kiwi!Idle.pc = "idle"
    BY <2>2 DEF Kiwi!Idle, Asks
  <2>4. /\ [op[d] EXCEPT !.pc = "ensure", !.at = 0] \in Asks
        /\ [op[d] EXCEPT !.pc = "ensure", !.at = 0].pc = "ensure"
    BY <2>1, <2>2 DEF Asks
  <2>5. op[d].at = h => op[d].pc # "leased"
    BY <2>1 DEF AskFits
  <2>6. Kiwi!Failed(h)[d] = IF op[d].at # h THEN op[d]
                            ELSE IF op[d].pc = "wait" THEN Kiwi!Idle
                            ELSE IF op[d].pc = "settle" THEN [op[d] EXCEPT !.pc = "ensure", !.at = 0] ELSE op[d]
    BY DEF Kiwi!Failed
  <2> QED BY <2>1, <2>3, <2>4, <2>5, <2>6
<1> QED BY <1>2 DEF Kiwi!Failed

\* The load is over, without a handle that anybody may use.
LEMMA LoadEnds ==
  ASSUME KiwiConstants, KiwiInv, NEW h \in Kiwi!Loads, load[h].st = "loading", NEW m \in Handle,
         m.st = "failed",
         m.leases = load[h].leases, load' = [load EXCEPT ![h] = m], op' = Kiwi!Failed(h), Kiwi!Settled(h),
         UNCHANGED <<active, timer, closed, count>>
  PROVE  KiwiInv'
<1>0. /\ KiwiTypes /\ ActiveFits /\ Kiwi!IdleIsEvicted
      /\ (\A k \in Kiwi!Loads : HandleFits(k)) /\ (\A d \in Caller : AskFits(d))
  BY DEF KiwiInv
<1>1. load'[h] = m /\ \A k \in Kiwi!Loads \ {h} : load'[k] = load[k]
  BY <1>0 DEF KiwiTypes
<1>2. /\ op' \in [Caller -> Asks]
      /\ \A d \in Caller : op[d].at # h \/ op[d].pc = "leased" => op'[d] = op[d]
      /\ \A d \in Caller : op[d].at = h => op'[d].pc \notin {"wait", "settle", "leased"}
  BY FailedFits
<1>3. active # h /\ \A k \in Kiwi!Loads : Holders(k)' = Holders(k)
  <2>1. active # h
    BY <1>0 DEF ActiveFits, Kiwi!Loads
  <2>2. ASSUME NEW k \in Kiwi!Loads PROVE Holders(k)' = Holders(k)
    <3>1. ASSUME NEW d \in Caller
          PROVE (op'[d].pc = "leased" /\ op'[d].at = k) <=> (op[d].pc = "leased" /\ op[d].at = k)
      BY <1>2, <3>1
    <3> QED BY <3>1 DEF Holders
  <2> QED BY <2>1, <2>2
<1>4. KiwiTypes'
  <2>1. load' \in [Kiwi!Loads -> Handle]
    BY <1>0 DEF KiwiTypes
  <2>2. pending' \in 0..MaxLoad
    BY <1>0 DEF Kiwi!Settled, KiwiTypes, KiwiConstants
  <2> QED BY <1>0, <1>2, <2>1, <2>2 DEF KiwiTypes
<1>5. ActiveFits'
  <2>1. active # 0 => active \in Kiwi!Loads
    BY <1>0 DEF KiwiTypes, Kiwi!Loads
  <2>2. pending' # 0 => pending' = pending /\ pending # h /\ pending \in Kiwi!Loads
    BY <1>0 DEF Kiwi!Settled, KiwiTypes, Kiwi!Loads
  <2> QED BY <1>0, <1>1, <1>3, <2>1, <2>2 DEF ActiveFits
<1>6. Kiwi!IdleIsEvicted'
  <2>1. active # 0 => active \in Kiwi!Loads /\ load'[active] = load[active]
    BY <1>0, <1>1, <1>3 DEF KiwiTypes, Kiwi!Loads
  <2>2. \A k \in Kiwi!Loads : load[k].st \in {"loading", "failed"} => load'[k].st \in {"loading", "failed"}
    BY <1>1
  <2> QED BY <1>0, <2>1, <2>2 DEF Kiwi!IdleIsEvicted
<1>7. ASSUME NEW d \in Caller PROVE AskFits(d)'
  <2>1. CASE op[d].at = h
    BY <1>2, <2>1 DEF AskFits
  <2>2. CASE op[d].at # h
    BY <1>0, <1>1, <1>2, <2>2 DEF AskFits
  <2> QED BY <2>1, <2>2
<1>8. ASSUME NEW k \in Kiwi!Loads, k # h PROVE HandleFits(k)'
  <2>1. (\E d \in Caller : op[d].pc = "wait" /\ op[d].at = k) => \E d \in Caller : op'[d].pc = "wait" /\ op'[d].at = k
    BY <1>2, <1>8
  <2>2. HandleFits(k) /\ load'[k] = load[k] /\ Holders(k)' = Holders(k)
    BY <1>0, <1>1, <1>3, <1>8
  <2> QED BY <2>1, <2>2 DEF HandleFits
<1>9. HandleFits(h)'
  <2>1. HandleFits(h) /\ Holders(h)' = Holders(h) /\ load[h].leases = 0
    <3>1. Holders(h) = {}
      BY <1>0 DEF Holders, AskFits
    <3> QED BY <1>0, <1>3, <3>1, FS_EmptySet DEF HandleFits
  <2> QED BY <1>1, <2>1 DEF HandleFits
<1> QED BY <1>4, <1>5, <1>6, <1>7, <1>8, <1>9 DEF KiwiInv

\* A handle that is disposed of, its leases and its state kept.
LEMMA DisposedHandle ==
  ASSUME NEW ls \in [Kiwi!Loads -> Handle], NEW k \in Kiwi!Loads
  PROVE  /\ Kiwi!Disposed(ls, k) \in [Kiwi!Loads -> Handle]
         /\ Kiwi!Disposed(ls, k)[k].disposed /\ Kiwi!Disposed(ls, k)[k].leases = ls[k].leases
         /\ Kiwi!Disposed(ls, k)[k].st = ls[k].st
         /\ \A j \in Kiwi!Loads \ {k} : Kiwi!Disposed(ls, k)[j] = ls[j]
<1>1. PICK m : m = [ls[k] EXCEPT !.closed = TRUE, !.disposed = TRUE]
  OBVIOUS
<1>2. m \in Handle /\ m.disposed /\ m.leases = ls[k].leases /\ m.st = ls[k].st
  BY <1>1 DEF Handle
<1>3. Kiwi!Disposed(ls, k) = [ls EXCEPT ![k] = m]
  BY <1>1 DEF Kiwi!Disposed, Handle
<1> QED BY <1>2, <1>3

\* The handle that is replaced.
LEMMA ReplacedHandle ==
  ASSUME KiwiTypes, ActiveFits, NEW h, active # h
  PROVE  /\ Kiwi!Replaced(load, h) \in [Kiwi!Loads -> Handle]
         /\ \A k \in Kiwi!Loads : /\ Kiwi!Replaced(load, h)[k].st = load[k].st
                                  /\ Kiwi!Replaced(load, h)[k].leases = load[k].leases
                                  /\ k # active => Kiwi!Replaced(load, h)[k] = load[k]
         /\ active # 0 /\ load[active].leases > 0 => ~Kiwi!Replaced(load, h)[active].disposed
         /\ active # 0 /\ ~(load[active].leases > 0) => Kiwi!Replaced(load, h)[active].disposed
<1>1. CASE active = 0
  BY <1>1 DEF KiwiTypes, Kiwi!Replaced
<1>2. CASE active # 0 /\ load[active].leases > 0
  <2>1. active \in Kiwi!Loads /\ ~load[active].disposed
    BY <1>2 DEF ActiveFits, KiwiTypes, Kiwi!Loads
  <2>2. PICK m : m = [load[active] EXCEPT !.closed = TRUE]
    OBVIOUS
  <2>3. m \in Handle /\ ~m.disposed /\ m.leases = load[active].leases /\ m.st = load[active].st
    BY <2>1, <2>2 DEF Handle, KiwiTypes
  <2>4. Kiwi!Replaced(load, h) = [load EXCEPT ![active] = m]
    BY <1>2, <2>1, <2>2 DEF Kiwi!Replaced, KiwiTypes
  <2> QED BY <1>2, <2>1, <2>3, <2>4 DEF KiwiTypes
<1>3. CASE active # 0 /\ ~(load[active].leases > 0)
  <2>1. active \in Kiwi!Loads /\ ~load[active].disposed /\ load \in [Kiwi!Loads -> Handle]
    BY <1>3 DEF ActiveFits, KiwiTypes, Kiwi!Loads
  <2>2. Kiwi!Replaced(load, h) = Kiwi!Disposed(load, active)
    BY <1>3, <2>1 DEF Kiwi!Replaced
  <2>3. ASSUME NEW k \in Kiwi!Loads
        PROVE  /\ Kiwi!Disposed(load, active)[k].st = load[k].st
               /\ Kiwi!Disposed(load, active)[k].leases = load[k].leases
               /\ k # active => Kiwi!Disposed(load, active)[k] = load[k]
    BY <2>1, DisposedHandle
  <2> QED BY <1>3, <2>1, <2>2, <2>3, DisposedHandle
<1> QED BY <1>1, <1>2, <1>3

\* The handle of a load is installed and leased by those who waited for it.
LEMMA InstallStep ==
  ASSUME KiwiConstants, KiwiInv, NEW h \in Kiwi!Loads, Kiwi!LoadDone(h), owner = h, ~closed
  PROVE  KiwiInv'
<1>0. /\ KiwiTypes /\ ActiveFits /\ load[h].st = "loading"
      /\ (\A k \in Kiwi!Loads : HandleFits(k)) /\ (\A d \in Caller : AskFits(d))
  BY DEF KiwiInv, Kiwi!LoadDone
<1> DEFINE waiting == {c \in Caller : op[c].pc = "wait" /\ op[c].at = h}
           leases  == Cardinality(waiting)
           ls      == Kiwi!Replaced(load, h)
<1>1. IsFiniteSet(waiting) /\ waiting # {} /\ leases \in Nat /\ leases > 0 /\ leases # 0
  <2>1. IsFiniteSet(waiting)
    BY FS_Subset DEF KiwiConstants
  <2>2. waiting # {}
    BY <1>0 DEF HandleFits
  <2>3. leases \in Nat /\ leases # 0
    BY <2>1, <2>2, FS_CardinalityType, FS_EmptySet
  <2> HIDE DEF leases
  <2> QED BY <2>1, <2>2, <2>3
<1>2. active # h /\ (active # 0 => active \in Kiwi!Loads) /\ h # 0 /\ h \in 0..MaxLoad /\ 0 \in 0..MaxLoad
  BY <1>0 DEF ActiveFits, KiwiTypes, Kiwi!Loads, KiwiConstants
<1>3. /\ ls \in [Kiwi!Loads -> Handle]
      /\ \A k \in Kiwi!Loads : /\ ls[k].st = load[k].st /\ ls[k].leases = load[k].leases
                               /\ k # active => ls[k] = load[k]
      /\ active # 0 /\ load[active].leases > 0 => ~ls[active].disposed
      /\ active # 0 /\ ~(load[active].leases > 0) => ls[active].disposed
  BY <1>0, <1>2, ReplacedHandle
<1>4. /\ load' = [ls EXCEPT ![h].st = "loaded", ![h].leases = leases] /\ active' = h /\ timer' = 0
      /\ op' = [c \in Caller |-> IF c \in waiting THEN [op[c] EXCEPT !.pc = "leased"] ELSE Kiwi!Failed(h)[c]]
      /\ Kiwi!Settled(h) /\ UNCHANGED <<closed, count>>
  <2>1. /\ load' = [ls EXCEPT ![h].st = "loaded", ![h].leases = leases] /\ active' = h
        /\ timer' = IF waiting = {} THEN timer ELSE 0
        /\ op' = [c \in Caller |-> IF c \in waiting THEN [op[c] EXCEPT !.pc = "leased"] ELSE Kiwi!Failed(h)[c]]
    BY KiwiCounts DEF Kiwi!LoadDone
  <2>2. Kiwi!Settled(h) /\ UNCHANGED <<closed, count>>
    BY DEF Kiwi!LoadDone
  <2> QED BY <1>1, <2>1, <2>2
<1> HIDE DEF leases, ls
<1>5. PICK m : m = [ls[h] EXCEPT !.st = "loaded", !.leases = leases]
  OBVIOUS
<1>6. /\ m \in Handle /\ m.st = "loaded" /\ m.leases = leases /\ ~m.closed /\ ~m.disposed
      /\ load' = [ls EXCEPT ![h] = m]
  <2>1. /\ m \in Handle /\ m.st = "loaded" /\ m.leases = leases /\ m.closed = ls[h].closed
        /\ m.disposed = ls[h].disposed
    BY <1>1, <1>3, <1>5 DEF Handle
  <2>2. ls[h] = load[h] /\ ~load[h].closed /\ ~load[h].disposed
    BY <1>0, <1>2, <1>3 DEF HandleFits
  <2>3. load' = [ls EXCEPT ![h] = m]
    BY <1>3, <1>4, <1>5 DEF Handle
  <2> QED BY <2>1, <2>2, <2>3
<1>7. load'[h] = m /\ \A k \in Kiwi!Loads \ {h} : load'[k] = ls[k]
  BY <1>3, <1>6
<1>8. /\ op' \in [Caller -> Asks]
      /\ \A d \in Caller : op[d].at # h \/ op[d].pc = "leased" => op'[d] = op[d]
      /\ \A d \in waiting : op'[d].pc = "leased" /\ op'[d].at = h
      /\ \A d \in Caller \ waiting : op[d].at = h => op'[d].pc \notin {"wait", "settle", "leased"}
  <2>1. /\ Kiwi!Failed(h) \in [Caller -> Asks]
        /\ \A d \in Caller : op[d].at # h \/ op[d].pc = "leased" => Kiwi!Failed(h)[d] = op[d]
        /\ \A d \in Caller : op[d].at = h => Kiwi!Failed(h)[d].pc \notin {"wait", "settle", "leased"}
    BY <1>0, FailedFits
  <2>2. ASSUME NEW d \in waiting
        PROVE  /\ [op[d] EXCEPT !.pc = "leased"] \in Asks /\ [op[d] EXCEPT !.pc = "leased"].pc = "leased"
               /\ [op[d] EXCEPT !.pc = "leased"].at = h
    BY <1>0 DEF KiwiTypes, Asks
  <2>3. \A d \in waiting : op[d].at = h /\ op[d].pc # "leased"
    OBVIOUS
  <2> HIDE DEF waiting
  <2>4. \A d \in Caller : op'[d] = IF d \in waiting THEN [op[d] EXCEPT !.pc = "leased"] ELSE Kiwi!Failed(h)[d]
    BY <1>4
  <2>5. op' \in [Caller -> Asks]
    BY <1>4, <2>1, <2>2
  <2>6. waiting \subseteq Caller
    BY DEF waiting
  <2> QED BY <2>1, <2>2, <2>3, <2>4, <2>5, <2>6
<1>9. KiwiTypes'
  <2>1. load' \in [Kiwi!Loads -> Handle] /\ active' \in 0..MaxLoad /\ timer' \in 0..MaxLoad
    BY <1>2, <1>3, <1>4, <1>6
  <2>2. pending' \in 0..MaxLoad
    BY <1>0, <1>2, <1>4 DEF Kiwi!Settled, KiwiTypes
  <2> QED BY <1>0, <1>4, <1>8, <2>1, <2>2 DEF KiwiTypes
<1>10. ActiveFits'
  <2>1. pending' # 0 => pending' = pending /\ pending # h /\ pending \in Kiwi!Loads
    BY <1>0, <1>4 DEF Kiwi!Settled, KiwiTypes, Kiwi!Loads
  <2> QED BY <1>0, <1>3, <1>4, <1>6, <1>7, <2>1 DEF ActiveFits
<1>11. Kiwi!IdleIsEvicted'
  BY <1>1, <1>4, <1>6, <1>7 DEF Kiwi!IdleIsEvicted
<1>12. ASSUME NEW d \in Caller PROVE AskFits(d)'
  <2>1. CASE d \in waiting
    BY <1>6, <1>7, <1>8, <2>1 DEF AskFits
  <2>2. CASE d \notin waiting /\ op[d].at = h
    BY <1>8, <2>2 DEF AskFits
  <2>3. CASE op[d].at # h
    BY <1>0, <1>3, <1>7, <1>8, <2>3 DEF AskFits
  <2> QED BY <2>1, <2>2, <2>3
<1>13. ASSUME NEW k \in Kiwi!Loads, k # h PROVE HandleFits(k)'
  <2>1. (\E d \in Caller : op[d].pc = "wait" /\ op[d].at = k) => \E d \in Caller : op'[d].pc = "wait" /\ op'[d].at = k
    BY <1>8, <1>13
  <2>2. Holders(k)' = Holders(k)
    <3>1. ASSUME NEW d \in Caller
          PROVE (op'[d].pc = "leased" /\ op'[d].at = k) <=> (op[d].pc = "leased" /\ op[d].at = k)
      BY <1>8, <1>13, <3>1
    <3> QED BY <3>1 DEF Holders
  <2>3. HandleFits(k) /\ load'[k] = ls[k] /\ ls[k].st = load[k].st /\ ls[k].leases = load[k].leases
    BY <1>0, <1>3, <1>7, <1>13
  <2>4. CASE k # active
    BY <1>3, <1>4, <2>1, <2>2, <2>3, <2>4 DEF HandleFits
  <2>5. CASE k = active
    <3>0. active # 0 /\ load[k] \in Handle
      BY <1>0, <2>5 DEF KiwiTypes, Kiwi!Loads
    <3>1. /\ load[k].leases > 0 => ~ls[k].disposed
          /\ ~(load[k].leases > 0) => ls[k].disposed
          /\ load[k].st = "loaded" /\ load[k].leases \in Nat
      <4>1. (load[k].leases > 0 => ~ls[k].disposed) /\ (~(load[k].leases > 0) => ls[k].disposed)
        BY <1>3, <2>5, <3>0
      <4>2. load[k].st = "loaded" /\ load[k].leases \in Nat
        BY <1>0, <2>5, <3>0 DEF ActiveFits, Handle
      <4> QED BY <4>1, <4>2
    <3>2. ls[k].disposed => load[k].leases = 0
      BY <3>1
    <3> QED BY <1>4, <2>1, <2>2, <2>3, <3>1, <3>2 DEF HandleFits
  <2> QED BY <2>4, <2>5
<1>14. HandleFits(h)'
  <2>1. Holders(h)' = waiting
    <3>1. ASSUME NEW d \in Caller PROVE (op'[d].pc = "leased" /\ op'[d].at = h) <=> d \in waiting
      <4>1. op[d].at # h => ~(op'[d].pc = "leased" /\ op'[d].at = h)
        BY <1>8
      <4> QED BY <1>8, <4>1
    <3> QED BY <3>1 DEF Holders
  <2>2. HandleFits(h)
    BY <1>0
  <2> QED BY <1>0, <1>4, <1>6, <1>7, <2>1, <2>2 DEF HandleFits, leases
<1> QED BY <1>9, <1>10, <1>11, <1>12, <1>13, <1>14 DEF KiwiInv

\* A load ends, well or not.
LEMMA LoadOver ==
  ASSUME KiwiConstants, KiwiInv, NEW h \in Kiwi!Loads, Kiwi!LoadDone(h) \/ Kiwi!LoadFails(h)
  PROVE  KiwiInv'
<1>0. load \in [Kiwi!Loads -> Handle]
  BY DEF KiwiInv, KiwiTypes
<1>1. CASE Kiwi!LoadFails(h)
  <2>1. PICK m : m = [load[h] EXCEPT !.st = "failed"]
    OBVIOUS
  <2>2. m \in Handle /\ m.st = "failed" /\ m.leases = load[h].leases /\ load' = [load EXCEPT ![h] = m]
    BY <1>0, <1>1, <2>1 DEF Handle, Kiwi!LoadFails
  <2> QED BY <1>1, <2>2, LoadEnds DEF Kiwi!LoadFails
<1>2. CASE Kiwi!LoadDone(h) /\ (owner # h \/ closed)
  <2>1. PICK m : m = [load[h] EXCEPT !.closed = TRUE, !.disposed = TRUE, !.st = "failed"]
    OBVIOUS
  <2>2. m \in Handle /\ m.st = "failed" /\ m.leases = load[h].leases
    BY <1>0, <2>1 DEF Handle
  <2>3. load' = [load EXCEPT ![h] = m]
    BY <1>0, <1>2, <2>1 DEF Handle, Kiwi!LoadDone, Kiwi!Disposed
  <2> QED BY <1>2, <2>2, <2>3, LoadEnds DEF Kiwi!LoadDone
<1>3. CASE Kiwi!LoadDone(h) /\ owner = h /\ ~closed
  BY <1>3, InstallStep
<1> QED BY <1>1, <1>2, <1>3

\* A lease less of a handle.
LEMMA LeaseBack ==
  ASSUME KiwiConstants, KiwiInv, NEW c \in Caller, op[c].pc = "leased", NEW h \in Kiwi!Loads, h = op[c].at,
         NEW n \in Nat, n = load[h].leases - 1, NEW m \in Handle, m.leases = n, m.st = "loaded",
         load' = [load EXCEPT ![h] = m], op' = [op EXCEPT ![c] = Kiwi!Idle],
         UNCHANGED <<pending, closed, count>>,
         active' = active \/ (active' = 0 /\ active = h), active' = h => ~m.closed /\ ~m.disposed,
         ~m.disposed => active' = h \/ n > 0, m.disposed => load[h].disposed \/ n = 0,
         timer' = timer \/ timer' = h, active' = h => timer' = h \/ n > 0, active' # h => timer' = timer
  PROVE  KiwiInv'
<1>0. /\ KiwiTypes /\ ActiveFits /\ Kiwi!IdleIsEvicted
      /\ (\A k \in Kiwi!Loads : HandleFits(k)) /\ (\A d \in Caller : AskFits(d))
  BY DEF KiwiInv
<1>1. load'[h] = m /\ (\A k \in Kiwi!Loads \ {h} : load'[k] = load[k]) /\ load[h].st = "loaded"
  BY <1>0 DEF KiwiTypes, AskFits
<1>2. op'[c] = Kiwi!Idle /\ (\A d \in Caller \ {c} : op'[d] = op[d]) /\ Kiwi!Idle.pc = "idle"
  BY <1>0 DEF KiwiTypes, Kiwi!Idle
<1>3. h \in 0..MaxLoad /\ 0 \in 0..MaxLoad /\ h # 0
  BY DEF Kiwi!Loads, KiwiConstants
<1>4. KiwiTypes'
  <2>1. Kiwi!Idle \in Asks
    BY <1>3 DEF Kiwi!Idle, Asks
  <2>2. load' \in [Kiwi!Loads -> Handle] /\ op' \in [Caller -> Asks]
    BY <1>0, <2>1 DEF KiwiTypes
  <2>3. active' \in 0..MaxLoad /\ timer' \in 0..MaxLoad
    BY <1>0, <1>3 DEF KiwiTypes
  <2> QED BY <1>0, <2>2, <2>3 DEF KiwiTypes
<1>5. ActiveFits'
  <2>1. active' # 0 => active' = active /\ active \in Kiwi!Loads
    BY <1>0 DEF KiwiTypes, Kiwi!Loads
  <2>2. pending # 0 => pending \in Kiwi!Loads /\ pending # h
    BY <1>0, <1>1 DEF ActiveFits, KiwiTypes, Kiwi!Loads
  <2> QED BY <1>0, <1>1, <2>1, <2>2 DEF ActiveFits
<1>6. Kiwi!IdleIsEvicted'
  <2>1. CASE active' = h
    <3>1. n > 0 => n # 0
      OBVIOUS
    <3> QED BY <1>1, <2>1, <3>1 DEF Kiwi!IdleIsEvicted
  <2>2. CASE active' # h /\ active' # 0
    <3>1. active' = active /\ active \in Kiwi!Loads /\ load'[active] = load[active] /\ timer' = timer
      BY <1>0, <1>1, <2>2 DEF KiwiTypes, Kiwi!Loads
    <3>2. \A k \in Kiwi!Loads : load'[k].st = load[k].st
      BY <1>1
    <3> QED BY <1>0, <3>1, <3>2 DEF Kiwi!IdleIsEvicted
  <2>3. CASE active' = 0
    BY <2>3 DEF Kiwi!IdleIsEvicted
  <2> QED BY <2>1, <2>2, <2>3
<1>7. ASSUME NEW d \in Caller PROVE AskFits(d)'
  <2>1. CASE d = c
    BY <1>2, <2>1 DEF AskFits
  <2>2. CASE d # c
    <3>1. op'[d] = op[d] /\ AskFits(d) /\ \A k \in Kiwi!Loads : load'[k].st = load[k].st
      BY <1>0, <1>1, <1>2, <2>2
    <3> QED BY <3>1 DEF AskFits
  <2> QED BY <2>1, <2>2
<1>8. ASSUME NEW k \in Kiwi!Loads PROVE
        (\E d \in Caller : op[d].pc = "wait" /\ op[d].at = k) => \E d \in Caller : op'[d].pc = "wait" /\ op'[d].at = k
  BY <1>2
<1>9. ASSUME NEW k \in Kiwi!Loads, k # h PROVE HandleFits(k)'
  <2>1. Holders(k)' = Holders(k)
    BY <1>2, <1>9 DEF Holders
  <2>2. HandleFits(k) /\ load'[k] = load[k]
    BY <1>0, <1>1, <1>9
  <2>3. load[k].st = "loaded" /\ ~load[k].disposed => active' = k \/ load[k].leases > 0
    <3>1. active = k => active' = k
      BY <1>9
    <3> QED BY <2>2, <3>1 DEF HandleFits
  <2> QED BY <1>8, <2>1, <2>2, <2>3 DEF HandleFits
<1>10. HandleFits(h)'
  <2>1. Holders(h)' = Holders(h) \ {c} /\ c \in Holders(h)
    BY <1>2 DEF Holders
  <2>2. HandleFits(h)
    BY <1>0
  <2>3. Cardinality(Holders(h)') = n
    BY <1>0, <2>1, <2>2, HoldersCount DEF HandleFits
  <2>4. m.disposed => closed \/ n = 0
    <3>1. load[h].disposed => closed \/ load[h].leases = 0
      BY <2>2 DEF HandleFits
    <3>2. Cardinality(Holders(h)) > 0 /\ Cardinality(Holders(h)) \in Nat
      BY <1>0, <2>1, HoldersCount
    <3>3. load[h].leases # 0
      BY <2>2, <3>2 DEF HandleFits
    <3> QED BY <3>1, <3>3
  <2>5. ~(h > count'.loads)
    BY <1>1, <2>2 DEF HandleFits
  <2> QED BY <1>1, <2>3, <2>4, <2>5 DEF HandleFits
<1> QED BY <1>4, <1>5, <1>6, <1>7, <1>9, <1>10 DEF KiwiInv

\* A caller gives its lease back; with the last one the handle is disposed of or timed.
LEMMA ReleaseStep == ASSUME KiwiConstants, KiwiInv, NEW c \in Caller, Kiwi!Release(c) PROVE KiwiInv'
<1>0. /\ KiwiTypes /\ ActiveFits /\ Kiwi!IdleIsEvicted /\ op[c].pc = "leased"
      /\ (\A k \in Kiwi!Loads : HandleFits(k)) /\ (\A d \in Caller : AskFits(d))
  BY DEF KiwiInv, Kiwi!Release
<1>1. PICK h \in Kiwi!Loads : h = op[c].at
  BY <1>0 DEF AskFits
<1>2. /\ load[h] \in Handle /\ load[h].st = "loaded" /\ load[h].leases \in Nat /\ h \in 0..MaxLoad /\ h # 0
      /\ load[h].leases = Cardinality(Holders(h)) /\ c \in Holders(h) /\ 0 \in 0..MaxLoad
  <2>1. load[h] \in Handle /\ load[h].st = "loaded" /\ c \in Holders(h)
    BY <1>0, <1>1 DEF AskFits, KiwiTypes, Holders
  <2>2. load[h].leases \in Nat
    BY <2>1 DEF Handle
  <2>3. h \in 0..MaxLoad /\ h # 0 /\ 0 \in 0..MaxLoad
    BY DEF Kiwi!Loads, KiwiConstants
  <2>4. load[h].leases = Cardinality(Holders(h))
    BY <1>0 DEF HandleFits
  <2> QED BY <2>1, <2>2, <2>3, <2>4
<1>3. PICK n \in Nat : n = load[h].leases - 1
  <2>1. Cardinality(Holders(h)) > 0 /\ Cardinality(Holders(h)) \in Nat
    BY <1>0, <1>2, HoldersCount
  <2>2. Cardinality(Holders(h)) - 1 \in Nat
    BY <2>1
  <2> QED BY <1>2, <2>2
<1>4. PICK f : f = [load[h] EXCEPT !.leases = n]
  OBVIOUS
<1>5. PICK g : g = [f EXCEPT !.closed = TRUE, !.disposed = TRUE]
  OBVIOUS
<1>6. /\ f \in Handle /\ f.leases = n /\ f.st = "loaded" /\ f.closed = load[h].closed
      /\ f.disposed = load[h].disposed
      /\ g \in Handle /\ g.leases = n /\ g.st = "loaded" /\ g.disposed
  BY <1>2, <1>3, <1>4, <1>5 DEF Handle
<1>7. PICK freed : freed = [load EXCEPT ![h].leases = @ - 1]
  OBVIOUS
<1>8. freed = [load EXCEPT ![h] = f] /\ freed[h] = f /\ Kiwi!Disposed(freed, h) = [load EXCEPT ![h] = g]
  <2>1. freed = [load EXCEPT ![h] = f]
    BY <1>0, <1>2, <1>3, <1>4, <1>7 DEF KiwiTypes
  <2>2. freed[h] = f
    BY <1>0, <2>1 DEF KiwiTypes
  <2>3. Kiwi!Disposed(freed, h) = [freed EXCEPT ![h] = g]
    BY <1>5, <2>2 DEF Kiwi!Disposed
  <2> QED BY <1>0, <2>1, <2>2, <2>3 DEF KiwiTypes
<1>9. /\ op' = [op EXCEPT ![c] = Kiwi!Idle] /\ UNCHANGED <<pending, closed, count>>
      /\ \/ n > 0 /\ load' = [load EXCEPT ![h] = f] /\ UNCHANGED <<timer, active>>
         \/ /\ ~(n > 0) /\ load' = [load EXCEPT ![h] = g] /\ UNCHANGED timer
            /\ active' = IF active = h THEN 0 ELSE active
         \/ ~(n > 0) /\ active = h /\ load' = [load EXCEPT ![h] = f] /\ timer' = h /\ UNCHANGED active
  <2>1. /\ op' = [op EXCEPT ![c] = Kiwi!Idle] /\ UNCHANGED <<pending, closed, count>>
        /\ IF freed[h].leases > 0 THEN load' = freed /\ UNCHANGED <<timer, active>>
           ELSE IF load[h].closed \/ active # h
                THEN /\ load' = Kiwi!Disposed(freed, h) /\ active' = (IF active = h THEN 0 ELSE active)
                     /\ UNCHANGED timer
                ELSE load' = freed /\ timer' = h /\ UNCHANGED active
    BY <1>1, <1>7 DEF Kiwi!Release
  <2>2. freed[h].leases = n
    BY <1>6, <1>8
  <2> QED BY <1>8, <2>1, <2>2
<1>10. active = h => ~load[h].closed /\ ~load[h].disposed
  BY <1>0, <1>2 DEF ActiveFits
<1>11. (load[h].disposed => n = 0 \/ closed) /\ (n > 0 => n # 0) /\ (~(n > 0) => n = 0)
  <2>1. load[h].leases # 0 /\ (n > 0 => n # 0) /\ (~(n > 0) => n = 0)
    BY <1>2, <1>3
  <2>2. load[h].disposed => closed \/ load[h].leases = 0
    BY <1>0 DEF HandleFits
  <2> QED BY <2>1, <2>2
<1>12. CASE n > 0 /\ load' = [load EXCEPT ![h] = f] /\ UNCHANGED <<timer, active>>
  BY <1>0, <1>1, <1>3, <1>6, <1>9, <1>10, <1>11, <1>12, LeaseBack
<1>13. CASE ~(n > 0) /\ load' = [load EXCEPT ![h] = g] /\ UNCHANGED timer /\ active' = IF active = h THEN 0 ELSE active
  <2>1. active' # h /\ (active' = active \/ (active' = 0 /\ active = h))
    BY <1>2, <1>13
  <2> QED BY <1>0, <1>1, <1>3, <1>6, <1>9, <1>11, <1>13, <2>1, LeaseBack
<1>14. CASE ~(n > 0) /\ active = h /\ load' = [load EXCEPT ![h] = f] /\ timer' = h /\ UNCHANGED active
  BY <1>0, <1>1, <1>3, <1>6, <1>9, <1>10, <1>11, <1>14, LeaseBack
<1> QED BY <1>9, <1>12, <1>13, <1>14

\* An idle analyser is evicted, and the manager is closed: the active handle is disposed of.
LEMMA DropStep ==
  ASSUME KiwiConstants, KiwiInv, load' = (IF active = 0 THEN load ELSE Kiwi!Disposed(load, active)),
         active' = 0,
         timer' = 0, pending' \in {0, pending}, UNCHANGED <<op, count>>,
         closed' = TRUE \/ (UNCHANGED closed /\ active # 0 /\ load[active].leases = 0)
  PROVE  KiwiInv'
<1>0. /\ KiwiTypes /\ ActiveFits /\ (\A k \in Kiwi!Loads : HandleFits(k)) /\ (\A d \in Caller : AskFits(d))
      /\ load \in [Kiwi!Loads -> Handle] /\ (active # 0 => active \in Kiwi!Loads)
  BY DEF KiwiInv, KiwiTypes, Kiwi!Loads
<1>1. /\ load' \in [Kiwi!Loads -> Handle]
      /\ \A k \in Kiwi!Loads : /\ load'[k].leases = load[k].leases /\ load'[k].st = load[k].st
                               /\ k # active => load'[k] = load[k]
                               /\ k = active => load'[k].disposed
  <2>1. CASE active = 0
    <3>1. \A k \in Kiwi!Loads : k # 0
      BY DEF Kiwi!Loads
    <3> QED BY <1>0, <2>1, <3>1
  <2>2. CASE active # 0
    <3>1. ASSUME NEW k \in Kiwi!Loads
          PROVE  /\ load'[k].leases = load[k].leases /\ load'[k].st = load[k].st
                 /\ k # active => load'[k] = load[k]
                 /\ k = active => load'[k].disposed
      BY <1>0, <2>2, DisposedHandle
    <3> QED BY <1>0, <2>2, <3>1, DisposedHandle
  <2> QED BY <2>1, <2>2
<1>2. KiwiTypes'
  <2>1. 0 \in 0..MaxLoad
    BY DEF KiwiConstants
  <2> QED BY <1>0, <1>1, <2>1 DEF KiwiTypes
<1>3. ActiveFits' /\ Kiwi!IdleIsEvicted'
  <2>1. pending # 0 => pending \in Kiwi!Loads
    BY <1>0 DEF KiwiTypes, Kiwi!Loads
  <2> QED BY <1>0, <1>1, <2>1 DEF ActiveFits, Kiwi!IdleIsEvicted
<1>4. ASSUME NEW d \in Caller PROVE AskFits(d)'
  BY <1>0, <1>1 DEF AskFits
<1>5. ASSUME NEW k \in Kiwi!Loads PROVE HandleFits(k)'
  <2>1. Holders(k)' = Holders(k)
    BY DEF Holders
  <2>2. HandleFits(k)
    BY <1>0
  <2>3. CASE k = active
    <3>1. load[k].st = "loaded" /\ k # 0
      BY <1>0, <2>3 DEF ActiveFits, Kiwi!Loads
    <3> QED BY <1>1, <2>1, <2>2, <2>3, <3>1 DEF HandleFits
  <2>4. CASE k # active
    <3>1. load'[k] = load[k] /\ (closed => closed')
      BY <1>1, <2>4
    <3> QED BY <2>1, <2>2, <2>4, <3>1 DEF HandleFits
  <2> QED BY <2>3, <2>4
<1> QED BY <1>2, <1>3, <1>4, <1>5 DEF KiwiInv

\* The idle timer finds that its handle is not to be evicted.
LEMMA TimerStep ==
  ASSUME KiwiConstants, KiwiInv, timer # 0, timer' = 0, UNCHANGED <<load, active, pending, closed, op, count>>,
         load[timer].leases > 0 \/ active # timer \/ load[timer].closed
  PROVE  KiwiInv'
<1>0. /\ KiwiTypes /\ ActiveFits /\ Kiwi!IdleIsEvicted
      /\ (\A k \in Kiwi!Loads : HandleFits(k)) /\ (\A d \in Caller : AskFits(d))
  BY DEF KiwiInv
<1>1. KiwiTypes' /\ ActiveFits'
  <2>1. 0 \in 0..MaxLoad
    BY DEF KiwiConstants
  <2> QED BY <1>0, <2>1 DEF KiwiTypes, ActiveFits
<1>2. Kiwi!IdleIsEvicted'
  <2>1. active # 0 /\ load[active].leases = 0 => active # timer
    BY <1>0 DEF ActiveFits
  <2> QED BY <1>0, <2>1 DEF Kiwi!IdleIsEvicted
<1>3. \A d \in Caller : AskFits(d)'
  BY <1>0 DEF AskFits
<1>4. ASSUME NEW k \in Kiwi!Loads PROVE HandleFits(k)'
  BY <1>0 DEF HandleFits, Holders
<1> QED BY <1>1, <1>2, <1>3, <1>4 DEF KiwiInv

\* Every step of the manager keeps its handles counted.
LEMMA KiwiSteps == ASSUME KiwiConstants, KiwiInv, [Kiwi!Next]_(Kiwi!vars) PROVE KiwiInv'
<1>1. ASSUME NEW c \in Caller, Kiwi!LookAgain(c) PROVE KiwiInv'
  <2>1. op[c].env \in Env \cup {"none"} /\ op[c].installs \in BOOLEAN
    BY DEF KiwiInv, KiwiTypes, Asks
  <2> QED BY <1>1, <2>1, EnsureStep DEF Kiwi!LookAgain
<1>2. ASSUME NEW c \in Caller, Kiwi!Release(c) PROVE KiwiInv'
  BY <1>2, ReleaseStep
<1>3. ASSUME NEW c \in Caller, NEW e \in Env, NEW i \in BOOLEAN, Kiwi!Acquire(c, e, i) PROVE KiwiInv'
  BY <1>3, EnsureStep DEF Kiwi!Acquire
<1>4. ASSUME NEW h \in Kiwi!Loads, Kiwi!LoadDone(h) \/ Kiwi!LoadFails(h) PROVE KiwiInv'
  BY <1>4, LoadOver
<1>5. ASSUME Kiwi!Evict PROVE KiwiInv'
  <2>1. CASE load[timer].leases > 0 \/ active # timer \/ load[timer].closed
    BY <1>5, <2>1, TimerStep DEF Kiwi!Evict
  <2>2. CASE ~(load[timer].leases > 0 \/ active # timer \/ load[timer].closed)
    <3>1. active = timer /\ active # 0 /\ load[active] \in Handle
      BY <1>5, <2>2 DEF Kiwi!Evict, KiwiInv, KiwiTypes, Kiwi!Loads
    <3>2. load[active].leases \in Nat /\ ~(load[active].leases > 0)
      BY <2>2, <3>1 DEF Handle
    <3>3. load[active].leases = 0
      BY <3>2
    <3> QED BY <1>5, <2>2, <3>1, <3>3, DropStep DEF Kiwi!Evict
  <2> QED BY <2>1, <2>2
<1>6. ASSUME Kiwi!Close PROVE KiwiInv'
  BY <1>6, DropStep DEF Kiwi!Close
<1>7. ASSUME UNCHANGED Kiwi!vars PROVE KiwiInv'
  <2>1. KiwiTypes' /\ ActiveFits' /\ Kiwi!IdleIsEvicted'
    BY <1>7 DEF Kiwi!vars, KiwiInv, KiwiTypes, ActiveFits, Kiwi!IdleIsEvicted
  <2>2. \A k \in Kiwi!Loads : HandleFits(k)'
    BY <1>7 DEF Kiwi!vars, KiwiInv, HandleFits, Holders
  <2>3. \A d \in Caller : AskFits(d)'
    BY <1>7 DEF Kiwi!vars, KiwiInv, AskFits
  <2> QED BY <2>1, <2>2, <2>3 DEF KiwiInv
<1> QED BY <1>1, <1>2, <1>3, <1>4, <1>5, <1>6, <1>7 DEF Kiwi!Next

\* KiwiManager: a handle that somebody leases is not disposed of while the manager is open, no loaded handle is
\* lost, its leases are those who work with it, and an idle one is timed (part kiwi of AnalysisIsTrue).
THEOREM KiwiStaysLeased == ASSUME KiwiConstants PROVE Kiwi!Spec => []Kiwi!Leased
<1>1. KiwiInv => Kiwi!Leased
  <2> SUFFICES ASSUME KiwiInv PROVE Kiwi!Leased
    OBVIOUS
  <2>1. ASSUME NEW c \in Caller, op[c].pc = "leased" PROVE closed \/ ~load[op[c].at].disposed
    <3>1. PICK h \in Kiwi!Loads : h = op[c].at
      BY <2>1 DEF KiwiInv, AskFits
    <3>2. c \in Holders(h)
      BY <2>1, <3>1 DEF Holders
    <3>3. KiwiTypes /\ HandleFits(h)
      BY DEF KiwiInv
    <3>4. Cardinality(Holders(h)) > 0 /\ Cardinality(Holders(h)) \in Nat
      BY <3>2, <3>3, HoldersCount
    <3>5. load[h].leases # 0
      BY <3>3, <3>4 DEF HandleFits
    <3> QED BY <3>1, <3>3, <3>5 DEF HandleFits
  <2>2. Kiwi!NoneIsLost
    <3>1. \A h \in Kiwi!Loads : Kiwi!Leases(h) = Cardinality(Holders(h))
      BY KiwiCounts DEF Kiwi!Leases, Holders
    <3> QED BY <3>1 DEF Kiwi!NoneIsLost, KiwiInv, HandleFits, ActiveFits
  <2> QED BY <2>1, <2>2 DEF Kiwi!Leased, Kiwi!LeasedIsLive, KiwiInv
<1>2. Kiwi!Init => KiwiInv
  BY KiwiStarts
<1>3. KiwiInv /\ [Kiwi!Next]_(Kiwi!vars) => KiwiInv'
  BY KiwiSteps
<1> QED BY <1>1, <1>2, <1>3, PTL DEF Kiwi!Spec

-----------------------------------------------------------------------------
(* AnalyzerPool.                                                            *)

CONSTANTS Worker, Vault, Doc, MaxChange, MaxBuild
VARIABLES loads, worker, shared, build, snapshot, changed, spent

Pool == INSTANCE AnalyzerPool

Identity == {"none", "ko", "plain"}

\* The builds under one label.
Labelled(l) ==
  [pc : {"idle", "parsing"}, label : {l}, taken : SUBSET Doc, fresh : SUBSET Doc, out : [Doc -> Identity],
   doc : [Doc -> Identity], raced : BOOLEAN]

\* Unless it raced, a build is compared with its own label, and so was all it has.
LabelFits(v) ==
  build[v].pc = "parsing" => \/ build[v].raced
                             \/ /\ shared = build[v].label
                                /\ \A d \in Doc : build[v].doc[d] \in {"none", build[v].label, Pool!Target}

SnapshotFits(v) ==
  /\ snapshot[v].doc \in [Doc -> Identity] /\ snapshot[v].raced \in BOOLEAN
  /\ snapshot[v].label # "none" =>
       snapshot[v].raced \/ \A d \in Doc : snapshot[v].doc[d] \in {snapshot[v].label, Pool!Target}

PoolInv ==
  /\ build = [v \in Vault |-> build[v]] /\ snapshot = [v \in Vault |-> snapshot[v]]
  /\ changed \in [Vault -> SUBSET Doc]
  /\ \A v \in Vault : build[v] \in Labelled(build[v].label) /\ LabelFits(v) /\ SnapshotFits(v)

\* No build, with nothing in it.
LEMMA NoBuildFits == Pool!NoBuild \in Labelled(Pool!NoBuild.label) /\ Pool!NoBuild.pc = "idle"
  BY DEF Pool!NoBuild, Pool!NoDocs, Labelled, Identity

\* Before the first build no snapshot has a label.
LEMMA PoolStarts == ASSUME Pool!Init PROVE PoolInv
<1>1. build = [v \in Vault |-> Pool!NoBuild] /\ changed \in [Vault -> SUBSET Doc]
  BY DEF Pool!Init
<1>2. \A v \in Vault : build[v] \in Labelled(build[v].label) /\ LabelFits(v)
  BY <1>1, NoBuildFits DEF LabelFits
<1>3. snapshot = [v \in Vault |-> snapshot[v]] /\ \A v \in Vault : SnapshotFits(v)
  BY DEF Pool!Init, Pool!NoDocs, SnapshotFits, Identity
<1> QED BY <1>1, <1>2, <1>3 DEF PoolInv

\* The value that is compared with changes for one build: every other that it is not the label of has raced.
LEMMA Overwritten ==
  ASSUME PoolInv, NEW v \in Vault, NEW l, NEW own, own \in Labelled(own.label),
         own.pc = "parsing" => \/ own.raced
                               \/ l = own.label /\ \A d \in Doc : own.doc[d] \in {"none", own.label, Pool!Target},
         Pool!Overwrite(v, l, own)
  PROVE  /\ build' = [u \in Vault |-> build'[u]]
         /\ \A u \in Vault : build'[u] \in Labelled(build'[u].label) /\ LabelFits(u)'
<1>1. build' = [u \in Vault |-> build'[u]] /\ build'[v] = own /\ shared' = l
  BY DEF Pool!Overwrite
<1>2. ASSUME NEW u \in Vault, u # v PROVE build'[u] \in Labelled(build'[u].label) /\ LabelFits(u)'
  <2>1. PICK b \in BOOLEAN : b = (build[u].raced \/ (build[u].pc = "parsing" /\ l # shared))
    OBVIOUS
  <2>2. build'[u] = [build[u] EXCEPT !.raced = b]
    BY <1>2, <2>1 DEF Pool!Overwrite
  <2>3. build[u] \in Labelled(build[u].label) /\ LabelFits(u)
    BY DEF PoolInv
  <2>4. /\ build'[u] \in Labelled(build[u].label) /\ build'[u].label = build[u].label
        /\ build'[u].pc = build[u].pc
        /\ build'[u].doc = build[u].doc /\ build'[u].raced = b
    BY <2>2, <2>3 DEF Labelled
  <2> QED BY <1>1, <2>1, <2>3, <2>4 DEF LabelFits
<1>3. build'[v] \in Labelled(build'[v].label) /\ LabelFits(v)'
  BY <1>1 DEF LabelFits
<1> QED BY <1>1, <1>2, <1>3

\* One build changes, the value that is compared with does not.
LEMMA BuildChanges ==
  ASSUME PoolInv, NEW v \in Vault, NEW n, n \in Labelled(n.label), build' = [build EXCEPT ![v] = n],
         n.pc = "parsing" => \/ n.raced
                             \/ shared = n.label /\ \A d \in Doc : n.doc[d] \in {"none", n.label, Pool!Target},
         UNCHANGED <<shared, snapshot>>, changed' \in [Vault -> SUBSET Doc]
  PROVE  PoolInv'
<1>1. build' = [u \in Vault |-> build'[u]] /\ build'[v] = n /\ \A u \in Vault \ {v} : build'[u] = build[u]
  BY DEF PoolInv
<1>2. ASSUME NEW u \in Vault PROVE build'[u] \in Labelled(build'[u].label) /\ LabelFits(u)'
  <2>1. CASE u = v
    BY <1>1, <2>1 DEF LabelFits
  <2>2. CASE u # v
    BY <1>1, <2>2 DEF LabelFits, PoolInv
  <2> QED BY <2>1, <2>2
<1>3. snapshot' = [u \in Vault |-> snapshot'[u]] /\ \A u \in Vault : SnapshotFits(u)'
  BY DEF PoolInv, SnapshotFits
<1> QED BY <1>1, <1>2, <1>3 DEF PoolInv

\* A build that ends without a snapshot.
LEMMA BuildEnds ==
  ASSUME PoolInv, NEW v \in Vault, build' = [build EXCEPT ![v] = Pool!NoBuild], UNCHANGED <<shared, snapshot>>,
         changed' = [changed EXCEPT ![v] = @ \cup build[v].taken]
  PROVE  PoolInv'
<1>1. changed \in [Vault -> SUBSET Doc] /\ build[v].taken \subseteq Doc
  BY DEF PoolInv, Labelled
<1>2. changed' \in [Vault -> SUBSET Doc]
  BY <1>1
<1> QED BY <1>2, NoBuildFits, BuildChanges

\* A build begins upon the snapshot or upon nothing.
LEMMA BeginStep == ASSUME PoolInv, NEW v \in Vault, Pool!Begin(v) PROVE PoolInv'
<1>1. PICK l : l = worker[Pool!Min(Pool!Ready)].warm
  OBVIOUS
<1>2. PICK kept : kept = Pool!BaseOf(v)
  OBVIOUS
<1>3. PICK doc : doc = [d \in Doc |-> IF d \in kept THEN snapshot[v].doc[d] ELSE "none"]
  OBVIOUS
<1>4. PICK raced \in BOOLEAN : raced = (kept # {} /\ snapshot[v].raced)
  OBVIOUS
<1>5. PICK own : own = [pc |-> "parsing", label |-> l, taken |-> changed[v], fresh |-> Doc \ kept,
                        out |-> Pool!NoDocs, doc |-> doc, raced |-> raced]
  OBVIOUS
<1>6. /\ Pool!Overwrite(v, l, own) /\ changed' = [changed EXCEPT ![v] = {}] /\ snapshot' = snapshot
  BY <1>1, <1>2, <1>3, <1>4, <1>5 DEF Pool!Begin
<1>7. SnapshotFits(v) /\ changed \in [Vault -> SUBSET Doc]
  BY DEF PoolInv
<1>8. doc \in [Doc -> Identity]
  BY <1>3, <1>7 DEF SnapshotFits, Identity
<1>9. own \in Labelled(own.label) /\ own.label = l /\ own.doc = doc /\ own.raced = raced
  BY <1>5, <1>7, <1>8 DEF Labelled, Pool!NoDocs, Identity
<1>10. raced \/ \A d \in Doc : doc[d] \in {"none", Pool!Target}
  <2>1. kept \subseteq Doc /\ (kept # {} => snapshot[v].label = "ko")
    BY <1>2 DEF Pool!BaseOf, Pool!Target
  <2>2. ASSUME ~raced, NEW d \in Doc PROVE doc[d] \in {"none", Pool!Target}
    <3>1. CASE d \in kept
      BY <1>3, <1>4, <1>7, <2>1, <2>2, <3>1 DEF SnapshotFits, Pool!Target
    <3>2. CASE d \notin kept
      BY <1>3, <3>2
    <3> QED BY <3>1, <3>2
  <2> QED BY <2>2
<1>11. /\ build' = [u \in Vault |-> build'[u]]
       /\ \A u \in Vault : build'[u] \in Labelled(build'[u].label) /\ LabelFits(u)'
  BY <1>6, <1>9, <1>10, Overwritten
<1>12. snapshot' = [u \in Vault |-> snapshot'[u]] /\ \A u \in Vault : SnapshotFits(u)'
  BY <1>6 DEF PoolInv, SnapshotFits
<1> QED BY <1>6, <1>7, <1>11, <1>12 DEF PoolInv

\* A worker answers.
LEMMA ParseStep == ASSUME PoolInv, NEW v \in Vault, NEW d \in Doc, NEW w \in Worker,
                          Pool!Parse(v, d, w) PROVE PoolInv'
<1>1. PICK i \in Pool!Outcomes(w) : build' = [build EXCEPT ![v].fresh = @ \ {d}, ![v].out[d] = i]
  BY DEF Pool!Parse
<1>2. i \in Identity
  BY <1>1 DEF Pool!Outcomes, Pool!Leased, Identity
<1>3. build[v] \in Labelled(build[v].label) /\ LabelFits(v) /\ build = [u \in Vault |-> build[u]]
  BY DEF PoolInv
<1>4. PICK n : n = [build[v] EXCEPT !.fresh = build[v].fresh \ {d}, !.out = [build[v].out EXCEPT ![d] = i]]
  OBVIOUS
<1>5. build' = [build EXCEPT ![v] = n]
  BY <1>1, <1>3, <1>4 DEF Labelled
<1>6. /\ n \in Labelled(n.label) /\ n.label = build[v].label /\ n.doc = build[v].doc /\ n.raced = build[v].raced
      /\ n.pc = build[v].pc
  BY <1>2, <1>3, <1>4 DEF Labelled
<1>7. UNCHANGED <<shared, snapshot, changed>> /\ changed \in [Vault -> SUBSET Doc]
  BY DEF Pool!Parse, PoolInv
<1> QED BY <1>3, <1>5, <1>6, <1>7, BuildChanges DEF LabelFits

\* An answer is compared.
LEMMA CollectStep == ASSUME PoolInv, NEW v \in Vault, NEW d \in Doc, Pool!Collect(v, d) PROVE PoolInv'
<1>1. CASE Pool!Common(build[v].out[d])
  <2>1. build[v] \in Labelled(build[v].label) /\ LabelFits(v) /\ build = [u \in Vault |-> build[u]]
    BY DEF PoolInv
  <2>2. PICK i \in Identity : i = build[v].out[d]
    BY <2>1 DEF Labelled
  <2>3. PICK n : n = [build[v] EXCEPT !.doc = [build[v].doc EXCEPT ![d] = i], !.out = [build[v].out EXCEPT ![d] = "none"]]
    OBVIOUS
  <2>4. build' = [build EXCEPT ![v] = n]
    BY <1>1, <2>1, <2>2, <2>3 DEF Pool!Collect, Labelled
  <2>5. /\ n \in Labelled(n.label) /\ n.label = build[v].label /\ n.raced = build[v].raced
        /\ n.pc = build[v].pc /\ n.doc = [build[v].doc EXCEPT ![d] = i] /\ build[v].doc \in [Doc -> Identity]
    BY <2>1, <2>2, <2>3 DEF Labelled, Identity
  <2>6. UNCHANGED <<shared, snapshot, changed>> /\ changed \in [Vault -> SUBSET Doc] /\ i = shared
    BY <1>1, <2>2 DEF Pool!Collect, PoolInv, Pool!Common
  <2>7. n.pc = "parsing" => \/ n.raced
                            \/ shared = n.label /\ \A e \in Doc : n.doc[e] \in {"none", n.label, Pool!Target}
    BY <2>1, <2>5, <2>6 DEF LabelFits
  <2> QED BY <2>4, <2>5, <2>6, <2>7, BuildChanges
<1>2. CASE ~Pool!Common(build[v].out[d])
  BY <1>2, BuildEnds DEF Pool!Collect
<1> QED BY <1>1, <1>2

\* The snapshot is published under the label of its build.
LEMMA FinishStep == ASSUME PoolInv, NEW v \in Vault, Pool!Finish(v) PROVE PoolInv'
<1>1. build[v] \in Labelled(build[v].label) /\ LabelFits(v) /\ snapshot = [u \in Vault |-> snapshot[u]]
  BY DEF PoolInv
<1>2. PICK n : n = [label |-> build[v].label, doc |-> build[v].doc, raced |-> build[v].raced]
  OBVIOUS
<1>3. /\ snapshot' = [snapshot EXCEPT ![v] = n] /\ build[v].pc = "parsing"
      /\ \A d \in Doc : build[v].doc[d] # "none"
  BY <1>2 DEF Pool!Finish
<1>4. /\ build' = [u \in Vault |-> build'[u]]
      /\ \A u \in Vault : build'[u] \in Labelled(build'[u].label) /\ LabelFits(u)'
  BY NoBuildFits, Overwritten DEF Pool!Finish
<1>5. ASSUME NEW u \in Vault PROVE SnapshotFits(u)'
  <2>1. CASE u = v
    BY <1>1, <1>2, <1>3, <2>1 DEF SnapshotFits, LabelFits, Labelled
  <2>2. CASE u # v
    BY <1>1, <1>3, <2>2 DEF SnapshotFits, PoolInv
  <2> QED BY <2>1, <2>2
<1>6. snapshot' = [u \in Vault |-> snapshot'[u]] /\ changed' \in [Vault -> SUBSET Doc]
  BY <1>1, <1>3 DEF Pool!Finish, PoolInv
<1> QED BY <1>4, <1>5, <1>6 DEF PoolInv

\* What the workers, the model's files and the user do.
LEMMA PoolFrame ==
  ASSUME PoolInv, UNCHANGED <<shared, build, snapshot>>, changed' \in [Vault -> SUBSET Doc] PROVE PoolInv'
  BY DEF PoolInv, LabelFits, SnapshotFits

\* Every step keeps the labels true.
LEMMA PoolSteps == ASSUME PoolInv, [Pool!Next]_(Pool!vars) PROVE PoolInv'
<1>0. changed \in [Vault -> SUBSET Doc]
  BY DEF PoolInv
<1>1. ASSUME NEW w \in Worker, Pool!Warm(w) \/ Pool!Replace(w) \/ Pool!Evict(w) PROVE PoolInv'
  BY <1>0, <1>1, PoolFrame DEF Pool!Warm, Pool!Replace, Pool!Evict
<1>2. ASSUME NEW v \in Vault, Pool!Begin(v) PROVE PoolInv'
  BY <1>2, BeginStep
<1>3. ASSUME NEW v \in Vault, Pool!Finish(v) PROVE PoolInv'
  BY <1>3, FinishStep
<1>4. ASSUME NEW v \in Vault, Pool!Abandon(v) PROVE PoolInv'
  BY <1>4, BuildEnds DEF Pool!Abandon
<1>5. ASSUME NEW v \in Vault, NEW d \in Doc, Pool!Edit(v, d) PROVE PoolInv'
  BY <1>0, <1>5, PoolFrame DEF Pool!Edit
<1>6. ASSUME NEW v \in Vault, NEW d \in Doc, Pool!Collect(v, d) PROVE PoolInv'
  BY <1>6, CollectStep
<1>7. ASSUME NEW v \in Vault, NEW d \in Doc, NEW w \in Worker, Pool!Parse(v, d, w) PROVE PoolInv'
  BY <1>7, ParseStep
<1>8. ASSUME Pool!Toggle \/ UNCHANGED Pool!vars PROVE PoolInv'
  BY <1>0, <1>8, PoolFrame DEF Pool!Toggle, Pool!vars
<1> QED BY <1>1, <1>2, <1>3, <1>4, <1>5, <1>6, <1>7, <1>8 DEF Pool!Next

\* AnalyzerPool: no snapshot holds a document that was analysed with less than its label says, unless another
\* build overwrote the value that answers are compared with (parts lone builds and rival builds of AnalysisIsTrue).
THEOREM LabelsStayTrue == Pool!Spec => []Pool!LabelIsTrue
<1>1. PoolInv => Pool!LabelIsTrue
  BY DEF PoolInv, SnapshotFits, Pool!LabelIsTrue
<1>2. Pool!Init => PoolInv
  BY PoolStarts
<1>3. PoolInv /\ [Pool!Next]_(Pool!vars) => PoolInv'
  BY PoolSteps
<1> QED BY <1>1, <1>2, <1>3, PTL DEF Pool!Spec

-----------------------------------------------------------------------------
(* SaveQueue.                                                               *)

CONSTANTS Batch, Key(_)
VARIABLES batch, early, marks, seqs, chain, folds, drain, lane

Saves == INSTANCE SaveQueue

\* No batch has the name that stands for none.
SaveConstants == Saves!None \notin Batch

InChain  == {"journal", "refusal"}
OfDrain  == {"build", "dense", "failure"}
Entry    == [kind : InChain \cup OfDrain, of : SUBSET Batch]
OfDrains == [phase : {"idle", "journal", "fold", "publish", "record"}, awaits : SUBSET Batch, left : Nat,
             seqs : SUBSET Batch]
Noted    == {"pending", "acked", "failed", "unrecorded"}

SaveTypes ==
  /\ batch \in [Batch -> Noted \cup {"new", "waiting", "refused"}]
  /\ early \subseteq Batch /\ marks \in [Saves!File -> Batch \cup {Saves!None}] /\ seqs \subseteq Batch
  /\ chain \in Seq(Batch) /\ folds \in Nat /\ drain \in OfDrains /\ lane \in Seq(Entry)

Elems(s) == {s[i] : i \in DOMAIN s}
Free(l, K) == \A i \in DOMAIN l : l[i].kind \notin K
OneEach(l) ==
  \A i, j \in DOMAIN l : {l[i].kind, l[j].kind} \subseteq InChain \/ {l[i].kind, l[j].kind} \subseteq OfDrain => i = j

\* An entry of the lane is for the head of the chain, or for the phase of the drain.
EntryFits(e) ==
  /\ e.kind \in InChain => chain # <<>> /\ batch[Head(chain)] = (IF e.kind = "journal" THEN "waiting" ELSE "refused")
  /\ e.kind \in {"build", "dense"} => drain.phase = "publish"
  /\ e.kind = "failure" => drain.phase = "record"
  /\ e.kind \in OfDrain => \A b \in e.of : batch[b] \in Noted

\* The chain holds what waits, each batch once; its head may have been refused.
ChainFits ==
  /\ \A i, j \in DOMAIN chain : chain[i] = chain[j] => i = j
  /\ \A b \in Elems(chain) : batch[b] = "waiting" \/ (batch[b] = "refused" /\ b = Head(chain))
  /\ \A b \in Batch : batch[b] = "waiting" => b \in Elems(chain)

Excused(b) == b \in early \/ \E c \in Batch : Key(c) = Key(b) /\ batch[c] = "refused"

\* The round of the drain has the batch.
Carried(b) ==
  /\ b \in drain.seqs /\ drain.phase \in {"fold", "publish", "record"}
  /\ drain.phase = "publish" => \E e \in Elems(lane) : e.kind = "build" /\ b \in e.of
  /\ drain.phase = "record" => \E e \in Elems(lane) : e.kind = "failure" /\ b \in e.of

\* A batch that is not excused is carried by the drain, or its file is marked for the next round.
BatchFits(b) ==
  Excused(b) \/ /\ batch[b] = "waiting" => marks[Key(b)] # Saves!None
                /\ batch[b] = "pending" => (b \in seqs /\ marks[Key(b)] # Saves!None) \/ Carried(b)

SaveInv ==
  /\ SaveTypes /\ ChainFits
  /\ OneEach(lane) /\ \A e \in Elems(lane) : EntryFits(e)
  /\ \A b \in seqs \cup drain.seqs : batch[b] \in Noted
  /\ drain.phase = "idle" => Saves!NoMarks(marks)
  /\ \A f \in Saves!File : marks[f] # Saves!None => Key(marks[f]) = f
  /\ \A b \in Batch : BatchFits(b)

\* The queue begins empty.
LEMMA SavesStart == ASSUME Saves!Init PROVE SaveInv
<1>1. batch \in [Batch -> {"new"}] /\ marks = [f \in Saves!File |-> Saves!None] /\ chain = <<>> /\ lane = <<>>
  BY DEF Saves!Init
<1>2. drain \in OfDrains /\ drain.phase = "idle" /\ drain.seqs = {} /\ seqs = {} /\ early = {} /\ folds = 0
  BY DEF Saves!Init, Saves!Rest, OfDrains
<1>3. SaveTypes
  BY <1>1, <1>2 DEF SaveTypes
<1>4. Elems(chain) = {} /\ Elems(lane) = {} /\ OneEach(lane)
  BY <1>1 DEF Elems, OneEach
<1>5. \A b \in Batch : batch[b] = "new"
  BY <1>1
<1>6. ChainFits
  BY <1>1, <1>4, <1>5 DEF ChainFits
<1>7. \A b \in Batch : BatchFits(b)
  BY <1>5 DEF BatchFits
<1>8. Saves!NoMarks(marks)
  BY <1>1 DEF Saves!NoMarks
<1>9. \A f \in Saves!File : marks[f] = Saves!None
  BY <1>1
<1> QED BY <1>2, <1>3, <1>4, <1>6, <1>7, <1>8, <1>9 DEF SaveInv

\* What a lane is without its head, and with one entry more.
LEMMA LaneTail ==
  ASSUME NEW l \in Seq(Entry), l # <<>>, OneEach(l)
  PROVE  /\ Tail(l) \in Seq(Entry) /\ Head(l) \in Entry /\ OneEach(Tail(l))
         /\ Elems(l) = Elems(Tail(l)) \cup {Head(l)}
         /\ Head(l).kind \in InChain => Free(Tail(l), InChain)
         /\ Head(l).kind \in OfDrain => Free(Tail(l), OfDrain)
<1>1. /\ Tail(l) \in Seq(Entry) /\ Head(l) = l[1] /\ Len(l) \in Nat /\ Len(l) > 0 /\ Len(Tail(l)) = Len(l) - 1
      /\ DOMAIN l = 1..Len(l) /\ DOMAIN Tail(l) = 1..(Len(l) - 1)
      /\ \A i \in 1..(Len(l) - 1) : Tail(l)[i] = l[i + 1]
  OBVIOUS
<1>2. 1 \in DOMAIN l /\ Head(l) \in Entry
  BY <1>1
<1>3. ASSUME NEW i \in DOMAIN Tail(l) PROVE i + 1 \in DOMAIN l /\ i + 1 # 1 /\ Tail(l)[i] = l[i + 1]
  BY <1>1
<1>4. ASSUME NEW i \in DOMAIN l, i # 1 PROVE \E j \in DOMAIN Tail(l) : l[i] = Tail(l)[j]
  <2>1. i - 1 \in DOMAIN Tail(l) /\ l[i] = Tail(l)[i - 1]
    BY <1>1, <1>4
  <2> QED BY <2>1
<1>5. OneEach(Tail(l))
  <2> SUFFICES ASSUME NEW i \in DOMAIN Tail(l), NEW j \in DOMAIN Tail(l),
                      \/ {Tail(l)[i].kind, Tail(l)[j].kind} \subseteq InChain
                      \/ {Tail(l)[i].kind, Tail(l)[j].kind} \subseteq OfDrain
               PROVE  i = j
    BY DEF OneEach
  <2>1. i + 1 = j + 1
    BY <1>3 DEF OneEach
  <2> QED BY <1>1, <2>1
<1>6. Elems(l) = Elems(Tail(l)) \cup {Head(l)}
  <2>1. Elems(Tail(l)) \cup {Head(l)} \subseteq Elems(l)
    BY <1>1, <1>2, <1>3 DEF Elems
  <2>2. Elems(l) \subseteq Elems(Tail(l)) \cup {Head(l)}
    BY <1>1, <1>4 DEF Elems
  <2> QED BY <2>1, <2>2
<1>7. ASSUME NEW K \in {InChain, OfDrain}, Head(l).kind \in K PROVE Free(Tail(l), K)
  <2>1. ASSUME NEW i \in DOMAIN Tail(l), Tail(l)[i].kind \in K PROVE FALSE
    BY <1>1, <1>2, <1>3, <1>7, <2>1 DEF OneEach
  <2> QED BY <2>1 DEF Free
<1> QED BY <1>1, <1>2, <1>5, <1>6, <1>7

LEMMA LaneElems ==
  ASSUME NEW l \in Seq(Entry)
  PROVE  Elems(l) \subseteq Entry /\ (Free(l, InChain) => \A e \in Elems(l) : e.kind \in OfDrain)
<1>1. \A i \in DOMAIN l : l[i] \in Entry
  OBVIOUS
<1>2. \A e \in Entry : e.kind \in InChain \cup OfDrain
  BY DEF Entry
<1> QED BY <1>1, <1>2 DEF Elems, Free

LEMMA LaneAppend ==
  ASSUME NEW l \in Seq(Entry), OneEach(l), NEW e \in Entry,
         e.kind \in InChain => Free(l, InChain), e.kind \in OfDrain => Free(l, OfDrain)
  PROVE  Append(l, e) \in Seq(Entry) /\ OneEach(Append(l, e)) /\ Elems(Append(l, e)) = Elems(l) \cup {e}
<1>1. /\ Append(l, e) \in Seq(Entry) /\ Len(l) \in Nat /\ DOMAIN l = 1..Len(l)
      /\ DOMAIN Append(l, e) = 1..(Len(l) + 1)
      /\ \A i \in 1..Len(l) : Append(l, e)[i] = l[i]
      /\ Append(l, e)[Len(l) + 1] = e
  OBVIOUS
<1>2. \A i \in DOMAIN Append(l, e) : i \in DOMAIN l \/ i = Len(l) + 1
  BY <1>1
<1>3. Len(l) + 1 \in DOMAIN Append(l, e) /\ \A i \in DOMAIN l : i \in DOMAIN Append(l, e)
  BY <1>1
<1>4. Elems(Append(l, e)) = Elems(l) \cup {e}
  <2>1. Elems(Append(l, e)) \subseteq Elems(l) \cup {e}
    BY <1>1, <1>2 DEF Elems
  <2>2. Elems(l) \cup {e} \subseteq Elems(Append(l, e))
    BY <1>1, <1>3 DEF Elems
  <2> QED BY <2>1, <2>2
<1>5. OneEach(Append(l, e))
  <2> SUFFICES ASSUME NEW i \in DOMAIN Append(l, e), NEW j \in DOMAIN Append(l, e),
                      \/ {Append(l, e)[i].kind, Append(l, e)[j].kind} \subseteq InChain
                      \/ {Append(l, e)[i].kind, Append(l, e)[j].kind} \subseteq OfDrain
               PROVE  i = j
    BY DEF OneEach
  <2>1. CASE i \in DOMAIN l /\ j \in DOMAIN l
    BY <1>1, <2>1 DEF OneEach
  <2>2. CASE i \in DOMAIN l /\ j = Len(l) + 1
    BY <1>1, <2>2 DEF Free
  <2>3. CASE j \in DOMAIN l /\ i = Len(l) + 1
    BY <1>1, <2>3 DEF Free
  <2> QED BY <1>2, <2>1, <2>2, <2>3
<1> QED BY <1>1, <1>4, <1>5

\* What the chain is without its head, and with one batch more.
LEMMA ChainTail ==
  ASSUME NEW c \in Seq(Batch), c # <<>>, \A i, j \in DOMAIN c : c[i] = c[j] => i = j
  PROVE  /\ Tail(c) \in Seq(Batch) /\ Head(c) \in Elems(c) /\ Head(c) \in Batch
         /\ \A i, j \in DOMAIN Tail(c) : Tail(c)[i] = Tail(c)[j] => i = j
         /\ Elems(Tail(c)) = Elems(c) \ {Head(c)}
         /\ Tail(c) # <<>> => Head(Tail(c)) = c[2] /\ c[2] \in Elems(Tail(c))
<1>1. /\ Tail(c) \in Seq(Batch) /\ Head(c) = c[1] /\ Len(c) \in Nat /\ Len(c) > 0 /\ Len(Tail(c)) = Len(c) - 1
      /\ DOMAIN c = 1..Len(c) /\ DOMAIN Tail(c) = 1..(Len(c) - 1)
      /\ \A i \in 1..(Len(c) - 1) : Tail(c)[i] = c[i + 1]
  OBVIOUS
<1>2. 1 \in DOMAIN c /\ Head(c) \in Batch
  BY <1>1
<1>3. ASSUME NEW i \in DOMAIN Tail(c) PROVE i + 1 \in DOMAIN c /\ i + 1 # 1 /\ Tail(c)[i] = c[i + 1]
  BY <1>1
<1>4. ASSUME NEW i \in DOMAIN c, i # 1 PROVE \E j \in DOMAIN Tail(c) : c[i] = Tail(c)[j]
  <2>1. i - 1 \in DOMAIN Tail(c) /\ c[i] = Tail(c)[i - 1]
    BY <1>1, <1>4
  <2> QED BY <2>1
<1>5. ASSUME NEW i \in DOMAIN Tail(c), NEW j \in DOMAIN Tail(c), Tail(c)[i] = Tail(c)[j] PROVE i = j
  <2>1. i + 1 = j + 1
    BY <1>3, <1>5
  <2> QED BY <1>1, <2>1
<1>6. Elems(Tail(c)) = Elems(c) \ {Head(c)}
  <2>1. Elems(Tail(c)) \subseteq Elems(c) \ {Head(c)}
    BY <1>1, <1>2, <1>3 DEF Elems
  <2>2. Elems(c) \ {Head(c)} \subseteq Elems(Tail(c))
    BY <1>1, <1>4 DEF Elems
  <2> QED BY <2>1, <2>2
<1>7. ASSUME Tail(c) # <<>> PROVE Head(Tail(c)) = c[2] /\ c[2] \in Elems(Tail(c))
  <2>1. 1 \in DOMAIN Tail(c) /\ Head(Tail(c)) = Tail(c)[1]
    BY <1>1, <1>7
  <2>2. Tail(c)[1] = c[2]
    BY <1>1, <2>1
  <2> QED BY <2>1, <2>2 DEF Elems
<1>8. Head(c) \in Elems(c)
  BY <1>1, <1>2 DEF Elems
<1> QED BY <1>1, <1>2, <1>5, <1>6, <1>7, <1>8

LEMMA ChainAppend ==
  ASSUME NEW c \in Seq(Batch), NEW b \in Batch, b \notin Elems(c), \A i, j \in DOMAIN c : c[i] = c[j] => i = j
  PROVE  /\ Append(c, b) \in Seq(Batch) /\ Append(c, b) # <<>>
         /\ \A i, j \in DOMAIN Append(c, b) : Append(c, b)[i] = Append(c, b)[j] => i = j
         /\ Elems(Append(c, b)) = Elems(c) \cup {b}
         /\ Head(Append(c, b)) = IF c = <<>> THEN b ELSE Head(c)
<1>1. /\ Append(c, b) \in Seq(Batch) /\ Len(c) \in Nat /\ DOMAIN c = 1..Len(c)
      /\ DOMAIN Append(c, b) = 1..(Len(c) + 1)
      /\ \A i \in 1..Len(c) : Append(c, b)[i] = c[i]
      /\ Append(c, b)[Len(c) + 1] = b /\ Append(c, b) # <<>>
      /\ Head(Append(c, b)) = IF c = <<>> THEN b ELSE Head(c)
  OBVIOUS
<1>2. \A i \in DOMAIN Append(c, b) : i \in DOMAIN c \/ i = Len(c) + 1
  BY <1>1
<1>3. Len(c) + 1 \in DOMAIN Append(c, b) /\ \A i \in DOMAIN c : i \in DOMAIN Append(c, b)
  BY <1>1
<1>4. Elems(Append(c, b)) = Elems(c) \cup {b}
  <2>1. Elems(Append(c, b)) \subseteq Elems(c) \cup {b}
    BY <1>1, <1>2 DEF Elems
  <2>2. Elems(c) \cup {b} \subseteq Elems(Append(c, b))
    BY <1>1, <1>3 DEF Elems
  <2> QED BY <2>1, <2>2
<1>5. ASSUME NEW i \in DOMAIN Append(c, b), NEW j \in DOMAIN Append(c, b), Append(c, b)[i] = Append(c, b)[j]
      PROVE i = j
  <2>1. \A k \in DOMAIN c : c[k] # b
    BY DEF Elems
  <2> QED BY <1>1, <1>2, <1>5, <2>1
<1> QED BY <1>1, <1>4, <1>5

LEMMA SaveNames == ASSUME NEW s PROVE Saves!ToSet(s) = Elems(s)
BY DEF Saves!ToSet, Elems

LEMMA ChainElems == ASSUME NEW c \in Seq(Batch) PROVE Elems(c) \subseteq Batch
BY DEF Elems

\* A round begins with nothing but the journal that it waits for.
LEMMA RoundBegins ==
  ASSUME NEW c \in Seq(Batch)
  PROVE  /\ Saves!NextRound(c) \in OfDrains /\ Saves!NextRound(c).phase = "journal" /\ Saves!NextRound(c).seqs = {}
         /\ Saves!Rest \in OfDrains /\ Saves!Rest.phase = "idle" /\ Saves!Rest.seqs = {}
<1>1. Saves!ToSet(c) \subseteq Batch
  BY ChainElems, SaveNames
<1>2. Saves!Rest \in OfDrains /\ Saves!Rest.phase = "idle" /\ Saves!Rest.seqs = {}
  BY DEF OfDrains, Saves!Rest
<1>3. PICK r \in OfDrains : r = [Saves!Rest EXCEPT !.phase = "journal"]
  BY <1>2 DEF OfDrains
<1>4. r.phase = "journal" /\ r.seqs = {}
  BY <1>2, <1>3 DEF OfDrains
<1>5. PICK n \in OfDrains : n = [r EXCEPT !.awaits = Saves!ToSet(c)]
  BY <1>1 DEF OfDrains
<1>6. n.phase = "journal" /\ n.seqs = {}
  BY <1>4, <1>5 DEF OfDrains
<1>7. Saves!NextRound(c) = n
  BY <1>3, <1>5 DEF Saves!NextRound
<1> QED BY <1>2, <1>6, <1>7

\* A batch that is excused remains so, and one that is noted.
LEMMA ExcusedStays ==
  ASSUME early \subseteq early', \A c \in Batch : batch[c] = "refused" => batch'[c] = "refused",
         NEW b \in Batch, Excused(b)
  PROVE  Excused(b)'
<1>1. CASE b \in early
  BY <1>1 DEF Excused
<1>2. CASE \E c \in Batch : Key(c) = Key(b) /\ batch[c] = "refused"
  BY <1>2 DEF Excused
<1> QED BY <1>1, <1>2 DEF Excused

\* The lane of a drain that has no entry in it, and of a chain that has none.
LEMMA LaneFree ==
  ASSUME SaveInv
  PROVE  /\ drain.phase \notin {"publish", "record"} => Free(lane, OfDrain)
         /\ chain = <<>> => Free(lane, InChain)
<1>1. \A i \in DOMAIN lane : EntryFits(lane[i])
  BY DEF SaveInv, Elems
<1> QED BY <1>1 DEF Free, EntryFits, InChain, OfDrain

-----------------------------------------------------------------------------
\* A batch is reported: it waits at the end of the chain, and its file is marked.
LEMMA SavesEnqueue == ASSUME SaveInv, SaveConstants, NEW b \in Batch, Saves!Enqueue(b) PROVE SaveInv'
<1>1. /\ batch[b] = "new" /\ batch' = [batch EXCEPT ![b] = "waiting"]
      /\ marks' = [marks EXCEPT ![Key(b)] = b] /\ chain' = Append(chain, b)
      /\ lane' = IF chain = <<>> THEN Append(lane, Saves!Journal(b)) ELSE lane
      /\ early' = early /\ seqs' = seqs
      /\ IF drain.phase = "idle" THEN drain' = Saves!NextRound(Append(chain, b)) /\ folds' = folds
                                 ELSE folds' = folds + 1 /\ drain' = drain
  BY DEF Saves!Enqueue
<1>2. SaveTypes /\ ChainFits
  BY DEF SaveInv
<1>3. /\ batch' \in [Batch -> Noted \cup {"new", "waiting", "refused"}] /\ batch'[b] = "waiting"
      /\ \A x \in Batch : x # b => batch'[x] = batch[x]
  BY <1>1, <1>2 DEF SaveTypes
<1>4. /\ marks' \in [Saves!File -> Batch \cup {Saves!None}] /\ Key(b) \in Saves!File /\ marks'[Key(b)] = b
      /\ \A f \in Saves!File : f # Key(b) => marks'[f] = marks[f]
  BY <1>1, <1>2 DEF SaveTypes, Saves!File
<1>5. b \notin Elems(chain) /\ \A e \in Elems(lane) : EntryFits(e)
  BY <1>1, <1>2 DEF ChainFits, SaveInv
<1>6. /\ chain' \in Seq(Batch) /\ chain' # <<>> /\ \A i, j \in DOMAIN chain' : chain'[i] = chain'[j] => i = j
      /\ Elems(chain') = Elems(chain) \cup {b} /\ Head(chain') = IF chain = <<>> THEN b ELSE Head(chain)
  BY <1>1, <1>2, <1>5, ChainAppend DEF SaveTypes, ChainFits
<1>7. Saves!Journal(b) \in Entry /\ Saves!Journal(b).kind = "journal"
  BY DEF Saves!Journal, Entry, InChain
<1>8. /\ lane' \in Seq(Entry) /\ OneEach(lane')
      /\ Elems(lane') = IF chain = <<>> THEN Elems(lane) \cup {Saves!Journal(b)} ELSE Elems(lane)
  <2>1. CASE chain = <<>>
    BY <1>1, <1>2, <1>7, <2>1, LaneAppend, LaneFree DEF SaveTypes, SaveInv, InChain, OfDrain
  <2>2. CASE chain # <<>>
    BY <1>1, <1>2, <2>2 DEF SaveTypes, SaveInv
  <2> QED BY <2>1, <2>2
<1>9. /\ drain' \in OfDrains /\ drain'.phase # "idle" /\ drain'.seqs \subseteq drain.seqs /\ folds' \in Nat
      /\ drain.phase = "idle" \/ drain' = drain
  <2>1. CASE drain.phase = "idle"
    BY <1>1, <1>2, <1>6, <2>1, RoundBegins DEF SaveTypes
  <2>2. CASE drain.phase # "idle"
    BY <1>1, <1>2, <2>2 DEF SaveTypes
  <2> QED BY <2>1, <2>2
<1>10. SaveTypes'
  BY <1>1, <1>2, <1>3, <1>4, <1>6, <1>8, <1>9 DEF SaveTypes
<1>11. ChainFits'
  <2>1. \A x \in Elems(chain') : batch'[x] = "waiting" \/ (batch'[x] = "refused" /\ x = Head(chain'))
    <3> SUFFICES ASSUME NEW x \in Elems(chain'), x # b
                 PROVE  batch'[x] = "waiting" \/ (batch'[x] = "refused" /\ x = Head(chain'))
      BY <1>3
    <3>1. x \in Elems(chain) /\ x \in Batch /\ chain # <<>>
      <4>1. x \in Elems(chain) /\ x \in Batch
        BY <1>2, <1>6, ChainElems DEF SaveTypes
      <4> QED BY <4>1 DEF Elems
    <3> QED BY <1>2, <1>3, <1>6, <3>1 DEF ChainFits
  <2>2. \A x \in Batch : batch'[x] = "waiting" => x \in Elems(chain')
    BY <1>2, <1>3, <1>6 DEF ChainFits
  <2> QED BY <1>6, <2>1, <2>2 DEF ChainFits
<1>12. ASSUME NEW e \in Elems(lane') PROVE EntryFits(e)'
  <2>1. CASE e \in Elems(lane)
    <3>1. EntryFits(e) /\ e \in Entry
      BY <1>2, <1>5, <2>1 DEF SaveTypes, Elems
    <3>2. ASSUME e.kind \in InChain
          PROVE  chain' # <<>> /\ batch'[Head(chain')] = (IF e.kind = "journal" THEN "waiting" ELSE "refused")
      <4>1. chain # <<>> /\ batch[Head(chain)] = (IF e.kind = "journal" THEN "waiting" ELSE "refused")
        BY <3>1, <3>2 DEF EntryFits
      <4>2. Head(chain) \in Batch /\ Head(chain) # b
        BY <1>1, <1>2, <4>1 DEF SaveTypes
      <4> QED BY <1>3, <1>6, <4>1, <4>2
    <3>3. e.kind \in {"build", "dense"} => drain'.phase = "publish"
      BY <1>9, <3>1 DEF EntryFits
    <3>4. e.kind = "failure" => drain'.phase = "record"
      BY <1>9, <3>1 DEF EntryFits
    <3>5. e.kind \in OfDrain => \A x \in e.of : batch'[x] \in Noted
      BY <1>1, <1>3, <3>1 DEF EntryFits, Entry, Noted
    <3> QED BY <3>2, <3>3, <3>4, <3>5 DEF EntryFits
  <2>2. CASE e = Saves!Journal(b) /\ chain = <<>>
    BY <1>3, <1>6, <1>7, <2>2 DEF EntryFits, OfDrain
  <2> QED BY <1>8, <2>1, <2>2
<1>13. \A x \in seqs' \cup drain'.seqs : batch'[x] \in Noted
  <2>1. \A x \in seqs \cup drain.seqs : x \in Batch /\ batch[x] \in Noted
    BY <1>2 DEF SaveInv, SaveTypes, OfDrains
  <2> QED BY <1>1, <1>3, <1>9, <2>1 DEF Noted
<1>14. \A f \in Saves!File : marks'[f] # Saves!None => Key(marks'[f]) = f
  BY <1>4 DEF SaveInv
<1>15. ASSUME NEW x \in Batch PROVE BatchFits(x)'
  <2>1. CASE Excused(x)
    <3>1. \A c \in Batch : batch[c] = "refused" => batch'[c] = "refused"
      BY <1>1, <1>3
    <3> QED BY <1>1, <2>1, <3>1, ExcusedStays DEF BatchFits
  <2>2. CASE ~Excused(x)
    <3>1. Key(x) \in Saves!File /\ b # Saves!None
      BY DEF Saves!File, SaveConstants
    <3>2. /\ batch[x] = "waiting" => marks[Key(x)] # Saves!None
          /\ batch[x] = "pending" => (x \in seqs /\ marks[Key(x)] # Saves!None) \/ Carried(x)
      BY <2>2 DEF SaveInv, BatchFits
    <3>3. Carried(x) => Carried(x)'
      <4>1. SUFFICES ASSUME Carried(x) PROVE Carried(x)'
        OBVIOUS
      <4>2. drain' = drain /\ Elems(lane) \subseteq Elems(lane')
        BY <1>8, <1>9, <4>1 DEF Carried
      <4> QED BY <4>1, <4>2 DEF Carried
    <3>4. marks[Key(x)] # Saves!None => marks'[Key(x)] # Saves!None
      BY <1>4, <3>1
    <3>5. x = b => batch'[x] = "waiting" /\ marks'[Key(x)] # Saves!None
      BY <1>3, <1>4, <3>1
    <3> QED BY <1>1, <1>3, <3>2, <3>3, <3>4, <3>5 DEF BatchFits
  <2> QED BY <2>1, <2>2
<1> QED BY <1>8, <1>9, <1>10, <1>11, <1>12, <1>13, <1>14, <1>15 DEF SaveInv

\* What the drain carries stays carried while its entries are in the lane.
LEMMA CarriedStays ==
  ASSUME drain'.phase = drain.phase, drain'.seqs = drain.seqs,
         \A e \in Elems(lane) : e.kind \in OfDrain => e \in Elems(lane'),
         NEW b, Carried(b)
  PROVE  Carried(b)'
BY DEF Carried, OfDrain

\* The chain goes on: its head was journaled or refused, and the next batch enters the lane.
LEMMA SavesUnchain ==
  ASSUME SaveInv, lane # <<>>, Head(lane).kind \in InChain, Saves!Unchain(Tail(lane)), drain' = drain,
         batch' \in [Batch -> Noted \cup {"new", "waiting", "refused"}],
         batch'[Head(chain)] \in {"pending", "refused"},
         \A x \in Batch : x # Head(chain) => batch'[x] = batch[x]
  PROVE  /\ chain # <<>> /\ Head(chain) \in Batch
         /\ batch[Head(chain)] = (IF Head(lane).kind = "journal" THEN "waiting" ELSE "refused")
         /\ chain' \in Seq(Batch) /\ lane' \in Seq(Entry) /\ ChainFits' /\ OneEach(lane')
         /\ \A e \in Elems(lane') : EntryFits(e)'
         /\ \A e \in Elems(lane) : e.kind \in OfDrain => e \in Elems(lane')
<1>1. /\ SaveTypes /\ ChainFits /\ OneEach(lane) /\ \A e \in Elems(lane) : EntryFits(e)
      /\ chain \in Seq(Batch) /\ lane \in Seq(Entry)
  BY DEF SaveInv, SaveTypes
<1>2. /\ Tail(lane) \in Seq(Entry) /\ Head(lane) \in Entry /\ OneEach(Tail(lane))
      /\ Elems(lane) = Elems(Tail(lane)) \cup {Head(lane)} /\ Free(Tail(lane), InChain)
  BY <1>1, LaneTail
<1>3. chain # <<>> /\ batch[Head(chain)] = (IF Head(lane).kind = "journal" THEN "waiting" ELSE "refused")
  BY <1>1, <1>2 DEF EntryFits
<1>4. /\ Tail(chain) \in Seq(Batch) /\ Head(chain) \in Elems(chain) /\ Head(chain) \in Batch
      /\ \A i, j \in DOMAIN Tail(chain) : Tail(chain)[i] = Tail(chain)[j] => i = j
      /\ Elems(Tail(chain)) = Elems(chain) \ {Head(chain)}
      /\ Tail(chain) # <<>> => Head(Tail(chain)) = chain[2] /\ chain[2] \in Elems(Tail(chain))
  BY <1>1, <1>3, ChainTail DEF ChainFits
<1>5. /\ chain' = Tail(chain)
      /\ lane' = IF Tail(chain) = <<>> THEN Tail(lane) ELSE Append(Tail(lane), Saves!Journal(chain[2]))
  BY DEF Saves!Unchain
<1>6. \A x \in Elems(Tail(chain)) : x \in Batch /\ batch'[x] = "waiting"
  <2>1. \A x \in Elems(Tail(chain)) : x \in Batch /\ x \in Elems(chain) /\ x # Head(chain)
    BY <1>1, <1>4, ChainElems
  <2> QED BY <1>1, <2>1 DEF ChainFits
<1>7. ChainFits'
  <2>1. \A x \in Batch : batch'[x] = "waiting" => x \in Elems(chain')
    BY <1>1, <1>4, <1>5 DEF ChainFits
  <2> QED BY <1>4, <1>5, <1>6, <2>1 DEF ChainFits
<1>8. ASSUME Tail(chain) # <<>>
      PROVE  /\ chain[2] \in Batch /\ Saves!Journal(chain[2]) \in Entry /\ Saves!Journal(chain[2]).kind = "journal"
             /\ \A e \in Entry : e = Saves!Journal(chain[2]) => EntryFits(e)'
  <2>1. chain[2] \in Batch /\ batch'[chain[2]] = "waiting" /\ Head(chain') = chain[2]
    BY <1>4, <1>5, <1>6, <1>8
  <2>2. Saves!Journal(chain[2]) \in Entry /\ Saves!Journal(chain[2]).kind = "journal"
    BY <2>1 DEF Saves!Journal, Entry, InChain
  <2>3. ASSUME NEW e \in Entry, e = Saves!Journal(chain[2]) PROVE EntryFits(e)'
    <3>1. e.kind = "journal"
      BY <2>2, <2>3
    <3> QED BY <1>5, <1>8, <2>1, <3>1 DEF EntryFits, OfDrain
  <2> QED BY <2>1, <2>2, <2>3
<1>9. /\ lane' \in Seq(Entry) /\ OneEach(lane')
      /\ Elems(lane') = IF Tail(chain) = <<>> THEN Elems(Tail(lane))
                        ELSE Elems(Tail(lane)) \cup {Saves!Journal(chain[2])}
  <2>1. CASE Tail(chain) = <<>>
    BY <1>2, <1>5, <2>1
  <2>2. CASE Tail(chain) # <<>>
    BY <1>2, <1>5, <1>8, <2>2, LaneAppend DEF InChain, OfDrain
  <2> QED BY <2>1, <2>2
<1>10. ASSUME NEW e \in Elems(Tail(lane)) PROVE EntryFits(e)'
  <2>1. EntryFits(e) /\ e \in Entry /\ e.kind \notin InChain
    BY <1>1, <1>2 DEF Free, Elems
  <2>2. e.kind \in OfDrain => \A b \in e.of : b \in Batch /\ batch[b] \in Noted /\ b # Head(chain)
    BY <1>3, <2>1 DEF EntryFits, Entry, Noted
  <2> QED BY <2>1, <2>2 DEF EntryFits
<1>11. \A e \in Elems(lane) : e.kind \in OfDrain => e \in Elems(lane')
  BY <1>2, <1>9 DEF InChain, OfDrain
<1>12. ASSUME NEW e \in Elems(lane') PROVE EntryFits(e)'
  <2>1. CASE e \in Elems(Tail(lane))
    BY <1>10, <2>1
  <2>2. CASE e = Saves!Journal(chain[2]) /\ Tail(chain) # <<>>
    BY <1>8, <2>2
  <2> QED BY <1>9, <2>1, <2>2
<1> QED BY <1>3, <1>4, <1>5, <1>7, <1>9, <1>11, <1>12

\* The head of the chain is in the journal: it waits for a build, with its file marked.
LEMMA SavesJournaled == ASSUME SaveInv, lane # <<>>, Saves!Journaled, UNCHANGED <<early, folds>> PROVE SaveInv'
<1>1. /\ Head(lane).kind = "journal" /\ batch' = [batch EXCEPT ![Head(chain)] = "pending"]
      /\ seqs' = seqs \cup {Head(chain)} /\ Saves!Unchain(Tail(lane))
      /\ marks' = marks /\ drain' = drain /\ early' = early /\ folds' = folds
  BY DEF Saves!Journaled
<1>2. SaveTypes /\ ChainFits /\ lane \in Seq(Entry) /\ OneEach(lane) /\ \A e \in Elems(lane) : EntryFits(e)
  BY DEF SaveInv, SaveTypes
<1>3. chain # <<>> /\ Head(chain) \in Batch
  <2>1. Head(lane) \in Elems(lane)
    BY <1>2, LaneTail
  <2>2. chain # <<>>
    BY <1>1, <1>2, <2>1 DEF EntryFits, InChain
  <2> QED BY <1>2, <2>2 DEF SaveTypes
<1>4. /\ batch' \in [Batch -> Noted \cup {"new", "waiting", "refused"}] /\ batch'[Head(chain)] = "pending"
      /\ \A x \in Batch : x # Head(chain) => batch'[x] = batch[x]
  BY <1>1, <1>2, <1>3 DEF SaveTypes, Noted
<1>5. /\ batch[Head(chain)] = "waiting"
      /\ chain' \in Seq(Batch) /\ lane' \in Seq(Entry) /\ ChainFits' /\ OneEach(lane')
      /\ \A e \in Elems(lane') : EntryFits(e)'
      /\ \A e \in Elems(lane) : e.kind \in OfDrain => e \in Elems(lane')
  BY <1>1, <1>4, SavesUnchain DEF InChain
<1>6. SaveTypes'
  BY <1>1, <1>2, <1>3, <1>4, <1>5 DEF SaveTypes
<1>7. \A x \in seqs' \cup drain'.seqs : batch'[x] \in Noted
  <2>1. \A x \in seqs \cup drain.seqs : x \in Batch /\ batch[x] \in Noted
    BY <1>2 DEF SaveInv, SaveTypes, OfDrains
  <2> QED BY <1>1, <1>3, <1>4, <2>1 DEF Noted
<1>8. /\ drain'.phase = "idle" => Saves!NoMarks(marks')
      /\ \A f \in Saves!File : marks'[f] # Saves!None => Key(marks'[f]) = f
  BY <1>1 DEF SaveInv
<1>9. ASSUME NEW x \in Batch PROVE BatchFits(x)'
  <2>1. CASE Excused(x)
    <3>1. \A c \in Batch : batch[c] = "refused" => batch'[c] = "refused"
      BY <1>4, <1>5
    <3> QED BY <1>1, <2>1, <3>1, ExcusedStays DEF BatchFits
  <2>2. CASE ~Excused(x)
    <3>1. /\ batch[x] = "waiting" => marks[Key(x)] # Saves!None
          /\ batch[x] = "pending" => (x \in seqs /\ marks[Key(x)] # Saves!None) \/ Carried(x)
      BY <2>2 DEF SaveInv, BatchFits
    <3>2. Carried(x) => Carried(x)'
      BY <1>1, <1>5, CarriedStays
    <3>3. x = Head(chain) => x \in seqs' /\ marks'[Key(x)] # Saves!None /\ batch'[x] = "pending"
      BY <1>1, <1>4, <1>5, <3>1
    <3> QED BY <1>1, <1>4, <3>1, <3>2, <3>3 DEF BatchFits
  <2> QED BY <2>1, <2>2
<1> QED BY <1>5, <1>6, <1>7, <1>8, <1>9 DEF SaveInv

\* A refusal is on record, and the chain goes on.
LEMMA SavesRefusalRecorded ==
  ASSUME SaveInv, lane # <<>>, Saves!RefusalRecorded, UNCHANGED <<early, folds>> PROVE SaveInv'
<1>1. /\ Head(lane).kind = "refusal" /\ batch' = batch /\ seqs' = seqs /\ Saves!Unchain(Tail(lane))
      /\ marks' = marks /\ drain' = drain /\ early' = early /\ folds' = folds
  BY DEF Saves!RefusalRecorded
<1>2. SaveTypes /\ ChainFits /\ lane \in Seq(Entry) /\ OneEach(lane) /\ \A e \in Elems(lane) : EntryFits(e)
  BY DEF SaveInv, SaveTypes
<1>3. batch[Head(chain)] = "refused"
  <2>1. Head(lane) \in Elems(lane)
    BY <1>2, LaneTail
  <2> QED BY <1>1, <1>2, <2>1 DEF EntryFits, InChain
<1>4. batch' \in [Batch -> Noted \cup {"new", "waiting", "refused"}]
  BY <1>1, <1>2 DEF SaveTypes
<1>5. /\ chain' \in Seq(Batch) /\ lane' \in Seq(Entry) /\ ChainFits' /\ OneEach(lane')
      /\ \A e \in Elems(lane') : EntryFits(e)'
      /\ \A e \in Elems(lane) : e.kind \in OfDrain => e \in Elems(lane')
  BY <1>1, <1>3, <1>4, SavesUnchain DEF InChain
<1>6. SaveTypes'
  BY <1>1, <1>2, <1>4, <1>5 DEF SaveTypes
<1>7. \A x \in seqs' \cup drain'.seqs : batch'[x] \in Noted
  BY <1>1 DEF SaveInv
<1>8. /\ drain'.phase = "idle" => Saves!NoMarks(marks')
      /\ \A f \in Saves!File : marks'[f] # Saves!None => Key(marks'[f]) = f
  BY <1>1 DEF SaveInv
<1>9. ASSUME NEW x \in Batch PROVE BatchFits(x)'
  <2>1. CASE Excused(x)
    BY <1>1, <2>1, ExcusedStays DEF BatchFits
  <2>2. CASE ~Excused(x)
    <3>1. Carried(x) => Carried(x)'
      BY <1>1, <1>5, CarriedStays
    <3> QED BY <1>1, <2>2, <3>1 DEF SaveInv, BatchFits
  <2> QED BY <2>1, <2>2
<1> QED BY <1>5, <1>6, <1>7, <1>8, <1>9 DEF SaveInv

\* An entry of the drain still fits when what changes is a batch that it has not.
LEMMA OfDrainFits ==
  ASSUME NEW e \in Entry, EntryFits(e), e.kind \in OfDrain, drain'.phase = drain.phase,
         \A x \in Batch : batch[x] \in Noted => batch'[x] \in Noted
  PROVE  EntryFits(e)'
BY DEF EntryFits, Entry, OfDrain, InChain

\* The append failed: the batch is refused, and what it had replaced is excused with it.
LEMMA SavesJournalFails ==
  ASSUME SaveInv, SaveConstants, lane # <<>>, Saves!JournalFails, UNCHANGED <<early, folds>> PROVE SaveInv'
<1>1. /\ Head(lane).kind = "journal" /\ batch' = [batch EXCEPT ![Head(chain)] = "refused"]
      /\ marks' = [f \in Saves!File |-> IF marks[f] = Head(chain) THEN Saves!None ELSE marks[f]]
      /\ lane' = Append(Tail(lane), Saves!Diagnose("refusal", {}))
      /\ seqs' = seqs /\ chain' = chain /\ drain' = drain /\ early' = early /\ folds' = folds
  BY DEF Saves!JournalFails
<1>2. SaveTypes /\ ChainFits /\ lane \in Seq(Entry) /\ OneEach(lane) /\ \A e \in Elems(lane) : EntryFits(e)
  BY DEF SaveInv, SaveTypes
<1>3. /\ Tail(lane) \in Seq(Entry) /\ OneEach(Tail(lane)) /\ Head(lane) \in Elems(lane)
      /\ Elems(lane) = Elems(Tail(lane)) \cup {Head(lane)} /\ Free(Tail(lane), InChain)
  BY <1>1, <1>2, LaneTail DEF InChain
<1>4. chain # <<>> /\ Head(chain) \in Batch /\ batch[Head(chain)] = "waiting"
  <2>1. chain # <<>> /\ batch[Head(chain)] = "waiting"
    BY <1>1, <1>2, <1>3 DEF EntryFits, InChain
  <2> QED BY <1>2, <2>1 DEF SaveTypes
<1>5. /\ batch' \in [Batch -> Noted \cup {"new", "waiting", "refused"}] /\ batch'[Head(chain)] = "refused"
      /\ \A x \in Batch : x # Head(chain) => batch'[x] = batch[x]
  BY <1>1, <1>2, <1>4 DEF SaveTypes, Noted
<1>6. Saves!Diagnose("refusal", {}) \in Entry /\ Saves!Diagnose("refusal", {}).kind = "refusal"
  BY DEF Saves!Diagnose, Entry, InChain
<1>7. /\ lane' \in Seq(Entry) /\ OneEach(lane')
      /\ Elems(lane') = Elems(Tail(lane)) \cup {Saves!Diagnose("refusal", {})}
  BY <1>1, <1>3, <1>6, LaneAppend DEF OfDrain
<1>8. marks' \in [Saves!File -> Batch \cup {Saves!None}]
  BY <1>1, <1>2 DEF SaveTypes
<1>9. SaveTypes'
  BY <1>1, <1>2, <1>5, <1>7, <1>8 DEF SaveTypes
<1>10. ChainFits'
  <2>1. \A x \in Elems(chain) : x \in Batch
    BY <1>2, ChainElems DEF SaveTypes
  <2> QED BY <1>1, <1>2, <1>5, <2>1 DEF ChainFits
<1>11. \A x \in Batch : batch[x] \in Noted => batch'[x] = batch[x]
  BY <1>4, <1>5 DEF Noted
<1>12. ASSUME NEW e \in Elems(lane') PROVE EntryFits(e)'
  <2>1. CASE e \in Elems(Tail(lane))
    <3>1. EntryFits(e) /\ e \in Entry /\ e.kind \in OfDrain
      BY <1>2, <1>3, <2>1, LaneElems
    <3> QED BY <1>1, <1>11, <3>1, OfDrainFits
  <2>2. CASE e = Saves!Diagnose("refusal", {})
    BY <1>1, <1>4, <1>5, <1>6, <2>2 DEF EntryFits, InChain, OfDrain
  <2> QED BY <1>7, <2>1, <2>2
<1>13. \A x \in seqs' \cup drain'.seqs : batch'[x] \in Noted
  <2>1. \A x \in seqs \cup drain.seqs : x \in Batch /\ batch[x] \in Noted
    BY <1>2 DEF SaveInv, SaveTypes, OfDrains
  <2> QED BY <1>1, <1>11, <2>1
<1>14. /\ drain'.phase = "idle" => Saves!NoMarks(marks')
       /\ \A f \in Saves!File : marks'[f] # Saves!None => Key(marks'[f]) = f
  <2>1. \A f \in Saves!File : marks'[f] = marks[f] \/ marks'[f] = Saves!None
    BY <1>1
  <2>2. \A f \in Saves!File : marks'[f] # Saves!None => Key(marks'[f]) = f
    BY <2>1 DEF SaveInv
  <2> QED BY <1>1, <2>1, <2>2 DEF SaveInv, Saves!NoMarks
<1>15. ASSUME NEW x \in Batch PROVE BatchFits(x)'
  <2>1. CASE Excused(x)
    <3>1. \A c \in Batch : batch[c] = "refused" => batch'[c] = "refused"
      BY <1>5
    <3> QED BY <1>1, <2>1, <3>1, ExcusedStays DEF BatchFits
  <2>2. CASE x = Head(chain)
    BY <1>5, <2>2 DEF BatchFits
  <2>3. CASE ~Excused(x) /\ x # Head(chain)
    <3>1. Key(x) \in Saves!File /\ Head(chain) # Saves!None
      BY <1>4 DEF Saves!File, SaveConstants
    <3>2. CASE marks[Key(x)] = Head(chain)
      <4>1. Key(Head(chain)) = Key(x)
        BY <3>1, <3>2 DEF SaveInv
      <4> QED BY <1>4, <1>5, <4>1 DEF BatchFits, Excused
    <3>3. CASE marks[Key(x)] # Head(chain)
      <4>1. marks'[Key(x)] = marks[Key(x)]
        BY <1>1, <3>1, <3>3
      <4>2. /\ batch[x] = "waiting" => marks[Key(x)] # Saves!None
            /\ batch[x] = "pending" => (x \in seqs /\ marks[Key(x)] # Saves!None) \/ Carried(x)
        BY <2>3 DEF SaveInv, BatchFits
      <4>3. \A e \in Elems(lane) : e.kind \in OfDrain => e \in Elems(lane')
        BY <1>1, <1>3, <1>7 DEF OfDrain
      <4>4. Carried(x) => Carried(x)'
        BY <1>1, <4>3, CarriedStays
      <4> QED BY <1>1, <1>5, <2>3, <4>1, <4>2, <4>4 DEF BatchFits
    <3> QED BY <3>2, <3>3
  <2> QED BY <2>1, <2>2, <2>3
<1> QED BY <1>7, <1>9, <1>10, <1>12, <1>13, <1>14, <1>15 DEF SaveInv

\* The marks are taken: what is in the journal is carried from here, what is not is excused.
LEMMA SavesDrainTake == ASSUME SaveInv, Saves!DrainTake PROVE SaveInv'
<1>1. /\ drain.phase = "journal" /\ batch' = batch /\ chain' = chain /\ folds' = folds /\ lane' = lane
      /\ IF Saves!NoMarks(marks)
         THEN marks' = marks /\ early' = early /\ drain' = Saves!Rest /\ seqs' = {}
         ELSE /\ drain' = [Saves!Rest EXCEPT !.phase = "fold", !.left = folds, !.seqs = seqs]
              /\ early' = early \cup Elems(chain)
              /\ marks' = [f \in Saves!File |-> Saves!None] /\ seqs' = {}
  BY SaveNames DEF Saves!DrainTake, Saves!DrainReady, Saves!EndRun
<1>2. SaveTypes /\ ChainFits /\ chain \in Seq(Batch) /\ folds \in Nat /\ seqs \subseteq Batch
  BY DEF SaveInv, SaveTypes
<1>3. /\ drain' \in OfDrains
      /\ Saves!NoMarks(marks) => drain'.phase = "idle" /\ drain'.seqs = {}
      /\ ~Saves!NoMarks(marks) => drain'.phase = "fold" /\ drain'.seqs = seqs
  <2>1. CASE Saves!NoMarks(marks)
    BY <1>1, <1>2, <2>1, RoundBegins
  <2>2. CASE ~Saves!NoMarks(marks)
    <3>1. Saves!Rest \in OfDrains
      BY <1>2, RoundBegins
    <3>2. PICK r \in OfDrains : r = [Saves!Rest EXCEPT !.phase = "fold"]
      BY <3>1 DEF OfDrains
    <3>3. PICK n \in OfDrains : n = [r EXCEPT !.left = folds]
      BY <1>2 DEF OfDrains
    <3>4. PICK m \in OfDrains : m = [n EXCEPT !.seqs = seqs]
      BY <1>2 DEF OfDrains
    <3>5. r.phase = "fold" /\ n.phase = r.phase /\ m.phase = n.phase /\ m.seqs = seqs
      BY <3>1, <3>2, <3>3, <3>4 DEF OfDrains
    <3>6. drain' = m
      BY <1>1, <2>2, <3>2, <3>3, <3>4
    <3> QED BY <2>2, <3>5, <3>6
  <2> QED BY <2>1, <2>2
<1>4. /\ marks' \in [Saves!File -> Batch \cup {Saves!None}] /\ early' \subseteq Batch /\ seqs' = {}
      /\ early \subseteq early'
  <2>1. Elems(chain) \subseteq Batch
    BY <1>2, ChainElems
  <2> QED BY <1>1, <1>2, <2>1 DEF SaveTypes
<1>5. SaveTypes'
  BY <1>1, <1>2, <1>3, <1>4 DEF SaveTypes
<1>6. ChainFits' /\ OneEach(lane')
  BY <1>1 DEF SaveInv, ChainFits
<1>7. ASSUME NEW e \in Elems(lane') PROVE EntryFits(e)'
  <2>1. EntryFits(e)
    BY <1>1 DEF SaveInv
  <2> QED BY <1>1, <2>1 DEF EntryFits
<1>8. \A x \in seqs' \cup drain'.seqs : batch'[x] \in Noted
  BY <1>1, <1>3, <1>4 DEF SaveInv
<1>9. /\ drain'.phase = "idle" => Saves!NoMarks(marks')
      /\ \A f \in Saves!File : marks'[f] # Saves!None => Key(marks'[f]) = f
  BY <1>1, <1>3 DEF SaveInv
<1>10. ASSUME NEW x \in Batch PROVE BatchFits(x)'
  <2>1. CASE Excused(x)
    BY <1>1, <1>4, <2>1, ExcusedStays DEF BatchFits
  <2>2. CASE ~Excused(x)
    <3>1. /\ batch[x] = "waiting" => marks[Key(x)] # Saves!None
          /\ batch[x] = "pending" => x \in seqs /\ marks[Key(x)] # Saves!None
      BY <1>1, <2>2 DEF SaveInv, BatchFits, Carried
    <3>2. CASE Saves!NoMarks(marks)
      <4>1. Key(x) \in Saves!File
        BY DEF Saves!File
      <4> QED BY <1>1, <3>1, <3>2, <4>1 DEF BatchFits, Saves!NoMarks
    <3>3. CASE ~Saves!NoMarks(marks)
      <4>1. batch[x] = "waiting" => Excused(x)'
        BY <1>1, <1>2, <3>3 DEF ChainFits, Excused
      <4>2. batch[x] = "pending" => Carried(x)'
        BY <1>3, <3>1, <3>3 DEF Carried
      <4> QED BY <1>1, <4>1, <4>2 DEF BatchFits
    <3> QED BY <3>2, <3>3
  <2> QED BY <2>1, <2>2
<1> QED BY <1>5, <1>6, <1>7, <1>8, <1>9, <1>10 DEF SaveInv

\* A fold has ended.
LEMMA SavesFoldDone == ASSUME SaveInv, Saves!FoldDone PROVE SaveInv'
<1>1. /\ folds > 0 /\ folds' = folds - 1 /\ drain' = [drain EXCEPT !.left = IF @ = 0 THEN 0 ELSE @ - 1]
      /\ batch' = batch /\ early' = early /\ marks' = marks /\ seqs' = seqs /\ chain' = chain /\ lane' = lane
  BY DEF Saves!FoldDone
<1>2. SaveTypes /\ drain \in OfDrains /\ folds \in Nat
  BY DEF SaveInv, SaveTypes
<1>3. drain.left \in Nat
  BY <1>2 DEF OfDrains
<1>4. PICK k \in Nat : k = (IF drain.left = 0 THEN 0 ELSE drain.left - 1)
  BY <1>3
<1>5. PICK n \in OfDrains : n = [drain EXCEPT !.left = k]
  BY <1>2 DEF OfDrains
<1>6. n.phase = drain.phase /\ n.seqs = drain.seqs
  BY <1>2, <1>5 DEF OfDrains
<1>7. drain' = n
  BY <1>1, <1>4, <1>5
<1>8. SaveTypes' /\ drain'.phase = drain.phase /\ drain'.seqs = drain.seqs
  BY <1>1, <1>2, <1>6, <1>7 DEF SaveTypes
<1>9. \A e \in Elems(lane') : EntryFits(e)'
  BY <1>1, <1>8 DEF SaveInv, EntryFits
<1>10. ChainFits' /\ OneEach(lane')
  BY <1>1 DEF SaveInv, ChainFits
<1>11. \A x \in Batch : BatchFits(x)'
  BY <1>1, <1>8 DEF SaveInv, BatchFits, Excused, Carried
<1> QED BY <1>1, <1>8, <1>9, <1>10, <1>11 DEF SaveInv, Saves!NoMarks

\* A build is asked for: it covers all that the journal holds, what the drain carries with it.
LEMMA SavesStartPublish == ASSUME SaveInv, Saves!StartPublish PROVE SaveInv'
<1> DEFINE covers == {b \in Batch : batch[b] \in {"pending", "failed", "unrecorded"}}
<1>1. /\ drain.phase = "fold" /\ drain' = [drain EXCEPT !.phase = "publish"]
      /\ lane' = Append(lane, Saves!Build(covers))
      /\ batch' = batch /\ early' = early /\ marks' = marks /\ seqs' = seqs /\ chain' = chain /\ folds' = folds
  BY DEF Saves!StartPublish
<1>2. SaveTypes /\ drain \in OfDrains /\ lane \in Seq(Entry) /\ OneEach(lane)
  BY DEF SaveInv, SaveTypes
<1>3. drain' \in OfDrains /\ drain'.phase = "publish" /\ drain'.seqs = drain.seqs
  BY <1>1, <1>2 DEF OfDrains
<1>4. PICK n \in Entry : n = Saves!Build(covers)
  BY DEF Saves!Build, Entry, OfDrain
<1>5. n.kind = "build" /\ n.of = covers
  BY <1>4 DEF Saves!Build
<1>6. lane' \in Seq(Entry) /\ OneEach(lane') /\ Elems(lane') = Elems(lane) \cup {n} /\ Free(lane, OfDrain)
  <2>1. Free(lane, OfDrain)
    BY <1>1, LaneFree
  <2> QED BY <1>1, <1>2, <1>4, <1>5, <2>1, LaneAppend DEF InChain
<1>7. SaveTypes'
  BY <1>1, <1>2, <1>3, <1>6 DEF SaveTypes
<1>8. ASSUME NEW e \in Elems(lane') PROVE EntryFits(e)'
  <2>1. CASE e \in Elems(lane)
    <3>1. EntryFits(e) /\ e.kind \notin OfDrain
      BY <1>6, <2>1 DEF SaveInv, Free, Elems
    <3> QED BY <1>1, <3>1 DEF EntryFits, OfDrain
  <2>2. CASE e = n
    BY <1>1, <1>3, <1>5, <2>2 DEF EntryFits, InChain, Noted
  <2> QED BY <1>6, <2>1, <2>2
<1>9. ASSUME NEW x \in Batch PROVE BatchFits(x)'
  <2>1. CASE Excused(x)
    BY <1>1, <2>1, ExcusedStays DEF BatchFits
  <2>2. CASE ~Excused(x)
    <3>1. Carried(x) /\ batch[x] = "pending" => Carried(x)'
      BY <1>1, <1>3, <1>5, <1>6 DEF Carried
    <3> QED BY <1>1, <2>2, <3>1 DEF SaveInv, BatchFits
  <2> QED BY <2>1, <2>2
<1>10. ChainFits'
  BY <1>1 DEF SaveInv, ChainFits
<1> QED BY <1>1, <1>3, <1>6, <1>7, <1>8, <1>9, <1>10 DEF SaveInv

\* The drain has one entry in the lane.
LEMMA LaneOne ==
  ASSUME NEW l \in Seq(Entry), l # <<>>, OneEach(l), Head(l).kind \in OfDrain
  PROVE  /\ \A e \in Elems(l) : e.kind \in OfDrain => e = Head(l)
         /\ Free(Tail(l), OfDrain)
         /\ \A e \in Elems(Tail(l)) : e \in Elems(l) /\ e.kind \in InChain
<1>1. Elems(l) = Elems(Tail(l)) \cup {Head(l)} /\ Free(Tail(l), OfDrain) /\ Elems(l) \subseteq Entry
  BY LaneTail, LaneElems
<1>2. \A e \in Elems(Tail(l)) : e \in Elems(l) /\ e \in Entry /\ e.kind \notin OfDrain
  BY <1>1 DEF Elems, Free
<1>3. \A e \in Entry : e.kind \in InChain \cup OfDrain
  BY DEF Entry
<1> QED BY <1>1, <1>2, <1>3

\* The run ends with its last entry: what it carried is settled, what is marked is for the next.
LEMMA SavesRunEnds ==
  ASSUME SaveInv, lane # <<>>, Head(lane).kind \in OfDrain, lane' = Tail(lane), Saves!EndRun(marks, chain),
         UNCHANGED <<marks, chain, early, folds>>,
         batch' \in [Batch -> Noted \cup {"new", "waiting", "refused"}],
         \A x \in Batch : /\ IF batch[x] \in Noted THEN batch'[x] \in Noted ELSE batch'[x] = batch[x]
                          /\ batch'[x] = "pending" => batch[x] = "pending" /\ ~Carried(x)
  PROVE  SaveInv'
<1>1. /\ SaveTypes /\ ChainFits /\ lane \in Seq(Entry) /\ OneEach(lane) /\ chain \in Seq(Batch)
      /\ \A e \in Elems(lane) : EntryFits(e)
  BY DEF SaveInv, SaveTypes
<1>2. /\ Tail(lane) \in Seq(Entry) /\ OneEach(Tail(lane))
      /\ \A e \in Elems(Tail(lane)) : e \in Elems(lane) /\ e.kind \in InChain
  BY <1>1, LaneTail, LaneOne
<1>3. /\ drain' \in OfDrains /\ drain'.seqs = {}
      /\ drain'.phase = "idle" => Saves!NoMarks(marks)
      /\ seqs' = IF Saves!NoMarks(marks) THEN {} ELSE seqs
  <2>1. CASE Saves!NoMarks(marks)
    BY <1>1, <2>1, RoundBegins DEF Saves!EndRun
  <2>2. CASE ~Saves!NoMarks(marks)
    BY <1>1, <2>2, RoundBegins DEF Saves!EndRun
  <2> QED BY <2>1, <2>2
<1>4. SaveTypes'
  BY <1>1, <1>2, <1>3 DEF SaveTypes
<1>5. \A x \in Batch : /\ batch'[x] = "waiting" <=> batch[x] = "waiting"
                       /\ batch'[x] = "refused" <=> batch[x] = "refused"
  BY DEF Noted
<1>6. ChainFits'
  <2>1. \A x \in Elems(chain) : x \in Batch
    BY <1>1, ChainElems
  <2> QED BY <1>1, <1>5, <2>1 DEF ChainFits
<1>7. ASSUME NEW e \in Elems(lane') PROVE EntryFits(e)'
  <2>1. EntryFits(e) /\ e.kind \in InChain
    BY <1>1, <1>2
  <2>2. chain # <<>> /\ batch[Head(chain)] = (IF e.kind = "journal" THEN "waiting" ELSE "refused")
    BY <2>1 DEF EntryFits
  <2>3. Head(chain) \in Batch
    BY <1>1, <2>2
  <2>4. batch'[Head(chain)] = (IF e.kind = "journal" THEN "waiting" ELSE "refused")
    BY <1>5, <2>2, <2>3
  <2> QED BY <2>1, <2>2, <2>4 DEF EntryFits, InChain, OfDrain
<1>8. \A x \in seqs' \cup drain'.seqs : batch'[x] \in Noted
  <2>1. \A x \in seqs : x \in Batch /\ batch[x] \in Noted
    BY <1>1 DEF SaveInv, SaveTypes
  <2> QED BY <1>3, <2>1
<1>9. /\ drain'.phase = "idle" => Saves!NoMarks(marks')
      /\ \A f \in Saves!File : marks'[f] # Saves!None => Key(marks'[f]) = f
  BY <1>3 DEF SaveInv
<1>10. ASSUME NEW x \in Batch PROVE BatchFits(x)'
  <2>1. CASE Excused(x)
    BY <1>5, <2>1, ExcusedStays DEF BatchFits
  <2>2. CASE ~Excused(x)
    <3>1. /\ batch[x] = "waiting" => marks[Key(x)] # Saves!None
          /\ batch'[x] = "pending" => x \in seqs /\ marks[Key(x)] # Saves!None
      BY <2>2 DEF SaveInv, BatchFits
    <3>2. Saves!NoMarks(marks) => marks[Key(x)] = Saves!None
      BY DEF Saves!NoMarks, Saves!File
    <3> QED BY <1>3, <1>5, <3>1, <3>2 DEF BatchFits
  <2> QED BY <2>1, <2>2
<1> QED BY <1>2, <1>4, <1>6, <1>7, <1>8, <1>9, <1>10 DEF SaveInv

\* The dense part of an edition ends its run: the build before it took what the run carried.
LEMMA SavesDenseEnds == ASSUME SaveInv, lane # <<>>, Saves!DenseEnds, UNCHANGED <<early, folds>> PROVE SaveInv'
<1>1. /\ Head(lane).kind = "dense" /\ Saves!EndRun(marks, chain) /\ lane' = Tail(lane)
      /\ batch' = batch /\ marks' = marks /\ chain' = chain
  BY DEF Saves!DenseEnds
<1>2. /\ lane \in Seq(Entry) /\ OneEach(lane) /\ \A e \in Elems(lane) : EntryFits(e)
      /\ batch \in [Batch -> Noted \cup {"new", "waiting", "refused"}]
  BY DEF SaveInv, SaveTypes
<1>3. drain.phase = "publish" /\ \A e \in Elems(lane) : e.kind \in OfDrain => e = Head(lane)
  <2>1. Head(lane) \in Elems(lane)
    BY <1>2, LaneTail
  <2> QED BY <1>1, <1>2, <2>1, LaneOne DEF EntryFits, OfDrain
<1>4. \A x \in Batch : ~Carried(x)
  BY <1>1, <1>3 DEF Carried, OfDrain
<1> QED BY <1>1, <1>2, <1>4, SavesRunEnds DEF OfDrain

\* What the drain carries in its last phase is what the record of its failure is of.
LEMMA SavesRecord ==
  ASSUME SaveInv, lane # <<>>, Head(lane).kind = "failure"
  PROVE  /\ Head(lane).of \subseteq Batch /\ \A b \in Head(lane).of : batch[b] \in Noted
         /\ \A x \in Batch : Carried(x) => x \in Head(lane).of
<1>1. lane \in Seq(Entry) /\ OneEach(lane) /\ \A e \in Elems(lane) : EntryFits(e)
  BY DEF SaveInv, SaveTypes
<1>2. /\ Head(lane) \in Elems(lane) /\ Head(lane) \in Entry
      /\ \A e \in Elems(lane) : e.kind \in OfDrain => e = Head(lane)
  BY <1>1, LaneTail, LaneOne DEF OfDrain
<1>3. drain.phase = "record" /\ \A b \in Head(lane).of : batch[b] \in Noted
  BY <1>1, <1>2 DEF EntryFits, OfDrain
<1>4. \A x \in Batch : Carried(x) => x \in Head(lane).of
  BY <1>2, <1>3 DEF Carried, OfDrain
<1> QED BY <1>2, <1>3, <1>4 DEF Entry

\* The failure is on record: what the run carried has failed.
LEMMA SavesFailureRecorded ==
  ASSUME SaveInv, lane # <<>>, Saves!FailureRecorded, UNCHANGED <<early, folds>> PROVE SaveInv'
<1>1. /\ Head(lane).kind = "failure" /\ Saves!EndRun(marks, chain) /\ lane' = Tail(lane)
      /\ batch' = [b \in Batch |-> IF b \in Head(lane).of THEN "failed" ELSE batch[b]]
      /\ marks' = marks /\ chain' = chain
  BY DEF Saves!FailureRecorded
<1>2. batch \in [Batch -> Noted \cup {"new", "waiting", "refused"}]
  BY DEF SaveInv, SaveTypes
<1>3. /\ \A b \in Head(lane).of : batch[b] \in Noted
      /\ \A x \in Batch : Carried(x) => x \in Head(lane).of
  BY <1>1, SavesRecord
<1>4. /\ batch' \in [Batch -> Noted \cup {"new", "waiting", "refused"}]
      /\ \A x \in Batch : /\ IF batch[x] \in Noted THEN batch'[x] \in Noted ELSE batch'[x] = batch[x]
                          /\ batch'[x] = "pending" => batch[x] = "pending" /\ ~Carried(x)
  BY <1>1, <1>2, <1>3 DEF Noted
<1> QED BY <1>1, <1>4, SavesRunEnds DEF OfDrain

\* The failure cannot be recorded: what the run carried is left to the journal.
LEMMA SavesRecordFails ==
  ASSUME SaveInv, lane # <<>>, Saves!RecordFails, UNCHANGED <<early, folds>> PROVE SaveInv'
<1>1. /\ Head(lane).kind = "failure" /\ Saves!EndRun(marks, chain) /\ lane' = Tail(lane)
      /\ batch' = [b \in Batch |-> IF b \in Head(lane).of /\ batch[b] = "pending" THEN "unrecorded" ELSE batch[b]]
      /\ marks' = marks /\ chain' = chain
  BY DEF Saves!RecordFails
<1>2. batch \in [Batch -> Noted \cup {"new", "waiting", "refused"}]
  BY DEF SaveInv, SaveTypes
<1>3. \A x \in Batch : Carried(x) => x \in Head(lane).of
  BY <1>1, SavesRecord
<1>4. /\ batch' \in [Batch -> Noted \cup {"new", "waiting", "refused"}]
      /\ \A x \in Batch : /\ IF batch[x] \in Noted THEN batch'[x] \in Noted ELSE batch'[x] = batch[x]
                          /\ batch'[x] = "pending" => batch[x] = "pending" /\ ~Carried(x)
  BY <1>1, <1>2, <1>3 DEF Noted
<1> QED BY <1>1, <1>4, SavesRunEnds DEF OfDrain

\* The edition is published: what it covers is acknowledged, so all that the run carried.
LEMMA SavesBuilt == ASSUME SaveInv, lane # <<>>, Saves!Built, UNCHANGED <<early, folds>> PROVE SaveInv'
<1> DEFINE dense == [kind |-> "dense", of |-> {}]
<1>1. /\ Head(lane).kind = "build" /\ lane' = Append(Tail(lane), dense)
      /\ batch' = [b \in Batch |-> IF b \in Head(lane).of THEN "acked" ELSE batch[b]]
      /\ marks' = marks /\ seqs' = seqs /\ chain' = chain /\ drain' = drain /\ early' = early /\ folds' = folds
  BY DEF Saves!Built
<1>2. /\ SaveTypes /\ ChainFits /\ lane \in Seq(Entry) /\ OneEach(lane) /\ chain \in Seq(Batch)
      /\ \A e \in Elems(lane) : EntryFits(e)
  BY DEF SaveInv, SaveTypes
<1>3. /\ Tail(lane) \in Seq(Entry) /\ OneEach(Tail(lane)) /\ Free(Tail(lane), OfDrain)
      /\ Head(lane) \in Elems(lane)
      /\ Head(lane) \in Entry
      /\ \A e \in Elems(lane) : e.kind \in OfDrain => e = Head(lane)
      /\ \A e \in Elems(Tail(lane)) : e \in Elems(lane) /\ e.kind \in InChain
  BY <1>1, <1>2, LaneTail, LaneOne DEF OfDrain
<1>4. dense \in Entry /\ dense.kind = "dense" /\ dense.of = {}
  BY DEF Entry, OfDrain
<1> HIDE DEF dense
<1>5. lane' \in Seq(Entry) /\ OneEach(lane') /\ Elems(lane') = Elems(Tail(lane)) \cup {dense}
  BY <1>1, <1>3, <1>4, LaneAppend DEF InChain
<1>6. drain.phase = "publish" /\ \A b \in Head(lane).of : b \in Batch /\ batch[b] \in Noted
  BY <1>1, <1>2, <1>3 DEF EntryFits, OfDrain, Entry
<1>7. /\ batch' \in [Batch -> Noted \cup {"new", "waiting", "refused"}]
      /\ \A x \in Batch : IF x \in Head(lane).of THEN batch'[x] = "acked" ELSE batch'[x] = batch[x]
  BY <1>1, <1>2 DEF SaveTypes, Noted
<1>8. \A x \in Batch : /\ batch'[x] = "waiting" <=> batch[x] = "waiting"
                       /\ batch'[x] = "refused" <=> batch[x] = "refused"
                       /\ batch[x] \in Noted => batch'[x] \in Noted
  BY <1>6, <1>7 DEF Noted
<1>9. SaveTypes'
  BY <1>1, <1>2, <1>5, <1>7 DEF SaveTypes
<1>10. ChainFits'
  <2>1. \A x \in Elems(chain) : x \in Batch
    BY <1>2, ChainElems
  <2> QED BY <1>1, <1>2, <1>8, <2>1 DEF ChainFits
<1>11. ASSUME NEW e \in Elems(lane') PROVE EntryFits(e)'
  <2>1. CASE e \in Elems(Tail(lane))
    <3>1. EntryFits(e) /\ e.kind \in InChain
      BY <1>2, <1>3, <2>1
    <3>2. chain # <<>> /\ batch[Head(chain)] = (IF e.kind = "journal" THEN "waiting" ELSE "refused")
      BY <3>1 DEF EntryFits
    <3>3. Head(chain) \in Batch
      BY <1>2, <3>2
    <3>4. batch'[Head(chain)] = (IF e.kind = "journal" THEN "waiting" ELSE "refused")
      BY <1>8, <3>2, <3>3
    <3> QED BY <1>1, <3>1, <3>2, <3>4 DEF EntryFits, InChain, OfDrain
  <2>2. CASE e = dense
    BY <1>1, <1>4, <1>6, <2>2 DEF EntryFits, InChain
  <2> QED BY <1>5, <2>1, <2>2
<1>12. \A x \in seqs' \cup drain'.seqs : batch'[x] \in Noted
  <2>1. \A x \in seqs \cup drain.seqs : x \in Batch /\ batch[x] \in Noted
    BY <1>2 DEF SaveInv, SaveTypes, OfDrains
  <2> QED BY <1>1, <1>8, <2>1
<1>13. /\ drain'.phase = "idle" => Saves!NoMarks(marks')
       /\ \A f \in Saves!File : marks'[f] # Saves!None => Key(marks'[f]) = f
  BY <1>1 DEF SaveInv
<1>14. ASSUME NEW x \in Batch PROVE BatchFits(x)'
  <2>1. CASE Excused(x)
    BY <1>1, <1>8, <2>1, ExcusedStays DEF BatchFits
  <2>2. CASE ~Excused(x)
    <3>1. /\ batch[x] = "waiting" => marks[Key(x)] # Saves!None
          /\ batch[x] = "pending" => (x \in seqs /\ marks[Key(x)] # Saves!None) \/ Carried(x)
      BY <2>2 DEF SaveInv, BatchFits
    <3>2. Carried(x) => batch'[x] = "acked"
      BY <1>3, <1>6, <1>7 DEF Carried, OfDrain
    <3> QED BY <1>1, <1>7, <1>8, <3>1, <3>2 DEF BatchFits
  <2> QED BY <2>1, <2>2
<1> QED BY <1>5, <1>9, <1>10, <1>11, <1>12, <1>13, <1>14 DEF SaveInv

\* The build fails: what the run carried is in the record of its failure.
LEMMA SavesBuildFails == ASSUME SaveInv, lane # <<>>, Saves!BuildFails,
                                UNCHANGED <<early, folds>> PROVE SaveInv'
<1>1. /\ Head(lane).kind = "build" /\ drain' = [drain EXCEPT !.phase = "record"]
      /\ lane' = Append(Tail(lane), Saves!Diagnose("failure", drain.seqs))
      /\ batch' = batch /\ marks' = marks /\ seqs' = seqs /\ chain' = chain /\ early' = early /\ folds' = folds
  BY DEF Saves!BuildFails
<1>2. /\ SaveTypes /\ drain \in OfDrains /\ lane \in Seq(Entry) /\ OneEach(lane)
      /\ \A e \in Elems(lane) : EntryFits(e)
  BY DEF SaveInv, SaveTypes
<1>3. /\ Tail(lane) \in Seq(Entry) /\ OneEach(Tail(lane)) /\ Free(Tail(lane), OfDrain)
      /\ \A e \in Elems(Tail(lane)) : e \in Elems(lane) /\ e.kind \in InChain
  BY <1>1, <1>2, LaneTail, LaneOne DEF OfDrain
<1>4. drain' \in OfDrains /\ drain'.phase = "record" /\ drain'.seqs = drain.seqs /\ drain.seqs \subseteq Batch
  BY <1>1, <1>2 DEF OfDrains
<1>5. PICK n \in Entry : n = Saves!Diagnose("failure", drain.seqs)
  BY <1>4 DEF Saves!Diagnose, Entry, OfDrain
<1>6. n.kind = "failure" /\ n.of = drain.seqs
  BY <1>5 DEF Saves!Diagnose
<1>7. lane' \in Seq(Entry) /\ OneEach(lane') /\ Elems(lane') = Elems(Tail(lane)) \cup {n}
  BY <1>1, <1>3, <1>5, <1>6, LaneAppend DEF InChain
<1>8. SaveTypes'
  BY <1>1, <1>2, <1>4, <1>7 DEF SaveTypes
<1>9. ASSUME NEW e \in Elems(lane') PROVE EntryFits(e)'
  <2>1. CASE e \in Elems(Tail(lane))
    <3>1. EntryFits(e) /\ e.kind \in InChain
      BY <1>2, <1>3, <2>1
    <3> QED BY <1>1, <3>1 DEF EntryFits, InChain, OfDrain
  <2>2. CASE e = n
    <3>1. \A b \in n.of : batch[b] \in Noted
      BY <1>6 DEF SaveInv
    <3> QED BY <1>1, <1>4, <1>6, <2>2, <3>1 DEF EntryFits, InChain
  <2> QED BY <1>7, <2>1, <2>2
<1>10. ASSUME NEW x \in Batch PROVE BatchFits(x)'
  <2>1. CASE Excused(x)
    BY <1>1, <2>1, ExcusedStays DEF BatchFits
  <2>2. CASE ~Excused(x)
    <3>1. Carried(x) => Carried(x)'
      BY <1>4, <1>6, <1>7 DEF Carried
    <3> QED BY <1>1, <2>2, <3>1 DEF SaveInv, BatchFits
  <2> QED BY <2>1, <2>2
<1>11. ChainFits' /\ \A x \in seqs' \cup drain'.seqs : batch'[x] \in Noted
  BY <1>1, <1>4 DEF SaveInv, ChainFits
<1> QED BY <1>1, <1>4, <1>7, <1>8, <1>9, <1>10, <1>11 DEF SaveInv

\* Every step of the queue keeps the invariant.
LEMMA SavesStep == ASSUME SaveInv, SaveConstants, [Saves!Next]_(Saves!vars) PROVE SaveInv'
<1>1. CASE Saves!DrainTake
  BY <1>1, SavesDrainTake
<1>2. CASE Saves!LaneStep
  <2>1. lane # <<>> /\ UNCHANGED <<early, folds>>
    BY <1>2 DEF Saves!LaneStep
  <2>2. CASE Saves!Journaled \/ Saves!JournalFails \/ Saves!RefusalRecorded
    BY <2>1, <2>2, SavesJournaled, SavesJournalFails, SavesRefusalRecorded
  <2>3. CASE Saves!Built \/ Saves!DenseEnds \/ Saves!BuildFails
    BY <2>1, <2>3, SavesBuilt, SavesDenseEnds, SavesBuildFails
  <2>4. CASE Saves!FailureRecorded \/ Saves!RecordFails
    BY <2>1, <2>4, SavesFailureRecorded, SavesRecordFails
  <2> QED BY <1>2, <2>2, <2>3, <2>4 DEF Saves!LaneStep
<1>3. CASE Saves!FoldDone
  BY <1>3, SavesFoldDone
<1>4. CASE Saves!StartPublish
  BY <1>4, SavesStartPublish
<1>5. CASE \E b \in Batch : Saves!Enqueue(b)
  BY <1>5, SavesEnqueue
<1>6. CASE UNCHANGED Saves!vars
  <2>1. /\ batch' = batch /\ early' = early /\ marks' = marks /\ seqs' = seqs /\ chain' = chain
        /\ folds' = folds /\ drain' = drain /\ lane' = lane
    BY <1>6 DEF Saves!vars
  <2> QED BY <2>1 DEF SaveInv, SaveTypes, ChainFits, EntryFits, BatchFits, Excused, Carried, Saves!NoMarks
<1> QED BY <1>1, <1>2, <1>3, <1>4, <1>5, <1>6 DEF Saves!Next

\* When the queue is at rest every save was published, or its failure is on record unless the
\* record failed too; only one whose marks were taken before it was journaled, or whose file has
\* a later batch that was refused, may be left to the next edition.
THEOREM SavesStaySettled == ASSUME SaveConstants PROVE Saves!Spec => []Saves!SavesAreSettled
<1>1. Saves!Init => SaveInv
  BY SavesStart
<1>2. SaveInv /\ [Saves!Next]_(Saves!vars) => SaveInv'
  BY SavesStep
<1>3. SaveInv => Saves!SavesAreSettled
  <2> SUFFICES ASSUME SaveInv, drain.phase = "idle", chain = <<>>, NEW b \in Batch, ~Excused(b)
               PROVE  batch[b] \in {"new", "acked", "failed", "refused", "unrecorded"}
    BY DEF Saves!SavesAreSettled, Excused
  <2>1. batch[b] \in Noted \cup {"new", "waiting", "refused"}
    BY DEF SaveInv, SaveTypes
  <2>2. batch[b] # "waiting"
    BY DEF SaveInv, ChainFits, Elems
  <2>3. marks[Key(b)] = Saves!None /\ ~Carried(b)
    BY DEF SaveInv, Saves!NoMarks, Saves!File, Carried
  <2>4. batch[b] # "pending"
    BY <2>3 DEF SaveInv, BatchFits
  <2> QED BY <2>1, <2>2, <2>4 DEF Noted
<1> QED BY <1>1, <1>2, <1>3, PTL DEF Saves!Spec

-----------------------------------------------------------------------------
(* SuccessorBreaker.                                                        *)

CONSTANTS Client, Binaries, MaxFailures, Window, Base, MaxDelay, Ttl, MaxClaims, MaxNow
VARIABLES now, file, claim, client, daemon, taken, spawns, stolen

Churn == INSTANCE SuccessorBreaker

\* Attempts, claims and time are counted.
ChurnConstants == MaxFailures \in Nat /\ Window \in Nat /\ MaxClaims \in Nat

Version == {"none"} \cup UNION {{b[c] : c \in Client} : b \in Binaries}
Until   == {0} \cup UNION {{t + Churn!Delay(n) : t \in Nat} : n \in Nat}
Budget == [version : Version, attempts : Nat, first : Nat, until : Until, holder : Nat]
Breaker == [kind : {"missing", "corrupt", "ok"}, rec : Budget]
Claim   == [id : Nat, side : {"none", "client", "daemon"}, since : Nat]
Starter == [at : {"idle", "claimed", "admitted", "charged", "done"}, id : Nat, version : Version, rec : Budget]
Boot    == [at : {"none", "started", "bound", "booting", "gone"}, version : Version]

ChurnTypes ==
  /\ now \in Nat /\ now >= 1 /\ file \in Breaker /\ claim \in Claim /\ taken \in 0..MaxClaims
  /\ client \in [Client -> Starter] /\ daemon \in [1..MaxClaims -> Boot]
  /\ spawns \in Seq(Nat) /\ stolen \in BOOLEAN

\* An id is taken once; the daemon of a client that has yet to start it is not there.
Holding == {"claimed", "admitted", "charged"}

StarterFits(c) ==
  /\ client[c].id <= taken
  /\ client[c].at = "idle" <=> client[c].id = 0
  /\ \A d \in Client : client[d].id = client[c].id /\ client[c].id # 0 => d = c
  /\ client[c].at \in Holding => daemon[client[c].id].at = "none"

BootFits(i) == daemon[i].at # "none" => i <= taken

\* Who goes on has the claim.
StarterHolds(c) == client[c].at \in Holding => claim.id = client[c].id /\ claim.side = "client"
BootHolds(i) == daemon[i].at \in {"bound", "booting"} => claim.id = i /\ claim.side = "daemon"

\* All but the last n starts were before the budget began at first; those that are a whole budget
\* older were before the budget that preceded it.
Before(first, n) ==
  \A i \in 1..Len(spawns) : /\ i <= Len(spawns) - n => spawns[i] <= first
                            /\ i <= Len(spawns) - n - MaxFailures => spawns[i] + Window <= first

Counted(r, n) == r.first \in 1..now /\ r.attempts \in 1..MaxFailures /\ Before(r.first, n)

FileCounts ==
  /\ file.kind = "missing" => spawns = << >>
  /\ file.kind = "ok" => Counted(file.rec, file.rec.attempts)

StarterCounts(c) ==
  /\ client[c].at \in {"admitted", "charged"} => Counted(client[c].rec, client[c].rec.attempts - 1)
  /\ client[c].at = "charged" => file = Churn!Written(client[c].rec)

SpawnsFit ==
  /\ \A i \in 1..Len(spawns) : spawns[i] <= now
  /\ \A i \in 1..Len(spawns) - 2 * MaxFailures : spawns[i] + Window <= spawns[i + 2 * MaxFailures]

ChurnInv ==
  /\ ChurnTypes /\ claim.id <= taken
  /\ \A c \in Client : StarterFits(c)
  /\ \A i \in 1..MaxClaims : BootFits(i)
  /\ ~stolen => /\ \A c \in Client : StarterHolds(c) /\ StarterCounts(c)
                /\ \A i \in 1..MaxClaims : BootHolds(i)
                /\ FileCounts /\ SpawnsFit

\* The records of a budget, of a client and of a daemon, as the actions make them.
LEMMA ChurnRecords ==
  ASSUME NEW v \in Version
  PROVE  /\ Churn!Fresh(v) \in Budget /\ Churn!Fresh(v).attempts = 0 /\ Churn!Fresh(v).first = 0
         /\ Churn!Fresh(v).holder = 0
         /\ Churn!Missing \in Breaker /\ Churn!Missing.kind = "missing"
         /\ Churn!Idle(v) \in Starter /\ Churn!Idle(v).at = "idle" /\ Churn!Idle(v).id = 0
<1>1. "none" \in Version /\ 0 \in Until
  BY DEF Version, Until
<1>2. \A w \in Version : /\ Churn!Fresh(w) \in Budget /\ Churn!Fresh(w).attempts = 0 /\ Churn!Fresh(w).first = 0
                         /\ Churn!Fresh(w).holder = 0
  BY <1>1 DEF Churn!Fresh, Budget
<1> QED BY <1>1, <1>2 DEF Churn!Missing, Churn!Idle, Breaker, Starter

LEMMA ChurnWrites ==
  ASSUME NEW r \in Budget
  PROVE  Churn!Written(r) \in Breaker /\ Churn!Written(r).kind = "ok" /\ Churn!Written(r).rec = r
BY DEF Churn!Written, Breaker

LEMMA ChurnCharges ==
  ASSUME now \in Nat, NEW r \in Budget, NEW id \in Nat
  PROVE  /\ Churn!Charged(r, id) \in Budget /\ Churn!Charged(r, id).attempts = r.attempts + 1
         /\ Churn!Charged(r, id).first = IF r.first = 0 THEN now ELSE r.first
<1>1. PICK n \in Nat : n = r.attempts + 1
  BY DEF Budget
<1>2. PICK t \in Nat : t = IF r.first = 0 THEN now ELSE r.first
  BY DEF Budget
<1>3. PICK u \in Until : u = now + Churn!Delay(n)
  <2> DEFINE T(k) == {m + Churn!Delay(k) : m \in Nat}
  <2>1. now + Churn!Delay(n) \in T(n)
    OBVIOUS
  <2>2. T(n) \subseteq Until
    BY DEF Until
  <2> QED BY <2>1, <2>2
<1>4. PICK r1 \in Budget : r1 = [r EXCEPT !.holder = id]
  BY DEF Budget
<1>5. PICK r2 \in Budget : r2 = [r1 EXCEPT !.attempts = n]
  BY DEF Budget
<1>6. r2.attempts = n
  BY <1>5 DEF Budget
<1>7. PICK r3 \in Budget : r3 = [r2 EXCEPT !.first = t]
  BY DEF Budget
<1>8. r3.attempts = n /\ r3.first = t
  BY <1>6, <1>7 DEF Budget
<1>9. PICK r4 \in Budget : r4 = [r3 EXCEPT !.until = u]
  BY DEF Budget
<1>10. r4.attempts = n /\ r4.first = t
  BY <1>8, <1>9 DEF Budget
<1>11. Churn!Charged(r, id) = r4
  BY <1>1, <1>2, <1>3, <1>4, <1>5, <1>7, <1>9 DEF Churn!Charged
<1> QED BY <1>1, <1>2, <1>10, <1>11

\* What a process of some version finds in the file.
LEMMA ChurnFinds ==
  ASSUME ChurnTypes, NEW v \in Version
  PROVE  /\ Churn!Usable(v) \in Budget /\ Churn!SetAside(v) \in Breaker /\ Churn!Charges(v) \in Seq(Nat)
BY ChurnRecords DEF ChurnTypes, Breaker, Churn!Usable, Churn!SetAside, Churn!Charges

LEMMA ChurnFacts ==
  ASSUME ChurnInv
  PROVE  /\ ChurnTypes /\ claim.id <= taken /\ now \in Nat /\ now >= 1 /\ taken \in Nat /\ claim \in Claim
         /\ \A c \in Client : client[c] \in Starter /\ StarterFits(c)
         /\ \A i \in 1..MaxClaims : daemon[i] \in Boot /\ BootFits(i)
BY SMTT(60) DEF ChurnInv, ChurnTypes

\* A client has become n, and the others stay.
LEMMA StarterMoves ==
  ASSUME ChurnInv, NEW c \in Client, NEW n \in Starter, client' = [client EXCEPT ![c] = n]
  PROVE  client' \in [Client -> Starter] /\ client'[c] = n /\ \A d \in Client : d # c => client'[d] = client[d]
BY DEF ChurnInv, ChurnTypes

LEMMA BootMoves ==
  ASSUME ChurnInv, NEW i \in 1..MaxClaims, NEW n \in Boot, daemon' = [daemon EXCEPT ![i] = n]
  PROVE  daemon' \in [1..MaxClaims -> Boot] /\ daemon'[i] = n /\ \A j \in 1..MaxClaims : j # i => daemon'[j] = daemon[j]
BY DEF ChurnInv, ChurnTypes

LEMMA ChurnHas ==
  ASSUME ChurnInv, ChurnConstants, NEW c \in Client,
         client[c].at # "idle" PROVE client[c].id \in 1..taken /\ client[c].id \in 1..MaxClaims
<1>1. client[c].id \in Nat /\ client[c].id # 0 /\ client[c].id <= taken
  BY ChurnFacts DEF StarterFits, Starter
<1>2. taken \in 0..MaxClaims /\ MaxClaims \in Nat
  BY ChurnFacts DEF ChurnTypes, ChurnConstants
<1> QED BY <1>1, <1>2

\* A client that goes on with its id, or ends, takes nothing from the others; nor does a daemon.
LEMMA StarterIds ==
  ASSUME ChurnInv, ChurnConstants, NEW c \in Client, NEW n \in Starter, client' = [client EXCEPT ![c] = n],
         taken' = taken, daemon' = daemon,
         \/ n.at = "idle" /\ n.id = 0
         \/ n.at # "idle" /\ client[c].at # "idle" /\ n.id = client[c].id /\ (n.at \in Holding => client[c].at \in Holding)
  PROVE  \A d \in Client : StarterFits(d)'
<1>1. client'[c] = n /\ \A d \in Client : d # c => client'[d] = client[d]
  BY StarterMoves
<1>2. client[c].id <= taken /\ taken \in Nat /\ n.id \in Nat /\ n.id <= taken
  BY ChurnFacts DEF StarterFits, Starter
<1>3. \A d \in Client : StarterFits(d)
  BY ChurnFacts
<1>4. n.id = client[c].id \/ n.id = 0
  OBVIOUS
<1>5. ASSUME NEW d \in Client PROVE StarterFits(d)'
  <2>1. client'[d].id <= taken' /\ (client'[d].at = "idle" <=> client'[d].id = 0)
    BY <1>1, <1>2, <1>3 DEF StarterFits
  <2>2. \A e \in Client : client'[e].id = client'[d].id /\ client'[d].id # 0 => e = d
    BY <1>1, <1>3, <1>4 DEF StarterFits
  <2>3. client'[d].at \in Holding => daemon'[client'[d].id].at = "none"
    BY <1>1, <1>3 DEF StarterFits, Holding
  <2> QED BY <2>1, <2>2, <2>3 DEF StarterFits
<1> QED BY <1>5

LEMMA BootIds ==
  ASSUME ChurnInv, ChurnConstants, NEW i \in 1..MaxClaims, NEW n \in Boot, daemon' = [daemon EXCEPT ![i] = n],
         taken' = taken, client' = client, daemon[i].at # "none"
  PROVE  (\A d \in Client : StarterFits(d)') /\ \A j \in 1..MaxClaims : BootFits(j)'
<1>1. daemon'[i] = n /\ \A j \in 1..MaxClaims : j # i => daemon'[j] = daemon[j]
  BY BootMoves
<1>2. ASSUME NEW d \in Client PROVE StarterFits(d)'
  <2>1. StarterFits(d)
    BY ChurnFacts
  <2>2. client[d].at \in Holding => client[d].id \in 1..MaxClaims
    BY ChurnHas DEF Holding
  <2>3. client[d].at \in Holding => daemon'[client[d].id].at = "none"
    BY <1>1, <2>1, <2>2 DEF StarterFits
  <2> QED BY <2>1, <2>3 DEF StarterFits
<1>3. ASSUME NEW j \in 1..MaxClaims PROVE BootFits(j)'
  BY <1>1, ChurnFacts DEF BootFits
<1> QED BY <1>2, <1>3

\* Whoever goes on is alone with the claim, unless one was stolen.
LEMMA StarterAlone ==
  ASSUME ChurnInv, ChurnConstants, ~stolen, NEW c \in Client, client[c].at \in Holding
  PROVE  /\ claim.id = client[c].id /\ claim.side = "client"
         /\ \A d \in Client : d # c => client[d].at \notin Holding
         /\ \A i \in 1..MaxClaims : daemon[i].at \notin {"bound", "booting"}
<1>1. \A d \in Client : StarterHolds(d)
  BY DEF ChurnInv
<1>2. \A i \in 1..MaxClaims : BootHolds(i)
  BY DEF ChurnInv
<1>3. client[c].id # 0
  BY ChurnHas DEF Holding
<1>4. ASSUME NEW d \in Client, d # c PROVE client[d].at \notin Holding
  BY <1>1, <1>3, <1>4, ChurnFacts DEF StarterHolds, StarterFits
<1> QED BY <1>1, <1>2, <1>4 DEF StarterHolds, BootHolds

LEMMA BootAlone ==
  ASSUME ChurnInv, ~stolen, NEW i \in 1..MaxClaims, daemon[i].at \in {"bound", "booting"}
  PROVE  /\ claim.id = i /\ claim.side = "daemon"
         /\ \A d \in Client : client[d].at \notin Holding
         /\ \A j \in 1..MaxClaims : j # i => daemon[j].at \notin {"bound", "booting"}
<1>1. \A d \in Client : StarterHolds(d)
  BY DEF ChurnInv
<1>2. \A j \in 1..MaxClaims : BootHolds(j)
  BY DEF ChurnInv
<1> QED BY <1>1, <1>2 DEF StarterHolds, BootHolds

\* As long as nothing is started and the file is as it was, the count stays right.
LEMMA CountStays ==
  ASSUME ChurnTypes, now' \in Nat, now <= now', spawns' = spawns, NEW r, NEW n,
         Counted(r, n) PROVE Counted(r, n)'
<1>1. r.first \in 1..now'
  BY DEF Counted, ChurnTypes
<1> QED BY <1>1 DEF Counted, Before

LEMMA SpawnsStay ==
  ASSUME ChurnTypes, now' \in Nat, now <= now', spawns' = spawns, SpawnsFit PROVE SpawnsFit'
<1>1. \A i \in 1..Len(spawns) : spawns[i] \in Nat
  BY DEF ChurnTypes
<1> QED BY <1>1 DEF SpawnsFit, ChurnTypes

LEMMA BudgetStays ==
  ASSUME ChurnInv, ~stolen, now' \in Nat, now <= now', spawns' = spawns, file' = file
  PROVE  /\ FileCounts' /\ SpawnsFit'
         /\ \A c \in Client : client'[c].at = client[c].at /\ client'[c].rec = client[c].rec => StarterCounts(c)'
<1>1. ChurnTypes /\ FileCounts /\ SpawnsFit /\ \A c \in Client : StarterCounts(c)
  BY DEF ChurnInv
<1>2. SpawnsFit'
  BY <1>1, SpawnsStay
<1>3. FileCounts'
  <2>1. PICK r : r = file.rec
    OBVIOUS
  <2>2. file.kind = "ok" => Counted(r, r.attempts)'
    BY <1>1, <2>1, CountStays DEF FileCounts
  <2> QED BY <1>1, <2>1, <2>2 DEF FileCounts
<1>4. ASSUME NEW c \in Client, client'[c].at = client[c].at, client'[c].rec = client[c].rec
      PROVE StarterCounts(c)'
  <2>1. PICK r : r = client[c].rec
    OBVIOUS
  <2>2. client[c].at \in {"admitted", "charged"} => Counted(r, r.attempts - 1)'
    BY <1>1, <2>1, CountStays DEF StarterCounts
  <2>3. client[c].at = "charged" => file = Churn!Written(r)
    BY <1>1, <2>1 DEF StarterCounts
  <2> QED BY <1>4, <2>1, <2>2, <2>3 DEF StarterCounts
<1> QED BY <1>2, <1>3, <1>4

\* What a client that has the claim finds is the count that its own start will be charged to.
LEMMA ChurnUsed ==
  ASSUME ChurnInv, ChurnConstants, ~stolen, NEW v \in Version, now' = now,
         file' = Churn!SetAside(v), spawns' = Churn!Charges(v), NEW id \in Nat
  PROVE  /\ FileCounts' /\ SpawnsFit'
         /\ \A r \in Budget : /\ r = Churn!Charged(Churn!Usable(v), id)
                                /\ file.kind # "corrupt" /\ Churn!Usable(v).attempts < MaxFailures
                                => Counted(r, r.attempts - 1)'
<1>1. /\ ChurnTypes /\ FileCounts /\ SpawnsFit /\ now \in Nat /\ now >= 1
      /\ MaxFailures \in Nat /\ Window \in Nat
  BY ChurnFacts DEF ChurnInv, ChurnConstants
<1>2. PICK u \in Budget : u = Churn!Usable(v)
  BY <1>1, ChurnFinds
<1>3. file.kind \in {"missing", "corrupt", "ok"} /\ file.rec \in Budget
  BY <1>1 DEF ChurnTypes, Breaker
<1>4. ASSUME NEW r \in Budget, r = Churn!Charged(u, id)
      PROVE /\ r.attempts = u.attempts + 1 /\ u.attempts \in Nat
                                                                /\ r.first = IF u.first = 0 THEN now ELSE u.first
  BY <1>1, <1>4, ChurnCharges DEF Budget
<1>5. CASE file.kind = "corrupt" \/ Churn!Foreign(v)
  <2>1. file' = Churn!Missing /\ spawns' = << >>
    BY <1>5 DEF Churn!SetAside, Churn!Charges
  <2>2. Len(spawns') = 0
    BY <2>1
  <2>3. FileCounts' /\ SpawnsFit'
    BY <1>1, <2>1, <2>2, ChurnRecords DEF FileCounts, SpawnsFit
  <2>4. ASSUME NEW r \in Budget, r = Churn!Charged(u, id), file.kind # "corrupt", u.attempts < MaxFailures
        PROVE  Counted(r, r.attempts - 1)'
    <3>1. u = Churn!Fresh(v)
      BY <1>2, <1>5, <2>4 DEF Churn!Usable
    <3>2. r.attempts = 1 /\ r.first = now
      BY <1>4, <2>4, <3>1, ChurnRecords
    <3>3. r.attempts \in 1..MaxFailures /\ r.first \in 1..now'
      BY <1>1, <1>4, <2>4, <3>2
    <3> QED BY <2>2, <3>3 DEF Counted, Before
  <2> QED BY <1>2, <2>3, <2>4
<1>6. CASE file.kind # "corrupt" /\ ~Churn!Foreign(v)
  <2>1. file' = file /\ spawns' = spawns
    BY <1>6 DEF Churn!SetAside, Churn!Charges
  <2>2. FileCounts' /\ SpawnsFit'
    BY <2>1, BudgetStays, <1>1
  <2>3. ASSUME NEW r \in Budget, r = Churn!Charged(u, id), u.attempts < MaxFailures
        PROVE  Counted(r, r.attempts - 1)'
    <3>1. r.attempts - 1 = u.attempts /\ r.attempts \in 1..MaxFailures
      BY <1>1, <1>4, <2>3
    <3>2. CASE file.kind = "missing"
      <4>1. spawns = << >> /\ u = Churn!Fresh(v)
        BY <1>1, <1>2, <3>2 DEF FileCounts, Churn!Usable
      <4>2. r.first = now /\ Len(spawns') = 0
        BY <1>4, <2>1, <2>3, <4>1, ChurnRecords
      <4>3. r.first \in 1..now'
        BY <1>1, <4>2
      <4> QED BY <3>1, <4>2, <4>3 DEF Counted, Before
    <3>3. CASE file.kind = "ok" /\ file.rec.first # 0 /\ now - file.rec.first >= Window
      <4>1. u = Churn!Fresh(v) /\ Counted(file.rec, file.rec.attempts)
        BY <1>1, <1>2, <3>3 DEF FileCounts, Churn!Usable
      <4>2. r.first = now /\ r.attempts - 1 = 0
        BY <1>4, <2>3, <3>1, <4>1, ChurnRecords
      <4>3. PICK old \in Nat, n \in 1..MaxFailures : old = file.rec.first /\ n = file.rec.attempts
        BY <1>3, <4>1 DEF Counted, Budget
      <4>4. old + Window <= now /\ Before(old, n) /\ old <= now
        BY <1>1, <3>3, <4>1, <4>3 DEF Counted
      <4>5. ASSUME NEW i \in 1..Len(spawns), i <= Len(spawns) - 0 - MaxFailures PROVE spawns[i] + Window <= now
        <5>1. i <= Len(spawns) - n /\ spawns[i] \in Nat
          BY <1>1, <4>5 DEF ChurnTypes
        <5>2. spawns[i] <= old
          BY <4>4, <5>1 DEF Before
        <5> QED BY <1>1, <4>4, <5>1, <5>2
      <4>6. Before(now, 0)
        BY <1>1, <4>5 DEF Before, SpawnsFit
      <4>7. r.first \in 1..now'
        BY <1>1, <4>2
      <4> QED BY <2>1, <3>1, <4>2, <4>6, <4>7 DEF Counted, Before
    <3>4. CASE file.kind = "ok" /\ ~(file.rec.first # 0 /\ now - file.rec.first >= Window)
      <4>1. u = file.rec
        BY <1>2, <1>6, <3>4 DEF Churn!Usable
      <4>2. Counted(u, u.attempts)
        BY <1>1, <3>4, <4>1 DEF FileCounts
      <4>3. u.first # 0
        BY <4>2 DEF Counted
      <4>4. r.first = u.first
        BY <1>4, <2>3, <4>3
      <4> QED BY <2>1, <3>1, <4>2, <4>4 DEF Counted, Before
    <3> QED BY <1>3, <1>6, <3>2, <3>3, <3>4
  <2> QED BY <1>2, <2>2, <2>3
<1> QED BY <1>5, <1>6

\* One more start is charged to the budget of r.
LEMMA SpawnAppends ==
  ASSUME ChurnTypes, ChurnConstants, SpawnsFit, NEW r \in Budget, Counted(r, r.attempts - 1),
         spawns' = Append(spawns, now), now' = now
  PROVE  spawns' \in Seq(Nat) /\ SpawnsFit' /\ Counted(r, r.attempts)'
<1>1. /\ now \in Nat /\ MaxFailures \in Nat /\ Window \in Nat /\ spawns \in Seq(Nat)
      /\ \A i \in 1..Len(spawns) : spawns[i] \in Nat /\ spawns[i] <= now
  BY DEF ChurnTypes, ChurnConstants, SpawnsFit
<1>2. PICK n \in Nat : n = Len(spawns)
  BY <1>1
<1>3. PICK a \in 1..MaxFailures, f \in 1..now : a = r.attempts /\ f = r.first
  BY DEF Counted
<1>4. /\ Len(spawns') = n + 1 /\ spawns' \in Seq(Nat) /\ spawns'[n + 1] = now
      /\ \A i \in 1..n : spawns'[i] = spawns[i]
  BY <1>1, <1>2
<1>5. \A i \in 1..n : /\ i <= n - (a - 1) => spawns[i] <= f
                      /\ i <= n - (a - 1) - MaxFailures => spawns[i] + Window <= f
  BY <1>2, <1>3 DEF Counted, Before
<1>6. \A i \in 1..n + 1 : /\ i <= n + 1 - a => spawns'[i] <= f
                          /\ i <= n + 1 - a - MaxFailures => spawns'[i] + Window <= f
  <2>1. ASSUME NEW i \in 1..n PROVE /\ i <= n + 1 - a => spawns'[i] <= f
                                    /\ i <= n + 1 - a - MaxFailures => spawns'[i] + Window <= f
    <3>1. spawns'[i] = spawns[i] /\ n + 1 - a = n - (a - 1)
      BY <1>1, <1>3, <1>4
    <3>2. n + 1 - a - MaxFailures = n - (a - 1) - MaxFailures
      BY <1>1, <1>3
    <3>3. /\ i <= n - (a - 1) => spawns[i] <= f
          /\ i <= n - (a - 1) - MaxFailures => spawns[i] + Window <= f
      BY <1>5
    <3> HIDE <1>3
    <3> QED BY <3>1, <3>2, <3>3
  <2>2. ~(n + 1 <= n + 1 - a) /\ ~(n + 1 <= n + 1 - a - MaxFailures)
    BY <1>1, <1>3
  <2> QED BY <2>1, <2>2, <1>2
<1>7. Counted(r, r.attempts)'
  BY <1>1, <1>3, <1>4, <1>6, SMTT(60) DEF Counted, Before
<1>8. \A i \in 1..n + 1 : spawns'[i] <= now
  BY <1>1, <1>2, <1>4
<1>9. ASSUME NEW i \in 1..n + 1 - 2 * MaxFailures PROVE spawns'[i] + Window <= spawns'[i + 2 * MaxFailures]
  <2>1. MaxFailures >= 1 /\ i \in 1..n /\ i + 2 * MaxFailures \in 1..n + 1
    BY <1>1, <1>3
  <2>2. CASE i = n + 1 - 2 * MaxFailures
    <3>1. i <= n - (a - 1) - MaxFailures
      BY <1>1, <1>3, <2>2
    <3>2. spawns[i] + Window <= f /\ spawns[i] \in Nat
      BY <1>1, <1>2, <1>5, <2>1, <3>1
    <3>3. i + 2 * MaxFailures = n + 1
      BY <1>1, <2>2
    <3>4. spawns'[i + 2 * MaxFailures] = now /\ spawns'[i] = spawns[i]
      BY <1>4, <2>1, <3>3
    <3>5. f <= now /\ f \in Nat
      BY <1>1, <1>3
    <3>6. spawns[i] + Window <= now
      BY <1>1, <3>2, <3>5
    <3> QED BY <3>4, <3>6
  <2>3. CASE i # n + 1 - 2 * MaxFailures
    <3>1. i \in 1..n - 2 * MaxFailures /\ i + 2 * MaxFailures \in 1..n
      BY <1>1, <2>1, <2>3
    <3>2. spawns[i] + Window <= spawns[i + 2 * MaxFailures]
      BY <1>2, <3>1 DEF SpawnsFit
    <3> QED BY <1>4, <2>1, <3>1, <3>2
  <2> QED BY <2>2, <2>3
<1>10. SpawnsFit'
  <2>1. \A i \in 1..Len(spawns') : spawns'[i] <= now'
    BY <1>4, <1>8
  <2>2. \A i \in 1..Len(spawns') - 2 * MaxFailures : spawns'[i] + Window <= spawns'[i + 2 * MaxFailures]
    <3> SUFFICES ASSUME NEW i \in 1..Len(spawns') - 2 * MaxFailures
                 PROVE  spawns'[i] + Window <= spawns'[i + 2 * MaxFailures]
      OBVIOUS
    <3>1. Len(spawns') - 2 * MaxFailures = n + 1 - 2 * MaxFailures
      BY <1>1, <1>4
    <3>2. i \in 1..n + 1 - 2 * MaxFailures
      BY <3>1
    <3> QED BY <1>9, <3>2
  <2> QED BY <2>1, <2>2 DEF SpawnsFit
<1> QED BY <1>4, <1>7, <1>10

LEMMA ChurnStart == ASSUME ChurnConstants, Churn!Init PROVE ChurnInv
<1>1. /\ now = 1 /\ file = Churn!Missing /\ claim = Churn!Free /\ taken = 0 /\ spawns = << >> /\ stolen = FALSE
      /\ daemon = [i \in 1..MaxClaims |-> Churn!NoDaemon]
  BY DEF Churn!Init
<1>2. PICK b \in Binaries : client = [c \in Client |-> Churn!Idle(b[c])]
  BY DEF Churn!Init
<1>3. "none" \in Version /\ \A c \in Client : b[c] \in Version
  BY DEF Version
<1>4. /\ client \in [Client -> Starter]
      /\ \A c \in Client : client[c].at = "idle" /\ client[c].id = 0
  BY <1>2, <1>3, ChurnRecords
<1>5. /\ daemon \in [1..MaxClaims -> Boot] /\ \A i \in 1..MaxClaims : daemon[i].at = "none"
  BY <1>1, <1>3 DEF Boot, Churn!NoDaemon
<1>6. claim \in Claim /\ claim.id = 0
  BY <1>1 DEF Claim, Churn!Free
<1>7. ChurnTypes
  <2>1. file \in Breaker
    BY <1>1, <1>3, ChurnRecords
  <2>2. spawns \in Seq(Nat) /\ now \in Nat /\ now >= 1 /\ taken \in 0..MaxClaims
    BY <1>1 DEF ChurnConstants
  <2> QED BY <1>1, <1>4, <1>5, <1>6, <2>1, <2>2 DEF ChurnTypes
<1>8. \A c \in Client : StarterFits(c) /\ StarterHolds(c) /\ StarterCounts(c)
  BY <1>1, <1>4 DEF StarterFits, StarterHolds, StarterCounts, Holding
<1>9. \A i \in 1..MaxClaims : BootFits(i) /\ BootHolds(i)
  BY <1>5 DEF BootFits, BootHolds
<1>10. Len(spawns) = 0
  BY <1>1
<1>11. FileCounts /\ SpawnsFit
  BY <1>1, <1>3, <1>10, ChurnRecords DEF FileCounts, SpawnsFit, ChurnConstants
<1> QED BY <1>1, <1>6, <1>7, <1>8, <1>9, <1>11 DEF ChurnInv

\* A client takes the claim: nobody else goes on, unless it was stolen.
LEMMA ChurnAcquires == ASSUME ChurnInv, ChurnConstants, NEW c \in Client, Churn!Acquire(c) PROVE ChurnInv'
<1>1. /\ client[c].at = "idle" /\ taken < MaxClaims
      /\ claim.id = 0 \/ Churn!HolderDead \/ now - claim.since >= Ttl
      /\ stolen' = (stolen \/ (claim.id /= 0 /\ ~Churn!HolderDead))
      /\ taken' = taken + 1 /\ claim' = [id |-> taken', side |-> "client", since |-> now]
      /\ client' = [client EXCEPT ![c].at = "claimed", ![c].id = taken']
      /\ now' = now /\ file' = file /\ daemon' = daemon /\ spawns' = spawns
  BY DEF Churn!Acquire
<1>2. /\ ChurnTypes /\ claim.id \in Nat /\ claim.id <= taken /\ taken \in Nat /\ taken' \in 0..MaxClaims
      /\ client[c] \in Starter
      /\ MaxClaims \in Nat /\ now \in Nat /\ stolen' \in BOOLEAN /\ taken' \in 1..MaxClaims
  BY <1>1, ChurnFacts DEF ChurnTypes, ChurnConstants, Claim
<1>3. PICK m \in Starter : m = [client[c] EXCEPT !.at = "claimed"]
  BY <1>2 DEF Starter
<1>4. PICK n \in Starter : n = [m EXCEPT !.id = taken']
  <2>1. PICK k \in Nat : k = taken'
    BY <1>2
  <2> QED BY <2>1 DEF Starter
<1>5. n.at = "claimed" /\ n.id = taken'
  BY <1>2, <1>3, <1>4 DEF Starter
<1>6. client' = [client EXCEPT ![c] = n]
  BY <1>1, <1>2, <1>3, <1>4 DEF ChurnTypes
<1>7. client' \in [Client -> Starter] /\ client'[c] = n /\ \A d \in Client : d # c => client'[d] = client[d]
  BY <1>6, StarterMoves
<1>8. claim' \in Claim /\ claim'.id = taken' /\ claim'.side = "client"
  BY <1>1, <1>2 DEF Claim
<1>9. ChurnTypes' /\ claim'.id <= taken'
  BY <1>1, <1>2, <1>7, <1>8 DEF ChurnTypes
<1>10. daemon[taken'].at = "none"
  BY <1>1, <1>2, ChurnFacts DEF BootFits
<1>11. ASSUME NEW d \in Client PROVE StarterFits(d)'
  <2>1. \A e \in Client : StarterFits(e) /\ client[e].id \in Nat
    BY ChurnFacts DEF Starter
  <2>2. \A e \in Client : e # c => client[e].id <= taken /\ client[e].id # taken'
    BY <1>1, <1>2, <2>1 DEF StarterFits
  <2>3. CASE d = c
    BY <1>1, <1>2, <1>5, <1>7, <1>10, <2>2, <2>3 DEF StarterFits
  <2>4. CASE d # c
    <3>1. client'[d].id <= taken'
      BY <1>1, <1>2, <1>7, <2>1, <2>2, <2>4
    <3> QED BY <1>1, <1>5, <1>7, <2>1, <2>2, <2>4, <3>1 DEF StarterFits
  <2> QED BY <2>3, <2>4
<1>12. \A i \in 1..MaxClaims : BootFits(i)'
  BY <1>1, <1>2, ChurnFacts DEF BootFits
<1>13. ASSUME ~stolen' PROVE /\ \A d \in Client : StarterHolds(d)' /\ StarterCounts(d)'
                             /\ \A i \in 1..MaxClaims : BootHolds(i)'
                             /\ FileCounts' /\ SpawnsFit'
  <2>1. ~stolen /\ (claim.id = 0 \/ Churn!HolderDead)
    BY <1>1, <1>13
  <2>2. /\ \A d \in Client : StarterHolds(d)
        /\ \A i \in 1..MaxClaims : BootHolds(i)
    BY <2>1 DEF ChurnInv
  <2>3. \A d \in Client : client[d].at \notin Holding
    <3> SUFFICES ASSUME NEW d \in Client, client[d].at \in Holding PROVE FALSE
      OBVIOUS
    <3>1. claim.id = client[d].id /\ claim.side = "client" /\ client[d].id # 0
      BY <2>2, ChurnHas DEF StarterHolds, Holding
    <3> QED BY <2>1, <3>1 DEF Churn!HolderDead
  <2>4. \A i \in 1..MaxClaims : daemon[i].at \notin {"bound", "booting"}
    <3> SUFFICES ASSUME NEW i \in 1..MaxClaims, daemon[i].at \in {"bound", "booting"} PROVE FALSE
      OBVIOUS
    <3>1. claim.id = i /\ claim.side = "daemon" /\ i # 0
      BY <2>2 DEF BootHolds
    <3> QED BY <2>1, <3>1 DEF Churn!HolderDead
  <2>5. \A d \in Client : StarterHolds(d)'
    BY <1>5, <1>7, <1>8, <2>3 DEF StarterHolds
  <2>6. \A d \in Client : StarterCounts(d)'
    BY <1>5, <1>7, <2>3 DEF StarterCounts, Holding
  <2>7. FileCounts' /\ SpawnsFit'
    BY <1>1, <1>2, <2>1, BudgetStays
  <2>8. \A i \in 1..MaxClaims : BootHolds(i)'
    BY <1>1, <2>4 DEF BootHolds
  <2> QED BY <2>5, <2>6, <2>7, <2>8
<1> QED BY <1>9, <1>11, <1>12, <1>13 DEF ChurnInv

\* What a client releases was its own.
LEMMA ChurnReleases ==
  ASSUME ChurnInv, NEW id, Churn!Release(id)
  PROVE  claim' \in Claim /\ claim'.id <= taken /\ (claim' = claim \/ claim.id = id)
<1>1. Churn!Free \in Claim /\ Churn!Free.id = 0
  BY DEF Churn!Free, Claim
<1> QED BY <1>1, ChurnFacts DEF Churn!Release, Churn!Held

\* The client looks at the file, sets aside what it cannot use, and stops or is admitted.
LEMMA ChurnConsiders ==
  ASSUME ChurnInv, ChurnConstants, NEW c \in Client, NEW needed \in BOOLEAN,
         Churn!Consider(c, needed) PROVE ChurnInv'
<1>1. client[c].at = "claimed" /\ client[c] \in Starter /\ ChurnTypes
  BY ChurnFacts DEF Churn!Consider
<1>2. PICK v \in Version : v = client[c].version
  BY <1>1 DEF Starter
<1>3. PICK id \in 1..MaxClaims : id = client[c].id
  BY <1>1, ChurnHas
<1>4. PICK r \in Budget : r = Churn!Charged(Churn!Usable(v), id)
  BY <1>1, <1>2, ChurnFinds, ChurnCharges DEF ChurnTypes
<1>5. /\ file' = Churn!SetAside(v) /\ spawns' = Churn!Charges(v)
      /\ now' = now /\ daemon' = daemon /\ taken' = taken /\ stolen' = stolen
  BY <1>2 DEF Churn!Consider
<1>6. \/ client' = [client EXCEPT ![c] = Churn!Idle(v)] /\ Churn!Release(id)
      \/ /\ file.kind # "corrupt" /\ ~(Churn!Usable(v).attempts >= MaxFailures)
         /\ client' = [client EXCEPT ![c].at = "admitted", ![c].rec = r] /\ claim' = claim
  BY <1>2, <1>3, <1>4 DEF Churn!Consider, Churn!Stop
<1>7. PICK n \in Starter : /\ client' = [client EXCEPT ![c] = n]
                           /\ \/ n.at = "idle" /\ n.id = 0 /\ Churn!Release(id)
                              \/ /\ n.at = "admitted" /\ n.id = client[c].id /\ n.rec = r /\ claim' = claim
                                 /\ file.kind # "corrupt" /\ ~(Churn!Usable(v).attempts >= MaxFailures)
  <2>1. CASE client' = [client EXCEPT ![c] = Churn!Idle(v)] /\ Churn!Release(id)
    BY <2>1, ChurnRecords
  <2>2. CASE /\ file.kind # "corrupt" /\ ~(Churn!Usable(v).attempts >= MaxFailures)
             /\ client' = [client EXCEPT ![c].at = "admitted", ![c].rec = r] /\ claim' = claim
    <3>1. PICK m \in Starter : m = [client[c] EXCEPT !.at = "admitted"]
      BY <1>1 DEF Starter
    <3>2. PICK n \in Starter : n = [m EXCEPT !.rec = r]
      BY <3>1 DEF Starter
    <3>3. n.at = "admitted" /\ n.id = client[c].id /\ n.rec = r
      BY <1>1, <3>1, <3>2 DEF Starter
    <3>4. client' = [client EXCEPT ![c] = n]
      BY <1>1, <2>2, <3>1, <3>2 DEF ChurnTypes
    <3> QED BY <2>2, <3>3, <3>4
  <2> QED BY <1>6, <2>1, <2>2
<1>8. client' \in [Client -> Starter] /\ client'[c] = n /\ \A d \in Client : d # c => client'[d] = client[d]
  BY <1>7, StarterMoves
<1>9. claim' \in Claim /\ claim'.id <= taken
  BY <1>7, ChurnReleases, ChurnFacts
<1>10. file' \in Breaker /\ spawns' \in Seq(Nat)
  BY <1>1, <1>5, ChurnFinds
<1>11. ChurnTypes'
  BY <1>1, <1>5, <1>8, <1>9, <1>10 DEF ChurnTypes
<1>12. \A d \in Client : StarterFits(d)'
  BY <1>1, <1>5, <1>7, StarterIds DEF Holding
<1>13. \A i \in 1..MaxClaims : BootFits(i)'
  BY <1>5, ChurnFacts DEF BootFits
<1>14. ASSUME ~stolen' PROVE /\ \A d \in Client : StarterHolds(d)' /\ StarterCounts(d)'
                             /\ \A i \in 1..MaxClaims : BootHolds(i)'
                             /\ FileCounts' /\ SpawnsFit'
  <2>1. ~stolen
    BY <1>5, <1>14
  <2>2. /\ claim.id = client[c].id /\ claim.side = "client"
        /\ \A d \in Client : d # c => client[d].at \notin Holding
        /\ \A i \in 1..MaxClaims : daemon[i].at \notin {"bound", "booting"}
    BY <1>1, <2>1, StarterAlone DEF Holding
  <2>3. /\ FileCounts' /\ SpawnsFit'
        /\ file.kind # "corrupt" /\ Churn!Usable(v).attempts < MaxFailures => Counted(r, r.attempts - 1)'
    BY <1>4, <1>5, <2>1, ChurnUsed
  <2>4. Churn!Usable(v).attempts \in Nat /\ MaxFailures \in Nat
    BY <1>1, ChurnFinds DEF Budget, ChurnConstants
  <2>5. \A d \in Client : StarterHolds(d)'
    BY <1>7, <1>8, <2>2 DEF StarterHolds, Holding
  <2>6. ASSUME NEW d \in Client PROVE StarterCounts(d)'
    <3>1. CASE d # c
      BY <1>8, <2>2, <3>1 DEF StarterCounts, Holding
    <3>2. CASE d = c /\ n.at = "admitted"
      <4>1. Counted(r, r.attempts - 1)'
        BY <1>7, <2>3, <2>4, <3>2
      <4> QED BY <1>7, <1>8, <3>2, <4>1 DEF StarterCounts
    <3>3. CASE d = c /\ n.at = "idle"
      BY <1>8, <3>3 DEF StarterCounts
    <3> QED BY <1>7, <3>1, <3>2, <3>3
  <2> QED BY <1>5, <2>2, <2>3, <2>5, <2>6 DEF BootHolds
<1> QED BY <1>5, <1>9, <1>11, <1>12, <1>13, <1>14 DEF ChurnInv

\* An admitted client writes the count before it starts anything.
LEMMA ChurnCharge == ASSUME ChurnInv, ChurnConstants, NEW c \in Client, Churn!Charge(c) PROVE ChurnInv'
<1>1. /\ client[c].at = "admitted" /\ client[c] \in Starter /\ ChurnTypes /\ claim.id <= taken
      /\ file' = Churn!Written(client[c].rec) /\ client' = [client EXCEPT ![c].at = "charged"]
      /\ now' = now /\ claim' = claim /\ daemon' = daemon /\ taken' = taken /\ spawns' = spawns
      /\ stolen' = stolen
  BY ChurnFacts DEF Churn!Charge
<1>2. PICK r \in Budget : r = client[c].rec
  BY <1>1 DEF Starter
<1>3. PICK n \in Starter : n = [client[c] EXCEPT !.at = "charged"]
  BY <1>1 DEF Starter
<1>4. n.at = "charged" /\ n.id = client[c].id /\ n.rec = r /\ client' = [client EXCEPT ![c] = n]
  BY <1>1, <1>2, <1>3 DEF Starter
<1>5. client' \in [Client -> Starter] /\ client'[c] = n /\ \A d \in Client : d # c => client'[d] = client[d]
  BY <1>4, StarterMoves
<1>6. file' = Churn!Written(r) /\ file' \in Breaker /\ file'.kind = "ok" /\ file'.rec = r
  BY <1>1, <1>2, ChurnWrites
<1>7. ChurnTypes'
  BY <1>1, <1>5, <1>6 DEF ChurnTypes
<1>8. \A d \in Client : StarterFits(d)'
  BY <1>1, <1>4, StarterIds DEF Holding
<1>9. \A i \in 1..MaxClaims : BootFits(i)'
  BY <1>1, ChurnFacts DEF BootFits
<1>10. ASSUME ~stolen' PROVE /\ \A d \in Client : StarterHolds(d)' /\ StarterCounts(d)'
                             /\ \A i \in 1..MaxClaims : BootHolds(i)'
                             /\ FileCounts' /\ SpawnsFit'
  <2>1. ~stolen
    BY <1>1, <1>10
  <2>2. /\ claim.id = client[c].id /\ claim.side = "client"
        /\ \A d \in Client : d # c => client[d].at \notin Holding
        /\ \A i \in 1..MaxClaims : daemon[i].at \notin {"bound", "booting"}
    BY <1>1, <2>1, StarterAlone DEF Holding
  <2>3. Counted(r, r.attempts - 1) /\ SpawnsFit /\ now \in Nat /\ MaxFailures \in Nat
    BY <1>1, <1>2, <2>1, ChurnFacts DEF ChurnInv, StarterCounts, ChurnConstants
  <2>4. Counted(r, r.attempts - 1)' /\ SpawnsFit'
    BY <1>1, <2>3, CountStays, SpawnsStay
  <2>5. Counted(r, r.attempts)'
    BY <1>1, <2>3, <2>4 DEF Counted, Before, ChurnTypes
  <2>6. \A d \in Client : StarterHolds(d)'
    BY <1>1, <1>4, <1>5, <2>2 DEF StarterHolds, Holding
  <2>7. \A d \in Client : StarterCounts(d)'
    BY <1>4, <1>5, <1>6, <2>2, <2>4 DEF StarterCounts, Holding
  <2>8. FileCounts'
    BY <1>6, <2>5 DEF FileCounts
  <2> QED BY <1>1, <2>2, <2>4, <2>6, <2>7, <2>8 DEF BootHolds
<1> QED BY <1>1, <1>7, <1>8, <1>9, <1>10 DEF ChurnInv

\* A process is started, and the client is done; the claim waits for the daemon.
LEMMA ChurnStarts == ASSUME ChurnInv, ChurnConstants, NEW c \in Client, Churn!Start(c) PROVE ChurnInv'
<1>1. /\ client[c].at = "charged" /\ client[c] \in Starter /\ ChurnTypes /\ claim.id <= taken /\ now \in Nat
      /\ client' = [client EXCEPT ![c].at = "done"] /\ spawns' = Append(spawns, now)
      /\ now' = now /\ claim' = claim /\ file' = file /\ taken' = taken /\ stolen' = stolen
  BY ChurnFacts DEF Churn!Start
<1>2. PICK r \in Budget : r = client[c].rec
  BY <1>1 DEF Starter
<1>3. PICK n \in Starter : n = [client[c] EXCEPT !.at = "done"]
  BY <1>1 DEF Starter
<1>4. n.at = "done" /\ n.id = client[c].id /\ client' = [client EXCEPT ![c] = n]
  BY <1>1, <1>3 DEF Starter
<1>5. client' \in [Client -> Starter] /\ client'[c] = n /\ \A d \in Client : d # c => client'[d] = client[d]
  BY <1>4, StarterMoves
<1>6. PICK i \in 1..MaxClaims : i = client[c].id /\ i <= taken
  BY <1>1, ChurnHas
<1>7. PICK m \in Boot : m = [at |-> "started", version |-> client[c].version]
  BY <1>1 DEF Boot, Starter
<1>8. daemon' = [daemon EXCEPT ![i] = m] /\ m.at = "started"
  BY <1>6, <1>7 DEF Churn!Start, Boot
<1>9. /\ daemon' \in [1..MaxClaims -> Boot] /\ daemon'[i] = m
      /\ \A j \in 1..MaxClaims : j # i => daemon'[j] = daemon[j]
  BY <1>8, BootMoves
<1>10. spawns' \in Seq(Nat)
  BY <1>1 DEF ChurnTypes
<1>11. ChurnTypes'
  BY <1>1, <1>5, <1>9, <1>10 DEF ChurnTypes
<1>12. ASSUME NEW d \in Client PROVE StarterFits(d)'
  <2>1. \A e \in Client : StarterFits(e)
    BY ChurnFacts
  <2>2. client'[d].id = client[d].id /\ \A e \in Client : client'[e].id = client[e].id
    BY <1>4, <1>5
  <2>3. client'[d].at = "idle" <=> client[d].at = "idle"
    BY <1>1, <1>4, <1>5
  <2>4. client'[d].at \in Holding => daemon'[client'[d].id].at = "none"
    <3> SUFFICES ASSUME client'[d].at \in Holding PROVE daemon'[client[d].id].at = "none"
      BY <2>2
    <3>1. d # c /\ client[d].at \in Holding
      BY <1>4, <1>5 DEF Holding
    <3>2. client[d].id \in 1..MaxClaims /\ client[d].id # i
      BY <1>6, <2>1, <3>1, ChurnHas DEF StarterFits, Holding
    <3> QED BY <1>9, <2>1, <3>1, <3>2 DEF StarterFits
  <2> QED BY <1>1, <2>1, <2>2, <2>3, <2>4 DEF StarterFits
<1>13. \A j \in 1..MaxClaims : BootFits(j)'
  BY <1>1, <1>6, <1>9, ChurnFacts DEF BootFits
<1>14. ASSUME ~stolen' PROVE /\ \A d \in Client : StarterHolds(d)' /\ StarterCounts(d)'
                             /\ \A j \in 1..MaxClaims : BootHolds(j)'
                             /\ FileCounts' /\ SpawnsFit'
  <2>1. ~stolen
    BY <1>1, <1>14
  <2>2. /\ claim.id = client[c].id /\ claim.side = "client"
        /\ \A d \in Client : d # c => client[d].at \notin Holding
        /\ \A j \in 1..MaxClaims : daemon[j].at \notin {"bound", "booting"}
    BY <1>1, <2>1, StarterAlone DEF Holding
  <2>3. Counted(r, r.attempts - 1) /\ SpawnsFit /\ file = Churn!Written(r)
    BY <1>1, <1>2, <2>1 DEF ChurnInv, StarterCounts
  <2>4. SpawnsFit' /\ Counted(r, r.attempts)'
    BY <1>1, <2>3, SpawnAppends
  <2>5. FileCounts'
    BY <1>1, <2>3, <2>4, ChurnWrites DEF FileCounts
  <2>6. \A d \in Client : StarterHolds(d)' /\ StarterCounts(d)'
    BY <1>4, <1>5, <2>2 DEF StarterHolds, StarterCounts, Holding
  <2>7. \A j \in 1..MaxClaims : BootHolds(j)'
    BY <1>8, <1>9, <2>2 DEF BootHolds
  <2> QED BY <2>4, <2>5, <2>6, <2>7
<1> QED BY <1>1, <1>11, <1>12, <1>13, <1>14 DEF ChurnInv

\* Starting a process fails: the attempt counts, and the claim is free.
LEMMA ChurnStartFails == ASSUME ChurnInv, ChurnConstants, NEW c \in Client, Churn!StartFails(c) PROVE ChurnInv'
<1>1. /\ client[c].at = "charged" /\ client[c] \in Starter /\ ChurnTypes /\ now \in Nat
      /\ spawns' = Append(spawns, now)
      /\ now' = now /\ daemon' = daemon /\ taken' = taken /\ stolen' = stolen
  BY ChurnFacts DEF Churn!StartFails
<1>2. PICK r \in Budget : r = client[c].rec
  BY <1>1 DEF Starter
<1>3. PICK q \in Budget : q = [r EXCEPT !.holder = 0]
  BY DEF Budget
<1>4. q.attempts = r.attempts /\ q.first = r.first
  BY <1>3 DEF Budget
<1>5. file' = Churn!Written(q) /\ file' \in Breaker /\ file'.kind = "ok" /\ file'.rec = q
  BY <1>2, <1>3, ChurnWrites DEF Churn!StartFails
<1>6. PICK v \in Version : v = client[c].version
  BY <1>1 DEF Starter
<1>7. PICK n \in Starter : n = Churn!Idle(v) /\ n.at = "idle" /\ n.id = 0
  BY ChurnRecords
<1>8. client' = [client EXCEPT ![c] = n] /\ Churn!Release(client[c].id)
  BY <1>6, <1>7 DEF Churn!StartFails, Churn!Stop
<1>9. client' \in [Client -> Starter] /\ client'[c] = n /\ \A d \in Client : d # c => client'[d] = client[d]
  BY <1>8, StarterMoves
<1>10. claim' \in Claim /\ claim'.id <= taken
  BY <1>8, ChurnReleases
<1>11. spawns' \in Seq(Nat)
  BY <1>1 DEF ChurnTypes
<1>12. ChurnTypes'
  BY <1>1, <1>5, <1>9, <1>10, <1>11 DEF ChurnTypes
<1>13. \A d \in Client : StarterFits(d)'
  BY <1>1, <1>7, <1>8, StarterIds
<1>14. \A j \in 1..MaxClaims : BootFits(j)'
  BY <1>1, ChurnFacts DEF BootFits
<1>15. ASSUME ~stolen' PROVE /\ \A d \in Client : StarterHolds(d)' /\ StarterCounts(d)'
                             /\ \A j \in 1..MaxClaims : BootHolds(j)'
                             /\ FileCounts' /\ SpawnsFit'
  <2>1. ~stolen
    BY <1>1, <1>15
  <2>2. /\ \A d \in Client : d # c => client[d].at \notin Holding
        /\ \A j \in 1..MaxClaims : daemon[j].at \notin {"bound", "booting"}
    BY <1>1, <2>1, StarterAlone DEF Holding
  <2>3. Counted(r, r.attempts - 1) /\ SpawnsFit
    BY <1>1, <1>2, <2>1 DEF ChurnInv, StarterCounts
  <2>4. Counted(q, q.attempts - 1)
    BY <1>4, <2>3 DEF Counted
  <2>5. SpawnsFit' /\ Counted(q, q.attempts)'
    BY <1>1, <2>3, <2>4, SpawnAppends
  <2>6. FileCounts'
    BY <1>5, <2>5 DEF FileCounts
  <2>7. \A d \in Client : StarterHolds(d)' /\ StarterCounts(d)'
    BY <1>7, <1>9, <2>2 DEF StarterHolds, StarterCounts, Holding
  <2>8. \A j \in 1..MaxClaims : BootHolds(j)'
    BY <1>1, <2>2 DEF BootHolds
  <2> QED BY <2>5, <2>6, <2>7, <2>8
<1> QED BY <1>1, <1>10, <1>12, <1>13, <1>14, <1>15 DEF ChurnInv

\* A client ends wherever it is; its claim stays.
LEMMA ChurnClientEnds == ASSUME ChurnInv, ChurnConstants, NEW c \in Client, Churn!ClientEnds(c) PROVE ChurnInv'
<1>1. /\ client[c] \in Starter /\ ChurnTypes /\ claim.id <= taken /\ now \in Nat
      /\ now' = now /\ file' = file /\ claim' = claim /\ daemon' = daemon /\ taken' = taken /\ spawns' = spawns
      /\ stolen' = stolen
  BY ChurnFacts DEF Churn!ClientEnds
<1>2. PICK v \in Version : v = client[c].version
  BY <1>1 DEF Starter
<1>3. PICK n \in Starter : n = Churn!Idle(v) /\ n.at = "idle" /\ n.id = 0
  BY ChurnRecords
<1>4. client' = [client EXCEPT ![c] = n]
  BY <1>2, <1>3 DEF Churn!ClientEnds
<1>5. client' \in [Client -> Starter] /\ client'[c] = n /\ \A d \in Client : d # c => client'[d] = client[d]
  BY <1>4, StarterMoves
<1>6. ChurnTypes'
  BY <1>1, <1>5 DEF ChurnTypes
<1>7. \A d \in Client : StarterFits(d)'
  BY <1>1, <1>3, <1>4, StarterIds
<1>8. \A j \in 1..MaxClaims : BootFits(j)'
  BY <1>1, ChurnFacts DEF BootFits
<1>9. ASSUME ~stolen' PROVE /\ \A d \in Client : StarterHolds(d)' /\ StarterCounts(d)'
                            /\ \A j \in 1..MaxClaims : BootHolds(j)'
                            /\ FileCounts' /\ SpawnsFit'
  <2>1. ~stolen /\ (\A d \in Client : StarterHolds(d)) /\ \A j \in 1..MaxClaims : BootHolds(j)
    BY <1>1, <1>9 DEF ChurnInv
  <2>2. /\ FileCounts' /\ SpawnsFit'
        /\ \A d \in Client : client'[d].at = client[d].at /\ client'[d].rec = client[d].rec => StarterCounts(d)'
    BY <1>1, <2>1, BudgetStays
  <2>3. \A d \in Client : StarterHolds(d)' /\ StarterCounts(d)'
    BY <1>1, <1>3, <1>5, <2>1, <2>2 DEF StarterHolds, StarterCounts, Holding
  <2>4. \A j \in 1..MaxClaims : BootHolds(j)'
    BY <1>1, <2>1 DEF BootHolds
  <2> QED BY <2>2, <2>3, <2>4
<1> QED BY <1>1, <1>6, <1>7, <1>8, <1>9 DEF ChurnInv

\* The daemon i goes on or ends; the clients, the count and the clock stay.
LEMMA BootSteps ==
  ASSUME ChurnInv, ChurnConstants, NEW i \in 1..MaxClaims, NEW n \in Boot, daemon[i].at # "none",
         daemon' = [daemon EXCEPT ![i] = n], claim' \in Claim, claim'.id <= taken,
         client' = client, now' = now, file' = file, taken' = taken, spawns' = spawns, stolen' = stolen,
         ~stolen => /\ \A d \in Client : StarterHolds(d)'
                    /\ \A j \in 1..MaxClaims : BootHolds(j)'
  PROVE  ChurnInv'
<1>1. ChurnTypes /\ now \in Nat
  BY ChurnFacts
<1>2. daemon' \in [1..MaxClaims -> Boot]
  BY BootMoves
<1>3. ChurnTypes'
  BY <1>1, <1>2 DEF ChurnTypes
<1>4. (\A d \in Client : StarterFits(d)') /\ \A j \in 1..MaxClaims : BootFits(j)'
  BY BootIds
<1>5. ~stolen => FileCounts' /\ SpawnsFit' /\ \A d \in Client : StarterCounts(d)'
  BY <1>1, BudgetStays
<1> QED BY <1>3, <1>4, <1>5 DEF ChurnInv

\* The daemon takes over the claim of the client that started it.
LEMMA ChurnBinds == ASSUME ChurnInv, ChurnConstants, NEW i \in 1..MaxClaims, Churn!Bind(i) PROVE ChurnInv'
<1>1. /\ daemon[i].at = "started" /\ daemon[i] \in Boot /\ claim \in Claim /\ claim.id <= taken
      /\ client' = client /\ now' = now /\ file' = file /\ taken' = taken /\ spawns' = spawns
      /\ stolen' = stolen
  BY ChurnFacts DEF Churn!Bind
<1>2. CASE claim.id = i
  <2>1. claim' = [claim EXCEPT !.side = "daemon"] /\ daemon' = [daemon EXCEPT ![i].at = "bound"]
    BY <1>2 DEF Churn!Bind, Churn!Held
  <2>2. PICK n \in Boot : n = [daemon[i] EXCEPT !.at = "bound"]
    BY <1>1 DEF Boot
  <2>3. n.at = "bound" /\ daemon' = [daemon EXCEPT ![i] = n]
    BY <1>1, <2>1, <2>2 DEF Boot
  <2>4. claim' \in Claim /\ claim'.id = i /\ claim'.side = "daemon"
    BY <1>1, <1>2, <2>1 DEF Claim
  <2>5. daemon'[i] = n /\ \A j \in 1..MaxClaims : j # i => daemon'[j] = daemon[j]
    BY <2>3, BootMoves
  <2>6. ASSUME ~stolen PROVE (\A d \in Client : StarterHolds(d)') /\ \A j \in 1..MaxClaims : BootHolds(j)'
    <3>1. (\A d \in Client : StarterHolds(d) /\ StarterFits(d)) /\ \A j \in 1..MaxClaims : BootHolds(j)
      BY <2>6, ChurnFacts DEF ChurnInv
    <3>2. \A d \in Client : client[d].at \notin Holding
      BY <1>1, <1>2, <3>1 DEF StarterHolds, StarterFits
    <3>3. \A j \in 1..MaxClaims : j # i => daemon[j].at \notin {"bound", "booting"}
      BY <1>2, <3>1 DEF BootHolds
    <3> QED BY <1>1, <2>4, <2>5, <3>2, <3>3 DEF StarterHolds, BootHolds
  <2> QED BY <1>1, <1>2, <2>3, <2>4, <2>6, BootSteps
<1>3. CASE claim.id # i
  <2>1. claim' = claim /\ daemon' = [daemon EXCEPT ![i].at = "gone"]
    BY <1>3 DEF Churn!Bind, Churn!Held
  <2>2. PICK n \in Boot : n = [daemon[i] EXCEPT !.at = "gone"]
    BY <1>1 DEF Boot
  <2>3. n.at = "gone" /\ daemon' = [daemon EXCEPT ![i] = n]
    BY <1>1, <2>1, <2>2 DEF Boot
  <2>4. daemon'[i] = n /\ \A j \in 1..MaxClaims : j # i => daemon'[j] = daemon[j]
    BY <2>3, BootMoves
  <2>5. ASSUME ~stolen PROVE (\A d \in Client : StarterHolds(d)') /\ \A j \in 1..MaxClaims : BootHolds(j)'
    BY <1>1, <2>1, <2>3, <2>4, <2>5 DEF StarterHolds, BootHolds, ChurnInv
  <2> QED BY <1>1, <2>1, <2>3, <2>5, BootSteps
<1> QED BY <1>2, <1>3

\* A daemon that ends leaves nobody who goes on, or what goes on was not its own.
LEMMA BootGone ==
  ASSUME ChurnInv, NEW i \in 1..MaxClaims, Churn!Gone(i)
  PROVE  \E n \in Boot : n.at = "gone" /\ daemon' = [daemon EXCEPT ![i] = n]
<1>1. daemon[i] \in Boot
  BY ChurnFacts
<1>2. PICK n \in Boot : n = [daemon[i] EXCEPT !.at = "gone"]
  BY <1>1 DEF Boot
<1>3. n.at = "gone" /\ daemon' = [daemon EXCEPT ![i] = n]
  BY <1>1, <1>2 DEF Boot, Churn!Gone
<1> QED BY <1>3

LEMMA BootEnds ==
  ASSUME ChurnInv, NEW i \in 1..MaxClaims, NEW n \in Boot, daemon' = [daemon EXCEPT ![i] = n], n.at = "gone",
         daemon[i].at \in {"bound", "booting"}, client' = client, claim' = claim \/ claim.id = i, ~stolen
  PROVE  (\A d \in Client : StarterHolds(d)' /\ StarterCounts(d)') /\ \A j \in 1..MaxClaims : BootHolds(j)'
<1>1. daemon'[i] = n /\ \A j \in 1..MaxClaims : j # i => daemon'[j] = daemon[j]
  BY BootMoves
<1>2. /\ \A d \in Client : client[d].at \notin Holding
      /\ \A j \in 1..MaxClaims : j # i => daemon[j].at \notin {"bound", "booting"}
  BY BootAlone
<1> QED BY <1>1, <1>2 DEF StarterHolds, StarterCounts, BootHolds, Holding

LEMMA ChurnBootFails == ASSUME ChurnInv, ChurnConstants, NEW i \in 1..MaxClaims,
                               Churn!BootFails(i) PROVE ChurnInv'
<1>1. /\ daemon[i].at \in {"bound", "booting"} /\ Churn!Gone(i) /\ (Churn!Release(i) \/ claim' = claim)
      /\ client' = client /\ now' = now /\ file' = file /\ taken' = taken /\ spawns' = spawns
      /\ stolen' = stolen
  BY DEF Churn!BootFails
<1>2. PICK n \in Boot : n.at = "gone" /\ daemon' = [daemon EXCEPT ![i] = n]
  BY <1>1, BootGone
<1>3. claim' \in Claim /\ claim'.id <= taken /\ (claim' = claim \/ claim.id = i)
  BY <1>1, ChurnReleases, ChurnFacts
<1> QED BY <1>1, <1>2, <1>3, BootEnds, BootSteps

\* The file is as it should be when a daemon that has the claim changes it: nobody else counts.
LEMMA BootWrites ==
  ASSUME ChurnInv, ChurnConstants, NEW i \in 1..MaxClaims, NEW n \in Boot,
         daemon[i].at \in {"bound", "booting"},
         daemon' = [daemon EXCEPT ![i] = n], n.at = "gone" \/ (n.at = "booting" /\ claim' = claim),
         claim' \in Claim, claim'.id <= taken, claim' = claim \/ claim.id = i,
         file' \in Breaker, spawns' \in Seq(Nat), client' = client, now' = now, taken' = taken,
         stolen' = stolen,
         ~stolen => FileCounts' /\ SpawnsFit'
  PROVE  ChurnInv'
<1>1. ChurnTypes
  BY ChurnFacts
<1>2. /\ daemon' \in [1..MaxClaims -> Boot] /\ daemon'[i] = n
      /\ \A j \in 1..MaxClaims : j # i => daemon'[j] = daemon[j]
  BY BootMoves
<1>3. ChurnTypes'
  BY <1>1, <1>2 DEF ChurnTypes
<1>4. (\A d \in Client : StarterFits(d)') /\ \A j \in 1..MaxClaims : BootFits(j)'
  BY BootIds
<1>5. ASSUME ~stolen
      PROVE  (\A d \in Client : StarterHolds(d)' /\ StarterCounts(d)') /\ \A j \in 1..MaxClaims : BootHolds(j)'
  <2>1. CASE n.at = "gone"
    BY <1>5, <2>1, BootEnds
  <2>2. CASE n.at = "booting" /\ claim' = claim
    <3>1. /\ claim.id = i /\ claim.side = "daemon"
          /\ \A d \in Client : client[d].at \notin Holding
          /\ \A j \in 1..MaxClaims : j # i => daemon[j].at \notin {"bound", "booting"}
      BY <1>5, BootAlone
    <3> QED BY <1>2, <2>2, <3>1 DEF StarterHolds, StarterCounts, BootHolds, Holding
  <2> QED BY <2>1, <2>2
<1> QED BY <1>3, <1>4, <1>5 DEF ChurnInv

\* The daemon notes that it holds the attempt, if the attempt in the file is that of its claim.
LEMMA ChurnRecordHolder == ASSUME ChurnInv, ChurnConstants, NEW i \in 1..MaxClaims,
                                  Churn!RecordHolder(i) PROVE ChurnInv'
<1>1. /\ daemon[i].at = "bound" /\ daemon[i] \in Boot /\ ChurnTypes /\ now \in Nat /\ claim \in Claim
      /\ claim.id <= taken
      /\ client' = client /\ now' = now /\ taken' = taken /\ stolen' = stolen
  BY ChurnFacts DEF Churn!RecordHolder
<1>2. PICK v \in Version : v = daemon[i].version
  BY <1>1 DEF Boot
<1>3. spawns' = Churn!Charges(v) /\ spawns' \in Seq(Nat)
  BY <1>1, <1>2, ChurnFinds DEF Churn!RecordHolder
<1>4. CASE ~Churn!Held(i) \/ file.kind = "corrupt"
  <2>1. Churn!Gone(i) /\ Churn!Release(i) /\ file' = IF Churn!Held(i) THEN Churn!SetAside(v) ELSE file
    BY <1>2, <1>4 DEF Churn!RecordHolder
  <2>2. PICK n \in Boot : n.at = "gone" /\ daemon' = [daemon EXCEPT ![i] = n]
    BY <2>1, BootGone
  <2>3. claim' \in Claim /\ claim'.id <= taken /\ (claim' = claim \/ claim.id = i)
    BY <2>1, ChurnReleases
  <2>4. file' \in Breaker
    BY <1>1, <2>1, ChurnFinds DEF ChurnTypes
  <2>5. ASSUME ~stolen PROVE FileCounts' /\ SpawnsFit'
    <3>1. Churn!Held(i)
      BY <1>1, <2>5, BootAlone DEF Churn!Held
    <3> QED BY <1>1, <1>3, <2>1, <2>5, <3>1, ChurnUsed
  <2> QED BY <1>1, <1>3, <2>2, <2>3, <2>4, <2>5, BootWrites
<1>5. CASE ~(~Churn!Held(i) \/ file.kind = "corrupt")
  <2>1. /\ daemon' = [daemon EXCEPT ![i].at = "booting"] /\ claim' = claim
        /\ file' = IF Churn!Usable(v).holder = i THEN Churn!Written(Churn!Usable(v)) ELSE Churn!SetAside(v)
    BY <1>2, <1>5 DEF Churn!RecordHolder
  <2>2. PICK n \in Boot : n = [daemon[i] EXCEPT !.at = "booting"]
    BY <1>1 DEF Boot
  <2>3. n.at = "booting" /\ daemon' = [daemon EXCEPT ![i] = n]
    BY <1>1, <2>1, <2>2 DEF Boot
  <2>4. Churn!Usable(v) \in Budget
    BY <1>1, ChurnFinds
  <2>5. file' \in Breaker
    BY <1>1, <2>1, <2>4, ChurnFinds, ChurnWrites
  <2>6. ASSUME ~stolen PROVE FileCounts' /\ SpawnsFit'
    <3>1. CASE Churn!Usable(v).holder # i
      BY <1>1, <1>3, <2>1, <2>6, <3>1, ChurnUsed
    <3>2. CASE Churn!Usable(v).holder = i
      <4>1. Churn!Usable(v) # Churn!Fresh(v)
        BY <3>2, ChurnRecords
      <4>2. Churn!Usable(v) = file.rec /\ file.kind = "ok" /\ ~Churn!Foreign(v)
        BY <1>1, <1>5, <4>1 DEF Churn!Usable, ChurnTypes, Breaker
      <4>3. spawns' = spawns
        BY <1>3, <4>2 DEF Churn!Charges
      <4>4. PICK r \in Budget : r = file.rec
        BY <2>4, <4>2
      <4>5. file' = Churn!Written(r) /\ file'.kind = "ok" /\ file'.rec = r
        BY <2>1, <3>2, <4>2, <4>4, ChurnWrites
      <4>6. Counted(r, r.attempts) /\ SpawnsFit
        BY <2>6, <4>2, <4>4 DEF ChurnInv, FileCounts
      <4>7. Counted(r, r.attempts)' /\ SpawnsFit'
        BY <1>1, <4>3, <4>6, CountStays, SpawnsStay
      <4> QED BY <4>5, <4>7 DEF FileCounts
    <3> QED BY <3>1, <3>2
  <2> QED BY <1>1, <1>3, <2>1, <2>3, <2>5, <2>6, BootWrites
<1> QED BY <1>4, <1>5

\* The daemon has published itself, and the count ends.
LEMMA ChurnPublishes == ASSUME ChurnInv, ChurnConstants, NEW i \in 1..MaxClaims,
                               Churn!Publish(i) PROVE ChurnInv'
<1>1. /\ daemon[i].at = "booting" /\ Churn!Gone(i) /\ Churn!Release(i) /\ ChurnTypes /\ now \in Nat
      /\ file' = IF Churn!Held(i) THEN Churn!Missing ELSE file
      /\ spawns' = IF Churn!Held(i) THEN << >> ELSE spawns
      /\ client' = client /\ now' = now /\ taken' = taken /\ stolen' = stolen
  BY ChurnFacts DEF Churn!Publish, Churn!ResetAllowed
<1>2. PICK n \in Boot : n.at = "gone" /\ daemon' = [daemon EXCEPT ![i] = n]
  BY <1>1, BootGone
<1>3. claim' \in Claim /\ claim'.id <= taken /\ (claim' = claim \/ claim.id = i)
  BY <1>1, ChurnReleases
<1>4. Churn!Missing \in Breaker /\ Churn!Missing.kind = "missing"
  <2>1. "none" \in Version
    BY DEF Version
  <2> QED BY <2>1, ChurnRecords
<1>5. file' \in Breaker /\ spawns' \in Seq(Nat)
  BY <1>1, <1>4 DEF ChurnTypes
<1>6. ASSUME ~stolen PROVE FileCounts' /\ SpawnsFit'
  <2>1. Churn!Held(i)
    BY <1>1, <1>6, BootAlone DEF Churn!Held
  <2>2. file' = Churn!Missing /\ spawns' = << >> /\ Len(spawns') = 0
    BY <1>1, <2>1
  <2> QED BY <1>4, <2>2 DEF FileCounts, SpawnsFit, ChurnConstants
<1> QED BY <1>1, <1>2, <1>3, <1>5, <1>6, BootWrites

\* The file is damaged while nobody has the claim.
LEMMA ChurnCorrupts == ASSUME ChurnInv, ChurnConstants, Churn!Corrupt PROVE ChurnInv'
<1>1. /\ file.kind = "ok" /\ claim.id = 0 /\ file' = [file EXCEPT !.kind = "corrupt"] /\ ChurnTypes
      /\ now \in Nat
      /\ now' = now /\ claim' = claim /\ client' = client /\ daemon' = daemon /\ taken' = taken
      /\ spawns' = spawns
      /\ stolen' = stolen
  BY ChurnFacts DEF Churn!Corrupt
<1>2. file' \in Breaker /\ file'.kind = "corrupt"
  BY <1>1 DEF Breaker, ChurnTypes
<1>3. ChurnTypes'
  BY <1>1, <1>2 DEF ChurnTypes
<1>4. (\A d \in Client : StarterFits(d)') /\ \A j \in 1..MaxClaims : BootFits(j)'
  BY <1>1, ChurnFacts DEF StarterFits, BootFits
<1>5. ASSUME ~stolen PROVE /\ \A d \in Client : StarterHolds(d)' /\ StarterCounts(d)'
                           /\ \A j \in 1..MaxClaims : BootHolds(j)'
                           /\ FileCounts' /\ SpawnsFit'
  <2>1. (\A d \in Client : StarterHolds(d)) /\ (\A j \in 1..MaxClaims : BootHolds(j)) /\ SpawnsFit
    BY <1>5 DEF ChurnInv
  <2>2. \A d \in Client : client[d].at \notin Holding
    BY <1>1, <2>1, ChurnHas DEF StarterHolds, Holding
  <2>3. \A d \in Client : StarterHolds(d)' /\ StarterCounts(d)'
    BY <1>1, <2>2 DEF StarterHolds, StarterCounts, Holding
  <2>4. SpawnsFit' /\ FileCounts'
    BY <1>1, <1>2, <2>1, SpawnsStay DEF FileCounts
  <2> QED BY <1>1, <2>1, <2>3, <2>4 DEF BootHolds
<1> QED BY <1>1, <1>3, <1>4, <1>5, ChurnFacts DEF ChurnInv

\* Time passes, or nothing happens.
LEMMA ChurnTicks ==
  ASSUME ChurnInv, ChurnConstants, Churn!Tick \/ UNCHANGED Churn!vars PROVE ChurnInv'
<1>1. /\ ChurnTypes /\ now \in Nat /\ now >= 1
      /\ file' = file /\ claim' = claim /\ client' = client /\ daemon' = daemon /\ taken' = taken
      /\ spawns' = spawns
      /\ stolen' = stolen /\ (now' = now + 1 \/ now' = now)
  BY ChurnFacts DEF Churn!Tick, Churn!vars
<1>2. now' \in Nat /\ now' >= 1 /\ now <= now'
  BY <1>1
<1>3. ChurnTypes'
  BY <1>1, <1>2 DEF ChurnTypes
<1>4. (\A d \in Client : StarterFits(d)') /\ \A j \in 1..MaxClaims : BootFits(j)'
  BY <1>1, ChurnFacts DEF StarterFits, BootFits
<1>5. ASSUME ~stolen PROVE /\ \A d \in Client : StarterHolds(d)' /\ StarterCounts(d)'
                           /\ \A j \in 1..MaxClaims : BootHolds(j)'
                           /\ FileCounts' /\ SpawnsFit'
  <2>1. (\A d \in Client : StarterHolds(d)) /\ \A j \in 1..MaxClaims : BootHolds(j)
    BY <1>5 DEF ChurnInv
  <2>2. FileCounts' /\ SpawnsFit' /\ \A d \in Client : StarterCounts(d)'
    BY <1>1, <1>2, <1>5, BudgetStays
  <2> QED BY <1>1, <2>1, <2>2 DEF StarterHolds, BootHolds
<1> QED BY <1>1, <1>3, <1>4, <1>5, ChurnFacts DEF ChurnInv

LEMMA ChurnStep == ASSUME ChurnInv, ChurnConstants, [Churn!Next]_(Churn!vars) PROVE ChurnInv'
<1>1. ASSUME NEW c \in Client,
             \/ Churn!Acquire(c) \/ (\E needed \in BOOLEAN : Churn!Consider(c, needed)) \/ Churn!Charge(c)
             \/ Churn!Start(c) \/ Churn!StartFails(c) \/ Churn!ClientEnds(c)
      PROVE  ChurnInv'
  BY <1>1, ChurnAcquires, ChurnConsiders, ChurnCharge, ChurnStarts, ChurnStartFails, ChurnClientEnds
<1>2. ASSUME NEW i \in 1..MaxClaims,
             Churn!Bind(i) \/ Churn!RecordHolder(i) \/ Churn!Publish(i) \/ Churn!BootFails(i)
      PROVE  ChurnInv'
  BY <1>2, ChurnBinds, ChurnRecordHolder, ChurnPublishes, ChurnBootFails
<1>3. CASE Churn!Corrupt
  BY <1>3, ChurnCorrupts
<1>4. CASE Churn!Tick \/ UNCHANGED Churn!vars
  BY <1>4, ChurnTicks
<1> QED BY <1>1, <1>2, <1>3, <1>4 DEF Churn!Next

\* However clients and daemons start, die and are started again, no window of time sees more than twice
\* the budget of starts, unless a claim was taken from a live holder.
THEOREM ChurnStaysBounded == ASSUME ChurnConstants PROVE Churn!Spec => []Churn!ChurnBounded
<1>1. Churn!Init => ChurnInv
  BY ChurnStart
<1>2. ChurnInv /\ [Churn!Next]_(Churn!vars) => ChurnInv'
  BY ChurnStep
<1>3. ChurnInv => Churn!ChurnBounded
  <2> SUFFICES ASSUME ChurnInv, ~stolen, NEW i \in 1..Len(spawns) - 2 * MaxFailures
               PROVE  spawns[i + 2 * MaxFailures] - spawns[i] >= Window
    BY DEF Churn!ChurnBounded
  <2>1. spawns[i] + Window <= spawns[i + 2 * MaxFailures]
    BY DEF ChurnInv, SpawnsFit
  <2>2. MaxFailures \in Nat /\ Window \in Nat /\ spawns \in Seq(Nat) /\ Len(spawns) \in Nat
    BY DEF ChurnInv, ChurnTypes, ChurnConstants
  <2>3. i \in 1..Len(spawns) /\ i + 2 * MaxFailures \in 1..Len(spawns)
    BY <2>2
  <2>4. spawns[i] \in Nat /\ spawns[i + 2 * MaxFailures] \in Nat
    BY <2>2, <2>3
  <2> QED BY <2>1, <2>2, <2>4
<1> QED BY <1>1, <1>2, <1>3, PTL DEF Churn!Spec

\* A daemon that lost its claim, even to a thief, never clears the count of the others.
THEOREM OnlyHoldersClear == ASSUME ChurnConstants PROVE Churn!Spec => [][Churn!OnlyHolderClears]_(Churn!vars)
<1>1. Churn!Init => ChurnInv
  BY ChurnStart
<1>2. ChurnInv /\ [Churn!Next]_(Churn!vars) => ChurnInv'
  BY ChurnStep
<1>3. ASSUME ChurnInv, [Churn!Next]_(Churn!vars) PROVE [Churn!OnlyHolderClears]_(Churn!vars)
  <2> SUFFICES ASSUME Churn!Next, file.kind = "ok", file'.kind = "missing"
               PROVE  \/ claim.id /= 0 /\ claim'.id = 0 /\ daemon[claim.id].at = "booting"
                      \/ \E c \in Client : client[c].at = "claimed" /\ client'[c] /= client[c] /\ Churn!Foreign(client[c].version)
                      \/ \E i \in 1..MaxClaims : daemon[i].at = "bound" /\ daemon'[i].at = "booting" /\ Churn!Foreign(daemon[i].version)
    BY <1>3 DEF Churn!OnlyHolderClears
  <2>1. file' # file
    OBVIOUS
  <2>2. \A r : Churn!Written(r).kind = "ok"
    BY DEF Churn!Written
  <2>3. ASSUME NEW c \in Client, NEW needed \in BOOLEAN, Churn!Consider(c, needed)
        PROVE  client[c].at = "claimed" /\ client'[c] /= client[c] /\ Churn!Foreign(client[c].version)
    <3>1. client[c].at = "claimed" /\ file' = Churn!SetAside(client[c].version) /\ client[c] \in Starter
          /\ client \in [Client -> Starter]
      BY <1>3, <2>3, ChurnFacts DEF Churn!Consider, ChurnTypes
    <3>2. Churn!Foreign(client[c].version)
      BY <2>1, <3>1 DEF Churn!SetAside
    <3>3. client'[c].at # "claimed"
      BY <2>3, <3>1 DEF Churn!Consider, Churn!Stop, Churn!Idle, Starter
    <3> QED BY <3>1, <3>2, <3>3
  <2>4. ASSUME NEW i \in 1..MaxClaims, Churn!RecordHolder(i)
        PROVE  daemon[i].at = "bound" /\ daemon'[i].at = "booting" /\ Churn!Foreign(daemon[i].version)
    <3>1. daemon[i].at = "bound" /\ daemon[i] \in Boot /\ daemon \in [1..MaxClaims -> Boot]
      BY <1>3, <2>4, ChurnFacts DEF Churn!RecordHolder, ChurnTypes
    <3>2. Churn!Held(i)
      BY <2>1, <2>4 DEF Churn!RecordHolder
    <3>3. daemon' = [daemon EXCEPT ![i].at = "booting"] /\ file' = Churn!SetAside(daemon[i].version)
      BY <2>2, <2>4, <3>2 DEF Churn!RecordHolder
    <3>4. Churn!Foreign(daemon[i].version)
      BY <2>1, <3>3 DEF Churn!SetAside
    <3> QED BY <3>1, <3>3, <3>4 DEF Boot
  <2>5. ASSUME NEW i \in 1..MaxClaims, Churn!Publish(i)
        PROVE  claim.id /= 0 /\ claim'.id = 0 /\ daemon[claim.id].at = "booting"
    BY <2>1, <2>5 DEF Churn!Publish, Churn!ResetAllowed, Churn!Held, Churn!Release, Churn!Free
  <2>6. ASSUME NEW c \in Client, \/ Churn!Acquire(c) \/ Churn!Charge(c) \/ Churn!Start(c) \/ Churn!StartFails(c)
                                 \/ Churn!ClientEnds(c)
        PROVE  FALSE
    BY <2>1, <2>2, <2>6 DEF Churn!Acquire, Churn!Charge, Churn!Start, Churn!StartFails, Churn!ClientEnds
  <2>7. ASSUME NEW i \in 1..MaxClaims, Churn!Bind(i) \/ Churn!BootFails(i) PROVE FALSE
    BY <2>1, <2>7 DEF Churn!Bind, Churn!BootFails
  <2>8. Churn!Tick => FALSE
    BY <2>1 DEF Churn!Tick
  <2>9. Churn!Corrupt => FALSE
    <3>1. file \in Breaker
      BY <1>3, ChurnFacts DEF ChurnTypes
    <3> QED BY <3>1 DEF Churn!Corrupt, Breaker
  <2> QED BY <2>3, <2>4, <2>5, <2>6, <2>7, <2>8, <2>9 DEF Churn!Next
<1> QED BY <1>1, <1>2, <1>3, PTL DEF Churn!Spec

-----------------------------------------------------------------------------
(* SaveWatcher.                                                             *)

CONSTANTS Folder, Home(_), Content, MaxEdits
VARIABLES disk, watch, events, known, scan, late, edits

Watch == INSTANCE SaveWatcher

\* Files are in the root or in a folder; no name or content stands for two things.
WatchConstants ==
  /\ \A f \in Doc : Home(f) \in Watch!Dir
  /\ "root" \notin Folder /\ Doc \cap Watch!Dir = {}
  /\ Content \cap {"absent", "locked"} = {}

Read     == Content \cup {"absent"}
OnVault  == [file : [Doc -> Content \cup {"absent", "locked"}], folders : SUBSET Folder]
Ears     == [on : [Watch!Dir -> {"none", "live", "deaf"}], mode : {"new", "watching", "fallback", "closed"},
             poll : BOOLEAN, armed : BOOLEAN]
Heard    == {<<"root", x>> : x \in Folder} \cup {<<Home(f), f>> : f \in Doc}
Opening  == <<"open", "scan">>
Scanning == [of : Watch!Dir, dirs : SUBSET Watch!Dir, phase : {Opening, <<"scan">>}]

WatchTypes ==
  /\ disk \in OnVault /\ watch \in Ears /\ events \subseteq Heard
  /\ known \in [Doc -> Read] /\ told \in [Doc -> Read] /\ pending \subseteq Doc
  /\ scan \in {Watch!Idle} \cup Scanning /\ late \subseteq Folder

\* A file is nowhere without its folder.
FilesAreThere == \A f \in Doc : disk.file[f] # "absent" => Watch!IsThere(disk, Home(f))

\* A pause runs while files are to be reported; whoever fell back looks from time to time.
PauseFits == (pending # {} => watch.armed) /\ (watch.mode = "fallback" => watch.poll)

Looked(y) == scan # Watch!Idle /\ y \in Watch!Under(scan.of)

\* A scan that has yet to open its watchers has listed every folder, but for those that came since.
ListFits ==
  scan # Watch!Idle /\ scan.phase = Opening =>
    /\ scan.dirs \subseteq Watch!Under(scan.of)
    /\ \A y \in Watch!Under(scan.of) : Watch!IsThere(disk, y) => y \in scan.dirs \cup late

\* The root is watched, or is about to be.
RootFits ==
  \/ watch.on["root"] = "live"
  \/ scan # Watch!Idle /\ scan.of = "root" /\ scan.phase = Opening

\* A directory is watched, or will be looked at.
Watched(y) ==
  Watch!IsThere(disk, y) =>
    \/ watch.on[y] = "live" \/ y \in late \/ <<"root", y>> \in events
    \/ Looked(y) /\ scan.phase = Opening

\* A file that is not as it was told will be noticed; what is known but not told is to be reported.
Noticed(f) ==
  /\ known[f] # told[f] => f \in pending
  /\ told[f] # Watch!Hash(disk)[f] =>
       \/ f \in pending \/ Home(f) \in late \/ <<"root", Home(f)>> \in events \/ Looked(Home(f))
       \/ Watch!IsThere(disk, Home(f)) /\ <<Home(f), f>> \in events

WatchInv ==
  /\ WatchTypes /\ FilesAreThere /\ PauseFits
  /\ watch.mode \in {"new", "closed"} => scan = Watch!Idle
  /\ watch.mode = "watching" => /\ ListFits /\ RootFits
                                /\ \A y \in Watch!Dir : Watched(y)
                                /\ \A f \in Doc : Noticed(f)


LEMMA HashIs ==
  ASSUME NEW d
  PROVE  /\ Watch!Hash(d) \in [Doc -> Read]
         /\ \A f \in Doc : Watch!Hash(d)[f] = IF d.file[f] \in Content THEN d.file[f] ELSE "absent"
BY DEF Watch!Hash, Read

\* The directories that are listed with one are among the directories, and it is one of them.
LEMMA UnderIs ==
  ASSUME NEW x \in Watch!Dir
  PROVE  x \in Watch!Under(x) /\ Watch!Under(x) \subseteq Watch!Dir /\ (x = "root" => Watch!Under(x) = Watch!Dir)
         /\ (x # "root" => Watch!Under(x) = {x})
BY DEF Watch!Under

LEMMA WatchFacts ==
  ASSUME WatchInv
  PROVE  /\ WatchTypes /\ FilesAreThere /\ PauseFits
         /\ watch.mode \in {"new", "closed"} => scan = Watch!Idle
         /\ watch.mode = "watching" => /\ ListFits /\ RootFits
                                       /\ \A y \in Watch!Dir : Watched(y)
                                       /\ \A f \in Doc : Noticed(f)
BY DEF WatchInv

\* A scan is not the idle one, and its record says what is left of it.
LEMMA ScansAre ==
  ASSUME WatchTypes, scan # Watch!Idle
  PROVE  /\ scan \in Scanning /\ scan.of \in Watch!Dir /\ scan.dirs \subseteq Watch!Dir
         /\ scan.phase \in {Opening, <<"scan">>}
         /\ scan.phase = Opening <=> Head(scan.phase) = "open"
         /\ Len(Opening) = 2 /\ Tail(Opening) = <<"scan">> /\ Len(<<"scan">>) = 1
         /\ scan.phase = Opening <=> Len(scan.phase) # 1
<1>1. scan \in Scanning
  BY DEF WatchTypes
<1>2. /\ Len(Opening) = 2 /\ Tail(Opening) = <<"scan">> /\ Len(<<"scan">>) = 1
      /\ Head(Opening) = "open" /\ Head(<<"scan">>) = "scan"
  BY DEF Opening
<1> QED BY <1>1, <1>2 DEF Scanning

\* A new scan lists what is there.
LEMMA ListStarts ==
  ASSUME NEW x \in Watch!Dir, Watch!List(x)
  PROVE  /\ scan' \in Scanning /\ scan'.of = x /\ scan'.phase = Opening
         /\ scan'.dirs = {y \in Watch!Under(x) : Watch!IsThere(disk, y)} /\ scan' # Watch!Idle
<1>1. {y \in Watch!Under(x) : Watch!IsThere(disk, y)} \subseteq Watch!Dir
  BY UnderIs
<1>2. PICK D \in SUBSET Watch!Dir : D = {y \in Watch!Under(x) : Watch!IsThere(disk, y)}
  BY <1>1
<1>3. scan' = [of |-> x, dirs |-> D, phase |-> Opening]
  BY <1>2 DEF Watch!List, Watch!Order, Opening
<1>4. scan'.phase = Opening /\ Opening # << >>
  BY <1>3 DEF Opening
<1>5. scan' # Watch!Idle
  BY <1>4 DEF Watch!Idle
<1> QED BY <1>2, <1>3, <1>5 DEF Scanning

LEMMA WatchStart == ASSUME WatchConstants, Watch!Init PROVE WatchInv
<1>1. /\ disk \in [file : [Doc -> Content \cup {"absent"}], folders : SUBSET Folder]
      /\ \A f \in Doc : disk.file[f] # "absent" => Watch!IsThere(disk, Home(f))
      /\ watch = [on |-> [x \in Watch!Dir |-> "none"], mode |-> "new", poll |-> FALSE, armed |-> FALSE]
      /\ events = {} /\ pending = {} /\ scan = Watch!Idle /\ late = {}
      /\ known = [f \in Doc |-> "absent"] /\ told = Watch!Hash(disk)
  BY DEF Watch!Init
<1>2. disk \in OnVault
  BY <1>1 DEF OnVault
<1>3. watch \in Ears /\ watch.mode = "new"
  BY <1>1 DEF Ears
<1>4. WatchTypes
  BY <1>1, <1>2, <1>3, HashIs DEF WatchTypes, Read
<1> QED BY <1>1, <1>3, <1>4 DEF WatchInv, FilesAreThere, PauseFits

\* A directory that stays keeps what is known of it while something else changes in the vault.
LEMMA NoticedStays ==
  ASSUME NEW f \in Doc, Noticed(f), disk'.file[f] = disk.file[f], known' = known, told' = told,
         pending' = pending,
         scan' = scan, events \subseteq events', Home(f) \in late => Home(f) \in late',
         Watch!IsThere(disk, Home(f)) => Watch!IsThere(disk', Home(f))
  PROVE  Noticed(f)'
<1>1. Watch!Hash(disk)[f] = Watch!Hash(disk')[f]
  BY HashIs
<1>2. Looked(Home(f)) => Looked(Home(f))'
  BY DEF Looked
<1>3. (Watch!Hash(disk)[f])' = Watch!Hash(disk')[f]
  BY DEF Watch!Hash
<1>4. Watch!IsThere(disk, Home(f))' = Watch!IsThere(disk', Home(f))
  BY DEF Watch!IsThere
<1> QED BY <1>1, <1>2, <1>3, <1>4 DEF Noticed

LEMMA WatchWrites ==
  ASSUME WatchInv, WatchConstants, NEW f \in Doc, NEW c \in Content \cup {"absent", "locked"}, Watch!Write(f, c)
  PROVE  WatchInv'
<1>1. /\ Watch!IsThere(disk, Home(f)) /\ disk' = [disk EXCEPT !.file[f] = c]
      /\ events' = events \cup {e \in {<<Home(f), f>>} : watch.on[e[1]] = "live"}
      /\ known' = known /\ pending' = pending /\ told' = told /\ scan' = scan /\ watch' = watch /\ late' = late
  BY DEF Watch!Write, Watch!Notify, Watch!Edit
<1>2. WatchTypes /\ FilesAreThere /\ PauseFits /\ Home(f) \in Watch!Dir
  BY WatchFacts DEF WatchConstants
<1>3. PICK F \in [Doc -> Content \cup {"absent", "locked"}] : F = [disk.file EXCEPT ![f] = c]
  BY <1>2 DEF WatchTypes, OnVault
<1>4. disk \in OnVault /\ disk' = [disk EXCEPT !.file = F]
  BY <1>1, <1>2, <1>3 DEF WatchTypes
<1>5. disk' \in OnVault /\ disk'.folders = disk.folders /\ disk'.file = F
  BY <1>4 DEF OnVault
<1>6. \A g \in Doc : g # f => disk'.file[g] = disk.file[g]
  BY <1>3, <1>4, <1>5 DEF OnVault
<1>7. \A y : Watch!IsThere(disk', y) = Watch!IsThere(disk, y)
  BY <1>5 DEF Watch!IsThere
<1>8. /\ events' \subseteq Heard /\ events \subseteq events'
      /\ (watch.on[Home(f)] = "live" => <<Home(f), f>> \in events')
  BY <1>1, <1>2 DEF WatchTypes, Heard
<1>9. WatchTypes'
  BY <1>1, <1>2, <1>5, <1>8 DEF WatchTypes
<1>10. FilesAreThere'
  BY <1>1, <1>2, <1>6, <1>7 DEF FilesAreThere, Watch!IsThere
<1>11. ASSUME watch.mode = "watching"
       PROVE ListFits' /\ RootFits' /\ (\A y \in Watch!Dir : Watched(y)') /\ \A g \in Doc : Noticed(g)'
  <2>1. ListFits /\ RootFits /\ (\A y \in Watch!Dir : Watched(y)) /\ \A g \in Doc : Noticed(g)
    BY <1>11, WatchFacts
  <2>2. ListFits' /\ RootFits'
    BY <1>1, <1>7, <2>1 DEF ListFits, RootFits, Watch!IsThere
  <2>3. \A y \in Watch!Dir : Watched(y)'
    BY <1>1, <1>7, <1>8, <2>1 DEF Watched, Looked, Watch!IsThere
  <2>4. \A g \in Doc : g # f => Noticed(g)'
    BY <1>1, <1>6, <1>7, <1>8, <2>1, NoticedStays
  <2>5. Noticed(f)'
    <3>1. known'[f] # told'[f] => f \in pending'
      BY <1>1, <2>1 DEF Noticed
    <3>2. \/ Home(f) \in late' \/ <<"root", Home(f)>> \in events' \/ Looked(Home(f))'
          \/ Watch!IsThere(disk, Home(f))' /\ <<Home(f), f>> \in events'
      BY <1>1, <1>2, <1>5, <1>8, <2>1 DEF Watched, Looked, Watch!IsThere
    <3> QED BY <3>1, <3>2 DEF Noticed
  <2> QED BY <2>2, <2>3, <2>4, <2>5
<1>12. PauseFits' /\ (watch'.mode \in {"new", "closed"} => scan' = Watch!Idle)
  BY <1>1, <1>2, WatchFacts DEF PauseFits
<1> QED BY <1>1, <1>9, <1>10, <1>11, <1>12 DEF WatchInv

LEMMA WatchAppears ==
  ASSUME WatchInv, WatchConstants, NEW x \in Folder, NEW c \in Content \cup {"absent"}, Watch!Appear(x, c)
  PROVE  WatchInv'
<1>1. /\ x \notin disk.folders
      /\ disk' = [file |-> [f \in Doc |-> IF Home(f) = x THEN c ELSE disk.file[f]], folders |-> disk.folders \cup {x}]
      /\ events' = events \cup {e \in {<<"root", x>>} : watch.on[e[1]] = "live"}
      /\ late' = IF scan = Watch!Idle THEN late ELSE late \cup {x}
      /\ known' = known /\ pending' = pending /\ told' = told /\ scan' = scan /\ watch' = watch
  BY DEF Watch!Appear, Watch!Notify, Watch!Edit
<1>2. WatchTypes /\ FilesAreThere /\ PauseFits /\ x # "root" /\ x \in Watch!Dir
  BY WatchFacts DEF WatchConstants, Watch!Dir
<1>3. disk \in OnVault
  BY <1>2 DEF WatchTypes
<1>4. disk' \in OnVault /\ disk'.folders = disk.folders \cup {x}
  BY <1>1, <1>3 DEF OnVault
<1>5. \A g \in Doc : disk'.file[g] = IF Home(g) = x THEN c ELSE disk.file[g]
  BY <1>1
<1>6. \A y : y # x => Watch!IsThere(disk', y) = Watch!IsThere(disk, y)
  BY <1>4 DEF Watch!IsThere
<1>7. /\ events' \subseteq Heard /\ events \subseteq events'
      /\ watch.on["root"] = "live" => <<"root", x>> \in events'
  BY <1>1, <1>2 DEF WatchTypes, Heard
<1>8. late' \subseteq Folder /\ late \subseteq late' /\ (scan # Watch!Idle => x \in late')
  BY <1>1, <1>2 DEF WatchTypes
<1>9. WatchTypes'
  BY <1>1, <1>2, <1>4, <1>7, <1>8 DEF WatchTypes
<1>10. FilesAreThere'
  BY <1>2, <1>4, <1>5, <1>6 DEF FilesAreThere, Watch!IsThere
<1>11. ASSUME watch.mode = "watching"
       PROVE ListFits' /\ RootFits' /\ (\A y \in Watch!Dir : Watched(y)') /\ \A g \in Doc : Noticed(g)'
  <2>1. ListFits /\ RootFits /\ (\A y \in Watch!Dir : Watched(y)) /\ \A g \in Doc : Noticed(g)
    BY <1>11, WatchFacts
  <2>2. x \in late' \/ <<"root", x>> \in events'
    BY <1>7, <1>8, <2>1 DEF RootFits
  <2>3. \A y : y # x => (Watch!IsThere(disk, y)' = Watch!IsThere(disk, y))
    BY <1>6 DEF Watch!IsThere
  <2>4. ListFits' /\ RootFits'
    BY <1>1, <1>8, <2>1, <2>3 DEF ListFits, RootFits
  <2>5. \A y \in Watch!Dir : Watched(y)'
    BY <1>1, <1>7, <1>8, <2>1, <2>2, <2>3 DEF Watched, Looked
  <2>6. ASSUME NEW g \in Doc PROVE Noticed(g)'
    <3>1. CASE Home(g) # x
      BY <1>1, <1>5, <1>6, <1>7, <1>8, <2>1, <3>1, NoticedStays
    <3>2. CASE Home(g) = x
      BY <1>1, <2>1, <2>2, <3>2 DEF Noticed
    <3> QED BY <3>1, <3>2
  <2> QED BY <2>4, <2>5, <2>6
<1>12. PauseFits' /\ (watch'.mode \in {"new", "closed"} => scan' = Watch!Idle)
  BY <1>1, <1>2, WatchFacts DEF PauseFits
<1> QED BY <1>1, <1>9, <1>10, <1>11, <1>12 DEF WatchInv

LEMMA WatchVanishes == ASSUME WatchInv, WatchConstants, NEW x \in Folder, Watch!Vanish(x) PROVE WatchInv'
<1>1. /\ disk' = [file |-> [f \in Doc |-> IF Home(f) = x THEN "absent" ELSE disk.file[f]], folders |-> disk.folders \ {x}]
      /\ events' = events \cup {e \in {<<"root", x>>} \cup {<<x, f>> : f \in {g \in Doc : Home(g) = x}} : watch.on[e[1]] = "live"}
      /\ watch' = [watch EXCEPT !.on[x] = IF watch.on[x] = "live" THEN "deaf" ELSE watch.on[x]]
      /\ late' = late \ {x} /\ known' = known /\ pending' = pending /\ told' = told /\ scan' = scan
  BY DEF Watch!Vanish, Watch!Notify, Watch!Edit
<1>2. WatchTypes /\ FilesAreThere /\ PauseFits /\ x # "root" /\ x \in Watch!Dir
  BY WatchFacts DEF WatchConstants, Watch!Dir
<1>3. disk \in OnVault /\ watch \in Ears
  BY <1>2 DEF WatchTypes
<1>4. disk' \in OnVault /\ disk'.folders = disk.folders \ {x}
  BY <1>1, <1>3 DEF OnVault
<1>5. \A g \in Doc : disk'.file[g] = IF Home(g) = x THEN "absent" ELSE disk.file[g]
  BY <1>1
<1>6. \A y : y # x => (Watch!IsThere(disk', y) = Watch!IsThere(disk, y))
  BY <1>4 DEF Watch!IsThere
<1>7. /\ events' \subseteq Heard /\ events \subseteq events'
      /\ watch.on["root"] = "live" => <<"root", x>> \in events'
  BY <1>1, <1>2 DEF WatchTypes, Heard
<1>8. PICK O \in [Watch!Dir -> {"none", "live", "deaf"}] :
        O = [watch.on EXCEPT ![x] = IF watch.on[x] = "live" THEN "deaf" ELSE watch.on[x]]
  BY <1>2, <1>3 DEF Ears
<1>9. watch' = [watch EXCEPT !.on = O]
  BY <1>1, <1>8
<1>10. /\ watch' \in Ears /\ watch'.on = O /\ watch'.mode = watch.mode /\ watch'.poll = watch.poll
       /\ watch'.armed = watch.armed
  BY <1>3, <1>9 DEF Ears
<1>11. \A y \in Watch!Dir : y # x => watch'.on[y] = watch.on[y]
  BY <1>3, <1>8, <1>10 DEF Ears
<1>12. "root" \in Watch!Dir
  BY DEF Watch!Dir
<1>13. WatchTypes'
  BY <1>1, <1>2, <1>4, <1>7, <1>10 DEF WatchTypes
<1>14. FilesAreThere'
  BY <1>2, <1>4, <1>5, <1>6 DEF FilesAreThere, Watch!IsThere
<1>15. ASSUME watch.mode = "watching"
       PROVE ListFits' /\ RootFits' /\ (\A y \in Watch!Dir : Watched(y)') /\ \A g \in Doc : Noticed(g)'
  <2>1. ListFits /\ RootFits /\ (\A y \in Watch!Dir : Watched(y)) /\ \A g \in Doc : Noticed(g)
    BY <1>15, WatchFacts
  <2>2. <<"root", x>> \in events' \/ Looked(x)'
    BY <1>1, <1>2, <1>7, <1>12, <2>1, UnderIs DEF RootFits, Looked
  <2>3. \A y : y # x => (Watch!IsThere(disk, y)' = Watch!IsThere(disk, y))
    BY <1>6 DEF Watch!IsThere
  <2>4. ~Watch!IsThere(disk, x)'
    BY <1>2, <1>4 DEF Watch!IsThere
  <2>5. ListFits' /\ RootFits'
    BY <1>1, <1>2, <1>11, <1>12, <2>1, <2>3, <2>4 DEF ListFits, RootFits
  <2>6. \A y \in Watch!Dir : Watched(y)'
    BY <1>1, <1>7, <1>11, <2>1, <2>3, <2>4 DEF Watched, Looked
  <2>7. ASSUME NEW g \in Doc PROVE Noticed(g)'
    <3>1. CASE Home(g) # x
      BY <1>1, <1>5, <1>6, <1>7, <2>1, <3>1, NoticedStays
    <3>2. CASE Home(g) = x
      BY <1>1, <2>1, <2>2, <3>2 DEF Noticed
    <3> QED BY <3>1, <3>2
  <2> QED BY <2>5, <2>6, <2>7
<1>16. PauseFits' /\ (watch'.mode \in {"new", "closed"} => scan' = Watch!Idle)
  BY <1>1, <1>2, <1>10, WatchFacts DEF PauseFits
<1> QED BY <1>10, <1>13, <1>14, <1>15, <1>16 DEF WatchInv

\* Where watchers are given up for good, what is left is the periodic scan.
LEMMA FallsBack ==
  ASSUME WatchInv, watch.mode \in {"watching", "fallback"}, watch' = Watch!FallBack(watch), events' = {},
         disk' = disk,
         known' = known, told' = told, pending' = pending, late' \subseteq Folder,
         scan' = Watch!Idle
  PROVE  WatchInv'
<1>1. WatchTypes /\ FilesAreThere /\ PauseFits
  BY WatchFacts
<1>2. PICK O \in [Watch!Dir -> {"none", "live", "deaf"}] : O = [x \in Watch!Dir |-> "none"]
  OBVIOUS
<1>3. PICK n \in Ears : n = [watch EXCEPT !.on = O]
  BY <1>1 DEF WatchTypes, Ears
<1>4. n.armed = watch.armed
  BY <1>1, <1>3 DEF WatchTypes, Ears
<1>5. PICK m \in Ears : m = [n EXCEPT !.mode = "fallback"]
  BY DEF Ears
<1>6. m.armed = watch.armed /\ m.mode = "fallback"
  BY <1>4, <1>5 DEF Ears
<1>7. PICK k \in Ears : k = [m EXCEPT !.poll = TRUE]
  BY DEF Ears
<1>8. k.armed = watch.armed /\ k.mode = "fallback" /\ k.poll
  BY <1>6, <1>7 DEF Ears
<1>9. watch' = k
  BY <1>2, <1>3, <1>5, <1>7 DEF Watch!FallBack
<1>10. WatchTypes'
  BY <1>1, <1>9 DEF WatchTypes
<1>11. FilesAreThere' /\ PauseFits'
  BY <1>1, <1>8, <1>9 DEF FilesAreThere, PauseFits, Watch!IsThere
<1> QED BY <1>8, <1>9, <1>10, <1>11 DEF WatchInv

LEMMA WatchStarts == ASSUME WatchInv, WatchConstants, Watch!Start PROVE WatchInv'
<1>1. /\ watch.mode = "new" /\ known' = Watch!Hash(disk) /\ told' = Watch!Hash(disk) /\ Watch!List("root")
      /\ watch' = [watch EXCEPT !.mode = "watching", !.poll = TRUE]
      /\ disk' = disk /\ events' = events /\ pending' = pending /\ late' = late
  BY DEF Watch!Start
<1>2. WatchTypes /\ FilesAreThere /\ PauseFits /\ "root" \in Watch!Dir
  BY WatchFacts DEF Watch!Dir
<1>3. PICK n \in Ears : n = [watch EXCEPT !.mode = "watching"]
  BY <1>2 DEF WatchTypes, Ears
<1>4. n.mode = "watching" /\ n.armed = watch.armed
  BY <1>2, <1>3 DEF WatchTypes, Ears
<1>5. PICK m \in Ears : m = [n EXCEPT !.poll = TRUE]
  BY DEF Ears
<1>6. m.mode = "watching" /\ m.armed = watch.armed
  BY <1>4, <1>5 DEF Ears
<1>7. watch' = m
  BY <1>1, <1>3, <1>5
<1>8. scan' \in Scanning /\ scan'.of = "root" /\ scan'.phase = Opening /\ scan' # Watch!Idle
      /\ scan'.dirs = {y \in Watch!Under("root") : Watch!IsThere(disk, y)}
  BY <1>1, <1>2, ListStarts
<1>9. known' \in [Doc -> Read] /\ told' \in [Doc -> Read]
  BY <1>1, HashIs
<1>10. WatchTypes'
  BY <1>1, <1>2, <1>7, <1>8, <1>9 DEF WatchTypes
<1>11. FilesAreThere' /\ PauseFits'
  BY <1>1, <1>2, <1>6, <1>7 DEF FilesAreThere, PauseFits, Watch!IsThere
<1>12. ListFits' /\ RootFits'
  BY <1>1, <1>8 DEF ListFits, RootFits, Watch!IsThere
<1>13. \A y \in Watch!Dir : Watched(y)'
  BY <1>2, <1>8, UnderIs DEF Watched, Looked
<1>14. \A f \in Doc : Noticed(f)'
  <2>1. (Watch!Hash(disk))' = Watch!Hash(disk)
    BY <1>1 DEF Watch!Hash
  <2> QED BY <1>1, <2>1 DEF Noticed
<1> QED BY <1>6, <1>7, <1>10, <1>11, <1>12, <1>13, <1>14 DEF WatchInv

\* Opening, if every directory that was listed is still there.
LEMMA WatchOpensAll ==
  ASSUME WatchInv, WatchConstants, scan # Watch!Idle, Head(scan.phase) = "open",
         \A y \in scan.dirs : Watch!IsThere(disk, y),
         watch' = IF watch.mode = "fallback" THEN watch
                  ELSE [watch EXCEPT !.on = [y \in Watch!Dir |-> IF y \in scan.dirs THEN "live"
                                             ELSE IF y \in Watch!Under(scan.of) THEN "none" ELSE watch.on[y]]],
         events' = {e \in events : e[1] \notin Watch!Under(scan.of)},
         scan' = IF Len(scan.phase) = 1 THEN Watch!Idle ELSE [scan EXCEPT !.phase = Tail(scan.phase)],
         late' = late \ scan.dirs, disk' = disk, known' = known, pending' = pending, told' = told
  PROVE  WatchInv'
<1>1. WatchTypes /\ FilesAreThere /\ PauseFits
  BY WatchFacts
<1>2. /\ scan \in Scanning /\ scan.of \in Watch!Dir /\ scan.phase = Opening /\ Len(scan.phase) # 1
      /\ Tail(scan.phase) = <<"scan">>
  BY <1>1, ScansAre
<1>3. scan' = [scan EXCEPT !.phase = <<"scan">>]
  BY <1>2
<1>4. scan' \in Scanning /\ scan'.of = scan.of /\ scan'.phase = <<"scan">>
  BY <1>2, <1>3 DEF Scanning
<1>5. scan'.phase # Opening /\ scan' # Watch!Idle
  <2>1. <<"scan">> # Opening /\ <<"scan">> # << >>
    BY DEF Opening
  <2> QED BY <1>4, <2>1 DEF Watch!Idle
<1>6. /\ watch' \in Ears /\ watch'.mode = watch.mode /\ watch'.poll = watch.poll /\ watch'.armed = watch.armed
      /\ watch.mode = "watching" =>
           \A y \in Watch!Dir : watch'.on[y] = IF y \in scan.dirs THEN "live"
                                               ELSE IF y \in Watch!Under(scan.of) THEN "none" ELSE watch.on[y]
  <2>1. CASE watch.mode = "fallback"
    BY <1>1, <2>1 DEF WatchTypes
  <2>2. CASE watch.mode # "fallback"
    <3>1. PICK O \in [Watch!Dir -> {"none", "live", "deaf"}] :
            O = [y \in Watch!Dir |-> IF y \in scan.dirs THEN "live"
                                     ELSE IF y \in Watch!Under(scan.of) THEN "none" ELSE watch.on[y]]
      BY <1>1 DEF WatchTypes, Ears
    <3>2. watch' = [watch EXCEPT !.on = O]
      BY <2>2, <3>1
    <3>3. /\ watch' \in Ears /\ watch'.mode = watch.mode /\ watch'.poll = watch.poll
          /\ watch'.armed = watch.armed
          /\ watch'.on = O
      BY <1>1, <3>2 DEF WatchTypes, Ears
    <3> QED BY <3>1, <3>3
  <2> QED BY <2>1, <2>2
<1>7. events' \subseteq events /\ late' \subseteq late
  OBVIOUS
<1>8. WatchTypes'
  BY <1>1, <1>4, <1>6, <1>7 DEF WatchTypes
<1>9. FilesAreThere' /\ PauseFits' /\ \A y : Watch!IsThere(disk, y)' = Watch!IsThere(disk, y)
  BY <1>1, <1>6 DEF FilesAreThere, PauseFits, Watch!IsThere
<1>10. watch'.mode \notin {"new", "closed"}
  BY <1>6, WatchFacts
<1>11. ASSUME watch.mode = "watching"
       PROVE ListFits' /\ RootFits' /\ (\A y \in Watch!Dir : Watched(y)') /\ \A g \in Doc : Noticed(g)'
  <2>1. ListFits /\ RootFits /\ (\A y \in Watch!Dir : Watched(y)) /\ \A g \in Doc : Noticed(g)
    BY <1>11, WatchFacts
  <2>2. \A y \in Watch!Dir : watch'.on[y] = IF y \in scan.dirs THEN "live"
                                            ELSE IF y \in Watch!Under(scan.of) THEN "none" ELSE watch.on[y]
    BY <1>6, <1>11
  <2>3. ListFits'
    BY <1>5 DEF ListFits
  <2>4. ASSUME NEW y \in Watch!Dir, Watch!IsThere(disk, y), y \in Watch!Under(scan.of)
        PROVE y \in late' \/ watch'.on[y] = "live"
    BY <1>2, <2>1, <2>2, <2>4 DEF ListFits
  <2>5. "root" \in Watch!Dir /\ "root" \notin Folder /\ Watch!IsThere(disk, "root")
    BY DEF WatchConstants, Watch!Dir, Watch!IsThere
  <2>6. RootFits'
    <3>1. CASE scan.of = "root"
      <4>1. "root" \notin late'
        BY <1>1, <1>7, <2>5 DEF WatchTypes
      <4> QED BY <2>4, <2>5, <3>1, <4>1, UnderIs DEF RootFits
    <3>2. CASE scan.of # "root"
      <4>1. watch.on["root"] = "live" /\ "root" \notin Watch!Under(scan.of)
        BY <1>2, <2>1, <3>2, UnderIs DEF RootFits
      <4> QED BY <2>2, <2>5, <4>1 DEF RootFits
    <3> QED BY <3>1, <3>2
  <2>7. \A y \in Watch!Dir : <<"root", y>> \in events => <<"root", y>> \in events' \/ y \in Watch!Under(scan.of)
    <3>1. CASE scan.of = "root"
      BY <2>5, <3>1, UnderIs
    <3>2. CASE scan.of # "root"
      BY <1>2, <3>2, UnderIs
    <3> QED BY <3>1, <3>2
  <2>8. ASSUME NEW y \in Watch!Dir PROVE Watched(y)'
    <3>1. CASE y \in Watch!Under(scan.of)
      BY <1>9, <2>4, <3>1 DEF Watched
    <3>2. CASE y \notin Watch!Under(scan.of)
      <4>1. ~Looked(y)
        BY <3>2 DEF Looked
      <4>2. y \in late /\ Watch!IsThere(disk, y) => y \in late' \/ watch'.on[y] = "live"
        BY <2>2
      <4>3. watch.on[y] = "live" => watch'.on[y] = "live"
        BY <2>2, <3>2
      <4> QED BY <1>9, <2>1, <2>7, <3>2, <4>1, <4>2, <4>3 DEF Watched
    <3> QED BY <3>1, <3>2
  <2>9. ASSUME NEW g \in Doc PROVE Noticed(g)'
    <3>1. Home(g) \in Watch!Dir
      BY DEF WatchConstants
    <3>2. Watch!Hash(disk)' = Watch!Hash(disk)
      BY DEF Watch!Hash
    <3>3. CASE Home(g) \in Watch!Under(scan.of)
      <4>1. Looked(Home(g))'
        BY <1>4, <1>5, <3>3 DEF Looked, Watch!Under
      <4> QED BY <2>1, <4>1 DEF Noticed
    <3>4. CASE Home(g) \notin Watch!Under(scan.of)
      <4>1. ~Looked(Home(g))
        BY <3>4 DEF Looked
      <4>2. Home(g) \in late => Home(g) \in late'
        BY <1>2, <2>1, <3>4 DEF ListFits
      <4>3. <<Home(g), g>> \in events => <<Home(g), g>> \in events'
        BY <3>4
      <4> QED BY <1>9, <2>1, <2>7, <3>1, <3>2, <3>4, <4>1, <4>2, <4>3 DEF Noticed
    <3> QED BY <3>3, <3>4
  <2> QED BY <2>3, <2>6, <2>8, <2>9
<1> QED BY <1>6, <1>8, <1>9, <1>10, <1>11 DEF WatchInv

LEMMA WatchOpens == ASSUME WatchInv, WatchConstants, Watch!Open PROVE WatchInv'
<1>1. scan # Watch!Idle /\ watch.mode \in {"watching", "fallback"}
  BY WatchFacts DEF Watch!Open, WatchTypes, Ears
<1>2. CASE watch' = Watch!FallBack(watch) /\ events' = {} /\ scan' = Watch!Idle /\ late' = late
  BY <1>1, <1>2, FallsBack, WatchFacts DEF Watch!Open, WatchTypes
<1>3. CASE ~(watch' = Watch!FallBack(watch) /\ events' = {} /\ scan' = Watch!Idle /\ late' = late)
  BY <1>1, <1>3, WatchOpensAll DEF Watch!Open
<1> QED BY <1>2, <1>3

LEMMA WatchFails == ASSUME WatchInv, Watch!WatchError PROVE WatchInv'
<1>1. late \subseteq Folder
  BY WatchFacts DEF WatchTypes
<1> QED BY <1>1, FallsBack DEF Watch!WatchError

\* What is found to be new is to be reported, and the pause begins.
LEMMA WatchQueues ==
  ASSUME WatchInv, NEW S \in SUBSET Doc, NEW w \in Ears, w.armed = watch.armed, w.poll = watch.poll,
         w.mode = watch.mode, Watch!Queue(S, w)
  PROVE  /\ pending' = pending \cup S /\ pending' \subseteq Doc /\ PauseFits'
         /\ watch' \in Ears /\ watch'.on = w.on /\ watch'.mode = watch.mode
<1>1. pending' = pending \cup S /\ watch' = [w EXCEPT !.armed = w.armed \/ S # {}]
  BY DEF Watch!Queue
<1>2. watch' \in Ears /\ watch'.on = w.on /\ watch'.mode = watch.mode /\ watch'.poll = watch.poll
  BY <1>1 DEF Ears
<1>3. watch'.armed = (w.armed \/ S # {})
  BY <1>1 DEF Ears
<1>4. pending \subseteq Doc /\ PauseFits
  BY WatchFacts DEF WatchTypes
<1> QED BY <1>1, <1>2, <1>3, <1>4 DEF PauseFits

\* A file that was looked at is as it was told, or is to be reported.
LEMMA LookedAt ==
  ASSUME NEW f \in Doc, known[f] # told[f] => f \in pending, disk' = disk, told' = told,
         pending \subseteq pending',
         known'[f] = Watch!Hash(disk)[f], known[f] # Watch!Hash(disk)[f] => f \in pending'
  PROVE  Noticed(f)'
<1>1. (Watch!Hash(disk))' = Watch!Hash(disk)
  BY DEF Watch!Hash
<1> QED BY <1>1 DEF Noticed

\* What is known of a file stays, and so does the reason why it will be looked at.
LEMMA NotLookedAt ==
  ASSUME NEW f \in Doc, Noticed(f), disk' = disk, known'[f] = known[f], told' = told,
         pending \subseteq pending', late' = late,
         Looked(Home(f)) => Looked(Home(f))',
         <<"root", Home(f)>> \in events => <<"root", Home(f)>> \in events' \/ Looked(Home(f))',
         Watch!IsThere(disk, Home(f)) /\ <<Home(f), f>> \in events => <<Home(f), f>> \in events' \/ Looked(Home(f))'
  PROVE  Noticed(f)'
<1>1. (Watch!Hash(disk))' = Watch!Hash(disk)
  BY DEF Watch!Hash
<1>2. Watch!IsThere(disk, Home(f))' = Watch!IsThere(disk, Home(f))
  BY DEF Watch!IsThere
<1> QED BY <1>1, <1>2 DEF Noticed

LEMMA WatchScans == ASSUME WatchInv, WatchConstants, Watch!Scan PROVE WatchInv'
<1> DEFINE newer == {f \in Watch!DocsUnder(scan.of) : known[f] # Watch!Hash(disk)[f]}
<1>1. /\ scan # Watch!Idle /\ Head(scan.phase) = "scan" /\ Watch!Queue(newer, watch)
      /\ known' = [f \in Doc |-> IF f \in newer THEN Watch!Hash(disk)[f] ELSE known[f]]
      /\ scan' = IF Len(scan.phase) = 1 THEN Watch!Idle ELSE [scan EXCEPT !.phase = Tail(scan.phase)]
      /\ disk' = disk /\ events' = events /\ told' = told /\ late' = late
  BY DEF Watch!Scan
<1>2. WatchTypes /\ FilesAreThere /\ PauseFits /\ newer \subseteq Doc
  BY WatchFacts DEF Watch!DocsUnder
<1>3. scan' = Watch!Idle /\ scan.phase # Opening
  BY <1>1, <1>2, ScansAre
<1>4. /\ pending' = pending \cup newer /\ pending' \subseteq Doc /\ PauseFits'
      /\ watch' \in Ears /\ watch'.on = watch.on /\ watch'.mode = watch.mode
  BY <1>1, <1>2, WatchQueues DEF WatchTypes
<1>5. known' \in [Doc -> Read]
  BY <1>1, <1>2, HashIs DEF WatchTypes
<1>6. WatchTypes' /\ FilesAreThere'
  BY <1>1, <1>2, <1>3, <1>4, <1>5 DEF WatchTypes, FilesAreThere, Watch!IsThere
<1>7. ASSUME watch.mode = "watching"
      PROVE ListFits' /\ RootFits' /\ (\A y \in Watch!Dir : Watched(y)') /\ \A g \in Doc : Noticed(g)'
  <2>1. ListFits /\ RootFits /\ (\A y \in Watch!Dir : Watched(y)) /\ \A g \in Doc : Noticed(g)
    BY <1>7, WatchFacts
  <2>2. ListFits' /\ RootFits' /\ \A y \in Watch!Dir : Watched(y)'
    BY <1>1, <1>3, <1>4, <2>1 DEF ListFits, RootFits, Watched, Watch!IsThere
  <2>3. ASSUME NEW g \in Doc PROVE Noticed(g)'
    <3>1. CASE g \in Watch!DocsUnder(scan.of)
      <4>1. known'[g] = Watch!Hash(disk)[g] /\ (known[g] # Watch!Hash(disk)[g] => g \in pending')
        BY <1>1, <1>4, <3>1
      <4> QED BY <1>1, <1>4, <2>1, <4>1, LookedAt DEF Noticed
    <3>2. CASE g \notin Watch!DocsUnder(scan.of)
      <4>1. known'[g] = known[g] /\ ~Looked(Home(g))
        BY <1>1, <3>2 DEF Looked, Watch!DocsUnder
      <4> QED BY <1>1, <1>4, <2>1, <4>1, NotLookedAt
    <3> QED BY <3>1, <3>2
  <2> QED BY <2>2, <2>3
<1> QED BY <1>3, <1>4, <1>6, <1>7 DEF WatchInv

LEMMA WatchFlushes == ASSUME WatchInv, WatchConstants, Watch!Flush PROVE WatchInv'
<1>1. /\ scan = Watch!Idle /\ watch' = [watch EXCEPT !.armed = FALSE]
      /\ told' = [f \in Doc |-> IF f \in pending THEN Watch!Hash(disk)[f] ELSE told[f]]
      /\ known' = [f \in Doc |-> IF f \in pending THEN Watch!Hash(disk)[f] ELSE known[f]]
      /\ pending' = {} /\ disk' = disk /\ events' = events /\ scan' = scan /\ late' = late
  BY DEF Watch!Flush
<1>2. WatchTypes /\ FilesAreThere /\ PauseFits
  BY WatchFacts
<1>3. watch' \in Ears /\ watch'.on = watch.on /\ watch'.mode = watch.mode /\ watch'.poll = watch.poll
  BY <1>1, <1>2 DEF WatchTypes, Ears
<1>4. known' \in [Doc -> Read] /\ told' \in [Doc -> Read]
  BY <1>1, <1>2, HashIs DEF WatchTypes
<1>5. WatchTypes' /\ FilesAreThere' /\ PauseFits'
  BY <1>1, <1>2, <1>3, <1>4 DEF WatchTypes, FilesAreThere, PauseFits, Watch!IsThere
<1>6. ASSUME watch.mode = "watching"
      PROVE ListFits' /\ RootFits' /\ (\A y \in Watch!Dir : Watched(y)') /\ \A g \in Doc : Noticed(g)'
  <2>1. ListFits /\ RootFits /\ (\A y \in Watch!Dir : Watched(y)) /\ \A g \in Doc : Noticed(g)
    BY <1>6, WatchFacts
  <2>2. ListFits' /\ RootFits' /\ \A y \in Watch!Dir : Watched(y)'
    BY <1>1, <1>3, <2>1 DEF ListFits, RootFits, Watched, Watch!IsThere, Looked
  <2>3. ASSUME NEW g \in Doc PROVE Noticed(g)'
    <3>1. (Watch!Hash(disk))' = Watch!Hash(disk) /\ Watch!IsThere(disk, Home(g))' = Watch!IsThere(disk, Home(g))
      BY <1>1 DEF Watch!Hash, Watch!IsThere
    <3>2. ~Looked(Home(g))
      BY <1>1 DEF Looked
    <3> QED BY <1>1, <2>1, <3>1, <3>2 DEF Noticed
  <2> QED BY <2>2, <2>3
<1>7. watch'.mode \in {"new", "closed"} => scan' = Watch!Idle
  BY <1>1
<1> QED BY <1>3, <1>5, <1>6, <1>7 DEF WatchInv

LEMMA WatchCloses == ASSUME WatchInv, WatchConstants, Watch!Close PROVE WatchInv'
<1>1. /\ watch' = [on |-> [x \in Watch!Dir |-> "none"], mode |-> "closed", poll |-> FALSE, armed |-> FALSE]
      /\ scan = Watch!Idle /\ events' = {} /\ pending' = {} /\ disk' = disk /\ known' = known /\ told' = told
      /\ scan' = scan /\ late' = late
  BY DEF Watch!Close
<1>2. watch' \in Ears /\ watch'.mode = "closed"
  BY <1>1 DEF Ears
<1>3. WatchTypes' /\ FilesAreThere' /\ PauseFits'
  BY <1>1, <1>2, WatchFacts DEF WatchTypes, FilesAreThere, PauseFits, Watch!IsThere
<1> QED BY <1>1, <1>2, <1>3 DEF WatchInv

\* What was heard is of a folder in the root, or of a file where it lives.
LEMMA HeardIs ==
  ASSUME WatchTypes, WatchConstants, NEW e \in events
  PROVE  /\ e[2] \in Doc => e = <<Home(e[2]), e[2]>>
         /\ e[2] \notin Doc => e[2] \in Folder /\ e[2] \in Watch!Dir /\ e = <<"root", e[2]>> /\ e[2] # "root"
<1>1. e \in Heard
  BY DEF WatchTypes
<1>2. CASE e \in {<<"root", x>> : x \in Folder}
  BY <1>2 DEF WatchConstants, Watch!Dir
<1>3. CASE e \in {<<Home(f), f>> : f \in Doc}
  BY <1>3
<1> QED BY <1>1, <1>2, <1>3 DEF Heard

\* A file that was heard of.
LEMMA WatchHears ==
  ASSUME WatchInv, WatchConstants, NEW e \in events, Watch!Handle(e), e[2] \in Doc
  PROVE  WatchInv'
<1> DEFINE fresh == IF known[e[2]] # Watch!Hash(disk)[e[2]] \/ disk.file[e[2]] = "locked" THEN {e[2]} ELSE {}
<1>1. /\ scan = Watch!Idle /\ watch.mode = "watching" /\ Watch!Queue(fresh, watch)
      /\ known' = [known EXCEPT ![e[2]] = Watch!Hash(disk)[e[2]]]
      /\ events' = events \ {e} /\ scan' = scan /\ late' = late /\ disk' = disk /\ told' = told
  BY DEF Watch!Handle
<1>2. WatchTypes /\ FilesAreThere /\ PauseFits /\ fresh \subseteq Doc
  BY WatchFacts
<1>3. /\ pending' = pending \cup fresh /\ pending' \subseteq Doc /\ PauseFits'
      /\ watch' \in Ears /\ watch'.on = watch.on /\ watch'.mode = watch.mode
  BY <1>1, <1>2, WatchQueues DEF WatchTypes
<1>4. /\ known' \in [Doc -> Read] /\ known'[e[2]] = Watch!Hash(disk)[e[2]]
      /\ \A g \in Doc : g # e[2] => known'[g] = known[g]
  BY <1>1, <1>2, HashIs DEF WatchTypes
<1>5. WatchTypes' /\ FilesAreThere'
  BY <1>1, <1>2, <1>3, <1>4 DEF WatchTypes, FilesAreThere, Watch!IsThere
<1>6. e = <<Home(e[2]), e[2]>> /\ \A y \in Watch!Dir : <<"root", y>> # e
  BY <1>2, HeardIs DEF WatchConstants
<1>7. ListFits /\ RootFits /\ (\A y \in Watch!Dir : Watched(y)) /\ \A g \in Doc : Noticed(g)
  BY <1>1, WatchFacts
<1>8. ListFits' /\ RootFits' /\ \A y \in Watch!Dir : Watched(y)'
  BY <1>1, <1>3, <1>6, <1>7 DEF ListFits, RootFits, Watched, Watch!IsThere, Looked
<1>9. ASSUME NEW g \in Doc PROVE Noticed(g)'
  <2>1. CASE g = e[2]
    BY <1>1, <1>3, <1>4, <1>7, <2>1, LookedAt DEF Noticed
  <2>2. CASE g # e[2]
    <3>1. <<Home(g), g>> # e /\ Home(g) \in Watch!Dir
      BY <1>6, <2>2 DEF WatchConstants
    <3>2. ~Looked(Home(g))
      BY <1>1 DEF Looked
    <3> QED BY <1>1, <1>3, <1>4, <1>6, <1>7, <2>2, <3>1, <3>2, NotLookedAt
  <2> QED BY <2>1, <2>2
<1> QED BY <1>1, <1>3, <1>5, <1>8, <1>9 DEF WatchInv

\* A folder that is there.
LEMMA WatchMeets ==
  ASSUME WatchInv, WatchConstants, NEW e \in events, Watch!Handle(e), e[2] \notin Doc, Watch!IsThere(disk, e[2])
  PROVE  WatchInv'
<1>1. /\ scan = Watch!Idle /\ watch.mode = "watching" /\ Watch!List(e[2]) /\ events' = events \ {e}
      /\ watch' = watch /\ known' = known /\ pending' = pending /\ late' = late /\ disk' = disk /\ told' = told
  BY DEF Watch!Handle
<1>2. WatchTypes /\ FilesAreThere /\ PauseFits
  BY WatchFacts
<1>3. PICK x \in Folder : x = e[2] /\ x \in Watch!Dir /\ e = <<"root", x>> /\ x # "root"
  BY <1>2, HeardIs
<1>4. /\ scan' \in Scanning /\ scan'.of = x /\ scan'.phase = Opening /\ scan' # Watch!Idle
      /\ scan'.dirs = {y \in Watch!Under(x) : Watch!IsThere(disk, y)}
  BY <1>1, <1>3, ListStarts
<1>5. WatchTypes' /\ FilesAreThere' /\ PauseFits'
  BY <1>1, <1>2, <1>4 DEF WatchTypes, FilesAreThere, PauseFits, Watch!IsThere
<1>6. ListFits /\ RootFits /\ (\A y \in Watch!Dir : Watched(y)) /\ \A g \in Doc : Noticed(g)
  BY <1>1, WatchFacts
<1>7. Looked(x)' /\ ~\E y : Looked(y)
  BY <1>1, <1>3, <1>4 DEF Looked, Watch!Under
<1>8. ListFits' /\ RootFits'
  BY <1>1, <1>4, <1>6 DEF ListFits, RootFits, Watch!IsThere
<1>9. ASSUME NEW y \in Watch!Dir PROVE Watched(y)'
  <2>1. CASE y = x
    BY <1>4, <1>7, <2>1 DEF Watched
  <2>2. CASE y # x
    BY <1>1, <1>3, <1>6, <1>7, <2>2 DEF Watched, Watch!IsThere
  <2> QED BY <2>1, <2>2
<1>10. ASSUME NEW g \in Doc PROVE Noticed(g)'
  <2>1. <<Home(g), g>> # e
    BY <1>3
  <2>2. <<"root", Home(g)>> # e \/ Looked(Home(g))'
    BY <1>3, <1>7
  <2> QED BY <1>1, <1>6, <1>7, <2>1, <2>2, NotLookedAt
<1> QED BY <1>1, <1>5, <1>8, <1>9, <1>10 DEF WatchInv

\* A folder that is gone.
LEMMA WatchMisses ==
  ASSUME WatchInv, WatchConstants, NEW e \in events, Watch!Handle(e), e[2] \notin Doc,
         ~Watch!IsThere(disk, e[2])
  PROVE  WatchInv'
<1> DEFINE lost == {f \in Watch!DocsUnder(e[2]) : known[f] # "absent"}
<1>1. /\ scan = Watch!Idle /\ watch.mode = "watching" /\ Watch!Queue(lost, [watch EXCEPT !.on[e[2]] = "none"])
      /\ known' = [f \in Doc |-> IF f \in lost THEN "absent" ELSE known[f]]
      /\ events' = {r \in events \ {e} : r[1] # e[2]} /\ scan' = scan /\ late' = late /\ disk' = disk
      /\ told' = told
  BY DEF Watch!Handle
<1>2. WatchTypes /\ FilesAreThere /\ PauseFits /\ lost \subseteq Doc /\ watch \in Ears
  BY WatchFacts DEF Watch!DocsUnder, WatchTypes
<1>3. PICK x \in Folder : x = e[2] /\ x \in Watch!Dir /\ e = <<"root", x>> /\ x # "root"
  BY <1>2, HeardIs
<1>4. PICK O \in [Watch!Dir -> {"none", "live", "deaf"}] : O = [watch.on EXCEPT ![x] = "none"]
  BY <1>2, <1>3 DEF Ears
<1>5. PICK w \in Ears : w = [watch EXCEPT !.on = O]
  BY <1>2 DEF Ears
<1>6. /\ w.on = O /\ w.armed = watch.armed /\ w.poll = watch.poll /\ w.mode = watch.mode
      /\ \A y \in Watch!Dir : y # x => w.on[y] = watch.on[y]
  BY <1>2, <1>4, <1>5 DEF Ears
<1>7. Watch!Queue(lost, w)
  BY <1>1, <1>3, <1>4, <1>5
<1>8. /\ pending' = pending \cup lost /\ pending' \subseteq Doc /\ PauseFits'
      /\ watch' \in Ears /\ watch'.on = w.on /\ watch'.mode = watch.mode
  BY <1>2, <1>6, <1>7, WatchQueues
<1>9. known' \in [Doc -> Read]
  BY <1>1, <1>2 DEF WatchTypes, Read
<1>10. WatchTypes' /\ FilesAreThere'
  BY <1>1, <1>2, <1>8, <1>9 DEF WatchTypes, FilesAreThere, Watch!IsThere
<1>11. ListFits /\ RootFits /\ (\A y \in Watch!Dir : Watched(y)) /\ \A g \in Doc : Noticed(g)
  BY <1>1, WatchFacts
<1>12. \A y \in Watch!Dir : y # x /\ <<"root", y>> \in events => <<"root", y>> \in events'
  BY <1>1, <1>3
<1>13. ListFits' /\ RootFits'
  BY <1>1, <1>3, <1>6, <1>8, <1>11 DEF ListFits, RootFits, Watch!IsThere, Watch!Dir
<1>14. ASSUME NEW y \in Watch!Dir PROVE Watched(y)'
  <2>1. CASE y = x
    BY <1>1, <1>3, <2>1 DEF Watched, Watch!IsThere
  <2>2. CASE y # x
    BY <1>1, <1>6, <1>8, <1>11, <1>12, <2>2 DEF Watched, Watch!IsThere, Looked
  <2> QED BY <2>1, <2>2
<1>15. ASSUME NEW g \in Doc PROVE Noticed(g)'
  <2>1. CASE Home(g) = x
    <3>1. disk.file[g] = "absent"
      BY <1>2, <1>3, <2>1 DEF FilesAreThere
    <3>2. Watch!Hash(disk)[g] = "absent" /\ g \in Watch!DocsUnder(x)
      BY <2>1, <1>3, <3>1, HashIs, UnderIs DEF Watch!DocsUnder
    <3>3. known'[g] = Watch!Hash(disk)[g] /\ (known[g] # Watch!Hash(disk)[g] => g \in pending')
      BY <1>1, <1>3, <1>8, <3>2
    <3> QED BY <1>1, <1>8, <1>11, <3>3, LookedAt DEF Noticed
  <2>2. CASE Home(g) # x
    <3>1. known'[g] = known[g] /\ ~Looked(Home(g)) /\ Home(g) \in Watch!Dir
      BY <1>1, <1>3, <2>2, UnderIs DEF Looked, Watch!DocsUnder, WatchConstants
    <3>2. <<Home(g), g>> \in events => <<Home(g), g>> \in events'
      BY <1>1, <1>3, <2>2
    <3> QED BY <1>1, <1>8, <1>11, <1>12, <2>2, <3>1, <3>2, NotLookedAt
  <2> QED BY <2>1, <2>2
<1> QED BY <1>1, <1>8, <1>10, <1>13, <1>14, <1>15 DEF WatchInv

LEMMA WatchPolls == ASSUME WatchInv, WatchConstants, Watch!Poll PROVE WatchInv'
<1>1. /\ watch.poll /\ scan = Watch!Idle /\ disk' = disk /\ known' = known /\ pending' = pending /\ told' = told
      /\ late' = late
  BY DEF Watch!Poll
<1>2. WatchTypes /\ FilesAreThere /\ PauseFits /\ watch \in Ears
  BY WatchFacts DEF WatchTypes
<1>3. CASE watch.mode = "fallback"
  <2>1. Watch!List("root") /\ watch' = watch /\ events' = events /\ "root" \in Watch!Dir
    BY <1>3 DEF Watch!Poll, Watch!Dir
  <2>2. scan' \in Scanning
    BY <2>1, ListStarts
  <2>3. WatchTypes' /\ FilesAreThere' /\ PauseFits'
    BY <1>1, <1>2, <2>1, <2>2 DEF WatchTypes, FilesAreThere, PauseFits, Watch!IsThere
  <2> QED BY <1>3, <2>1, <2>3 DEF WatchInv
<1>4. CASE watch.mode # "fallback"
  <2> DEFINE S == {x \in Folder : watch.on[x] # "none" /\ ~Watch!IsThere(disk, x)}
  <2>1. /\ watch' = [watch EXCEPT !.on = [x \in Watch!Dir |-> IF x \in S THEN "none" ELSE watch.on[x]]]
        /\ events' = {e \in events : e[1] \notin S} /\ scan' = scan
    BY <1>4 DEF Watch!Poll, Watch!Closed
  <2>2. PICK O \in [Watch!Dir -> {"none", "live", "deaf"}] :
          O = [x \in Watch!Dir |-> IF x \in S THEN "none" ELSE watch.on[x]]
    BY <1>2 DEF Ears
  <2>3. watch' = [watch EXCEPT !.on = O]
    BY <2>1, <2>2
  <2>4. /\ watch' \in Ears /\ watch'.on = O /\ watch'.mode = watch.mode /\ watch'.poll = watch.poll
        /\ watch'.armed = watch.armed
    BY <1>2, <2>3 DEF Ears
  <2>5. WatchTypes' /\ FilesAreThere' /\ PauseFits'
    BY <1>1, <1>2, <2>1, <2>4 DEF WatchTypes, FilesAreThere, PauseFits, Watch!IsThere
  <2>6. ASSUME watch.mode = "watching"
        PROVE ListFits' /\ RootFits' /\ (\A y \in Watch!Dir : Watched(y)') /\ \A g \in Doc : Noticed(g)'
    <3>1. ListFits /\ RootFits /\ (\A y \in Watch!Dir : Watched(y)) /\ \A g \in Doc : Noticed(g)
      BY <2>6, WatchFacts
    <3>2. "root" \notin S /\ "root" \in Watch!Dir /\ \A y \in S : ~Watch!IsThere(disk, y)
      BY DEF WatchConstants, Watch!Dir
    <3>3. ListFits' /\ RootFits'
      BY <1>1, <2>1, <2>2, <2>4, <3>1, <3>2 DEF ListFits, RootFits
    <3>4. \A y : <<"root", y>> \in events => <<"root", y>> \in events'
      BY <2>1, <3>2
    <3>5. \A y \in Watch!Dir : Watched(y)'
      BY <1>1, <2>1, <2>2, <2>4, <3>1, <3>2, <3>4 DEF Watched, Watch!IsThere, Looked
    <3>6. ASSUME NEW g \in Doc PROVE Noticed(g)'
      <4>1. Watch!IsThere(disk, Home(g)) /\ <<Home(g), g>> \in events => <<Home(g), g>> \in events'
        BY <2>1, <3>2
      <4>2. ~Looked(Home(g))
        BY <1>1 DEF Looked
      <4> QED BY <1>1, <3>1, <3>4, <4>1, <4>2, NotLookedAt
    <3> QED BY <3>3, <3>5, <3>6
  <2> QED BY <1>1, <2>1, <2>4, <2>5, <2>6 DEF WatchInv
<1> QED BY <1>3, <1>4

LEMMA WatchStep == ASSUME WatchInv, WatchConstants, [Watch!Next]_(Watch!vars) PROVE WatchInv'
<1>1. ASSUME NEW f \in Doc, NEW c \in Content \cup {"absent", "locked"}, Watch!Write(f, c) PROVE WatchInv'
  BY <1>1, WatchWrites
<1>2. ASSUME NEW x \in Folder, NEW c \in Content \cup {"absent"}, Watch!Appear(x, c) PROVE WatchInv'
  BY <1>2, WatchAppears
<1>3. ASSUME NEW x \in Folder, Watch!Vanish(x) PROVE WatchInv'
  BY <1>3, WatchVanishes
<1>4. ASSUME NEW e \in events, Watch!Handle(e) PROVE WatchInv'
  BY <1>4, WatchHears, WatchMeets, WatchMisses
<1>5. CASE Watch!Start \/ Watch!Open \/ Watch!Scan \/ Watch!WatchError \/ Watch!Poll \/ Watch!Flush \/ Watch!Close
  BY <1>5, WatchStarts, WatchOpens, WatchScans, WatchFails, WatchPolls, WatchFlushes, WatchCloses
<1>6. CASE UNCHANGED Watch!vars
  <2>1. /\ disk' = disk /\ watch' = watch /\ events' = events /\ known' = known /\ pending' = pending
        /\ told' = told /\ scan' = scan /\ late' = late
    BY <1>6 DEF Watch!vars
  <2>2. /\ WatchTypes' = WatchTypes /\ FilesAreThere' = FilesAreThere /\ PauseFits' = PauseFits
        /\ ListFits' = ListFits /\ RootFits' = RootFits
    BY <2>1 DEF WatchTypes, FilesAreThere, PauseFits, ListFits, RootFits, Watch!IsThere
  <2>3. (\A y \in Watch!Dir : Watched(y)' = Watched(y)) /\ \A f \in Doc : Noticed(f)' = Noticed(f)
    BY <2>1 DEF Watched, Noticed, Looked, Watch!IsThere, Watch!Hash
  <2> QED BY <2>1, <2>2, <2>3 DEF WatchInv
<1> QED BY <1>1, <1>2, <1>3, <1>4, <1>5, <1>6 DEF Watch!Next

\* However the vault changes while its directories are listed, opened and scanned, and whatever watchers fail,
\* no edit goes unnoticed, but in a folder that came while its parent was listed.
THEOREM EditsStaySeen == ASSUME WatchConstants PROVE Watch!Spec => []Watch!EditsAreSeen
<1>1. Watch!Init => WatchInv
  BY WatchStart
<1>2. WatchInv /\ [Watch!Next]_(Watch!vars) => WatchInv'
  BY WatchStep
<1>3. WatchInv => Watch!EditsAreSeen
  <2> SUFFICES ASSUME WatchInv, watch.mode \in {"watching", "fallback"}, scan = Watch!Idle, NEW f \in Doc,
                      told[f] # Watch!Hash(disk)[f]
               PROVE  \/ f \in pending /\ watch.armed
                      \/ watch.mode = "fallback" /\ watch.poll
                      \/ \E e \in events : e[2] \in {f, Home(f)}
                      \/ Home(f) \in late
    BY DEF Watch!EditsAreSeen
  <2>1. PauseFits /\ (watch.mode = "watching" => Noticed(f))
    BY WatchFacts
  <2>2. <<Home(f), f>>[2] = f /\ <<"root", Home(f)>>[2] = Home(f)
    OBVIOUS
  <2> QED BY <2>1, <2>2 DEF PauseFits, Noticed, Looked
<1> QED BY <1>1, <1>2, <1>3, PTL DEF Watch!Spec

-----------------------------------------------------------------------------
(* RuntimeDir.                                                             *)

CONSTANTS Daemon, SlotOf, PathOf, Pid
VARIABLES record, socket, proc, stage, pid, torn, reap, sweep

Owners == INSTANCE RuntimeDir

\* What the constants are.
OwnerConstants == "none" \notin Daemon /\ "foreign" \notin Daemon

\* A daemon that has bound its path, and one that has done with it.
Up   == {"bound", "listening", "found", "serving", "draining"}
Gone == {"closed", "removing", "closing", "dead"}
Life == {"none", "starting", "refused", "cleared"} \cup Up \cup Gone

Process  == [who : Daemon \cup {"none", "foreign"}, birth : Nat]
StartOf == [id : Pid \cup {0}, birth : Nat]
Reap     == [at : {"none", "start", "asked", "late", "termed", "killed", "failed"}, birth : Nat]
Sweep    == [at : {"none", "next", "look", "refused"}, path : Owners!Paths \cup {"none"}, saw : Daemon \cup {"none"}]
Hit      == Daemon \X (Daemon \cup {"foreign"}) \X Nat
Past     == [faults : Nat, hit : SUBSET Hit, lost : SUBSET Daemon, over : SUBSET Daemon, raced : SUBSET Daemon]

OwnerTypes ==
  /\ record \in [Owners!Slots -> Daemon \cup {"none"}] /\ socket \in [Owners!Paths -> Daemon \cup {"none"}]
  /\ proc \in [Pid -> Process] /\ stage \in [Daemon -> Life] /\ pid \in [Daemon -> StartOf]
  /\ reap \in [Daemon -> [Daemon -> Reap]] /\ sweep \in [Daemon -> Sweep] /\ past \in Past

Started(d) == stage[d] # "none"

\* A start of a process id belongs to one daemon.
IdsFit ==
  /\ \A d \in Daemon : Started(d) =>
       /\ pid[d].id \in Pid
       /\ pid[d].birth <= proc[pid[d].id].birth
       /\ pid[d].birth = proc[pid[d].id].birth => proc[pid[d].id].who \in {d, "none"}
  /\ \A i \in Pid : proc[i].who \in Daemon => Started(proc[i].who)

\* A file is of a daemon that has bound it; a daemon has its file, or has lost it.
SocketsFit ==
  /\ \A p \in Owners!Paths : socket[p] \in Daemon => PathOf[socket[p]] = p /\ stage[socket[p]] \in Up \cup Gone
  /\ \A d \in Daemon : stage[d] \in Up => socket[PathOf[d]] = d \/ d \in past.lost

\* Nobody loses a file whose binder has departed.
Departed(e) == e \in Daemon => stage[e] \in Gone \/ e \in past.lost

\* What was refused has departed; what is looked at was bound at its path.
SweepFits(d) ==
  /\ stage[d] = "refused" \/ sweep[d].at = "refused" => Departed(sweep[d].saw)
  /\ sweep[d].at # "none" => stage[d] = "serving"
  /\ sweep[d].at \in {"look", "refused"} => sweep[d].path \in Owners!Paths
  /\ sweep[d].at = "look" /\ sweep[d].saw \in Daemon =>
       PathOf[sweep[d].saw] = sweep[d].path /\ stage[sweep[d].saw] \in Up \cup Gone

SweepsFit == \A d \in Daemon : SweepFits(d)

\* A daemon that is about to remove its record finds it, or that of one that raced with it.
RecordsFit ==
  /\ \A s \in Owners!Slots : record[s] \in Daemon => Started(record[s])
  /\ \A d \in Daemon : stage[d] = "serving" => record[SlotOf[d]] = d \/ d \in past.over \cup past.raced
  /\ \A d \in Daemon : stage[d] = "removing" => record[SlotOf[d]] \in {d, "none"} \cup past.raced

\* A predecessor that is acted on has started, and so has one that was signalled.
HitsFit ==
  /\ \A d, e \in Daemon : reap[d][e].at # "none" => Started(e)
  /\ \A h \in past.hit : Started(h[1]) /\ (h[2] = h[1] \/ h[3] # pid[h[1]].birth)

OwnersInv == OwnerTypes /\ IdsFit /\ SocketsFit /\ SweepsFit /\ RecordsFit /\ HitsFit

\* How far a daemon gets in one step.
Onward(b, s) ==
  \/ b = "none" /\ s = "starting"
  \/ b = "starting" /\ s = "refused"
  \/ b = "refused" /\ s = "cleared"
  \/ b \in {"starting", "cleared"} /\ s = "bound"
  \/ b = "bound" /\ s = "listening"
  \/ b = "listening" /\ s = "found"
  \/ b = "found" /\ s = "serving"
  \/ b = "serving" /\ s = "draining"
  \/ b = "draining" /\ s = "closed"
  \/ b = "closed" /\ s \in {"removing", "closing"}
  \/ b = "removing" /\ s = "closing"
  \/ b # "none" /\ s = "dead"

\* At most one daemon gets on in a step.
OneOnward ==
  \/ stage' = stage
  \/ \E d \in Daemon, s \in Life : stage' = [stage EXCEPT ![d] = s] /\ Onward(stage[d], s)

\* What has happened stays so.
Later ==
  /\ \A d \in Daemon : Started(d) => stage'[d] # "none" /\ pid'[d] = pid[d]
  /\ \A d \in Daemon : stage[d] \in Gone => stage'[d] \in Gone
  /\ \A d \in Daemon : stage[d] \in Up \cup Gone => stage'[d] \in Up \cup Gone
  /\ past.lost \subseteq past'.lost /\ past.over \subseteq past'.over /\ past.raced \subseteq past'.raced

\* Nothing that is remembered of the past changes but who has lost its file.
OnlyLost == past'.hit = past.hit /\ past'.over = past.over /\ past'.raced = past.raced

LEMMA LosesFiles ==
  ASSUME past \in Past, NEW es \in SUBSET Daemon, Owners!Lost(es)
  PROVE  past' \in Past /\ past'.lost = past.lost \cup es /\ OnlyLost
<1>1. past' = [past EXCEPT !.lost = past.lost \cup es]
  BY DEF Owners!Lost
<1>2. past.lost \cup es \in SUBSET Daemon
  BY DEF Past
<1> QED BY <1>1, <1>2 DEF Past, OnlyLost

\* A fault is counted, and nothing else.
LEMMA CountsFault ==
  ASSUME past \in Past, past' = [past EXCEPT !.faults = @ + 1]
  PROVE  past' \in Past /\ past'.lost = past.lost /\ OnlyLost
<1>1. past' = [past EXCEPT !.faults = past.faults + 1] /\ past.faults + 1 \in Nat
  BY DEF Past
<1> QED BY <1>1 DEF Past, OnlyLost

\* A daemon that dies is dead, its process id is free, and it does nothing any more.
LEMMA DeathIs ==
  ASSUME OwnerTypes, NEW d \in Daemon, Started(d), pid[d].id \in Pid, Owners!Dies(d)
  PROVE  /\ stage' = [stage EXCEPT ![d] = "dead"] /\ OneOnward
         /\ proc' = [proc EXCEPT ![pid[d].id].who = "none"]
         /\ reap' = [reap EXCEPT ![d] = [e \in Daemon |-> Owners!NoReap]]
         /\ sweep' = [sweep EXCEPT ![d] = Owners!NoSweep]
         /\ stage' \in [Daemon -> Life] /\ proc' \in [Pid -> Process]
         /\ reap' \in [Daemon -> [Daemon -> Reap]] /\ sweep' \in [Daemon -> Sweep]
<1>1. /\ stage' = [stage EXCEPT ![d] = "dead"] /\ OneOnward
      /\ proc' = [proc EXCEPT ![pid[d].id].who = "none"]
      /\ reap' = [reap EXCEPT ![d] = [e \in Daemon |-> Owners!NoReap]]
      /\ sweep' = [sweep EXCEPT ![d] = Owners!NoSweep]
  BY DEF Owners!Dies, Onward, OneOnward, Started, Life, Gone
<1>2. stage' \in [Daemon -> Life]
  BY <1>1 DEF OwnerTypes, Life, Gone
<1>3. proc' \in [Pid -> Process]
  <2>1. proc[pid[d].id] \in Process
    BY DEF OwnerTypes
  <2>2. [proc[pid[d].id] EXCEPT !.who = "none"] \in Process
    BY <2>1 DEF Process
  <2> QED BY <1>1, <2>2 DEF OwnerTypes
<1>4. reap' \in [Daemon -> [Daemon -> Reap]]
  BY <1>1 DEF OwnerTypes, Reap, Owners!NoReap
<1>5. sweep' \in [Daemon -> Sweep]
  BY <1>1 DEF OwnerTypes, Sweep, Owners!NoSweep
<1> QED BY <1>1, <1>2, <1>3, <1>4, <1>5

\* What is done about predecessors, when one of those who do it is killed.
LEMMA KilledReaps ==
  ASSUME reap \in [Daemon -> [Daemon -> Reap]], NEW d \in Daemon, NEW e \in Daemon, NEW who \in Daemon,
         NEW at \in {"termed", "killed"},
         reap' = [reap EXCEPT ![who] = [x \in Daemon |-> Owners!NoReap], ![d][e].at = at]
  PROVE  /\ reap' \in [Daemon -> [Daemon -> Reap]]
         /\ \A c, x \in Daemon : reap'[c][x].at # "none" => reap[c][x].at # "none" \/ (c = d /\ x = e)
<1> DEFINE none == [x \in Daemon |-> Owners!NoReap]
           mid  == [reap EXCEPT ![who] = none]
<1>1. none \in [Daemon -> Reap] /\ \A x \in Daemon : none[x].at = "none"
  BY DEF Reap, Owners!NoReap
<1>2. mid \in [Daemon -> [Daemon -> Reap]] /\ \A c \in Daemon : mid[c] = IF c = who THEN none ELSE reap[c]
  BY <1>1
<1>3. reap' = [mid EXCEPT ![d] = [mid[d] EXCEPT ![e] = [mid[d][e] EXCEPT !.at = at]]]
  OBVIOUS
<1> HIDE DEF none, mid
<1>4. [mid[d][e] EXCEPT !.at = at] \in Reap
  <2>1. mid[d][e] \in Reap
    BY <1>2
  <2> QED BY <2>1 DEF Reap
<1>5. reap' \in [Daemon -> [Daemon -> Reap]]
  <2>1. [mid[d] EXCEPT ![e] = [mid[d][e] EXCEPT !.at = at]] \in [Daemon -> Reap]
    <3>1. mid[d] \in [Daemon -> Reap]
      BY <1>2
    <3> QED BY <1>4, <3>1
  <2> QED BY <1>2, <1>3, <2>1
<1>6. \A c, x \in Daemon : reap'[c][x] = mid[c][x] \/ (c = d /\ x = e)
  BY <1>2, <1>3
<1>7. \A c, x \in Daemon : mid[c][x].at = "none" \/ mid[c][x] = reap[c][x]
  BY <1>1, <1>2
<1>8. ASSUME NEW c \in Daemon, NEW x \in Daemon, reap'[c][x].at # "none"
      PROVE  reap[c][x].at # "none" \/ (c = d /\ x = e)
  <2>1. CASE c = d /\ x = e
    BY <2>1
  <2>2. CASE ~(c = d /\ x = e)
    <3>1. reap'[c][x] = mid[c][x]
      BY <1>6, <2>2, Zenon
    <3>2. mid[c][x].at = "none" \/ mid[c][x] = reap[c][x]
      BY <1>7, Zenon
    <3> QED BY <1>8, <3>1, <3>2
  <2> QED BY <2>1, <2>2
<1> QED BY <1>5, <1>8

\* The types, and that one gets on, for the steps of a daemon that comes.
LEMMA ArrivalTypes ==
  ASSUME OwnerConstants, OwnerTypes, IdsFit, RecordsFit,
         NEW d \in Daemon,
         \/ \E i \in Pid : Owners!Start(d, i)
         \/ Owners!Bind(d) \/ Owners!ClearStale(d) \/ Owners!Listen(d) \/ Owners!Discover(d) \/ Owners!Publish(d)
  PROVE  OwnerTypes' /\ OneOnward /\ Later
<1>0. /\ record \in [Owners!Slots -> Daemon \cup {"none"}] /\ socket \in [Owners!Paths -> Daemon \cup {"none"}]
      /\ proc \in [Pid -> Process] /\ stage \in [Daemon -> Life] /\ pid \in [Daemon -> StartOf]
      /\ reap \in [Daemon -> [Daemon -> Reap]] /\ sweep \in [Daemon -> Sweep] /\ past \in Past
      /\ PathOf[d] \in Owners!Paths /\ SlotOf[d] \in Owners!Slots
  BY DEF OwnerTypes, Owners!Paths, Owners!Slots
<1> DEFINE p == PathOf[d]
<1>1. ASSUME NEW i \in Pid, Owners!Start(d, i) PROVE OwnerTypes' /\ OneOnward /\ Later
  <2>1. /\ stage[d] = "none" /\ stage' = [stage EXCEPT ![d] = "starting"]
        /\ proc' = [proc EXCEPT ![i] = [who |-> d, birth |-> proc[i].birth + 1]]
        /\ pid' = [pid EXCEPT ![d] = [id |-> i, birth |-> proc[i].birth + 1]]
        /\ UNCHANGED <<record, socket, torn, reap, sweep, past>>
    BY <1>1 DEF Owners!Start, Owners!Starting, Owners!Become
  <2>2. proc[i].birth + 1 \in Nat
    BY <1>0 DEF Process
  <2>3. proc' \in [Pid -> Process] /\ pid' \in [Daemon -> StartOf]
    BY <1>0, <2>1, <2>2 DEF Process, StartOf
  <2>4. stage' \in [Daemon -> Life] /\ OneOnward
    BY <1>0, <2>1 DEF Life, OneOnward, Onward
  <2> QED BY <1>0, <2>1, <2>3, <2>4 DEF OwnerTypes, Later, Started, Up, Gone
<1>2. ASSUME Owners!Bind(d), socket[p] = "none" PROVE OwnerTypes' /\ OneOnward /\ Later
  <2>1. /\ stage[d] \in {"starting", "cleared"} /\ stage' = [stage EXCEPT ![d] = "bound"]
        /\ socket' = [socket EXCEPT ![p] = d]
        /\ UNCHANGED <<record, proc, pid, torn, reap, sweep, past>>
    BY <1>2 DEF Owners!Bind, Owners!Become
  <2>2. stage' \in [Daemon -> Life] /\ OneOnward
    BY <1>0, <2>1 DEF Life, Up, OneOnward, Onward
  <2> QED BY <1>0, <2>1, <2>2 DEF OwnerTypes, Later, Started, Up, Gone
<1>3. ASSUME Owners!Bind(d), socket[p] # "none", stage[d] = "starting" /\ Owners!Refuses(p)
      PROVE  OwnerTypes' /\ OneOnward /\ Later
  <2>1. /\ stage' = [stage EXCEPT ![d] = "refused"] /\ sweep' = [sweep EXCEPT ![d].saw = socket[p]]
        /\ Owners!Lost(Owners!NotBound(socket[p]))
        /\ UNCHANGED <<record, socket, proc, pid, torn, reap>>
    BY <1>3 DEF Owners!Bind, Owners!Become
  <2>2. past' \in Past /\ past'.lost = past.lost \cup Owners!NotBound(socket[p]) /\ OnlyLost
    <3>1. Owners!NotBound(socket[p]) \in SUBSET Daemon
      BY DEF Owners!NotBound
    <3> QED BY <1>0, <2>1, <3>1, LosesFiles
  <2>3. sweep' \in [Daemon -> Sweep]
    <3>1. sweep[d] \in Sweep /\ socket[p] \in Daemon \cup {"none"}
      BY <1>0
    <3>2. [sweep[d] EXCEPT !.saw = socket[p]] \in Sweep
      BY <3>1 DEF Sweep
    <3> QED BY <1>0, <2>1, <3>2
  <2>4. stage' \in [Daemon -> Life] /\ OneOnward
    BY <1>0, <1>3, <2>1 DEF Life, OneOnward, Onward
  <2> QED BY <1>0, <1>3, <2>1, <2>2, <2>3, <2>4 DEF OwnerTypes, Later, Started, Up, Gone, OnlyLost
<1>4. ASSUME Owners!Bind(d), socket[p] # "none", ~(stage[d] = "starting" /\ Owners!Refuses(p))
      PROVE  OwnerTypes' /\ OneOnward /\ Later
  <2>1. stage[d] \in {"starting", "cleared"} /\ Owners!Dies(d) /\ UNCHANGED <<record, socket, pid, torn, past>>
    BY <1>4 DEF Owners!Bind
  <2>2. Started(d) /\ pid[d].id \in Pid
    BY <2>1 DEF Started, IdsFit
  <2>3. stage' = [stage EXCEPT ![d] = "dead"] /\ OneOnward
    BY <2>1, <2>2, DeathIs
  <2>4. /\ stage' \in [Daemon -> Life] /\ proc' \in [Pid -> Process]
        /\ reap' \in [Daemon -> [Daemon -> Reap]] /\ sweep' \in [Daemon -> Sweep]
    BY <2>1, <2>2, DeathIs
  <2> QED BY <1>0, <2>1, <2>3, <2>4 DEF OwnerTypes, Later, Started, Up, Gone
<1>5. ASSUME Owners!ClearStale(d) PROVE OwnerTypes' /\ OneOnward /\ Later
  <2>1. /\ stage[d] = "refused" /\ stage' = [stage EXCEPT ![d] = "cleared"]
        /\ socket' = [socket EXCEPT ![p] = "none"] /\ sweep' = [sweep EXCEPT ![d] = Owners!NoSweep]
        /\ Owners!Lost({socket[p]} \ {sweep[d].saw, "none"})
        /\ UNCHANGED <<record, proc, pid, torn, reap>>
    BY <1>5 DEF Owners!ClearStale, Owners!Become
  <2>2. past' \in Past /\ past.lost \subseteq past'.lost /\ OnlyLost
    <3>1. {socket[p]} \ {sweep[d].saw, "none"} \in SUBSET Daemon
      BY <1>0
    <3> QED BY <1>0, <2>1, <3>1, LosesFiles
  <2>3. stage' \in [Daemon -> Life] /\ OneOnward /\ sweep' \in [Daemon -> Sweep]
    BY <1>0, <2>1 DEF Life, OneOnward, Onward, Sweep, Owners!NoSweep
  <2> QED BY <1>0, <2>1, <2>2, <2>3 DEF OwnerTypes, Later, Started, Up, Gone, OnlyLost
<1>6. ASSUME Owners!Listen(d) PROVE OwnerTypes' /\ OneOnward /\ Later
  <2>1. /\ stage[d] = "bound" /\ stage' = [stage EXCEPT ![d] = "listening"]
        /\ UNCHANGED <<record, socket, proc, pid, torn, reap, sweep, past>>
    BY <1>6 DEF Owners!Listen, Owners!Become
  <2>2. stage' \in [Daemon -> Life] /\ OneOnward
    BY <1>0, <2>1 DEF Life, Up, OneOnward, Onward
  <2> QED BY <1>0, <2>1, <2>2 DEF OwnerTypes, Later, Started, Up, Gone
<1>7. ASSUME Owners!Discover(d) PROVE OwnerTypes' /\ OneOnward /\ Later
  <2>1. /\ stage[d] = "listening" /\ stage' = [stage EXCEPT ![d] = "found"]
        /\ reap' = [reap EXCEPT ![d] = [e \in Daemon |->
             IF (\E s \in Owners!Slots \ {SlotOf[d]} : record[s] = e) /\ proc[pid[e].id].who # "none"
             THEN Owners!Token(e) ELSE Owners!NoReap]]
        /\ UNCHANGED <<record, socket, proc, pid, torn, sweep, past>>
    BY <1>7 DEF Owners!Discover, Owners!Become
  <2>2. \A e \in Daemon : (\E s \in Owners!Slots \ {SlotOf[d]} : record[s] = e) => Owners!Token(e) \in Reap
    <3>1. SUFFICES ASSUME NEW e \in Daemon, \E s \in Owners!Slots \ {SlotOf[d]} : record[s] = e
                   PROVE  Owners!Token(e) \in Reap
      OBVIOUS
    <3>2. pid[e].id \in Pid
      BY <3>1 DEF IdsFit, RecordsFit
    <3> QED BY <1>0, <3>2 DEF Owners!Token, Reap, Process
  <2>3. reap' \in [Daemon -> [Daemon -> Reap]]
    BY <1>0, <2>1, <2>2 DEF Owners!NoReap, Reap
  <2>4. stage' \in [Daemon -> Life] /\ OneOnward
    BY <1>0, <2>1 DEF Life, Up, OneOnward, Onward
  <2> QED BY <1>0, <2>1, <2>3, <2>4 DEF OwnerTypes, Later, Started, Up, Gone
<1>8. ASSUME Owners!Publish(d) PROVE OwnerTypes' /\ OneOnward /\ Later
  <2> DEFINE over == past.over \cup ({record[SlotOf[d]]} \ {"none"})
             raced == past.raced \cup {x \in {d} : \E e \in Daemon : SlotOf[e] = SlotOf[d] /\ stage[e] = "removing"}
  <2>1. /\ stage[d] = "found" /\ stage' = [stage EXCEPT ![d] = "serving"]
        /\ record' = [record EXCEPT ![SlotOf[d]] = d] /\ sweep' = [sweep EXCEPT ![d].at = "next"]
        /\ past' = [past EXCEPT !.over = over, !.raced = raced]
        /\ UNCHANGED <<socket, proc, pid, torn, reap>>
    BY <1>8 DEF Owners!Publish, Owners!Become
  <2>2. over \in SUBSET Daemon /\ raced \in SUBSET Daemon
    BY <1>0 DEF Past
  <2>3. past' \in Past /\ past'.lost = past.lost /\ past'.over = over /\ past'.raced = raced
    BY <1>0, <2>1, <2>2 DEF Past
  <2>4. sweep' \in [Daemon -> Sweep]
    <3>1. [sweep[d] EXCEPT !.at = "next"] \in Sweep
      BY <1>0 DEF Sweep
    <3> QED BY <1>0, <2>1, <3>1
  <2>5. stage' \in [Daemon -> Life] /\ OneOnward
    BY <1>0, <2>1 DEF Life, Up, OneOnward, Onward
  <2> QED BY <1>0, <2>1, <2>3, <2>4, <2>5 DEF OwnerTypes, Later, Started, Up, Gone
<1> QED BY <1>1, <1>2, <1>3, <1>4, <1>5, <1>6, <1>7, <1>8

\* The same for what is done about predecessors.
LEMMA ReapTypes ==
  ASSUME OwnerConstants, OwnerTypes, IdsFit, HitsFit,
         NEW d \in Daemon, NEW e \in Daemon,
         Owners!Ask(d, e) \/ Owners!Waited(d, e) \/ Owners!Terminate(d, e)
  PROVE  OwnerTypes' /\ OneOnward /\ Later
<1>0. /\ record \in [Owners!Slots -> Daemon \cup {"none"}] /\ socket \in [Owners!Paths -> Daemon \cup {"none"}]
      /\ proc \in [Pid -> Process] /\ stage \in [Daemon -> Life] /\ pid \in [Daemon -> StartOf]
      /\ reap \in [Daemon -> [Daemon -> Reap]] /\ sweep \in [Daemon -> Sweep] /\ past \in Past
  BY DEF OwnerTypes
<1>t. ASSUME NEW at \in {"asked", "late", "termed", "killed", "failed"}, Owners!To(d, e, at)
      PROVE  reap' \in [Daemon -> [Daemon -> Reap]]
  <2>1. [reap[d][e] EXCEPT !.at = at] \in Reap
    <3>1. reap[d][e] \in Reap
      BY <1>0
    <3> QED BY <3>1 DEF Reap
  <2>2. reap' = [reap EXCEPT ![d] = [reap[d] EXCEPT ![e] = [reap[d][e] EXCEPT !.at = at]]]
    BY <1>t DEF Owners!To
  <2> QED BY <1>0, <2>1, <2>2
<1>1. ASSUME Owners!Ask(d, e) PROVE OwnerTypes' /\ OneOnward /\ Later
  <2>1. \E at \in {"asked", "late"} : Owners!To(d, e, at)
    BY <1>1 DEF Owners!Ask
  <2>2. reap' \in [Daemon -> [Daemon -> Reap]]
    BY <1>t, <2>1
  <2>3. /\ \/ stage[e] = "serving" /\ stage' = [stage EXCEPT ![e] = "draining"]
              /\ sweep' = [sweep EXCEPT ![e] = Owners!NoSweep]
           \/ UNCHANGED <<stage, sweep>>
        /\ UNCHANGED <<record, socket, proc, pid, torn, past>>
    BY <1>1 DEF Owners!Ask, Owners!Become
  <2>4. stage' \in [Daemon -> Life] /\ OneOnward
    BY <1>0, <2>3 DEF Life, Up, OneOnward, Onward
  <2>5. sweep' \in [Daemon -> Sweep]
    BY <1>0, <2>3 DEF Sweep, Owners!NoSweep
  <2> QED BY <1>0, <2>2, <2>3, <2>4, <2>5 DEF OwnerTypes, Later, Started, Up, Gone
<1>2. ASSUME Owners!Waited(d, e) PROVE OwnerTypes' /\ OneOnward /\ Later
  <2>1. Owners!To(d, e, "late") /\ UNCHANGED <<record, socket, proc, stage, pid, torn, sweep, past>>
    BY <1>2 DEF Owners!Waited
  <2>2. reap' \in [Daemon -> [Daemon -> Reap]]
    BY <1>t, <2>1
  <2> QED BY <1>0, <2>1, <2>2 DEF OwnerTypes, Later, OneOnward, Started
<1>3. ASSUME Owners!Terminate(d, e), ~(Owners!IdentityMatches(d, e) /\ Owners!TokenAlive(d, e))
      PROVE  OwnerTypes' /\ OneOnward /\ Later
  <2>1. Owners!To(d, e, "failed") /\ UNCHANGED <<record, socket, proc, stage, pid, torn, sweep, past>>
    BY <1>3 DEF Owners!Terminate
  <2>2. reap' \in [Daemon -> [Daemon -> Reap]]
    BY <1>t, <2>1, SMTT(60)
  <2> QED BY <1>0, <2>1, <2>2 DEF OwnerTypes, Later, OneOnward, Started
<1>4. ASSUME Owners!Terminate(d, e), Owners!IdentityMatches(d, e) /\ Owners!TokenAlive(d, e)
      PROVE  OwnerTypes' /\ OneOnward /\ Later
  <2> DEFINE who == proc[pid[e].id].who
  <2>1. PICK at \in {"termed", "killed"} : Owners!Signal(d, e, at)
    BY <1>4 DEF Owners!Terminate
  <2>2. Started(e) /\ pid[e].id \in Pid /\ UNCHANGED <<record, socket, pid, torn>>
    BY <1>4 DEF Owners!Terminate, HitsFit, IdsFit
  <2>3. who \in Daemon \cup {"foreign"} /\ (who \in Daemon => Started(who))
    BY <1>0, <1>4, <2>2 DEF Owners!TokenAlive, Process, IdsFit
  <2>4. past' \in Past /\ past'.lost = past.lost /\ past'.over = past.over /\ past'.raced = past.raced
    <3>1. past' = [past EXCEPT !.hit = past.hit \cup {<<e, who, reap[d][e].birth>>}]
      BY <2>1 DEF Owners!Signal
    <3>2. reap[d][e].birth \in Nat
      BY <1>0 DEF Reap
    <3>3. past.hit \cup {<<e, who, reap[d][e].birth>>} \in SUBSET Hit
      BY <1>0, <2>3, <3>2 DEF Past, Hit
    <3> QED BY <1>0, <3>1, <3>3 DEF Past
  <2>5. ASSUME at = "termed" /\ Owners!To(d, e, at) /\ UNCHANGED <<proc, stage, sweep>>
        PROVE  OwnerTypes' /\ OneOnward /\ Later
    <3>1. reap' \in [Daemon -> [Daemon -> Reap]]
      BY <1>t, <2>5
    <3> QED BY <1>0, <2>2, <2>4, <2>5, <3>1 DEF OwnerTypes, Later, OneOnward, Started
  <2>6. ASSUME proc' = [proc EXCEPT ![pid[e].id].who = "none"], who \in Daemon,
               /\ stage' = [stage EXCEPT ![who] = "dead"]
               /\ reap' = [reap EXCEPT ![who] = [x \in Daemon |-> Owners!NoReap], ![d][e].at = at]
               /\ sweep' = [sweep EXCEPT ![who] = Owners!NoSweep]
        PROVE  OwnerTypes' /\ OneOnward /\ Later
    <3>1. proc' \in [Pid -> Process]
      <4>1. [proc[pid[e].id] EXCEPT !.who = "none"] \in Process
        BY <1>0, <2>2 DEF Process
      <4> QED BY <1>0, <2>2, <2>6, <4>1
    <3>2. stage' \in [Daemon -> Life] /\ OneOnward
      BY <1>0, <2>3, <2>6 DEF Life, Gone, OneOnward, Onward, Started
    <3>3. sweep' \in [Daemon -> Sweep]
      BY <1>0, <2>6 DEF Sweep, Owners!NoSweep
    <3>4. reap' \in [Daemon -> [Daemon -> Reap]]
      BY <1>0, <2>2, <2>6, KilledReaps
    <3> QED BY <1>0, <2>2, <2>3, <2>4, <2>6, <3>1, <3>2, <3>3, <3>4 DEF OwnerTypes, Later, Started, Up, Gone
  <2>7. ASSUME proc' = [proc EXCEPT ![pid[e].id].who = "none"], who \notin Daemon,
               Owners!To(d, e, at) /\ UNCHANGED <<stage, sweep>>
        PROVE  OwnerTypes' /\ OneOnward /\ Later
    <3>1. proc' \in [Pid -> Process]
      <4>1. [proc[pid[e].id] EXCEPT !.who = "none"] \in Process
        BY <1>0, <2>2 DEF Process
      <4> QED BY <1>0, <2>2, <2>7, <4>1
    <3>2. reap' \in [Daemon -> [Daemon -> Reap]]
      BY <1>t, <2>7
    <3> QED BY <1>0, <2>2, <2>4, <2>7, <3>1, <3>2 DEF OwnerTypes, Later, OneOnward, Started
  <2> QED BY <2>1, <2>5, <2>6, <2>7 DEF Owners!Signal
<1> QED BY <1>1, <1>2, <1>3, <1>4

\* The same for a daemon that leaves, for crashes and for other processes.
LEMMA LeavingTypes ==
  ASSUME OwnerConstants, OwnerTypes, IdsFit,
         \/ \E d \in Daemon : \/ Owners!StartDrain(d) \/ Owners!Relinquish(d) \/ Owners!ReadRecord(d)
                              \/ Owners!RemoveRecord(d) \/ Owners!Exit(d) \/ Owners!Crash(d)
         \/ \E i \in Pid : Owners!Foreign(i)
  PROVE  OwnerTypes' /\ OneOnward /\ Later
<1>0. /\ record \in [Owners!Slots -> Daemon \cup {"none"}] /\ socket \in [Owners!Paths -> Daemon \cup {"none"}]
      /\ proc \in [Pid -> Process] /\ stage \in [Daemon -> Life] /\ pid \in [Daemon -> StartOf]
      /\ reap \in [Daemon -> [Daemon -> Reap]] /\ sweep \in [Daemon -> Sweep] /\ past \in Past
  BY DEF OwnerTypes
<1>1. ASSUME NEW d \in Daemon, Owners!StartDrain(d) PROVE OwnerTypes' /\ OneOnward /\ Later
  <2>1. /\ stage[d] = "serving" /\ stage' = [stage EXCEPT ![d] = "draining"]
        /\ sweep' = [sweep EXCEPT ![d] = Owners!NoSweep]
        /\ UNCHANGED <<record, socket, proc, pid, torn, reap, past>>
    BY <1>1 DEF Owners!StartDrain, Owners!Become
  <2>2. stage' \in [Daemon -> Life] /\ OneOnward /\ sweep' \in [Daemon -> Sweep]
    BY <1>0, <2>1 DEF Life, Up, OneOnward, Onward, Sweep, Owners!NoSweep
  <2> QED BY <1>0, <2>1, <2>2 DEF OwnerTypes, Later, Started, Up, Gone
<1>2. ASSUME NEW d \in Daemon, NEW s \in {"closed", "removing", "closing"}, Owners!Unlinks(d),
             stage' = [stage EXCEPT ![d] = s], UNCHANGED <<record, proc, pid, torn, reap, sweep>>,
             Onward(stage[d], s), stage[d] \in {"draining", "closed"}
      PROVE  OwnerTypes' /\ OneOnward /\ Later
  <2>1. socket' = [socket EXCEPT ![PathOf[d]] = "none"] /\ Owners!Lost({socket[PathOf[d]]} \ {d, "none"})
    BY <1>2 DEF Owners!Unlinks
  <2>2. past' \in Past /\ past.lost \subseteq past'.lost /\ OnlyLost
    <3>1. {socket[PathOf[d]]} \ {d, "none"} \in SUBSET Daemon
      BY <1>0 DEF Owners!Paths
    <3> QED BY <1>0, <2>1, <3>1, LosesFiles
  <2>3. stage' \in [Daemon -> Life] /\ OneOnward
    BY <1>0, <1>2 DEF Life, Gone, OneOnward
  <2> QED BY <1>0, <1>2, <2>1, <2>2, <2>3 DEF OwnerTypes, Later, Started, Up, Gone, OnlyLost
<1>3. ASSUME NEW d \in Daemon, Owners!Relinquish(d) PROVE OwnerTypes' /\ OneOnward /\ Later
  BY <1>2, <1>3 DEF Owners!Relinquish, Owners!Become, Onward
<1>4. ASSUME NEW d \in Daemon, Owners!ReadRecord(d) PROVE OwnerTypes' /\ OneOnward /\ Later
  BY <1>2, <1>4 DEF Owners!ReadRecord, Owners!Become, Onward
<1>5. ASSUME NEW d \in Daemon, Owners!RemoveRecord(d) PROVE OwnerTypes' /\ OneOnward /\ Later
  <2>1. /\ stage[d] = "removing" /\ stage' = [stage EXCEPT ![d] = "closing"]
        /\ record' = [record EXCEPT ![SlotOf[d]] = "none"]
        /\ UNCHANGED <<socket, proc, pid, torn, reap, sweep, past>>
    BY <1>5 DEF Owners!RemoveRecord, Owners!Become
  <2>2. stage' \in [Daemon -> Life] /\ OneOnward
    BY <1>0, <2>1 DEF Life, Gone, OneOnward, Onward
  <2> QED BY <1>0, <2>1, <2>2 DEF OwnerTypes, Later, Started, Up, Gone
<1>6. ASSUME NEW d \in Daemon, Owners!Dies(d), Started(d), UNCHANGED <<record, socket, pid>>,
             past' \in Past, past'.lost = past.lost, OnlyLost
      PROVE  OwnerTypes' /\ OneOnward /\ Later
  <2>1. pid[d].id \in Pid
    BY <1>6 DEF IdsFit
  <2>2. stage' = [stage EXCEPT ![d] = "dead"] /\ OneOnward
    BY <1>6, <2>1, DeathIs
  <2>3. /\ stage' \in [Daemon -> Life] /\ proc' \in [Pid -> Process]
        /\ reap' \in [Daemon -> [Daemon -> Reap]] /\ sweep' \in [Daemon -> Sweep]
    BY <1>6, <2>1, DeathIs
  <2> QED BY <1>0, <1>6, <2>2, <2>3 DEF OwnerTypes, Later, Started, Up, Gone, OnlyLost
<1>7. ASSUME NEW d \in Daemon, Owners!Exit(d) PROVE OwnerTypes' /\ OneOnward /\ Later
  BY <1>0, <1>6, <1>7 DEF Owners!Exit, Started, OnlyLost
<1>8. ASSUME NEW d \in Daemon, Owners!Crash(d) PROVE OwnerTypes' /\ OneOnward /\ Later
  <2>1. past' \in Past /\ past'.lost = past.lost /\ OnlyLost
    BY <1>0, <1>8, CountsFault DEF Owners!Crash
  <2> QED BY <1>6, <1>8, <2>1 DEF Owners!Crash, Started
<1>9. ASSUME NEW i \in Pid, Owners!Foreign(i) PROVE OwnerTypes' /\ OneOnward /\ Later
  <2>1. /\ proc' = [proc EXCEPT ![i] = [who |-> "foreign", birth |-> proc[i].birth + 1]]
        /\ UNCHANGED <<record, socket, stage, pid, torn, reap, sweep>>
    BY <1>9 DEF Owners!Foreign, Owners!Starting
  <2>2. past' \in Past /\ past'.lost = past.lost /\ OnlyLost
    BY <1>0, <1>9, CountsFault DEF Owners!Foreign
  <2>3. proc' \in [Pid -> Process]
    BY <1>0, <2>1 DEF Process
  <2> QED BY <1>0, <2>1, <2>2, <2>3 DEF OwnerTypes, Later, OneOnward, Started, OnlyLost
<1> QED BY <1>1, <1>3, <1>4, <1>5, <1>7, <1>8, <1>9

\* The same for the sweep.
LEMMA SweepTypes ==
  ASSUME OwnerConstants, OwnerTypes, NEW d \in Daemon,
         Owners!SweepProbe(d) \/ Owners!SweepRemove(d) \/ \E p \in Owners!Paths : Owners!SweepLook(d, p)
  PROVE  OwnerTypes' /\ OneOnward /\ Later
<1>0. /\ record \in [Owners!Slots -> Daemon \cup {"none"}] /\ socket \in [Owners!Paths -> Daemon \cup {"none"}]
      /\ proc \in [Pid -> Process] /\ stage \in [Daemon -> Life] /\ pid \in [Daemon -> StartOf]
      /\ reap \in [Daemon -> [Daemon -> Reap]] /\ sweep \in [Daemon -> Sweep] /\ past \in Past
  BY DEF OwnerTypes
<1> DEFINE next == [Owners!NoSweep EXCEPT !.at = "next"]
<1>n. next \in Sweep
  BY DEF Sweep, Owners!NoSweep
<1>1. ASSUME NEW p \in Owners!Paths, Owners!SweepLook(d, p) PROVE OwnerTypes' /\ OneOnward /\ Later
  <2>1. /\ sweep' = [sweep EXCEPT ![d] = [at |-> "look", path |-> p, saw |-> socket[p]]]
        /\ UNCHANGED <<record, socket, proc, stage, pid, torn, reap, past>>
    BY <1>1 DEF Owners!SweepLook
  <2>2. sweep' \in [Daemon -> Sweep]
    BY <1>0, <2>1 DEF Sweep
  <2> QED BY <1>0, <2>1, <2>2 DEF OwnerTypes, Later, OneOnward, Started
<1>2. ASSUME Owners!SweepProbe(d) PROVE OwnerTypes' /\ OneOnward /\ Later
  <2> DEFINE p == sweep[d].path
  <2>1. /\ \/ sweep' = [sweep EXCEPT ![d] = [sweep[d] EXCEPT !.at = "refused"]]
           \/ sweep' = [sweep EXCEPT ![d] = next]
        /\ \E es \in {Owners!NotBound(socket[p]), {}} : Owners!Lost(es)
        /\ UNCHANGED <<record, socket, proc, stage, pid, torn, reap>>
    BY <1>2 DEF Owners!SweepProbe
  <2>2. past' \in Past /\ past.lost \subseteq past'.lost /\ OnlyLost
    <3>1. {Owners!NotBound(socket[p]), {}} \subseteq SUBSET Daemon
      BY DEF Owners!NotBound
    <3> QED BY <1>0, <2>1, <3>1, LosesFiles
  <2>3. sweep' \in [Daemon -> Sweep]
    <3>1. [sweep[d] EXCEPT !.at = "refused"] \in Sweep
      BY <1>0 DEF Sweep
    <3> HIDE DEF next
    <3> QED BY <1>0, <1>n, <2>1, <3>1
  <2> QED BY <1>0, <2>1, <2>2, <2>3 DEF OwnerTypes, Later, OneOnward, Started, OnlyLost
<1>3. ASSUME Owners!SweepRemove(d) PROVE OwnerTypes' /\ OneOnward /\ Later
  <2> DEFINE p == sweep[d].path
  <2>1. /\ socket' \in {socket, [socket EXCEPT ![p] = "none"]}
        /\ sweep' = [sweep EXCEPT ![d] = next]
        /\ UNCHANGED <<record, proc, stage, pid, torn, reap, past>>
    BY <1>3 DEF Owners!SweepRemove
  <2>2. sweep' \in [Daemon -> Sweep]
    <3> HIDE DEF next
    <3> QED BY <1>0, <1>n, <2>1
  <2> QED BY <1>0, <2>1, <2>2 DEF OwnerTypes, Later, OneOnward, Started
<1> QED BY <1>1, <1>2, <1>3

\* A step other than a start starts nobody.
LEMMA StartsNobody ==
  ASSUME OwnerTypes, IdsFit, HitsFit, [Owners!Next]_Owners!vars,
         ~\E d \in Daemon, i \in Pid : Owners!Start(d, i), OneOnward
  PROVE  \A d \in Daemon : stage'[d] # "none" => Started(d)
<1>1. SUFFICES ASSUME NEW d \in Daemon, NEW s \in Life,
                      stage' = [stage EXCEPT ![d] = s], Onward(stage[d], s), stage[d] = "none"
               PROVE  FALSE
  BY DEF OneOnward, OwnerTypes, Started
<1>2. s = "starting" /\ stage'[d] = "starting" /\ stage \in [Daemon -> Life]
  BY <1>1 DEF Onward, OwnerTypes
<1>3. ASSUME NEW x \in Daemon,
             \/ Owners!Bind(x) \/ Owners!ClearStale(x) \/ Owners!Listen(x) \/ Owners!Discover(x) \/ Owners!Publish(x)
             \/ Owners!StartDrain(x) \/ Owners!Relinquish(x) \/ Owners!ReadRecord(x) \/ Owners!RemoveRecord(x)
             \/ Owners!Exit(x) \/ Owners!Crash(x)
      PROVE  FALSE
  <2>1. stage'[x] # "starting" /\ (x # d => stage'[d] = stage[d])
    BY <1>2, <1>3 DEF Owners!Bind, Owners!ClearStale, Owners!Listen, Owners!Discover, Owners!Publish, Owners!Become,
      Owners!StartDrain, Owners!Relinquish, Owners!ReadRecord, Owners!RemoveRecord, Owners!Exit, Owners!Crash, Owners!Dies
  <2> QED BY <1>1, <1>2, <2>1
<1>4. ASSUME NEW x \in Daemon, NEW e \in Daemon, Owners!Ask(x, e) \/ Owners!Waited(x, e)
      PROVE  FALSE
  BY <1>1, <1>2, <1>4 DEF Owners!Ask, Owners!Waited, Owners!Become
<1>5. ASSUME NEW x \in Daemon, NEW e \in Daemon, Owners!Terminate(x, e) PROVE FALSE
  BY <1>1, <1>2, <1>5 DEF Owners!Terminate, Owners!Signal
<1>6. ASSUME NEW i \in Pid, Owners!Foreign(i) PROVE FALSE
  BY <1>1, <1>2, <1>6 DEF Owners!Foreign
<1>7. ASSUME NEW x \in Daemon,
             Owners!SweepProbe(x) \/ Owners!SweepRemove(x) \/ \E p \in Owners!Paths : Owners!SweepLook(x, p)
      PROVE  FALSE
  BY <1>1, <1>2, <1>7 DEF Owners!SweepProbe, Owners!SweepRemove, Owners!SweepLook
<1>8. ASSUME UNCHANGED Owners!vars PROVE FALSE
  BY <1>1, <1>2, <1>8 DEF Owners!vars
<1> QED BY <1>3, <1>4, <1>5, <1>6, <1>7, <1>8 DEF Owners!Next

\* Process ids: one starts, another process takes a free one, or one becomes free.
LEMMA IdsMove ==
  ASSUME OwnerTypes, IdsFit, HitsFit, [Owners!Next]_Owners!vars,
         ~\E d \in Daemon, i \in Pid : Owners!Start(d, i)
  PROVE  /\ pid' = pid
         /\ \/ proc' = proc
            \/ \E i \in Pid : \/ proc' = [proc EXCEPT ![i] = [who |-> "foreign", birth |-> proc[i].birth + 1]]
                              \/ proc' = [proc EXCEPT ![i].who = "none"]
<1> DEFINE Frees == \E i \in Pid : proc' = [proc EXCEPT ![i].who = "none"]
<1>1. ASSUME NEW d \in Daemon, Started(d), Owners!Dies(d) PROVE Frees
  BY <1>1 DEF Owners!Dies, IdsFit
<1>2. ASSUME NEW d \in Daemon, Owners!Bind(d) PROVE pid' = pid /\ (proc' = proc \/ Frees)
  BY <1>1, <1>2 DEF Owners!Bind, Started
<1>3. ASSUME NEW d \in Daemon,
             \/ Owners!ClearStale(d) \/ Owners!Listen(d) \/ Owners!Discover(d) \/ Owners!Publish(d)
             \/ Owners!StartDrain(d) \/ Owners!Relinquish(d) \/ Owners!ReadRecord(d) \/ Owners!RemoveRecord(d)
      PROVE  pid' = pid /\ proc' = proc
  BY <1>3 DEF Owners!ClearStale, Owners!Listen, Owners!Discover, Owners!Publish, Owners!StartDrain,
    Owners!Relinquish, Owners!ReadRecord, Owners!RemoveRecord
<1>4. ASSUME NEW d \in Daemon, Owners!Exit(d) \/ Owners!Crash(d) PROVE pid' = pid /\ Frees
  BY <1>1, <1>4 DEF Owners!Exit, Owners!Crash, Started
<1>5. ASSUME NEW d \in Daemon, NEW e \in Daemon, Owners!Ask(d, e) \/ Owners!Waited(d, e)
      PROVE  pid' = pid /\ proc' = proc
  BY <1>5 DEF Owners!Ask, Owners!Waited
<1>6. ASSUME NEW d \in Daemon, NEW e \in Daemon, Owners!Terminate(d, e) PROVE pid' = pid /\ (proc' = proc \/ Frees)
  <2>1. pid[e].id \in Pid
    BY <1>6 DEF Owners!Terminate, HitsFit, IdsFit
  <2> QED BY <1>6, <2>1 DEF Owners!Terminate, Owners!Signal
<1>7. ASSUME NEW d \in Daemon,
             Owners!SweepProbe(d) \/ Owners!SweepRemove(d) \/ \E p \in Owners!Paths : Owners!SweepLook(d, p)
      PROVE  pid' = pid /\ proc' = proc
  BY <1>7 DEF Owners!SweepProbe, Owners!SweepRemove, Owners!SweepLook
<1>8. ASSUME UNCHANGED Owners!vars PROVE pid' = pid /\ proc' = proc
  BY <1>8 DEF Owners!vars
<1>9. ASSUME NEW i \in Pid, Owners!Foreign(i)
      PROVE  pid' = pid /\ proc' = [proc EXCEPT ![i] = [who |-> "foreign", birth |-> proc[i].birth + 1]]
  BY <1>9 DEF Owners!Foreign, Owners!Starting
<1> QED BY <1>2, <1>3, <1>4, <1>5, <1>6, <1>7, <1>8, <1>9 DEF Owners!Next

LEMMA IdsStay ==
  ASSUME OwnerConstants, OwnerTypes, IdsFit, HitsFit, [Owners!Next]_Owners!vars, OwnerTypes', OneOnward, Later
  PROVE  IdsFit'
<1>0. proc \in [Pid -> Process] /\ pid \in [Daemon -> StartOf] /\ stage \in [Daemon -> Life]
  BY DEF OwnerTypes
<1>n. /\ \A i \in Pid : proc[i].birth \in Nat
      /\ \A d \in Daemon : pid[d].birth \in Nat
  BY <1>0 DEF Process, StartOf
<1>1. ASSUME NEW d \in Daemon, NEW i \in Pid, Owners!Start(d, i) PROVE IdsFit'
  <2>1. /\ stage[d] = "none" /\ stage' = [stage EXCEPT ![d] = "starting"] /\ proc[i].who = "none"
        /\ proc' = [proc EXCEPT ![i] = [who |-> d, birth |-> proc[i].birth + 1]]
        /\ pid' = [pid EXCEPT ![d] = [id |-> i, birth |-> proc[i].birth + 1]]
    BY <1>1 DEF Owners!Start, Owners!Starting, Owners!Become
  <2>2. /\ pid'[d].id = i /\ pid'[d].birth = proc[i].birth + 1 /\ stage'[d] = "starting"
        /\ proc'[i].birth = proc[i].birth + 1 /\ proc'[i].who = d
        /\ \A x \in Daemon : x # d => pid'[x] = pid[x] /\ stage'[x] = stage[x]
        /\ \A j \in Pid : j # i => proc'[j] = proc[j]
    BY <1>0, <2>1
  <2> DEFINE Fit(x) == /\ pid'[x].id \in Pid
                       /\ pid'[x].birth <= proc'[pid'[x].id].birth
                       /\ pid'[x].birth = proc'[pid'[x].id].birth => proc'[pid'[x].id].who \in {x, "none"}
  <2>3. ASSUME NEW x \in Daemon, stage'[x] # "none" PROVE Fit(x)
    <3>1. CASE x = d
      BY <1>n, <2>2, <3>1
    <3>2. ASSUME x # d, pid[x].id # i PROVE Fit(x)
      BY <2>2, <2>3, <3>2 DEF IdsFit, Started
    <3>3. ASSUME x # d, pid[x].id = i PROVE Fit(x)
      BY <1>n, <2>2, <2>3, <3>3 DEF IdsFit, Started
    <3> QED BY <3>1, <3>2, <3>3
  <2>4. ASSUME NEW j \in Pid, proc'[j].who \in Daemon PROVE stage'[proc'[j].who] # "none"
    BY <2>2, <2>4 DEF IdsFit, Started
  <2> QED BY <2>3, <2>4 DEF IdsFit, Started
<1>2. ASSUME ~\E d \in Daemon, i \in Pid : Owners!Start(d, i) PROVE IdsFit'
  <2>1. /\ pid' = pid /\ \A d \in Daemon : stage'[d] # "none" <=> stage[d] # "none"
    BY <1>2, IdsMove, StartsNobody DEF Later, Started
  <2>2. ASSUME proc' = proc PROVE IdsFit'
    BY <2>1, <2>2 DEF IdsFit, Started
  <2>3. ASSUME NEW i \in Pid, proc' = [proc EXCEPT ![i] = [who |-> "foreign", birth |-> proc[i].birth + 1]]
        PROVE  IdsFit'
    <3>1. /\ proc'[i].birth = proc[i].birth + 1 /\ proc'[i].who = "foreign"
          /\ \A j \in Pid : j # i => proc'[j] = proc[j]
      BY <1>0, <2>3
    <3>2. ASSUME NEW x \in Daemon, stage'[x] # "none"
          PROVE  /\ pid'[x].id \in Pid
                 /\ pid'[x].birth <= proc'[pid'[x].id].birth
                 /\ pid'[x].birth = proc'[pid'[x].id].birth => proc'[pid'[x].id].who \in {x, "none"}
      <4>1. CASE pid[x].id # i
        BY <2>1, <3>1, <3>2, <4>1 DEF IdsFit, Started
      <4>2. CASE pid[x].id = i
        BY <1>n, <2>1, <3>1, <3>2, <4>2 DEF IdsFit, Started
      <4> QED BY <4>1, <4>2
    <3>3. ASSUME NEW j \in Pid, proc'[j].who \in Daemon PROVE stage'[proc'[j].who] # "none"
      BY <2>1, <3>1, <3>3 DEF IdsFit, Started, OwnerConstants
    <3> QED BY <3>2, <3>3 DEF IdsFit, Started
  <2>4. ASSUME NEW i \in Pid, proc' = [proc EXCEPT ![i].who = "none"] PROVE IdsFit'
    <3>1. /\ proc'[i].birth = proc[i].birth /\ proc'[i].who = "none"
          /\ \A j \in Pid : j # i => proc'[j] = proc[j]
      BY <1>0, <2>4 DEF Process
    <3> QED BY <2>1, <3>1 DEF IdsFit, Started, OwnerConstants
  <2> QED BY <1>2, <2>2, <2>3, <2>4, IdsMove
<1> QED BY <1>1, <1>2

\* Who bound a file that is removed, or was not asked about it, has departed.
LEMMA SocketsSettle ==
  ASSUME OwnerTypes, SocketsFit, Later,
         \A d \in Daemon : stage'[d] \in Up => stage[d] \in Up,
         \A p \in Owners!Paths :
           \/ socket'[p] = socket[p]
           \/ socket'[p] = "none" /\ (socket[p] \in Daemon => stage'[socket[p]] \in Gone \/ socket[p] \in past'.lost),
         "none" \notin Daemon
  PROVE  SocketsFit'
<1>1. ASSUME NEW p \in Owners!Paths, socket'[p] \in Daemon
      PROVE  PathOf[socket'[p]] = p /\ stage'[socket'[p]] \in Up \cup Gone
  BY <1>1 DEF SocketsFit, Later
<1>2. ASSUME NEW d \in Daemon, stage'[d] \in Up PROVE socket'[PathOf[d]] = d \/ d \in past'.lost
  <2>1. PathOf[d] \in Owners!Paths /\ (socket[PathOf[d]] = d \/ d \in past.lost)
    BY <1>2 DEF SocketsFit, Owners!Paths
  <2>2. stage'[d] \notin Gone
    BY <1>2 DEF Up, Gone
  <2> QED BY <2>1, <2>2 DEF Later
<1> QED BY <1>1, <1>2 DEF SocketsFit

\* A probe is refused by a file whose binder is not listening: it has gone, or loses it.
LEMMA RefusedHaveGone ==
  ASSUME SocketsFit, NEW p \in Owners!Paths, Owners!Refuses(p), socket[p] \in Daemon
  PROVE  stage[socket[p]] \in Gone \/ socket[p] \in Owners!NotBound(socket[p])
BY DEF SocketsFit, Owners!Refuses, Owners!Listens, Owners!NotBound, Up, Gone

\* Nobody else comes up in a step in which a daemon does not bind.
LEMMA UpStays ==
  ASSUME OwnerTypes, OneOnward, \A d \in Daemon : stage'[d] = "bound" => stage[d] = "bound"
  PROVE  \A d \in Daemon : stage'[d] \in Up => stage[d] \in Up
BY DEF OwnerTypes, OneOnward, Onward, Up

LEMMA SocketsStay ==
  ASSUME OwnerConstants, OwnerTypes, IdsFit, SocketsFit, SweepsFit, [Owners!Next]_Owners!vars,
         OwnerTypes', OneOnward, Later
  PROVE  SocketsFit'
<1>0. /\ socket \in [Owners!Paths -> Daemon \cup {"none"}] /\ stage \in [Daemon -> Life]
      /\ sweep \in [Daemon -> Sweep] /\ past \in Past /\ "none" \notin Daemon
      /\ \A d \in Daemon : PathOf[d] \in Owners!Paths
  BY DEF OwnerTypes, Owners!Paths, OwnerConstants
<1>s. ASSUME \A d \in Daemon : stage'[d] = "bound" => stage[d] = "bound", socket' = socket PROVE SocketsFit'
  BY <1>0, <1>s, UpStays, SocketsSettle
<1>1. ASSUME NEW d \in Daemon, Owners!Bind(d) PROVE SocketsFit'
  <2> DEFINE p == PathOf[d]
  <2>1. ASSUME socket[p] = "none" PROVE SocketsFit'
    <3>1. /\ socket' = [socket EXCEPT ![p] = d] /\ stage' = [stage EXCEPT ![d] = "bound"] /\ past' = past
      BY <1>1, <2>1 DEF Owners!Bind, Owners!Become
    <3>2. ASSUME NEW q \in Owners!Paths, socket'[q] \in Daemon
          PROVE  PathOf[socket'[q]] = q /\ stage'[socket'[q]] \in Up \cup Gone
      <4>1. CASE q = p
        BY <1>0, <3>1, <4>1 DEF Up
      <4>2. CASE q # p
        <5>1. socket'[q] = socket[q] /\ socket[q] \in Daemon
          BY <1>0, <3>1, <3>2, <4>2
        <5>2. PathOf[socket[q]] = q /\ stage[socket[q]] \in Up \cup Gone
          BY <5>1 DEF SocketsFit
        <5> QED BY <5>1, <5>2 DEF Later
      <4> QED BY <4>1, <4>2
    <3>3. ASSUME NEW x \in Daemon, stage'[x] \in Up PROVE socket'[PathOf[x]] = x \/ x \in past'.lost
      <4>1. CASE x = d
        BY <1>0, <3>1, <4>1
      <4>2. CASE x # d
        <5>1. socket[PathOf[x]] = x \/ x \in past.lost
          BY <1>0, <3>1, <3>3, <4>2 DEF SocketsFit
        <5> QED BY <1>0, <2>1, <3>1, <5>1
      <4> QED BY <4>1, <4>2
    <3> QED BY <3>2, <3>3 DEF SocketsFit
  <2>2. ASSUME socket[p] # "none" PROVE SocketsFit'
    <3>1. socket' = socket /\ \E s \in {"refused", "dead"} : stage' = [stage EXCEPT ![d] = s]
      BY <1>1, <2>2 DEF Owners!Bind, Owners!Become, Owners!Dies
    <3> QED BY <1>0, <1>s, <3>1
  <2> QED BY <2>1, <2>2
<1>2. ASSUME NEW d \in Daemon, Owners!ClearStale(d) PROVE SocketsFit'
  <2> DEFINE p == PathOf[d]
  <2>1. /\ stage[d] = "refused" /\ stage' = [stage EXCEPT ![d] = "cleared"]
        /\ socket' = [socket EXCEPT ![p] = "none"] /\ Owners!Lost({socket[p]} \ {sweep[d].saw, "none"})
    BY <1>2 DEF Owners!ClearStale, Owners!Become
  <2>2. past'.lost = past.lost \cup ({socket[p]} \ {sweep[d].saw, "none"})
    BY <1>0, <2>1, LosesFiles
  <2>3. socket[p] \in Daemon => stage'[socket[p]] \in Gone \/ socket[p] \in past'.lost
    <3>1. Departed(sweep[d].saw)
      BY <2>1 DEF SweepsFit, SweepFits
    <3> QED BY <1>0, <2>2, <3>1 DEF Departed, Later
  <2>4. \A x \in Daemon : stage'[x] = "bound" => stage[x] = "bound"
    BY <1>0, <2>1
  <2> QED BY <1>0, <2>1, <2>3, <2>4, UpStays, SocketsSettle
<1>3. ASSUME NEW d \in Daemon, NEW s \in {"closed", "removing", "closing"}, Owners!Unlinks(d),
             stage' = [stage EXCEPT ![d] = s]
      PROVE  SocketsFit'
  <2> DEFINE p == PathOf[d]
  <2>1. socket' = [socket EXCEPT ![p] = "none"] /\ Owners!Lost({socket[p]} \ {d, "none"})
    BY <1>3 DEF Owners!Unlinks
  <2>2. past'.lost = past.lost \cup ({socket[p]} \ {d, "none"})
    BY <1>0, <2>1, LosesFiles
  <2>3. socket[p] \in Daemon => stage'[socket[p]] \in Gone \/ socket[p] \in past'.lost
    BY <1>0, <1>3, <2>2 DEF Gone
  <2>4. \A x \in Daemon : stage'[x] = "bound" => stage[x] = "bound"
    BY <1>0, <1>3
  <2> QED BY <1>0, <2>1, <2>3, <2>4, UpStays, SocketsSettle
<1>4. ASSUME NEW d \in Daemon, Owners!Relinquish(d) \/ Owners!ReadRecord(d) PROVE SocketsFit'
  BY <1>3, <1>4 DEF Owners!Relinquish, Owners!ReadRecord, Owners!Become
<1>5. ASSUME NEW d \in Daemon, Owners!SweepRemove(d) PROVE SocketsFit'
  <2> DEFINE p == sweep[d].path
  <2>1. /\ sweep[d].at = "refused" /\ UNCHANGED <<stage, past>>
        /\ socket' = socket \/ (socket[p] = sweep[d].saw /\ socket' = [socket EXCEPT ![p] = "none"])
    BY <1>5 DEF Owners!SweepRemove
  <2>2. Departed(sweep[d].saw)
    BY <2>1 DEF SweepsFit, SweepFits
  <2>3. ASSUME NEW q \in Owners!Paths
        PROVE  \/ socket'[q] = socket[q]
               \/ socket'[q] = "none" /\ (socket[q] \in Daemon => stage'[socket[q]] \in Gone \/ socket[q] \in past'.lost)
    BY <1>0, <2>1, <2>2 DEF Departed
  <2> QED BY <1>0, <2>1, <2>3, SocketsSettle
<1>6. ASSUME NEW d \in Daemon,
             \/ \E i \in Pid : Owners!Start(d, i)
             \/ Owners!Listen(d) \/ Owners!Discover(d) \/ Owners!Publish(d)
             \/ Owners!StartDrain(d) \/ Owners!RemoveRecord(d) \/ Owners!Exit(d) \/ Owners!Crash(d)
             \/ Owners!SweepProbe(d) \/ \E p \in Owners!Paths : Owners!SweepLook(d, p)
      PROVE  SocketsFit'
  <2>1. socket' = socket
    BY <1>6 DEF Owners!Start, Owners!Listen, Owners!Discover, Owners!Publish, Owners!StartDrain,
      Owners!RemoveRecord, Owners!Exit, Owners!Crash, Owners!SweepProbe, Owners!SweepLook
  <2>2. stage' = stage \/ \E s \in Life \ {"bound"} : stage' = [stage EXCEPT ![d] = s]
    BY <1>6 DEF Owners!Start, Owners!Listen, Owners!Discover, Owners!Publish, Owners!StartDrain, Owners!Dies, Owners!Become,
      Owners!RemoveRecord, Owners!Exit, Owners!Crash, Owners!SweepProbe, Owners!SweepLook, Life, Up, Gone
  <2> QED BY <1>0, <1>s, <2>1, <2>2
<1>7. ASSUME NEW d \in Daemon, NEW e \in Daemon, Owners!Ask(d, e) \/ Owners!Waited(d, e) \/ Owners!Terminate(d, e)
      PROVE  SocketsFit'
  <2>1. socket' = socket
    BY <1>7 DEF Owners!Ask, Owners!Waited, Owners!Terminate
  <2>2. stage' = stage \/ \E x \in Daemon, s \in {"draining", "dead"} : stage' = [stage EXCEPT ![x] = s]
    BY <1>7 DEF Owners!Ask, Owners!Waited, Owners!Terminate, Owners!Signal, Owners!Become
  <2> QED BY <1>0, <1>s, <2>1, <2>2
<1>8. ASSUME (\E i \in Pid : Owners!Foreign(i)) \/ UNCHANGED Owners!vars PROVE SocketsFit'
  <2>1. socket' = socket /\ stage' = stage
    BY <1>8 DEF Owners!Foreign, Owners!vars
  <2> QED BY <1>s, <2>1
<1> QED BY <1>1, <1>2, <1>4, <1>5, <1>6, <1>7, <1>8 DEF Owners!Next

\* What a sweep has seen stays so while it does not move on.
LEMMA SweepSettles ==
  ASSUME Later, NEW d \in Daemon, SweepFits(d),
         stage'[d] = "refused" => stage[d] = "refused" /\ sweep'[d] = sweep[d],
         sweep'[d].at # "none" => stage'[d] = "serving",
         sweep'[d] = sweep[d] \/ sweep'[d].at \in {"none", "next"}
  PROVE  SweepFits(d)'
<1>1. ASSUME stage'[d] = "refused" \/ sweep'[d].at = "refused", sweep'[d].saw \in Daemon
      PROVE  stage'[sweep'[d].saw] \in Gone \/ sweep'[d].saw \in past'.lost
  <2>1. sweep'[d] = sweep[d] /\ (stage[d] = "refused" \/ sweep[d].at = "refused")
    BY <1>1
  <2> QED BY <1>1, <2>1 DEF SweepFits, Departed, Later
<1>2. ASSUME sweep'[d].at \in {"look", "refused"} PROVE sweep'[d].path \in Owners!Paths
  BY <1>2 DEF SweepFits
<1>3. ASSUME sweep'[d].at = "look", sweep'[d].saw \in Daemon
      PROVE  PathOf[sweep'[d].saw] = sweep'[d].path /\ stage'[sweep'[d].saw] \in Up \cup Gone
  BY <1>3 DEF SweepFits, Later
<1> QED BY <1>1, <1>2, <1>3 DEF SweepFits, Departed, Owners!Paths

LEMMA SweepsStay ==
  ASSUME OwnerConstants, OwnerTypes, IdsFit, SocketsFit, SweepsFit, [Owners!Next]_Owners!vars,
         OwnerTypes', OneOnward, Later
  PROVE  SweepsFit'
<1>0. /\ socket \in [Owners!Paths -> Daemon \cup {"none"}] /\ stage \in [Daemon -> Life]
      /\ sweep \in [Daemon -> Sweep] /\ past \in Past
      /\ \A d \in Daemon : PathOf[d] \in Owners!Paths
      /\ \A d \in Daemon : SweepFits(d) /\ (sweep[d].at # "none" => stage[d] = "serving")
  BY DEF OwnerTypes, Owners!Paths, SweepsFit, SweepFits
\* A step that only moves sweeps to their end or to the next file.
<1>m. ASSUME \A x \in Daemon :
               /\ stage'[x] = "refused" => stage[x] = "refused" /\ sweep'[x] = sweep[x]
               /\ sweep'[x].at # "none" => stage'[x] = "serving"
               /\ sweep'[x] = sweep[x] \/ sweep'[x].at \in {"none", "next"}
      PROVE  SweepsFit'
  <2>1. \A x \in Daemon : SweepFits(x)'
    BY <1>0, <1>m, SweepSettles
  <2> QED BY <2>1 DEF SweepsFit
<1>d. ASSUME NEW d \in Daemon, Owners!Dies(d) PROVE SweepsFit'
  BY <1>0, <1>m, <1>d DEF Owners!Dies, Owners!NoSweep
<1>1. ASSUME NEW d \in Daemon, Owners!Bind(d) PROVE SweepsFit'
  <2> DEFINE p == PathOf[d]
  <2>1. ASSUME socket[p] # "none", stage[d] = "starting" /\ Owners!Refuses(p) PROVE SweepsFit'
    <3>1. /\ stage' = [stage EXCEPT ![d] = "refused"] /\ sweep' = [sweep EXCEPT ![d].saw = socket[p]]
          /\ Owners!Lost(Owners!NotBound(socket[p]))
      BY <1>1, <2>1 DEF Owners!Bind, Owners!Become
    <3>2. past'.lost = past.lost \cup Owners!NotBound(socket[p])
      <4>1. Owners!NotBound(socket[p]) \in SUBSET Daemon
        BY DEF Owners!NotBound
      <4> QED BY <1>0, <3>1, <4>1, LosesFiles
    <3>3. sweep'[d].saw = socket[p] /\ sweep'[d].at = "none" /\ stage'[d] = "refused"
      BY <1>0, <2>1, <3>1 DEF Sweep
    <3>4. SweepFits(d)'
      <4>1. ASSUME socket[p] \in Daemon PROVE stage'[socket[p]] \in Gone \/ socket[p] \in past'.lost
        BY <1>0, <2>1, <3>2, <4>1, RefusedHaveGone DEF Later
      <4> QED BY <3>3, <4>1 DEF SweepFits, Departed
    <3>5. ASSUME NEW x \in Daemon, x # d PROVE SweepFits(x)'
      <4>1. stage'[x] = stage[x] /\ sweep'[x] = sweep[x]
        BY <1>0, <3>1, <3>5
      <4> QED BY <1>0, <4>1, SweepSettles
    <3> QED BY <3>4, <3>5 DEF SweepsFit
  <2>2. ASSUME socket[p] = "none" PROVE SweepsFit'
    <3>1. stage[d] # "serving" /\ stage' = [stage EXCEPT ![d] = "bound"] /\ sweep' = sweep
      BY <1>1, <2>2 DEF Owners!Bind, Owners!Become
    <3> QED BY <1>0, <1>m, <3>1
  <2>3. ASSUME socket[p] # "none", ~(stage[d] = "starting" /\ Owners!Refuses(p)) PROVE SweepsFit'
    BY <1>1, <1>d, <2>3 DEF Owners!Bind
  <2> QED BY <2>1, <2>2, <2>3
<1>2. ASSUME NEW d \in Daemon, Owners!ClearStale(d) \/ Owners!Publish(d) \/ Owners!StartDrain(d) PROVE SweepsFit'
  BY <1>0, <1>2, <1>m DEF Owners!ClearStale, Owners!Publish, Owners!StartDrain, Owners!Become, Owners!NoSweep, Sweep
<1>3. ASSUME NEW d \in Daemon,
             \/ \E i \in Pid : Owners!Start(d, i)
             \/ Owners!Listen(d) \/ Owners!Discover(d)
             \/ Owners!Relinquish(d) \/ Owners!ReadRecord(d) \/ Owners!RemoveRecord(d)
      PROVE  SweepsFit'
  <2>1. /\ sweep' = sweep /\ stage[d] # "serving"
        /\ \E s \in Life \ {"refused"} : stage' = [stage EXCEPT ![d] = s]
    BY <1>3 DEF Owners!Start, Owners!Listen, Owners!Discover, Owners!Relinquish, Owners!ReadRecord,
      Owners!RemoveRecord, Owners!Become, Life, Up, Gone
  <2> QED BY <1>0, <1>m, <2>1
<1>4. ASSUME NEW d \in Daemon, Owners!Exit(d) \/ Owners!Crash(d) PROVE SweepsFit'
  BY <1>4, <1>d DEF Owners!Exit, Owners!Crash
<1>5. ASSUME NEW d \in Daemon, NEW e \in Daemon, Owners!Ask(d, e) \/ Owners!Waited(d, e) \/ Owners!Terminate(d, e)
      PROVE  SweepsFit'
  <2>1. \/ UNCHANGED <<stage, sweep>>
        \/ \E x \in Daemon, s \in {"draining", "dead"} :
             stage' = [stage EXCEPT ![x] = s] /\ sweep' = [sweep EXCEPT ![x] = Owners!NoSweep]
    BY <1>5 DEF Owners!Ask, Owners!Waited, Owners!Terminate, Owners!Signal, Owners!Become
  <2> QED BY <1>0, <1>m, <2>1 DEF Owners!NoSweep
<1>6. ASSUME (\E i \in Pid : Owners!Foreign(i)) \/ UNCHANGED Owners!vars PROVE SweepsFit'
  <2>1. stage' = stage /\ sweep' = sweep
    BY <1>6 DEF Owners!Foreign, Owners!vars
  <2> QED BY <1>0, <1>m, <2>1
<1>7. ASSUME NEW d \in Daemon, NEW p \in Owners!Paths, Owners!SweepLook(d, p) PROVE SweepsFit'
  <2>1. /\ sweep[d].at = "next" /\ stage' = stage
        /\ sweep' = [sweep EXCEPT ![d] = [at |-> "look", path |-> p, saw |-> socket[p]]]
    BY <1>7 DEF Owners!SweepLook
  <2>2. SweepFits(d)'
    <3>1. sweep'[d] = [at |-> "look", path |-> p, saw |-> socket[p]] /\ stage'[d] = "serving"
      BY <1>0, <2>1
    <3>2. socket[p] \in Daemon => PathOf[socket[p]] = p /\ stage'[socket[p]] \in Up \cup Gone
      BY <2>1 DEF SocketsFit
    <3> QED BY <3>1, <3>2 DEF SweepFits, Departed, Owners!Paths
  <2>3. ASSUME NEW x \in Daemon, x # d PROVE SweepFits(x)'
    <3>1. stage'[x] = stage[x] /\ sweep'[x] = sweep[x]
      BY <1>0, <2>1, <2>3
    <3> QED BY <1>0, <3>1, SweepSettles
  <2> QED BY <2>2, <2>3 DEF SweepsFit
<1>8. ASSUME NEW d \in Daemon, Owners!SweepProbe(d) PROVE SweepsFit'
  <2> DEFINE p == sweep[d].path
  <2>0. sweep[d].at = "look" /\ stage[d] = "serving" /\ p \in Owners!Paths /\ UNCHANGED <<stage, socket>>
    BY <1>0, <1>8 DEF Owners!SweepProbe, SweepFits
  <2>1. ASSUME Owners!Refuses(p) PROVE SweepsFit'
    <3>1. /\ sweep' = [sweep EXCEPT ![d] = [sweep[d] EXCEPT !.at = "refused"]]
          /\ Owners!Lost(Owners!NotBound(socket[p]))
      BY <1>8, <2>1 DEF Owners!SweepProbe
    <3>2. past'.lost = past.lost \cup Owners!NotBound(socket[p])
      <4>1. Owners!NotBound(socket[p]) \in SUBSET Daemon
        BY DEF Owners!NotBound
      <4> QED BY <1>0, <3>1, <4>1, LosesFiles
    <3>3. sweep'[d].saw = sweep[d].saw /\ sweep'[d].at = "refused" /\ sweep'[d].path = p /\ stage'[d] = "serving"
      BY <1>0, <2>0, <3>1 DEF Sweep
    <3>4. ASSUME sweep[d].saw \in Daemon
          PROVE  stage'[sweep[d].saw] \in Gone \/ sweep[d].saw \in past'.lost
      <4>1. PathOf[sweep[d].saw] = p /\ stage[sweep[d].saw] \in Up \cup Gone
        BY <1>0, <2>0, <3>4 DEF SweepFits
      <4>2. CASE socket[p] = sweep[d].saw
        BY <2>0, <2>1, <3>2, <3>4, <4>2, RefusedHaveGone
      <4>3. CASE socket[p] # sweep[d].saw
        BY <2>0, <3>2, <3>4, <4>1, <4>3 DEF SocketsFit
      <4> QED BY <4>2, <4>3
    <3>5. SweepFits(d)'
      BY <2>0, <3>3, <3>4 DEF SweepFits, Departed, Owners!Paths
    <3>6. ASSUME NEW x \in Daemon, x # d PROVE SweepFits(x)'
      <4>1. stage'[x] = stage[x] /\ sweep'[x] = sweep[x]
        BY <1>0, <2>0, <3>1, <3>6
      <4> QED BY <1>0, <4>1, SweepSettles
    <3> QED BY <3>5, <3>6 DEF SweepsFit
  <2>2. ASSUME ~Owners!Refuses(p) PROVE SweepsFit'
    <3>1. sweep' = [sweep EXCEPT ![d] = [Owners!NoSweep EXCEPT !.at = "next"]]
      BY <1>8, <2>2 DEF Owners!SweepProbe
    <3> QED BY <1>0, <1>m, <2>0, <3>1 DEF Owners!NoSweep
  <2> QED BY <2>1, <2>2
<1>9. ASSUME NEW d \in Daemon, Owners!SweepRemove(d) PROVE SweepsFit'
  <2>1. /\ sweep[d].at = "refused" /\ stage' = stage
        /\ sweep' = [sweep EXCEPT ![d] = [Owners!NoSweep EXCEPT !.at = "next"]]
    BY <1>9 DEF Owners!SweepRemove
  <2> QED BY <1>0, <1>m, <2>1 DEF Owners!NoSweep
<1> QED BY <1>1, <1>2, <1>3, <1>4, <1>5, <1>6, <1>7, <1>8, <1>9 DEF Owners!Next

LEMMA RecordsStay ==
  ASSUME OwnerConstants, OwnerTypes, IdsFit, RecordsFit, [Owners!Next]_Owners!vars, OwnerTypes', OneOnward, Later
  PROVE  RecordsFit'
<1>0. /\ record \in [Owners!Slots -> Daemon \cup {"none"}] /\ stage \in [Daemon -> Life] /\ past \in Past
      /\ "none" \notin Daemon /\ \A d \in Daemon : SlotOf[d] \in Owners!Slots
  BY DEF OwnerTypes, Owners!Slots, OwnerConstants
\* A step that neither writes a record nor makes a daemon serve or about to remove its own.
<1>m. ASSUME record' = record,
             \A d \in Daemon : stage'[d] \in {"serving", "removing"} => stage'[d] = stage[d]
      PROVE  RecordsFit'
  BY <1>m DEF RecordsFit, Later, Started, Owners!Slots
<1>1. ASSUME NEW d \in Daemon, Owners!Publish(d) PROVE RecordsFit'
  <2> DEFINE s == SlotOf[d]
             over == past.over \cup ({record[s]} \ {"none"})
             raced == past.raced \cup {x \in {d} : \E e \in Daemon : SlotOf[e] = SlotOf[d] /\ stage[e] = "removing"}
  <2>1. /\ stage[d] = "found" /\ stage' = [stage EXCEPT ![d] = "serving"] /\ record' = [record EXCEPT ![s] = d]
        /\ past' = [past EXCEPT !.over = over, !.raced = raced]
    BY <1>1 DEF Owners!Publish, Owners!Become
  <2>2. past'.over = over /\ past'.raced = raced
    BY <1>0, <2>1 DEF Past
  <2>3. record'[s] = d /\ \A q \in Owners!Slots : q # s => record'[q] = record[q]
    BY <1>0, <2>1
  <2>4. ASSUME NEW q \in Owners!Slots, record'[q] \in Daemon PROVE stage'[record'[q]] # "none"
    <3>1. CASE q = s
      BY <1>0, <2>1, <2>3, <3>1
    <3>2. CASE q # s
      BY <2>3, <2>4, <3>2 DEF RecordsFit, Later, Started
    <3> QED BY <3>1, <3>2
  <2>5. ASSUME NEW x \in Daemon, stage'[x] = "serving"
        PROVE  record'[SlotOf[x]] = x \/ x \in past'.over \cup past'.raced
    <3>1. CASE x = d
      BY <2>3, <3>1
    <3>2. CASE x # d
      <4>1. record[SlotOf[x]] = x \/ x \in past.over \cup past.raced
        BY <1>0, <2>1, <2>5, <3>2 DEF RecordsFit
      <4> QED BY <1>0, <2>2, <2>3, <4>1
    <3> QED BY <3>1, <3>2
  <2>6. ASSUME NEW x \in Daemon, stage'[x] = "removing"
        PROVE  record'[SlotOf[x]] \in {x, "none"} \cup past'.raced
    <3>1. stage[x] = "removing" /\ x # d
      BY <1>0, <2>1, <2>6
    <3>2. CASE SlotOf[x] = s
      BY <2>2, <2>3, <3>1, <3>2
    <3>3. CASE SlotOf[x] # s
      BY <1>0, <2>2, <2>3, <3>1, <3>3 DEF RecordsFit
    <3> QED BY <3>2, <3>3
  <2> QED BY <2>4, <2>5, <2>6 DEF RecordsFit, Started, Owners!Slots
<1>2. ASSUME NEW d \in Daemon, Owners!ReadRecord(d) PROVE RecordsFit'
  <2>1. /\ record' = record
        /\ stage' = [stage EXCEPT ![d] = IF record[SlotOf[d]] = d THEN "removing" ELSE "closing"]
    BY <1>2 DEF Owners!ReadRecord, Owners!Become
  <2>2. \A x \in Daemon : stage'[x] = "serving" => stage[x] = "serving"
    BY <1>0, <2>1
  <2>3. ASSUME NEW x \in Daemon, stage'[x] = "removing" PROVE record[SlotOf[x]] \in {x, "none"} \cup past'.raced
    BY <1>0, <2>1, <2>3 DEF RecordsFit, Later
  <2> QED BY <2>1, <2>2, <2>3 DEF RecordsFit, Later, Started, Owners!Slots
<1>3. ASSUME NEW d \in Daemon, Owners!RemoveRecord(d) PROVE RecordsFit'
  <2> DEFINE s == SlotOf[d]
  <2>1. /\ stage[d] = "removing" /\ stage' = [stage EXCEPT ![d] = "closing"] /\ past' = past
        /\ record' = [record EXCEPT ![s] = "none"]
    BY <1>3 DEF Owners!RemoveRecord, Owners!Become
  <2>2. record'[s] = "none" /\ \A q \in Owners!Slots : q # s => record'[q] = record[q]
    BY <1>0, <2>1
  <2>3. record[s] \in {d, "none"} \cup past.raced
    BY <2>1 DEF RecordsFit
  <2>4. ASSUME NEW q \in Owners!Slots, record'[q] \in Daemon PROVE stage'[record'[q]] # "none"
    BY <1>0, <2>2, <2>4 DEF RecordsFit, Later, Started
  <2>5. ASSUME NEW x \in Daemon, stage'[x] = "serving"
        PROVE  record'[SlotOf[x]] = x \/ x \in past'.over \cup past'.raced
    <3>1. x # d /\ (record[SlotOf[x]] = x \/ x \in past.over \cup past.raced)
      BY <1>0, <2>1, <2>5 DEF RecordsFit
    <3> QED BY <1>0, <2>1, <2>2, <2>3, <3>1
  <2>6. ASSUME NEW x \in Daemon, stage'[x] = "removing"
        PROVE  record'[SlotOf[x]] \in {x, "none"} \cup past'.raced
    BY <1>0, <2>1, <2>2, <2>6 DEF RecordsFit
  <2> QED BY <2>4, <2>5, <2>6 DEF RecordsFit, Started, Owners!Slots
<1>4. ASSUME NEW d \in Daemon,
             \/ \E i \in Pid : Owners!Start(d, i)
             \/ Owners!Bind(d) \/ Owners!ClearStale(d) \/ Owners!Listen(d) \/ Owners!Discover(d)
             \/ Owners!StartDrain(d) \/ Owners!Relinquish(d) \/ Owners!Exit(d) \/ Owners!Crash(d)
      PROVE  RecordsFit'
  <2>1. record' = record
    BY <1>4 DEF Owners!Start, Owners!Bind, Owners!ClearStale, Owners!Listen, Owners!Discover,
      Owners!StartDrain, Owners!Relinquish, Owners!Exit, Owners!Crash
  <2>2. \E s \in Life \ {"serving", "removing"} : stage' = [stage EXCEPT ![d] = s]
    BY <1>4 DEF Owners!Start, Owners!Bind, Owners!ClearStale, Owners!Listen, Owners!Discover, Owners!Become,
      Owners!StartDrain, Owners!Relinquish, Owners!Exit, Owners!Crash, Owners!Dies, Life, Up, Gone
  <2> QED BY <1>0, <1>m, <2>1, <2>2
<1>5. ASSUME NEW d \in Daemon, NEW e \in Daemon, Owners!Ask(d, e) \/ Owners!Waited(d, e) \/ Owners!Terminate(d, e)
      PROVE  RecordsFit'
  <2>1. record' = record
    BY <1>5 DEF Owners!Ask, Owners!Waited, Owners!Terminate
  <2>2. stage' = stage \/ \E x \in Daemon, s \in {"draining", "dead"} : stage' = [stage EXCEPT ![x] = s]
    BY <1>5 DEF Owners!Ask, Owners!Waited, Owners!Terminate, Owners!Signal, Owners!Become
  <2> QED BY <1>0, <1>m, <2>1, <2>2
<1>6. ASSUME \/ \E i \in Pid : Owners!Foreign(i)
             \/ UNCHANGED Owners!vars
             \/ \E d \in Daemon : Owners!SweepProbe(d) \/ Owners!SweepRemove(d)
                                    \/ \E p \in Owners!Paths : Owners!SweepLook(d, p)
      PROVE  RecordsFit'
  <2>1. record' = record /\ stage' = stage
    BY <1>6 DEF Owners!Foreign, Owners!vars, Owners!SweepProbe, Owners!SweepRemove, Owners!SweepLook
  <2> QED BY <1>m, <2>1
<1> QED BY <1>1, <1>2, <1>3, <1>4, <1>5, <1>6 DEF Owners!Next

LEMMA HitsStay ==
  ASSUME OwnerConstants, OwnerTypes, IdsFit, RecordsFit, HitsFit, [Owners!Next]_Owners!vars,
         OwnerTypes', OneOnward, Later
  PROVE  HitsFit'
<1>0. /\ reap \in [Daemon -> [Daemon -> Reap]] /\ past \in Past
      /\ \A h \in past.hit : h[1] \in Daemon
  BY DEF OwnerTypes, Past, Hit
\* A step that signals nobody and acts on no other predecessors.
<1>m. ASSUME past'.hit = past.hit,
             \A d, e \in Daemon : reap'[d][e].at # "none" => reap[d][e].at # "none" \/ Started(e)
      PROVE  HitsFit'
  BY <1>0, <1>m DEF HitsFit, Later, Started
<1>d. ASSUME NEW d \in Daemon, Owners!Dies(d), past'.hit = past.hit PROVE HitsFit'
  BY <1>0, <1>m, <1>d DEF Owners!Dies, Owners!NoReap
<1>t. ASSUME NEW d \in Daemon, NEW e \in Daemon, NEW at \in {"asked", "late", "termed", "killed", "failed"},
             reap[d][e].at # "none", Owners!To(d, e, at)
      PROVE  \A c, x \in Daemon : reap'[c][x].at # "none" => Started(x)
  <2>1. reap' = [reap EXCEPT ![d] = [reap[d] EXCEPT ![e] = [reap[d][e] EXCEPT !.at = at]]]
    BY <1>t DEF Owners!To
  <2>2. \A c, x \in Daemon : reap'[c][x] = reap[c][x] \/ (c = d /\ x = e)
    BY <1>0, <2>1
  <2> QED BY <1>t, <2>2 DEF HitsFit
<1>1. ASSUME NEW d \in Daemon, Owners!Discover(d) PROVE HitsFit'
  <2>1. /\ reap' = [reap EXCEPT ![d] = [e \in Daemon |->
             IF (\E s \in Owners!Slots \ {SlotOf[d]} : record[s] = e) /\ proc[pid[e].id].who # "none"
             THEN Owners!Token(e) ELSE Owners!NoReap]]
        /\ past' = past
    BY <1>1 DEF Owners!Discover
  <2>2. ASSUME NEW c \in Daemon, NEW x \in Daemon, reap'[c][x].at # "none"
        PROVE  reap[c][x].at # "none" \/ Started(x)
    <3>1. CASE c # d
      BY <1>0, <2>1, <2>2, <3>1
    <3>2. CASE c = d
      <4>1. \E s \in Owners!Slots \ {SlotOf[d]} : record[s] = x
        BY <1>0, <2>1, <2>2, <3>2 DEF Owners!NoReap
      <4> QED BY <4>1 DEF RecordsFit
    <3> QED BY <3>1, <3>2
  <2> QED BY <1>m, <2>1, <2>2
<1>2. ASSUME NEW d \in Daemon, Owners!Bind(d) PROVE HitsFit'
  <2>1. past'.hit = past.hit
    <3>1. past' = past \/ \E es \in SUBSET Daemon : Owners!Lost(es)
      <4>1. Owners!NotBound(socket[PathOf[d]]) \in SUBSET Daemon
        BY DEF Owners!NotBound
      <4> QED BY <1>2, <4>1 DEF Owners!Bind
    <3> QED BY <1>0, <3>1, LosesFiles DEF OnlyLost
  <2>2. reap' = reap \/ Owners!Dies(d)
    BY <1>2 DEF Owners!Bind
  <2> QED BY <1>d, <1>m, <2>1, <2>2
<1>3. ASSUME NEW d \in Daemon, Owners!Exit(d) \/ Owners!Crash(d) PROVE HitsFit'
  <2>1. past'.hit = past.hit
    BY <1>0, <1>3, CountsFault DEF Owners!Exit, Owners!Crash, OnlyLost
  <2> QED BY <1>3, <1>d, <2>1 DEF Owners!Exit, Owners!Crash
<1>4. ASSUME NEW d \in Daemon, Owners!Publish(d) PROVE HitsFit'
  <2>1. past'.hit = past.hit /\ reap' = reap
    BY <1>0, <1>4 DEF Owners!Publish, Past
  <2> QED BY <1>m, <2>1
<1>5. ASSUME NEW d \in Daemon, \/ Owners!ClearStale(d) \/ Owners!Relinquish(d) \/ Owners!ReadRecord(d) \/ Owners!SweepProbe(d)
      PROVE  HitsFit'
  <2>1. reap' = reap /\ \E es : Owners!Lost(es)
    BY <1>5 DEF Owners!ClearStale, Owners!Relinquish, Owners!ReadRecord, Owners!SweepProbe, Owners!Unlinks
  <2>2. past'.hit = past.hit
    BY <1>0, <2>1 DEF Owners!Lost, Past
  <2> QED BY <1>m, <2>1, <2>2
<1>6. ASSUME NEW d \in Daemon,
             \/ \E i \in Pid : Owners!Start(d, i)
             \/ Owners!Listen(d) \/ Owners!StartDrain(d) \/ Owners!RemoveRecord(d)
             \/ Owners!SweepRemove(d) \/ \E p \in Owners!Paths : Owners!SweepLook(d, p)
      PROVE  HitsFit'
  <2>1. reap' = reap /\ past' = past
    BY <1>6 DEF Owners!Start, Owners!Listen, Owners!StartDrain, Owners!RemoveRecord, Owners!SweepRemove, Owners!SweepLook
  <2> QED BY <1>m, <2>1
<1>7. ASSUME (\E i \in Pid : Owners!Foreign(i)) \/ UNCHANGED Owners!vars PROVE HitsFit'
  <2>1. reap' = reap /\ past'.hit = past.hit
    BY <1>0, <1>7, CountsFault DEF Owners!Foreign, Owners!vars, OnlyLost
  <2> QED BY <1>m, <2>1
<1>8. ASSUME NEW d \in Daemon, NEW e \in Daemon, Owners!Ask(d, e) \/ Owners!Waited(d, e) PROVE HitsFit'
  <2>1. reap[d][e].at # "none" /\ past' = past /\ \E at \in {"asked", "late"} : Owners!To(d, e, at)
    BY <1>8 DEF Owners!Ask, Owners!Waited
  <2> QED BY <1>m, <1>t, <2>1
<1>9. ASSUME NEW d \in Daemon, NEW e \in Daemon, Owners!Terminate(d, e) PROVE HitsFit'
  <2> DEFINE who == proc[pid[e].id].who
  <2>0. reap[d][e].at # "none" /\ Started(e) /\ pid[e].id \in Pid
    BY <1>9 DEF Owners!Terminate, HitsFit, IdsFit
  <2>1. ASSUME ~(Owners!IdentityMatches(d, e) /\ Owners!TokenAlive(d, e)) PROVE HitsFit'
    <3>1. Owners!To(d, e, "failed") /\ past' = past
      BY <1>9, <2>1 DEF Owners!Terminate
    <3> QED BY <1>m, <1>t, <2>0, <3>1
  <2>2. ASSUME Owners!IdentityMatches(d, e) /\ Owners!TokenAlive(d, e) PROVE HitsFit'
    <3>1. PICK at \in {"termed", "killed"} : Owners!Signal(d, e, at)
      BY <1>9, <2>2, SMTT(60) DEF Owners!Terminate
    <3>2. \A c, x \in Daemon : reap'[c][x].at # "none" => Started(x)
      <4>1. ASSUME Owners!To(d, e, at) PROVE \A c, x \in Daemon : reap'[c][x].at # "none" => Started(x)
        BY <1>t, <2>0, <4>1
      <4>2. ASSUME who \in Daemon, reap' = [reap EXCEPT ![who] = [x \in Daemon |-> Owners!NoReap], ![d][e].at = at]
            PROVE  \A c, x \in Daemon : reap'[c][x].at # "none" => Started(x)
        <5>1. \A c, x \in Daemon : reap'[c][x].at # "none" => reap[c][x].at # "none" \/ (c = d /\ x = e)
          BY <1>0, <4>2, KilledReaps, ZenonT(90)
        <5> QED BY <2>0, <5>1 DEF HitsFit
      <4> QED BY <3>1, <4>1, <4>2 DEF Owners!Signal
    <3>3. who = e \/ reap[d][e].birth # pid[e].birth
      BY <2>0, <2>2 DEF Owners!TokenAlive, IdsFit
    <3>4. past'.hit = past.hit \cup {<<e, who, reap[d][e].birth>>}
      BY <1>0, <3>1 DEF Owners!Signal, Past
    <3>5. ASSUME NEW h \in past'.hit PROVE stage'[h[1]] # "none" /\ (h[2] = h[1] \/ h[3] # pid'[h[1]].birth)
      <4>1. CASE h \in past.hit
        BY <1>0, <4>1 DEF HitsFit, Later
      <4>2. CASE h = <<e, who, reap[d][e].birth>>
        BY <2>0, <3>3, <4>2 DEF Later
      <4> QED BY <3>4, <3>5, <4>1, <4>2
    <3> QED BY <3>2, <3>5 DEF HitsFit, Later, Started
  <2> QED BY <2>1, <2>2
<1> QED BY <1>1, <1>2, <1>3, <1>4, <1>5, <1>6, <1>7, <1>8, <1>9 DEF Owners!Next

\* No daemon, no file, no record at first.
LEMMA OwnersStart == ASSUME OwnerConstants, Owners!Init PROVE OwnersInv
<1>1. OwnerTypes
  BY DEF Owners!Init, OwnerTypes, Process, StartOf, Reap, Sweep, Past, Life, Hit, Owners!NoReap, Owners!NoSweep
<1>2. IdsFit /\ SocketsFit /\ SweepsFit /\ RecordsFit /\ HitsFit
  BY DEF Owners!Init, IdsFit, SocketsFit, SweepsFit, SweepFits, RecordsFit, HitsFit, Started, Up, OwnerConstants,
    Owners!NoReap, Owners!NoSweep
<1> QED BY <1>1, <1>2 DEF OwnersInv

\* Every step keeps the files, the records and the process ids in order.
LEMMA OwnersStep ==
  ASSUME OwnerConstants, OwnersInv, [Owners!Next]_Owners!vars
  PROVE  OwnersInv'
<1>0. OwnerTypes /\ IdsFit /\ SocketsFit /\ SweepsFit /\ RecordsFit /\ HitsFit
  BY DEF OwnersInv
<1>1. OwnerTypes' /\ OneOnward /\ Later
  <2>1. ASSUME UNCHANGED Owners!vars PROVE OwnerTypes' /\ OneOnward /\ Later
    BY <1>0, <2>1 DEF OwnerTypes, OneOnward, Later, Started, Owners!vars, Owners!Paths, Owners!Slots
  <2> QED BY <1>0, <2>1, ArrivalTypes, ReapTypes, LeavingTypes, SweepTypes DEF Owners!Next
<1> QED BY <1>0, <1>1, IdsStay, SocketsStay, SweepsStay, RecordsStay, HitsStay DEF OwnersInv

\* A daemon that listens is reached at its path, one that serves is named by its record, and a
\* signal hits the process that its token was made of, but for the races that are named
\* (daemon/transport, daemon/owner-registry).
THEOREM FilesStayTheirs ==
  ASSUME OwnerConstants
  PROVE  Owners!Spec => []Owners!FilesAreTheirs
<1>1. Owners!Init => OwnersInv
  BY OwnersStart
<1>2. OwnersInv /\ [Owners!Next]_Owners!vars => OwnersInv'
  BY OwnersStep
<1>3. OwnersInv => Owners!FilesAreTheirs
  BY DEF OwnersInv, SocketsFit, RecordsFit, HitsFit, Owners!FilesAreTheirs, Owners!ServingIsReachable,
    Owners!RecordStays, Owners!SignalsHitTheirToken, Owners!Listens, Up
<1> QED BY <1>1, <1>2, <1>3, PTL DEF Owners!Spec
=============================================================================
