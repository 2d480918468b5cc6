----------------------------- MODULE ArtifactProofs -----------------------------
(***************************************************************************)
(* Proofs about what this program downloads, installs and loads.  First the *)
(* model session: ModelIsOwned holds of ModelSession, however many attempts *)
(* and calls there are, when all calls ask for one device policy, or when   *)
(* there is one caller.  Then the download, the self-update and the         *)
(* installation of an artifact and of a plugin, each an instance under its  *)
(* own name; variables of different components that have one name have      *)
(* nothing to do with each other.                                           *)
(***************************************************************************)
EXTENDS ModelSession, Integers, FiniteSets, Sequences, FiniteSetTheorems, TLAPS

OnePolicy == \A p, q \in Policies : p = q
OneCaller == \A c, d \in Caller : c = d

PC == {"done", "ensure", "join", "again", "start", "wait", "settle", "got", "run", "failed"}

\* A caller's call, and an attempt to load.
Call == [pc : PC, policy : Policies \cup {"none"}, at : 0 .. MaxAttempt, again : BOOLEAN]

LoadState ==
  [st : {"none", "loading", "loaded", "settled"}, requested : {"none", "gpu", "cpu"},
   device : {"none", "gpu", "cpu"}, policy : Policies \cup {"none"},
   aborted : BOOLEAN, waiters : SUBSET Caller]

Env == [gpuOut : BOOLEAN, calls : Nat, made : 0 .. MaxAttempt]

TypeOK ==
  /\ session \in 0 .. MaxAttempt /\ current \in 0 .. MaxAttempt /\ owner \in 0 .. MaxAttempt
  /\ attempt \in [Attempts -> LoadState]
  /\ open \in SUBSET Attempts
  /\ op \in [Caller -> Call]
  /\ timer \in BOOLEAN /\ unloading \in BOOLEAN
  /\ env \in Env

Pending(a) == attempt[a].st \in {"loading", "loaded"}

\* The attempts so far are numbered from 1 on, the resident session is of a settled one.
Numbered ==
  /\ \A a \in Attempts : a > env.made => attempt[a].st = "none"
  /\ session # 0 => attempt[session].st = "settled"

\* A load that nobody has aborted has callers that wait for it, and they wait for no other.
WaitersWait ==
  \A a \in Attempts :
    /\ Pending(a) /\ ~attempt[a].aborted => attempt[a].waiters # {}
    /\ \A c \in attempt[a].waiters : op[c].pc = "wait" /\ op[c].at = a

\* A load that may install its session would replace none.
ReplacesNone == \A a \in Attempts : Pending(a) /\ MayInstall(a) => session = 0

\* A session that any policy in use admits.
Admits(device) == \A p \in Policies \cap {"gpu", "cpu"} : device = p

\* Under one policy every load fits every call.
LoadsFit ==
  /\ \A c \in Caller : Active(c) => op[c].policy \in Policies
  /\ \A a \in Attempts : Pending(a) => attempt[a].policy \in Policies
  /\ \A a \in Attempts : Pending(a) => Admits(attempt[a].requested)
  /\ \A a \in Attempts : attempt[a].st = "loaded" => Admits(attempt[a].device)
  /\ session # 0 => Admits(attempt[session].device)

\* A call that has closed the resident session for its policy is the only caller, and
\* finds none when it goes on.
RetiredIsGone ==
  \A c \in Caller :
    op[c].pc \in {"join", "start"} => session = 0 /\ \A d \in Caller : c = d

Inv ==
  /\ TypeOK /\ Numbered /\ WaitersWait /\ ReplacesNone
  /\ OnePolicy => LoadsFit
  /\ RetiredIsGone /\ NoSessionIsLost /\ RestIsTimed

-----------------------------------------------------------------------------
(* The ways of ensureSession.                                               *)

Starts(c) ==
  /\ op[c].pc \in {"ensure", "join", "again", "start"}
  /\ op[c].pc \in {"ensure", "again"} => session = 0
  /\ StartAttempt(c)
  /\ UNCHANGED <<session, open, timer, unloading>>

Waits(c) ==
  /\ op[c].pc \in {"ensure", "join"} /\ current # 0 /\ ~attempt[current].aborted
  /\ op' = [op EXCEPT ![c].pc = "wait", ![c].at = current]
  /\ attempt' = [attempt EXCEPT ![current].waiters = @ \cup {c}]
  /\ UNCHANGED <<session, current, owner, open, timer, unloading, env>>

AwaitsSettlement(c) ==
  /\ op[c].pc \in {"ensure", "join"} /\ current # 0
  /\ op' = [op EXCEPT ![c].pc = "settle", ![c].at = current]
  /\ UNCHANGED <<session, current, owner, attempt, open, timer, unloading, env>>

Uses(c) ==
  /\ op[c].pc \in {"ensure", "again"} /\ session # 0
  /\ timer' = FALSE
  /\ op' = [op EXCEPT ![c].pc = "run", ![c].at = session]
  /\ UNCHANGED <<session, current, owner, attempt, open, unloading, env>>

Retires(c) ==
  /\ op[c].pc \in {"ensure", "again"} /\ session # 0
  /\ ~Admitted(session, op[c].policy)
  /\ timer' = FALSE
  /\ \E next \in {"join", "start"} : op' = [op EXCEPT ![c].pc = next]
  /\ session' = 0 /\ open' = open \ {session}
  /\ UNCHANGED <<current, owner, attempt, unloading, env>>

\* One call of ensureSession goes one of five ways.
LEMMA EnsureWays ==
  ASSUME NEW c \in Caller, EnsureSession(c)
  PROVE  Starts(c) \/ Waits(c) \/ AwaitsSettlement(c) \/ Uses(c) \/ Retires(c)
<1>1. CASE op[c].pc = "ensure" /\ UseResident(c, "join")
  BY <1>1 DEF EnsureSession, UseResident, Retire, GotoOp, Uses, Retires
<1>2. CASE op[c].pc = "again" /\ UseResident(c, "start")
  BY <1>2 DEF EnsureSession, UseResident, Retire, GotoOp, Uses, Retires
<1>3. ASSUME Join(c), UNCHANGED <<session, open, timer, unloading>>, op[c].pc \in {"ensure", "join"},
             op[c].pc = "ensure" => session = 0
      PROVE  Starts(c) \/ Waits(c) \/ AwaitsSettlement(c)
  <2>1. CASE current = 0
    BY <1>3, <2>1 DEF Join, Starts
  <2>2. CASE current # 0
    BY <1>3, <2>2 DEF Join, Waits, AwaitsSettlement
  <2> QED BY <2>1, <2>2
<1> QED BY <1>1, <1>2, <1>3 DEF EnsureSession, Starts

-----------------------------------------------------------------------------
(* Types.                                                                   *)

\* Moving a call to another place keeps it a call.
LEMMA CallIs ==
  ASSUME NEW o \in Call
  PROVE  /\ o.pc \in PC /\ o.policy \in Policies \cup {"none"} /\ o.at \in 0 .. MaxAttempt
         /\ o.again \in BOOLEAN
         /\ \A pc \in PC : [o EXCEPT !.pc = pc] \in Call
         /\ \A pc \in PC, n \in 0 .. MaxAttempt : [o EXCEPT !.pc = pc, !.at = n] \in Call
         /\ \A pc \in PC, again \in BOOLEAN : [o EXCEPT !.pc = pc, !.again = again] \in Call
  BY DEF Call

\* A call that is over is a call.
LEMMA DoneIsCall == ASSUME MaxAttempt \in Nat PROVE Done \in Call
  BY DEF Done, Call, PC

\* What the steps do to an attempt keeps it one.
LEMMA LoadIs ==
  ASSUME NEW l \in LoadState
  PROVE  /\ l.st \in {"none", "loading", "loaded", "settled"} /\ l.requested \in {"none", "gpu", "cpu"}
         /\ l.device \in {"none", "gpu", "cpu"} /\ l.policy \in Policies \cup {"none"}
         /\ l.aborted \in BOOLEAN /\ l.waiters \in SUBSET Caller
         /\ \A W \in SUBSET Caller : [l EXCEPT !.waiters = W] \in LoadState
         /\ \A W \in SUBSET Caller, b \in BOOLEAN : [l EXCEPT !.waiters = W, !.aborted = b] \in LoadState
         /\ \A W \in SUBSET Caller, b \in BOOLEAN : [l EXCEPT !.aborted = b, !.waiters = W] \in LoadState
         /\ \A d \in {"gpu", "cpu"} : [l EXCEPT !.st = "loaded", !.device = d] \in LoadState
         /\ [l EXCEPT !.requested = "cpu"] \in LoadState
  BY DEF LoadState

\* An attempt that begins (startLoadAttempt) is one.
LEMMA NewLoadIs ==
  ASSUME NEW device \in {"gpu", "cpu"}, NEW policy \in Policies \cup {"none"}, NEW W \in SUBSET Caller
  PROVE  [NoAttempt EXCEPT !.st = "loading", !.requested = device, !.policy = policy, !.waiters = W]
           \in LoadState
  BY DEF NoAttempt, LoadState

\* What is left of an attempt that has settled is one.
LEMMA SettledIs ==
  ASSUME NEW device \in {"none", "gpu", "cpu"}
  PROVE  [NoAttempt EXCEPT !.st = "settled", !.device = device] \in LoadState
  BY DEF NoAttempt, LoadState

\* The counts a step keeps of the world have their types.
LEMMA EnvIs ==
  ASSUME NEW e \in Env
  PROVE  /\ e.gpuOut \in BOOLEAN /\ e.calls \in Nat /\ e.made \in 0 .. MaxAttempt
         /\ \A n \in 0 .. MaxAttempt, b \in BOOLEAN : [e EXCEPT !.made = n, !.gpuOut = b] \in Env
         /\ \A b \in BOOLEAN : [e EXCEPT !.gpuOut = b] \in Env
         /\ [e EXCEPT !.calls = @ + 1] \in Env
<1>1. e.gpuOut \in BOOLEAN /\ e.calls \in Nat /\ e.made \in 0 .. MaxAttempt
  BY DEF Env
<1>2. ASSUME NEW n \in 0 .. MaxAttempt, NEW b \in BOOLEAN
      PROVE  [e EXCEPT !.made = n, !.gpuOut = b] \in Env
  BY DEF Env
<1>3. ASSUME NEW b \in BOOLEAN PROVE [e EXCEPT !.gpuOut = b] \in Env
  BY DEF Env
<1>4. [e EXCEPT !.calls = @ + 1] \in Env
  BY DEF Env
<1> QED BY <1>1, <1>2, <1>3, <1>4

\* Every step keeps the types.
LEMMA TypesHold == ASSUME MaxAttempt \in Nat, TypeOK, [Next]_vars PROVE TypeOK'
<1> USE DEF Attempts, PC
<1>c. \A c \in Caller : op[c] \in Call
  BY DEF TypeOK
<1>a. \A a \in Attempts : attempt[a] \in LoadState
  BY DEF TypeOK
<1>e. env \in Env
  BY DEF TypeOK
<1>0. 0 \in 0 .. MaxAttempt
  OBVIOUS
<1>1. ASSUME NEW c \in Caller, NEW policy \in Policies, Begin(c, policy) PROVE TypeOK'
  <2>1. [pc |-> "ensure", policy |-> policy, at |-> 0, again |-> FALSE] \in Call
    BY DEF Call
  <2>2. env' \in Env
    BY <1>1, <1>e, EnvIs DEF Begin
  <2>3. op' \in [Caller -> Call]
    BY <1>1, <2>1 DEF Begin, TypeOK
  <2> QED BY <1>1, <2>2, <2>3 DEF TypeOK, Begin
<1>2. ASSUME NEW c \in Caller, EnsureSession(c) PROVE TypeOK'
  <2>1. CASE Starts(c)
    <3> DEFINE a == env.made + 1
    <3>1. a \in Attempts
      BY <2>1 DEF Starts, StartAttempt
    <3>2. PICK device \in PickLoadDevice(op[c].policy) :
            /\ attempt' = [attempt EXCEPT ![a] =
                 [NoAttempt EXCEPT !.st = "loading", !.requested = device,
                                   !.policy = op[c].policy, !.waiters = {c}]]
            /\ env' = [env EXCEPT !.made = a,
                                  !.gpuOut = @ \/ (op[c].policy = "auto" /\ device = "cpu")]
      BY <2>1 DEF Starts, StartAttempt
    <3>3. device \in {"gpu", "cpu"}
      BY SMTT(60) DEF PickLoadDevice
    <3>4. attempt' \in [Attempts -> LoadState]
      BY <3>1, <3>2, <3>3, <1>c, CallIs, NewLoadIs DEF TypeOK
    <3>5. env' \in Env
      <4>1. PICK b \in BOOLEAN : env' = [env EXCEPT !.made = a, !.gpuOut = b]
        BY <3>2, <1>e, EnvIs
      <4>2. a \in 0 .. MaxAttempt
        BY <3>1
      <4> QED BY <4>1, <4>2, <1>e, EnvIs
    <3>6. op' \in [Caller -> Call]
      <4>1. op' = [op EXCEPT ![c].pc = "wait", ![c].at = a] /\ a \in 0 .. MaxAttempt
        BY <2>1, <3>1 DEF Starts, StartAttempt
      <4> HIDE DEF a
      <4> QED BY <4>1, <1>c, CallIs DEF TypeOK
    <3> QED BY <2>1, <3>1, <3>4, <3>5, <3>6 DEF TypeOK, Starts, StartAttempt
  <2>2. CASE Waits(c)
    <3>1. current \in Attempts
      BY <2>2 DEF TypeOK, Waits
    <3>2. op' \in [Caller -> Call]
      BY <2>2, <1>c, CallIs DEF Waits, TypeOK
    <3>3. attempt[current].waiters \cup {c} \in SUBSET Caller
      BY <3>1, <1>a, LoadIs, ZenonT(60)
    <3>4. attempt' \in [Attempts -> LoadState]
      BY <2>2, <1>a, <3>1, <3>3, LoadIs DEF Waits, TypeOK
    <3> QED BY <2>2, <3>2, <3>4 DEF TypeOK, Waits
  <2>3. CASE AwaitsSettlement(c)
    <3>2. op' \in [Caller -> Call]
      BY <2>3, <1>c, CallIs DEF AwaitsSettlement, TypeOK
    <3> QED BY <2>3, <3>2 DEF TypeOK, AwaitsSettlement
  <2>4. CASE Uses(c)
    <3>2. op' \in [Caller -> Call]
      BY <2>4, <1>c, CallIs, ZenonT(60) DEF Uses, TypeOK
    <3> QED BY <2>4, <3>2 DEF TypeOK, Uses
  <2>5. CASE Retires(c)
    <3>2. op' \in [Caller -> Call]
      <4>1. PICK next \in {"join", "start"} : op' = [op EXCEPT ![c].pc = next]
        BY <2>5 DEF Retires
      <4> QED BY <4>1, <1>c, CallIs DEF TypeOK
    <3> QED BY <2>5, <3>2, <1>0 DEF TypeOK, Retires
  <2> QED BY <1>2, <2>1, <2>2, <2>3, <2>4, <2>5, EnsureWays
<1>3. ASSUME NEW c \in Caller, Take(c) \/ Fail(c) \/ Encoded(c) PROVE TypeOK'
  <2>1. op' \in [Caller -> Call]
    <3>1. op' = [op EXCEPT ![c] = Done] \/ \E pc \in PC : op' = [op EXCEPT ![c].pc = pc]
      BY <1>3 DEF Take, Fail, Encoded, EndCall, GotoOp
    <3>2. CASE op' = [op EXCEPT ![c] = Done]
      BY <3>2, DoneIsCall DEF TypeOK
    <3>3. ASSUME NEW pc \in PC, op' = [op EXCEPT ![c].pc = pc] PROVE op' \in [Caller -> Call]
      BY <3>3, <1>c, CallIs DEF TypeOK
    <3> QED BY <3>1, <3>2, <3>3
  <2> QED BY <1>3, <2>1, <1>0 DEF TypeOK, Take, Fail, Encoded, EndCall, Retire
<1>4. ASSUME NEW c \in Caller, DeviceFails(c) PROVE TypeOK'
  <2>1. op' \in [Caller -> Call]
    BY <1>4, <1>c, CallIs, ZenonT(60) DEF DeviceFails, TypeOK
  <2>2. env' \in Env
    BY <1>4, <1>e, EnvIs DEF DeviceFails
  <2> QED BY <1>4, <2>1, <2>2 DEF TypeOK, DeviceFails, Retire
<1>5. ASSUME NEW c \in Caller, Leave(c) PROVE TypeOK'
  <2>1. op' \in [Caller -> Call]
    BY <1>5, DoneIsCall DEF Leave, EndCall, TypeOK
  <2>2. ASSUME NEW a \in Attempts PROVE WithoutWaiter(a, c) \in LoadState
    <3>1. attempt[a].waiters \ {c} \in SUBSET Caller /\ attempt[a].aborted \in BOOLEAN
      BY <1>a, LoadIs
    <3> QED BY <1>a, <3>1, LoadIs, ZenonT(60) DEF WithoutWaiter
  <2>3. attempt' \in [Attempts -> LoadState]
    BY <1>5, <2>2 DEF Leave, TypeOK
  <2> QED BY <1>5, <2>1, <2>3 DEF TypeOK, Leave, EndCall
<1>6. ASSUME NEW a \in Attempts, NEW device \in {"gpu", "cpu"}, Load(a, device) PROVE TypeOK'
  <2>1. attempt' \in [Attempts -> LoadState]
    BY <1>6, <1>a, LoadIs, ZenonT(60) DEF Load, TypeOK
  <2>2. env' \in Env
    BY <1>6, <1>e, EnvIs DEF Load
  <2> QED BY <1>6, <2>1, <2>2 DEF TypeOK, Load
<1>7. ASSUME NEW a \in Attempts, FallBack(a) PROVE TypeOK'
  <2>1. attempt' \in [Attempts -> LoadState]
    BY <1>7, <1>a, LoadIs DEF FallBack, TypeOK
  <2>2. env' \in Env
    BY <1>7, <1>e, EnvIs DEF FallBack
  <2> QED BY <1>7, <2>1, <2>2 DEF TypeOK, FallBack
<1>8. ASSUME NEW a \in Attempts, Settle(a) PROVE TypeOK'
  <2>1. attempt' \in [Attempts -> LoadState]
    BY <1>8, <1>a, LoadIs, SettledIs, ZenonT(60) DEF Settle, TypeOK
  <2>2. op' \in [Caller -> Call]
    BY <1>8, <1>c, CallIs DEF Settle, Told, TypeOK
  <2>3. session' \in 0 .. MaxAttempt
    BY <1>8 DEF Settle, TypeOK
  <2>4. current' \in 0 .. MaxAttempt /\ owner' \in 0 .. MaxAttempt /\ open' \in SUBSET Attempts
    BY <1>8 DEF Settle, TypeOK
  <2> QED BY <1>8, <2>1, <2>2, <2>3, <2>4, SMTT(60) DEF TypeOK, Settle
<1>9. CASE GpuMayBeBack \/ Unloaded
  <2>1. env' \in Env
    BY <1>9, <1>e, EnvIs DEF GpuMayBeBack, Unloaded
  <2> QED BY <1>9, <2>1, <1>0 DEF TypeOK, GpuMayBeBack, Unloaded
<1>10. CASE Unload
  <2>1. attempt' \in [Attempts -> LoadState]
    <3>1. CASE current = 0
      BY <1>10, <3>1 DEF Unload, TypeOK
    <3>2. CASE current # 0
      <4>1. current \in Attempts
        BY <3>2 DEF TypeOK
      <4>2. [attempt[current] EXCEPT !.aborted = TRUE, !.waiters = {}] \in LoadState
        BY <4>1, <1>a, LoadIs
      <4> QED BY <1>10, <3>2, <4>1, <4>2 DEF Unload, TypeOK
    <3> QED BY <3>1, <3>2
  <2>2. op' \in [Caller -> Call]
    <3>1. CASE current = 0
      BY <1>10, <3>1, SMTT(60) DEF Unload, TypeOK
    <3>2. CASE current # 0
      BY <1>10, <3>2, <1>c, CallIs, ZenonT(60) DEF Unload
    <3> QED BY <3>1, <3>2
  <2> QED BY <1>10, <2>1, <2>2, <1>0 DEF TypeOK, Unload
<1>11. CASE UNCHANGED vars
  BY <1>11 DEF TypeOK, vars
<1> QED
  BY <1>1, <1>2, <1>3, <1>4, <1>5, <1>6, <1>7, <1>8, <1>9, <1>10, <1>11 DEF Next

-----------------------------------------------------------------------------
(* What the actions leave alone.                                            *)

\* Only the call of c moves.
Elsewhere(c) == \A d \in Caller : d # c => op'[d] = op[d]

\* No attempt enters another stage.
Kept ==
  \A a \in Attempts :
    /\ attempt'[a].st = attempt[a].st /\ attempt'[a].device = attempt[a].device
    /\ attempt'[a].policy = attempt[a].policy

\* The actions of a caller that has a call under way, but for those that change attempts.
CallMoves(c) ==
  AwaitsSettlement(c) \/ Uses(c) \/ Retires(c) \/ Take(c) \/ Fail(c) \/ Encoded(c) \/ DeviceFails(c)

\* A call goes on at another place.
LEMMA MoveIs ==
  ASSUME TypeOK, NEW c \in Caller, NEW pc \in PC,
         \/ op' = [op EXCEPT ![c].pc = pc]
         \/ \E n \in 0 .. MaxAttempt : op' = [op EXCEPT ![c].pc = pc, ![c].at = n]
         \/ \E b \in BOOLEAN : op' = [op EXCEPT ![c].pc = pc, ![c].again = b]
  PROVE  Elsewhere(c) /\ op'[c].pc = pc /\ op'[c].policy = op[c].policy
<1>1. op \in [Caller -> Call] /\ op[c] \in Call
  BY DEF TypeOK
<1>2. CASE op' = [op EXCEPT ![c].pc = pc]
  BY <1>1, <1>2 DEF Elsewhere, Call
<1>3. ASSUME NEW n \in 0 .. MaxAttempt, op' = [op EXCEPT ![c].pc = pc, ![c].at = n]
      PROVE  Elsewhere(c) /\ op'[c].pc = pc /\ op'[c].policy = op[c].policy
  BY <1>1, <1>3 DEF Elsewhere, Call
<1>4. ASSUME NEW b \in BOOLEAN, op' = [op EXCEPT ![c].pc = pc, ![c].again = b]
      PROVE  Elsewhere(c) /\ op'[c].pc = pc /\ op'[c].policy = op[c].policy
  BY <1>1, <1>4 DEF Elsewhere, Call
<1> QED BY <1>2, <1>3, <1>4

\* A step of one call changes the place of that call alone.
LEMMA CallMoveIs ==
  ASSUME TypeOK, NEW c \in Caller, CallMoves(c)
  PROVE  /\ Elsewhere(c) /\ op[c].pc \notin {"wait", "done"} /\ attempt' = attempt /\ owner' = owner
         /\ op'[c].pc # "done" => op'[c].policy = op[c].policy
         /\ session' \in {0, session} /\ env'.made = env.made
<1> USE DEF PC
<1>1. op \in [Caller -> Call]
  BY DEF TypeOK
<1>2. CASE AwaitsSettlement(c)
  <2>1. Elsewhere(c) /\ op'[c].policy = op[c].policy
    BY <1>2, MoveIs DEF AwaitsSettlement, TypeOK
  <2> QED BY <1>2, <2>1 DEF AwaitsSettlement
<1>3. CASE Uses(c)
  <2>1. Elsewhere(c) /\ op'[c].policy = op[c].policy
    BY <1>3, MoveIs DEF Uses, TypeOK
  <2> QED BY <1>3, <2>1 DEF Uses
<1>4. CASE Retires(c)
  <2>1. Elsewhere(c) /\ op'[c].policy = op[c].policy
    BY <1>4, MoveIs DEF Retires
  <2> QED BY <1>4, <2>1 DEF Retires
<1>5. CASE Take(c)
  <2>1. Elsewhere(c) /\ op'[c].policy = op[c].policy
    BY <1>5, MoveIs DEF Take, GotoOp
  <2> QED BY <1>5, <2>1 DEF Take, Retire
<1>6. CASE Fail(c) \/ Encoded(c)
  <2>1. op' = [op EXCEPT ![c] = Done] /\ Done.pc = "done"
    BY <1>6 DEF Fail, Encoded, EndCall, Done
  <2>2. Elsewhere(c) /\ op'[c].pc = "done"
    BY <1>1, <2>1 DEF Elsewhere
  <2> QED BY <1>6, <2>2 DEF Fail, Encoded, EndCall
<1>7. CASE DeviceFails(c)
  <2>1. env'.made = env.made
    BY <1>7 DEF DeviceFails, TypeOK, Env
  <2>2. Elsewhere(c) /\ op'[c].policy = op[c].policy
    <3> DEFINE pc == IF op[c].policy = "gpu" \/ op[c].again THEN "failed" ELSE "ensure"
    <3>1. op' = [op EXCEPT ![c].pc = pc, ![c].again = TRUE] /\ pc \in PC
      BY <1>7 DEF DeviceFails
    <3> HIDE DEF pc
    <3> QED BY <3>1, MoveIs
  <2> QED BY <1>7, <2>1, <2>2 DEF DeviceFails, Retire
<1> QED BY <1>2, <1>3, <1>4, <1>5, <1>6, <1>7 DEF CallMoves

\* What every step of a call leaves alone.
LEMMA KeptIs ==
  ASSUME TypeOK,
         \/ \E c \in Caller : Waits(c) \/ Leave(c) \/ CallMoves(c)
         \/ \E c \in Caller, policy \in Policies : Begin(c, policy)
         \/ \E a \in Attempts : FallBack(a)
         \/ GpuMayBeBack \/ Unload \/ Unloaded \/ UNCHANGED vars
  PROVE  Kept
<1>1. \A a \in Attempts : attempt[a] \in LoadState
  BY DEF TypeOK
<1>2. ASSUME NEW c \in Caller, Waits(c) PROVE Kept
  BY <1>1, <1>2 DEF Waits, Kept, TypeOK, LoadState
<1>3. ASSUME NEW c \in Caller, Leave(c) PROVE Kept
  BY <1>1, <1>3 DEF Leave, WithoutWaiter, Kept, TypeOK, LoadState
<1>4. ASSUME NEW c \in Caller, CallMoves(c) PROVE Kept
  BY <1>4, CallMoveIs DEF Kept
<1>5. ASSUME NEW a \in Attempts, FallBack(a) PROVE Kept
  BY <1>1, <1>5 DEF FallBack, Kept, TypeOK, LoadState
<1>6. CASE Unload
  BY <1>1, <1>6 DEF Unload, Kept, TypeOK, LoadState
<1>7. CASE GpuMayBeBack \/ Unloaded \/ UNCHANGED vars
  BY <1>7 DEF GpuMayBeBack, Unloaded, vars, Kept
<1>8. ASSUME NEW c \in Caller, NEW policy \in Policies, Begin(c, policy) PROVE Kept
  BY <1>8 DEF Begin, Kept
<1> QED BY <1>2, <1>3, <1>4, <1>5, <1>6, <1>7, <1>8

\* The steps of the whole, as the proofs below tell them apart.
LEMMA StepWays ==
  ASSUME [Next]_vars
  PROVE  \/ \E c \in Caller, policy \in Policies : Begin(c, policy)
         \/ \E c \in Caller : Starts(c) \/ Waits(c) \/ CallMoves(c) \/ Leave(c)
         \/ \E a \in Attempts, device \in {"gpu", "cpu"} : Load(a, device)
         \/ \E a \in Attempts : FallBack(a) \/ Settle(a)
         \/ GpuMayBeBack \/ Unload \/ Unloaded \/ UNCHANGED vars
<1>1. \A c \in Caller : EnsureSession(c) => Starts(c) \/ Waits(c) \/ CallMoves(c)
  BY EnsureWays DEF CallMoves
<1> QED BY <1>1 DEF Next, CallMoves

-----------------------------------------------------------------------------
(* One lemma for each part of the invariant.                                *)

LEMMA StartIs ==
  ASSUME TypeOK, Numbered, NEW c \in Caller, Starts(c)
  PROVE  \E a \in Attempts, device \in PickLoadDevice(op[c].policy) :
           /\ a = env.made + 1 /\ env'.made = a /\ attempt[a].st = "none"
           /\ owner' = a /\ session' = session /\ open' = open
           /\ \A b \in Attempts : b # a => attempt'[b] = attempt[b]
           /\ attempt'[a].st = "loading" /\ attempt'[a].requested = device
           /\ attempt'[a].policy = op[c].policy
           /\ attempt'[a].waiters = {c}
           /\ Elsewhere(c) /\ op'[c].pc = "wait" /\ op'[c].at = a /\ op'[c].policy = op[c].policy
<1> DEFINE a == env.made + 1
<1>1. a \in Attempts /\ owner' = a /\ session' = session /\ open' = open
  BY DEF Starts, StartAttempt
<1>2. PICK device \in PickLoadDevice(op[c].policy) :
        /\ attempt' = [attempt EXCEPT ![a] =
             [NoAttempt EXCEPT !.st = "loading", !.requested = device,
                               !.policy = op[c].policy, !.waiters = {c}]]
        /\ env' = [env EXCEPT !.made = a, !.gpuOut = @ \/ (op[c].policy = "auto" /\ device = "cpu")]
  BY DEF Starts, StartAttempt
<1>3. env'.made = a
  BY <1>2 DEF TypeOK, Env
<1>4. attempt[a].st = "none"
  BY <1>1 DEF Numbered, TypeOK, Env, Attempts
<1>5. op' = [op EXCEPT ![c].pc = "wait", ![c].at = a] /\ a \in 0 .. MaxAttempt
  BY <1>1 DEF Starts, StartAttempt, Attempts
<1> HIDE DEF a
<1>6. Elsewhere(c) /\ op'[c].pc = "wait" /\ op'[c].policy = op[c].policy
  BY <1>5, MoveIs DEF PC
<1>7. op'[c].at = a
  BY <1>5 DEF TypeOK, Call
<1>8. /\ \A b \in Attempts : b # a => attempt'[b] = attempt[b]
      /\ attempt'[a].st = "loading" /\ attempt'[a].requested = device
      /\ attempt'[a].policy = op[c].policy
      /\ attempt'[a].waiters = {c}
  BY <1>1, <1>2 DEF TypeOK, NoAttempt
<1> QED BY <1>1, <1>3, <1>4, <1>6, <1>7, <1>8 DEF a

\* What an attempt that settles leaves behind.
LEMMA SettleIs ==
  ASSUME TypeOK, NEW a \in Attempts, Settle(a)
  PROVE  /\ \A b \in Attempts : b # a => attempt'[b] = attempt[b]
         /\ attempt'[a].st = "settled" /\ attempt'[a].device = attempt[a].device
         /\ attempt'[a].waiters = {}
         /\ owner' \in {0, owner} /\ env' = env /\ timer' = timer /\ unloading' = unloading
         /\ \A c \in Caller :
              /\ op'[c].policy = op[c].policy
              /\ op[c].pc = "done" <=> op'[c].pc = "done"
              /\ op'[c].pc \in {"join", "start"} <=> op[c].pc \in {"join", "start"}
              /\ op[c].at # a => op'[c] = op[c]
<1>1. /\ attempt' = [attempt EXCEPT ![a] =
           [NoAttempt EXCEPT !.st = "settled", !.device = attempt[a].device]]
      /\ owner' \in {0, owner} /\ env' = env /\ timer' = timer /\ unloading' = unloading
  BY DEF Settle
<1>2. /\ \A b \in Attempts : b # a => attempt'[b] = attempt[b]
      /\ attempt'[a].st = "settled" /\ attempt'[a].device = attempt[a].device
      /\ attempt'[a].waiters = {}
  BY <1>1 DEF TypeOK, NoAttempt
<1>3. ASSUME NEW c \in Caller
      PROVE  /\ op'[c].policy = op[c].policy
             /\ op[c].pc = "done" <=> op'[c].pc = "done"
             /\ op'[c].pc \in {"join", "start"} <=> op[c].pc \in {"join", "start"}
             /\ op[c].at # a => op'[c] = op[c]
  <2>1. op[c] \in Call
    BY DEF TypeOK
  <2>2. \/ op'[c] = op[c]
        \/ /\ op[c].at = a /\ op[c].pc \in {"wait", "settle"}
           /\ \E pc \in {"got", "failed", "again"} : op'[c] = [op[c] EXCEPT !.pc = pc]
    BY DEF Settle, Told
  <2> QED BY <2>1, <2>2 DEF Call
<1> QED BY <1>1, <1>2, <1>3

\* Every step keeps Numbered: attempts are taken in order, and only one that has
\* settled installs its session.
LEMMA NumberedHolds == ASSUME MaxAttempt \in Nat, TypeOK, Numbered, [Next]_vars PROVE Numbered'
<1>1. ASSUME Kept, env'.made = env.made, session' \in {0, session} PROVE Numbered'
  BY <1>1 DEF Numbered, Kept, TypeOK, Attempts
<1>2. ASSUME NEW c \in Caller, Starts(c) PROVE Numbered'
  BY <1>2, StartIs DEF Numbered, TypeOK, Env, Attempts
<1>3. ASSUME NEW a \in Attempts, NEW device \in {"gpu", "cpu"}, Load(a, device) PROVE Numbered'
  <2>1. env'.made = env.made /\ session' = session /\ attempt[a].st = "loading"
    BY <1>3 DEF Load, TypeOK, Env
  <2>2. \A b \in Attempts : b # a => attempt'[b] = attempt[b]
    BY <1>3 DEF Load, TypeOK
  <2> QED BY <2>1, <2>2 DEF Numbered, TypeOK, Env, Attempts
<1>4. ASSUME NEW a \in Attempts, Settle(a) PROVE Numbered'
  <2>1. session' \in {a, session} /\ attempt[a].st # "none"
    BY <1>4 DEF Settle
  <2> QED BY <1>4, <2>1, SettleIs DEF Numbered, TypeOK, Env, Attempts
<1>5. ASSUME NEW c \in Caller, CallMoves(c) PROVE Numbered'
  BY <1>1, <1>5, CallMoveIs, KeptIs
<1>6. ASSUME NEW c \in Caller, Waits(c) \/ Leave(c) PROVE Numbered'
  BY <1>1, <1>6, KeptIs DEF Waits, Leave
<1>7. ASSUME NEW a \in Attempts, FallBack(a) PROVE Numbered'
  <2>1. env'.made = env.made
    BY <1>7 DEF FallBack, TypeOK, Env
  <2> QED BY <1>1, <1>7, <2>1, KeptIs DEF FallBack
<1>8. CASE GpuMayBeBack \/ Unload \/ Unloaded \/ UNCHANGED vars
  <2>1. env'.made = env.made
    BY <1>8 DEF GpuMayBeBack, Unload, Unloaded, vars, TypeOK, Env
  <2> QED BY <1>1, <1>8, <2>1, KeptIs DEF GpuMayBeBack, Unload, Unloaded, vars
<1>9. ASSUME NEW c \in Caller, NEW policy \in Policies, Begin(c, policy) PROVE Numbered'
  <2>1. env'.made = env.made
    BY <1>9 DEF Begin, TypeOK, Env
  <2> QED BY <1>1, <1>9, <2>1, KeptIs DEF Begin
<1> QED BY <1>2, <1>3, <1>4, <1>5, <1>6, <1>7, <1>8, <1>9, StepWays

\* Every step keeps WaitersWait: the last waiter to leave aborts the load.
LEMMA WaitersHold == ASSUME MaxAttempt \in Nat, TypeOK, Numbered, WaitersWait, [Next]_vars PROVE WaitersWait'
<1>0. /\ \A c \in Caller : op[c] \in Call
      /\ \A a \in Attempts : attempt[a] \in LoadState
  BY DEF TypeOK
<1>w. \A a \in Attempts : \A c \in attempt[a].waiters : c \in Caller
  BY <1>0, LoadIs
<1>1. ASSUME NEW c \in Caller, Elsewhere(c), op[c].pc # "wait", attempt' = attempt PROVE WaitersWait'
  BY <1>0, <1>1 DEF WaitersWait, Elsewhere, Pending, LoadState
<1>2. ASSUME NEW c \in Caller, Starts(c) PROVE WaitersWait'
  <2>1. op[c].pc # "wait"
    BY <1>2 DEF Starts
  <2> QED BY <1>0, <1>2, <2>1, StartIs DEF WaitersWait, Elsewhere, Pending, LoadState
<1>3. ASSUME NEW a \in Attempts, NEW device \in {"gpu", "cpu"}, Load(a, device) PROVE WaitersWait'
  BY <1>0, <1>3 DEF Load, WaitersWait, Pending, TypeOK, LoadState
<1>4. ASSUME NEW a \in Attempts, FallBack(a) PROVE WaitersWait'
  BY <1>0, <1>4 DEF FallBack, WaitersWait, Pending, TypeOK, LoadState
<1>5. ASSUME NEW a \in Attempts, Settle(a) PROVE WaitersWait'
  BY <1>w, <1>5, SettleIs DEF WaitersWait, Pending
<1>6. ASSUME NEW c \in Caller, CallMoves(c) PROVE WaitersWait'
  BY <1>1, <1>6, CallMoveIs
<1>7. ASSUME NEW c \in Caller, NEW policy \in Policies, Begin(c, policy) PROVE WaitersWait'
  <2>1. Elsewhere(c) /\ op[c].pc # "wait" /\ attempt' = attempt
    BY <1>7 DEF Begin, Elsewhere, Active, TypeOK
  <2> QED BY <1>1, <2>1
<1>8. ASSUME NEW c \in Caller, Waits(c) PROVE WaitersWait'
  <2>1. /\ op[c].pc # "wait" /\ current \in Attempts
        /\ op' = [op EXCEPT ![c].pc = "wait", ![c].at = current] /\ current \in 0 .. MaxAttempt
    BY <1>8 DEF Waits, TypeOK, Attempts
  <2>2. Elsewhere(c) /\ op'[c].pc = "wait"
    BY <2>1, MoveIs DEF PC
  <2>3. op'[c].at = current
    BY <2>1 DEF TypeOK, Call
  <2>4. \A a \in Attempts :
          /\ attempt'[a].st = attempt[a].st /\ attempt'[a].aborted = attempt[a].aborted
          /\ attempt'[a].waiters = IF a = current THEN attempt[a].waiters \cup {c} ELSE attempt[a].waiters
    BY <1>8, <1>0, <2>1 DEF Waits, TypeOK, LoadState
  <2>5. ASSUME NEW a \in Attempts, NEW d \in attempt'[a].waiters PROVE op'[d].pc = "wait" /\ op'[d].at = a
    <3>1. CASE d = c
      <4>1. c \notin attempt[a].waiters
        BY <2>1 DEF WaitersWait
      <4>2. a = current
        BY <4>1, <2>4, <2>5, <3>1
      <4> QED BY <4>2, <2>2, <2>3, <3>1
    <3>2. CASE d # c
      <4>1. d \in attempt[a].waiters
        BY <2>4, <2>5, <3>2
      <4> QED BY <4>1, <3>2, <1>w, <2>2 DEF WaitersWait, Elsewhere
    <3> QED BY <3>1, <3>2
  <2>6. ASSUME NEW a \in Attempts, Pending(a)', ~attempt'[a].aborted PROVE attempt'[a].waiters # {}
    BY <2>4, <2>6 DEF WaitersWait, Pending
  <2> QED BY <2>5, <2>6 DEF WaitersWait
<1>9. ASSUME NEW c \in Caller, Leave(c) PROVE WaitersWait'
  <2>1. Elsewhere(c)
    BY <1>9 DEF Leave, EndCall, Elsewhere, TypeOK
  <2>2. CASE op[c].pc # "wait"
    BY <1>1, <1>9, <2>1, <2>2 DEF Leave
  <2>3. CASE op[c].pc = "wait"
    <3>1. \A a \in Attempts :
            /\ attempt'[a].st = attempt[a].st
            /\ attempt'[a].waiters = IF a = op[c].at THEN attempt[a].waiters \ {c} ELSE attempt[a].waiters
      BY <1>9, <1>0, <2>3 DEF Leave, WithoutWaiter, TypeOK, LoadState
    <3>2. \A a \in Attempts :
            ~attempt'[a].aborted => ~attempt[a].aborted /\ (a = op[c].at => attempt[a].waiters # {c})
      BY <1>9, <1>0, <2>3 DEF Leave, WithoutWaiter, TypeOK, LoadState
    <3>3. ASSUME NEW a \in Attempts, NEW d \in attempt'[a].waiters PROVE op'[d].pc = "wait" /\ op'[d].at = a
      <4>1. d \in attempt[a].waiters /\ (a = op[c].at => d # c)
        BY <3>1, <3>3
      <4>2. op[d].pc = "wait" /\ op[d].at = a
        BY <4>1 DEF WaitersWait
      <4>3. d # c
        BY <4>1, <4>2
      <4> QED BY <4>1, <4>2, <4>3, <1>w, <2>1 DEF Elsewhere
    <3>4. ASSUME NEW a \in Attempts, Pending(a)', ~attempt'[a].aborted PROVE attempt'[a].waiters # {}
      <4>1. attempt[a].waiters # {} /\ (a = op[c].at => attempt[a].waiters # {c})
        BY <3>1, <3>2, <3>4 DEF WaitersWait, Pending
      <4>2. CASE a # op[c].at
        BY <4>1, <4>2, <3>1
      <4>3. CASE a = op[c].at
        <5>1. PICK d \in attempt[a].waiters : d # c
          BY <4>1, <4>3
        <5>2. d \in attempt'[a].waiters
          BY <4>3, <5>1, <3>1
        <5> QED BY <5>2
      <4> QED BY <4>2, <4>3
    <3> QED BY <3>3, <3>4 DEF WaitersWait
  <2> QED BY <2>2, <2>3
<1>10. CASE Unload
  <2>1. CASE current = 0
    BY <1>10, <2>1 DEF Unload, WaitersWait, Pending
  <2>2. CASE current # 0
    <3>1. \A a \in Attempts :
            /\ a = current => attempt'[a].aborted /\ attempt'[a].waiters = {}
            /\ a # current => attempt'[a] = attempt[a]
      BY <1>10, <1>0, <2>2 DEF Unload, TypeOK, LoadState
    <3>2. \A c \in Caller : op[c].at # current => op'[c] = op[c]
      BY <1>10, <2>2 DEF Unload
    <3> QED BY <1>0, <3>1, <3>2 DEF WaitersWait, Pending, LoadState
  <2> QED BY <2>1, <2>2
<1>11. CASE GpuMayBeBack \/ Unloaded \/ UNCHANGED vars
  BY <1>11 DEF GpuMayBeBack, Unloaded, vars, WaitersWait, Pending
<1> QED BY <1>2, <1>3, <1>4, <1>5, <1>6, <1>7, <1>8, <1>9, <1>10, <1>11, StepWays

\* Every step keeps ReplacesNone: a call starts a load of its own only when there is
\* no resident session, and nothing else installs one meanwhile.
LEMMA ReplacesNoneHolds ==
  ASSUME MaxAttempt \in Nat, TypeOK, Numbered, RetiredIsGone, ReplacesNone, [Next]_vars
  PROVE  ReplacesNone'
<1>1. ASSUME session' \in {0, session},
             \A a \in Attempts :
               attempt'[a].st \in {"loading", "loaded"} /\ ~attempt'[a].aborted =>
                 Pending(a) /\ ~attempt[a].aborted,
             owner' \in {0, owner}
      PROVE  ReplacesNone'
  BY <1>1 DEF ReplacesNone, MayInstall, Pending, Attempts
<1>a. \A a \in Attempts : attempt[a] \in LoadState
  BY DEF TypeOK
<1>2. ASSUME NEW c \in Caller, Starts(c) PROVE ReplacesNone'
  <2>1. session' = session /\ session = 0
    BY <1>2 DEF Starts, RetiredIsGone
  <2> QED BY <2>1 DEF ReplacesNone
<1>3. ASSUME NEW a \in Attempts, NEW device \in {"gpu", "cpu"}, Load(a, device) PROVE ReplacesNone'
  <2>1. \A b \in Attempts : Pending(b)' /\ ~attempt'[b].aborted => Pending(b) /\ ~attempt[b].aborted
    BY <1>3, <1>a DEF Load, Pending, TypeOK, LoadState
  <2> QED BY <1>1, <1>3, <2>1 DEF Load, Pending
<1>4. ASSUME NEW a \in Attempts, FallBack(a) PROVE ReplacesNone'
  <2>1. \A b \in Attempts : Pending(b)' /\ ~attempt'[b].aborted => Pending(b) /\ ~attempt[b].aborted
    BY <1>4, <1>a DEF FallBack, Pending, TypeOK, LoadState
  <2> QED BY <1>1, <1>4, <2>1 DEF FallBack, Pending
<1>5. ASSUME NEW a \in Attempts, Settle(a) PROVE ReplacesNone'
  <2>1. ASSUME NEW b \in Attempts, Pending(b)', MayInstall(b)' PROVE session' = 0
    <3>1. b # a /\ attempt'[b] = attempt[b] /\ owner = b
      BY <1>5, <2>1, SettleIs DEF Pending, MayInstall, Attempts
    <3>2. session' = session
      BY <1>5, <3>1 DEF Settle, MayInstall
    <3> QED BY <2>1, <3>1, <3>2 DEF ReplacesNone, Pending, MayInstall
  <2> QED BY <2>1 DEF ReplacesNone
<1>6. ASSUME NEW c \in Caller, CallMoves(c) PROVE ReplacesNone'
  BY <1>1, <1>6, CallMoveIs DEF Pending
<1>7. ASSUME NEW c \in Caller, NEW policy \in Policies, Begin(c, policy) PROVE ReplacesNone'
  BY <1>1, <1>7 DEF Begin, Pending
<1>8. ASSUME NEW c \in Caller, Waits(c) PROVE ReplacesNone'
  <2>1. \A b \in Attempts : attempt'[b].aborted = attempt[b].aborted /\ attempt'[b].st = attempt[b].st
    BY <1>8, <1>a DEF Waits, TypeOK, LoadState
  <2> QED BY <1>1, <1>8, <2>1 DEF Waits, Pending
<1>9. ASSUME NEW c \in Caller, Leave(c) PROVE ReplacesNone'
  <2>1. \A b \in Attempts : (attempt[b].aborted => attempt'[b].aborted) /\ attempt'[b].st = attempt[b].st
    BY <1>9, <1>a DEF Leave, WithoutWaiter, TypeOK, LoadState
  <2> QED BY <1>1, <1>9, <2>1 DEF Leave, Pending
<1>10. CASE Unload
  <2>1. \A b \in Attempts : (attempt[b].aborted => attempt'[b].aborted) /\ attempt'[b].st = attempt[b].st
    BY <1>10, <1>a DEF Unload, TypeOK, LoadState
  <2> QED BY <1>1, <1>10, <2>1 DEF Unload, Pending
<1>11. CASE GpuMayBeBack \/ Unloaded \/ UNCHANGED vars
  BY <1>1, <1>11 DEF GpuMayBeBack, Unloaded, vars, Pending
<1> QED BY <1>2, <1>3, <1>4, <1>5, <1>6, <1>7, <1>8, <1>9, <1>10, <1>11, StepWays

\* Every step keeps NoSessionIsLost: a load that may not install closes what it made
\* (loadAttempt's check after the load), and one that may replaces nothing.
LEMMA SessionsKept ==
  ASSUME MaxAttempt \in Nat, TypeOK, Numbered, ReplacesNone, NoSessionIsLost, [Next]_vars
  PROVE  NoSessionIsLost'
<1>a. open \in SUBSET Attempts /\ 0 \notin Attempts
  BY DEF TypeOK, Attempts
<1>1. ASSUME Kept, \/ UNCHANGED <<session, open>>
                   \/ \E s : Retire(s)
                   \/ session' = 0 /\ open' = open \ {session}
      PROVE  NoSessionIsLost'
  BY <1>1, <1>a DEF NoSessionIsLost, Kept, Retire
<1>2. ASSUME NEW c \in Caller, Starts(c) PROVE NoSessionIsLost'
  BY <1>2, <1>a, StartIs DEF NoSessionIsLost
<1>3. ASSUME NEW a \in Attempts, NEW device \in {"gpu", "cpu"}, Load(a, device) PROVE NoSessionIsLost'
  <2>1. attempt'[a].st = "loaded" /\ \A b \in Attempts : b # a => attempt'[b] = attempt[b]
    BY <1>3 DEF Load, TypeOK
  <2> QED BY <1>3, <1>a, <2>1 DEF Load, NoSessionIsLost
<1>4. ASSUME NEW a \in Attempts, Settle(a) PROVE NoSessionIsLost'
  <2>1. CASE attempt[a].st = "loaded" /\ MayInstall(a)
    <3>1. session = 0 /\ session' = a /\ open' = open
      BY <1>4, <2>1 DEF Settle, ReplacesNone, Pending
    <3> QED BY <1>4, <3>1, <1>a, SettleIs DEF NoSessionIsLost
  <2>2. CASE ~(attempt[a].st = "loaded" /\ MayInstall(a))
    <3>1. session' = session /\ open' = open \ {a}
      BY <1>4, <2>2 DEF Settle
    <3> QED BY <1>4, <3>1, <1>a, SettleIs DEF NoSessionIsLost
  <2> QED BY <2>1, <2>2
<1>5. ASSUME NEW c \in Caller, CallMoves(c) PROVE NoSessionIsLost'
  <2>1. \/ UNCHANGED <<session, open>>
        \/ \E s : Retire(s)
        \/ session' = 0 /\ open' = open \ {session}
    BY <1>5 DEF CallMoves, AwaitsSettlement, Uses, Retires, Take, Fail, Encoded, DeviceFails
  <2> QED BY <1>1, <1>5, <2>1, KeptIs
<1>6. ASSUME NEW c \in Caller, Waits(c) \/ Leave(c) PROVE NoSessionIsLost'
  BY <1>1, <1>6, KeptIs DEF Waits, Leave
<1>7. ASSUME NEW c \in Caller, NEW policy \in Policies, Begin(c, policy) PROVE NoSessionIsLost'
  BY <1>1, <1>7, KeptIs DEF Begin
<1>8. ASSUME NEW a \in Attempts, FallBack(a) PROVE NoSessionIsLost'
  BY <1>1, <1>8, KeptIs DEF FallBack
<1>9. CASE GpuMayBeBack \/ Unload \/ Unloaded \/ UNCHANGED vars
  BY <1>1, <1>9, KeptIs DEF GpuMayBeBack, Unload, Unloaded, vars
<1> QED BY <1>2, <1>3, <1>4, <1>5, <1>6, <1>7, <1>8, <1>9, StepWays

\* Every step keeps RestIsTimed: the last call to end schedules the idle unload.
LEMMA RestHolds ==
  ASSUME MaxAttempt \in Nat, TypeOK, WaitersWait, RestIsTimed, [Next]_vars
  PROVE  RestIsTimed'
<1>1. ASSUME NEW c \in Caller, op'[c].pc # "done" PROVE RestIsTimed'
  BY <1>1 DEF RestIsTimed, Active
<1>2. ASSUME NEW c \in Caller, EndCall(c), UNCHANGED <<session, unloading>> PROVE RestIsTimed'
  BY <1>2 DEF EndCall, RestIsTimed
<1>3. ASSUME UNCHANGED <<session, op, timer, unloading>> PROVE RestIsTimed'
  BY <1>3 DEF RestIsTimed, Active
<1>4. ASSUME NEW c \in Caller, NEW policy \in Policies, Begin(c, policy) PROVE RestIsTimed'
  BY <1>1, <1>4 DEF Begin, TypeOK
<1>5. ASSUME NEW c \in Caller, Starts(c) PROVE RestIsTimed'
  <2>1. op' = [op EXCEPT ![c].pc = "wait", ![c].at = env.made + 1]
    BY <1>5 DEF Starts, StartAttempt
  <2>2. op'[c].pc = "wait"
    BY <2>1 DEF TypeOK, Call
  <2> QED BY <1>1, <2>2
<1>6. ASSUME NEW c \in Caller, Waits(c) PROVE RestIsTimed'
  <2>1. op'[c].pc = "wait"
    BY <1>6 DEF Waits, TypeOK, Call
  <2> QED BY <1>1, <2>1
<1>7. ASSUME NEW c \in Caller, CallMoves(c) PROVE RestIsTimed'
  <2>1. CASE Fail(c) \/ Encoded(c)
    BY <1>2, <2>1 DEF Fail, Encoded
  <2>2. CASE AwaitsSettlement(c) \/ Uses(c)
    <3>1. op'[c].pc # "done"
      BY <2>2 DEF AwaitsSettlement, Uses, TypeOK, Call
    <3> QED BY <1>1, <3>1
  <2>3. CASE Retires(c) \/ Take(c)
    <3>1. op'[c].pc # "done"
      BY <2>3 DEF Retires, Take, GotoOp, TypeOK, Call
    <3> QED BY <1>1, <3>1
  <2>4. CASE DeviceFails(c)
    <3>1. op'[c].pc # "done"
      BY <2>4 DEF DeviceFails, TypeOK, Call
    <3> QED BY <1>1, <3>1
  <2> QED BY <1>7, <2>1, <2>2, <2>3, <2>4 DEF CallMoves
<1>8. ASSUME NEW c \in Caller, Leave(c) PROVE RestIsTimed'
  BY <1>2, <1>8 DEF Leave
<1>9. ASSUME NEW a \in Attempts, Settle(a) PROVE RestIsTimed'
  <2>1. \A c \in Caller : op[c].pc = "done" <=> op'[c].pc = "done"
    BY <1>9, SettleIs
  <2>2. CASE attempt[a].st = "loaded" /\ MayInstall(a)
    <3>1. PICK c \in attempt[a].waiters : op[c].pc = "wait"
      BY <2>2, SMTT(60) DEF WaitersWait, Pending, MayInstall
    <3>2. c \in Caller
      BY <3>1, LoadIs DEF TypeOK
    <3> QED BY <1>1, <2>1, <3>1, <3>2
  <2>3. CASE ~(attempt[a].st = "loaded" /\ MayInstall(a))
    <3>1. UNCHANGED <<session, timer, unloading>>
      BY <1>9, <2>3 DEF Settle
    <3> QED BY <2>1, <3>1 DEF RestIsTimed, Active
  <2> QED BY <2>2, <2>3
<1>10. CASE Unload \/ Unloaded
  BY <1>10 DEF Unload, Unloaded, RestIsTimed
<1>11. ASSUME NEW a \in Attempts, NEW device \in {"gpu", "cpu"}, Load(a, device) PROVE RestIsTimed'
  BY <1>3, <1>11 DEF Load
<1>12. ASSUME NEW a \in Attempts, FallBack(a) PROVE RestIsTimed'
  BY <1>3, <1>12 DEF FallBack
<1>13. CASE GpuMayBeBack \/ UNCHANGED vars
  BY <1>3, <1>13 DEF GpuMayBeBack, vars
<1> QED BY <1>4, <1>5, <1>6, <1>7, <1>8, <1>9, <1>10, <1>11, <1>12, <1>13, StepWays

\* A policy that is the only one gets the device it asks for.
LEMMA PickFits ==
  ASSUME OnePolicy, NEW policy \in Policies, NEW device \in PickLoadDevice(policy)
  PROVE  Admits(device)
<1>1. SUFFICES ASSUME NEW p \in Policies \cap {"gpu", "cpu"} PROVE device = p
  BY DEF Admits
<1>2. policy = p
  BY DEF OnePolicy
<1> QED BY <1>2 DEF PickLoadDevice

\* Under one policy every step keeps LoadsFit, so no call retires a session.
LEMMA FitHolds ==
  ASSUME MaxAttempt \in Nat, OnePolicy, TypeOK, Numbered, RetiredIsGone, LoadsFit, [Next]_vars
  PROVE  LoadsFit'
<1>a. /\ \A a \in Attempts : attempt[a] \in LoadState
      /\ \A c \in Caller : op[c] \in Call
  BY DEF TypeOK
<1> DEFINE CallsFit == \A c \in Caller : Active(c) => op[c].policy \in Policies
           FitsNow(a) == /\ Pending(a) => attempt[a].policy \in Policies
                         /\ Pending(a) => Admits(attempt[a].requested)
                         /\ attempt[a].st = "loaded" => Admits(attempt[a].device)
           SessionFits == session # 0 => Admits(attempt[session].device)
<1>b. LoadsFit <=> CallsFit /\ (\A a \in Attempts : FitsNow(a)) /\ SessionFits
  BY DEF LoadsFit
<1>c. LoadsFit' <=> CallsFit' /\ (\A a \in Attempts : FitsNow(a)') /\ SessionFits'
  BY DEF LoadsFit
<1>d. session # 0 => session \in Attempts /\ attempt[session].st = "settled"
  BY DEF Numbered, TypeOK, Attempts
\* Calls keep their policies.
<1>1. ASSUME \A c \in Caller : op'[c].pc # "done" => op[c].pc # "done" /\ op'[c].policy = op[c].policy
      PROVE  CallsFit'
  BY <1>1, <1>b DEF Active
<1>2. ASSUME NEW c \in Caller, Elsewhere(c),
             op'[c].pc # "done" => op[c].pc # "done" /\ op'[c].policy = op[c].policy
      PROVE  CallsFit'
  BY <1>1, <1>2 DEF Elsewhere
\* Attempts keep what they ask for and have.
<1>3. ASSUME Kept, \A a \in Attempts : attempt'[a].requested = attempt[a].requested,
             session' \in {0, session}
      PROVE  SessionFits' /\ \A a \in Attempts : FitsNow(a)'
  BY <1>3, <1>b, <1>d DEF Kept, Pending, Admits
<1>4. ASSUME NEW c \in Caller, Starts(c) PROVE LoadsFit'
  <2>1. PICK a \in Attempts, device \in PickLoadDevice(op[c].policy) :
          /\ a = env.made + 1 /\ env'.made = a /\ attempt[a].st = "none"
          /\ owner' = a /\ session' = session /\ open' = open
          /\ \A b \in Attempts : b # a => attempt'[b] = attempt[b]
          /\ attempt'[a].st = "loading" /\ attempt'[a].requested = device
          /\ attempt'[a].policy = op[c].policy
          /\ attempt'[a].waiters = {c}
          /\ Elsewhere(c) /\ op'[c].pc = "wait" /\ op'[c].at = a /\ op'[c].policy = op[c].policy
    BY <1>4, StartIs
  <2>2. op[c].pc # "done" /\ session' = 0
    BY <1>4, <2>1 DEF Starts, RetiredIsGone
  <2>3. op[c].policy \in Policies
    BY <2>2, <1>b DEF Active
  <2>4. Admits(device)
    BY <2>3, PickFits
  <2>5. CallsFit'
    BY <1>2, <2>1, <2>2
  <2>6. ASSUME NEW b \in Attempts PROVE FitsNow(b)'
    BY <2>1, <2>3, <2>4, <1>b DEF Pending, Admits
  <2> QED BY <1>c, <2>2, <2>5, <2>6
<1>5. ASSUME NEW a \in Attempts, NEW device \in {"gpu", "cpu"}, Load(a, device) PROVE LoadsFit'
  <2>1. /\ attempt'[a].st = "loaded" /\ attempt'[a].device = device
        /\ attempt'[a].policy = attempt[a].policy /\ attempt'[a].requested = attempt[a].requested
        /\ \A b \in Attempts : b # a => attempt'[b] = attempt[b]
    BY <1>5, <1>a DEF Load, TypeOK, LoadState
  <2>2. /\ attempt[a].st = "loading" /\ session' = session /\ op' = op
        /\ device = attempt[a].requested \/ device = "cpu"
        /\ attempt[a].policy = "gpu" => device = "gpu"
    BY <1>5 DEF Load
  <2>3. attempt[a].policy \in Policies /\ Admits(attempt[a].requested)
    BY <2>2, <1>b DEF Pending
  <2>4. Admits(device)
    <3>1. SUFFICES ASSUME NEW p \in Policies \cap {"gpu", "cpu"} PROVE device = p
      BY DEF Admits
    <3>2. attempt[a].policy = p /\ attempt[a].requested = p
      BY <2>3 DEF OnePolicy, Admits
    <3> QED BY <3>2, <2>2
  <2>5. CallsFit'
    BY <2>2, <1>1
  <2>6. ASSUME NEW b \in Attempts PROVE FitsNow(b)'
    BY <2>1, <2>3, <2>4, <1>b DEF Pending, Admits
  <2>7. SessionFits'
    BY <2>1, <2>2, <1>b, <1>d DEF Admits
  <2> QED BY <1>c, <2>5, <2>6, <2>7
<1>6. ASSUME NEW a \in Attempts, FallBack(a) PROVE LoadsFit'
  <2>1. Kept /\ session' = session /\ op' = op /\ attempt[a].policy = "auto" /\ Pending(a)
    BY <1>6, KeptIs DEF FallBack, Pending
  <2>2. \A device : Admits(device)
    BY <2>1, <1>b DEF OnePolicy, Admits
  <2>3. CallsFit'
    BY <2>1, <1>1
  <2>4. SessionFits' /\ \A b \in Attempts : FitsNow(b)'
    BY <2>1, <2>2, <1>b DEF Kept, Pending, Admits
  <2> QED BY <1>c, <2>3, <2>4
<1>7. ASSUME NEW a \in Attempts, Settle(a) PROVE LoadsFit'
  <2>1. CallsFit'
    BY <1>7, <1>1, SettleIs
  <2>2. ASSUME NEW b \in Attempts PROVE FitsNow(b)'
    <3>1. CASE b = a
      BY <1>7, <3>1, SettleIs DEF Pending
    <3>2. CASE b # a
      BY <1>7, <3>2, <1>b, SettleIs DEF Pending, Admits
    <3> QED BY <3>1, <3>2
  <2>3. \A b \in Attempts : attempt'[b].device = attempt[b].device
    BY <1>7, SettleIs
  <2>4. SessionFits'
    <3>1. CASE session' = session
      BY <3>1, <2>3, <1>b, <1>d DEF Admits
    <3>2. CASE session' # session
      <4>1. session' = a /\ attempt[a].st = "loaded"
        BY <1>7, <3>2 DEF Settle
      <4> QED BY <4>1, <2>3, <1>b DEF Admits
    <3> QED BY <3>1, <3>2
  <2> QED BY <1>c, <2>1, <2>2, <2>4
<1>8. ASSUME NEW c \in Caller, CallMoves(c) PROVE LoadsFit'
  BY <1>2, <1>3, <1>8, <1>c, CallMoveIs, KeptIs
<1>9. ASSUME NEW c \in Caller, NEW policy \in Policies, Begin(c, policy) PROVE LoadsFit'
  <2>1. op' = [op EXCEPT ![c] = [pc |-> "ensure", policy |-> policy, at |-> 0, again |-> FALSE]]
    BY <1>9 DEF Begin
  <2>2. CallsFit'
    BY <2>1, <1>b DEF TypeOK, Active
  <2> QED BY <1>3, <1>9, <2>2, <1>c, KeptIs DEF Begin
<1>10. ASSUME NEW c \in Caller, Waits(c) PROVE LoadsFit'
  <2>1. op' = [op EXCEPT ![c].pc = "wait", ![c].at = current] /\ op[c].pc # "done"
    BY <1>10 DEF Waits
  <2>2. CallsFit'
    BY <2>1, <1>2, MoveIs DEF PC, TypeOK
  <2>3. \A a \in Attempts : attempt'[a].requested = attempt[a].requested
    BY <1>10, <1>a DEF Waits, TypeOK, LoadState
  <2> QED BY <1>3, <1>10, <2>2, <2>3, <1>c, KeptIs DEF Waits
<1>11. ASSUME NEW c \in Caller, Leave(c) PROVE LoadsFit'
  <2>1. op' = [op EXCEPT ![c] = Done] /\ Done.pc = "done"
    BY <1>11 DEF Leave, EndCall, Done
  <2>2. CallsFit'
    BY <2>1, <1>b DEF TypeOK, Active
  <2>3. \A a \in Attempts : attempt'[a].requested = attempt[a].requested
    BY <1>11, <1>a DEF Leave, WithoutWaiter, TypeOK, LoadState
  <2> QED BY <1>3, <1>11, <2>2, <2>3, <1>c, KeptIs DEF Leave
<1>12. CASE Unload
  <2>1. \A c \in Caller : op'[c].pc # "done" => op[c].pc # "done" /\ op'[c].policy = op[c].policy
    BY <1>12, <1>a DEF Unload, Call
  <2>2. \A a \in Attempts : attempt'[a].requested = attempt[a].requested
    BY <1>12, <1>a DEF Unload, TypeOK, LoadState
  <2> QED BY <1>1, <1>3, <1>12, <2>1, <2>2, <1>c, KeptIs DEF Unload
<1>13. CASE GpuMayBeBack \/ Unloaded \/ UNCHANGED vars
  BY <1>1, <1>3, <1>13, <1>c, KeptIs DEF GpuMayBeBack, Unloaded, vars
<1> QED BY <1>4, <1>5, <1>6, <1>7, <1>8, <1>9, <1>10, <1>11, <1>12, <1>13, StepWays

\* Every step keeps RetiredIsGone.
LEMMA RetiredHolds ==
  ASSUME MaxAttempt \in Nat, OnePolicy \/ OneCaller, TypeOK, Numbered, WaitersWait,
         OnePolicy => LoadsFit, RetiredIsGone, [Next]_vars
  PROVE  RetiredIsGone'
<1>a. \A c \in Caller : op[c] \in Call
  BY DEF TypeOK
<1>1. ASSUME session' \in {0, session},
             \A c \in Caller : op'[c].pc \in {"join", "start"} => op[c].pc \in {"join", "start"}
      PROVE  RetiredIsGone'
  BY <1>1 DEF RetiredIsGone
<1>2. ASSUME NEW c \in Caller, Elsewhere(c), op'[c].pc \notin {"join", "start"}, session' \in {0, session}
      PROVE  RetiredIsGone'
  BY <1>1, <1>2 DEF Elsewhere
<1>3. ASSUME NEW c \in Caller, Starts(c) PROVE RetiredIsGone'
  BY <1>2, <1>3, StartIs
<1>4. ASSUME NEW c \in Caller, Waits(c) PROVE RetiredIsGone'
  <2>1. op' = [op EXCEPT ![c].pc = "wait", ![c].at = current]
    BY <1>4 DEF Waits
  <2>2. Elsewhere(c) /\ op'[c].pc = "wait"
    BY <2>1, MoveIs DEF PC, TypeOK
  <2> QED BY <1>2, <1>4, <2>2 DEF Waits
<1>5. ASSUME NEW c \in Caller, CallMoves(c) PROVE RetiredIsGone'
  <2>1. CASE Retires(c)
    <3>1. CASE OnePolicy
      <4>1. op[c].policy \in Policies /\ Admits(attempt[session].device)
        BY <2>1, <3>1 DEF LoadsFit, Active, Retires
      <4> QED BY <2>1, <4>1 DEF Retires, Admitted, Admits
    <3>2. CASE OneCaller
      BY <2>1, <3>2 DEF Retires, OneCaller, RetiredIsGone
    <3> QED BY <3>1, <3>2
  <2>2. CASE AwaitsSettlement(c) \/ Uses(c)
    <3>1. op'[c].pc \notin {"join", "start"}
      BY <2>2 DEF AwaitsSettlement, Uses, TypeOK, Call
    <3> QED BY <1>2, <1>5, <3>1, CallMoveIs
  <2>3. CASE Take(c)
    <3>1. op'[c].pc \notin {"join", "start"}
      BY <2>3 DEF Take, GotoOp, TypeOK, Call
    <3> QED BY <1>2, <1>5, <3>1, CallMoveIs
  <2>4. CASE Fail(c) \/ Encoded(c)
    <3>1. op' = [op EXCEPT ![c] = Done] /\ Done.pc = "done"
      BY <2>4 DEF Fail, Encoded, EndCall, Done
    <3>2. op'[c].pc \notin {"join", "start"}
      BY <3>1 DEF TypeOK
    <3> QED BY <1>2, <1>5, <3>2, CallMoveIs
  <2>5. CASE DeviceFails(c)
    <3>1. op'[c].pc \notin {"join", "start"}
      BY <2>5 DEF DeviceFails, TypeOK, Call
    <3> QED BY <1>2, <1>5, <3>1, CallMoveIs
  <2> QED BY <1>5, <2>1, <2>2, <2>3, <2>4, <2>5 DEF CallMoves
<1>6. ASSUME NEW c \in Caller, Leave(c) PROVE RetiredIsGone'
  <2>1. op' = [op EXCEPT ![c] = Done] /\ Done.pc = "done"
    BY <1>6 DEF Leave, EndCall, Done
  <2>2. Elsewhere(c) /\ op'[c].pc = "done"
    BY <2>1 DEF Elsewhere, TypeOK
  <2> QED BY <1>2, <1>6, <2>2 DEF Leave
<1>7. ASSUME NEW c \in Caller, NEW policy \in Policies, Begin(c, policy) PROVE RetiredIsGone'
  <2>1. Elsewhere(c) /\ op'[c].pc = "ensure"
    BY <1>7 DEF Begin, Elsewhere, TypeOK
  <2> QED BY <1>2, <1>7, <2>1 DEF Begin
<1>8. ASSUME NEW a \in Attempts, Settle(a) PROVE RetiredIsGone'
  <2>1. \A c \in Caller : op'[c].pc \in {"join", "start"} <=> op[c].pc \in {"join", "start"}
    BY <1>8, SettleIs
  <2>2. CASE attempt[a].st = "loaded" /\ MayInstall(a)
    <3>1. PICK w \in attempt[a].waiters : op[w].pc = "wait"
      BY <2>2, SMTT(60) DEF WaitersWait, Pending, MayInstall
    <3>2. w \in Caller
      BY <3>1, LoadIs DEF TypeOK
    <3>3. \A c \in Caller : op[c].pc \notin {"join", "start"}
      BY <3>1, <3>2 DEF RetiredIsGone
    <3> QED BY <2>1, <3>3 DEF RetiredIsGone
  <2>3. CASE ~(attempt[a].st = "loaded" /\ MayInstall(a))
    BY <1>1, <1>8, <2>1, <2>3 DEF Settle
  <2> QED BY <2>2, <2>3
<1>9. ASSUME NEW a \in Attempts, NEW device \in {"gpu", "cpu"}, Load(a, device) PROVE RetiredIsGone'
  BY <1>1, <1>9 DEF Load
<1>10. ASSUME NEW a \in Attempts, FallBack(a) PROVE RetiredIsGone'
  BY <1>1, <1>10 DEF FallBack
<1>11. CASE Unload
  <2>1. \A c \in Caller : op'[c].pc \in {"join", "start"} => op[c].pc \in {"join", "start"}
    BY <1>11, <1>a DEF Unload, Call
  <2> QED BY <1>1, <1>11, <2>1 DEF Unload
<1>12. CASE GpuMayBeBack \/ Unloaded \/ UNCHANGED vars
  BY <1>1, <1>12 DEF GpuMayBeBack, Unloaded, vars
<1> QED BY <1>3, <1>4, <1>5, <1>6, <1>7, <1>8, <1>9, <1>10, <1>11, <1>12, StepWays

-----------------------------------------------------------------------------

\* A worker starts with no session, no attempt and no call.
LEMMA StartsWell == ASSUME MaxAttempt \in Nat, Init PROVE Inv
<1>1. Done \in Call /\ NoAttempt \in LoadState /\ Done.pc = "done"
  BY DoneIsCall DEF NoAttempt, LoadState, Done
<1>2. NoAttempt.st = "none" /\ NoAttempt.waiters = {}
  BY DEF NoAttempt
<1>3. env \in Env
  BY DEF Init, Env
<1>4. TypeOK
  <2>1. attempt \in [Attempts -> LoadState] /\ op \in [Caller -> Call]
    BY <1>1 DEF Init
  <2>2. session = 0 /\ current = 0 /\ owner = 0 /\ open = {} /\ timer = FALSE /\ unloading = FALSE
    BY DEF Init
  <2>3. 0 \in 0 .. MaxAttempt
    OBVIOUS
  <2> QED BY <1>3, <2>1, <2>2, <2>3 DEF TypeOK
<1>5. Numbered /\ WaitersWait /\ ReplacesNone /\ NoSessionIsLost /\ RestIsTimed
  BY <1>2 DEF Init, Numbered, WaitersWait, ReplacesNone, Pending, NoSessionIsLost, RestIsTimed
<1>6. LoadsFit /\ RetiredIsGone
  BY <1>1, <1>2 DEF Init, LoadsFit, RetiredIsGone, Pending, Active
<1> QED BY <1>4, <1>5, <1>6 DEF Inv

\* ModelLifecycle loses no session and leaves none in memory untimed (lifecycle.ts): every
\* session made is the resident one, belongs to a load still under way, or has been
\* closed; and a resident one that no call uses is on the idle timer or being unloaded.
\* A worker is sent calls of one policy, that of the device of its slot
\* (deviceLoadPolicyForPayload, worker-entry.ts), or one call at a time.
THEOREM SessionIsOwned ==
  ASSUME MaxAttempt \in Nat, OnePolicy \/ OneCaller
  PROVE  Spec => []ModelIsOwned
<1>1. Init => Inv
  BY StartsWell
<1>2. Inv /\ [Next]_vars => Inv'
  BY TypesHold, NumberedHolds, WaitersHold, ReplacesNoneHolds, FitHolds, RetiredHolds, SessionsKept,
     RestHolds DEF Inv
<1>3. Inv => ModelIsOwned
  BY DEF Inv, ModelIsOwned
<1> QED BY <1>1, <1>2, <1>3, PTL DEF Spec

-----------------------------------------------------------------------------
(* Download.                                                                *)

CONSTANTS Host, Sizes, MaxBytes, MaxRedirects
VARIABLES mode, hop, server, phase, got, files, target, tokens

Files == INSTANCE Download

\* What the constants are.
DownloadConstants == Sizes \subseteq Nat /\ MaxBytes \in Nat /\ MaxRedirects \in Nat

Hop    == [host : Host, count : Nat, auth : BOOLEAN]
Server == [size : Nat, declared : BOOLEAN]
Target == [new : BOOLEAN, chunks : Nat]

DownloadTypes ==
  /\ mode \in {"direct", "curl"}
  /\ hop \in Hop /\ server \in Server /\ target \in Target
  /\ phase \in {"request", "waiting", "streaming", "downloaded", "done", "failed", "crashed"}
  /\ got \in Nat /\ files \subseteq Nat /\ tokens \subseteq Host

\* One request has a temporary file; what it has received is within what is known of the limit.
FilesFit ==
  /\ files \subseteq {hop.count}
  /\ phase = "request" => files = {}
  /\ phase = "waiting" => got = 0
  /\ phase \in {"done", "failed"} => files = {}
  /\ phase \in {"streaming", "downloaded"} => got <= server.size
  /\ phase \in {"streaming", "downloaded"} /\ mode = "direct" => got <= MaxBytes
  /\ phase = "downloaded" => got = server.size
  /\ target.new => phase = "done" /\ target.chunks = server.size /\ target.chunks <= MaxBytes

\* Whoever is still authorized is the only host that was sent the token.
TokensFit ==
  /\ \A h, g \in tokens : h = g
  /\ hop.auth => tokens \subseteq {hop.host}

DownloadInv == DownloadTypes /\ FilesFit /\ TokensFit

\* A download begins with no file and with the token for the host it names.
LEMMA DownloadStarts == ASSUME DownloadConstants, Files!Init PROVE DownloadInv
<1>1. DownloadTypes
  <2>1. hop \in Hop /\ server \in Server /\ target \in Target
    <3>1. PICK h \in Host : hop = [host |-> h, count |-> 0, auth |-> TRUE]
      BY DEF Files!Init
    <3>2. PICK n \in Sizes, b \in BOOLEAN : server = [size |-> n, declared |-> b]
      BY DEF Files!Init
    <3>3. n \in Nat /\ target = [new |-> FALSE, chunks |-> 0]
      BY DEF DownloadConstants, Files!Init
    <3> QED BY <3>1, <3>2, <3>3 DEF Hop, Server, Target
  <2> QED BY <2>1 DEF Files!Init, DownloadTypes
<1>2. FilesFit /\ TokensFit
  BY DEF Files!Init, FilesFit, TokensFit
<1> QED BY <1>1, <1>2 DEF DownloadInv

\* Every request, redirect, chunk and failure keeps it.
LEMMA DownloadStep ==
  ASSUME DownloadConstants, DownloadInv, [Files!Next]_Files!vars
  PROVE  DownloadInv'
<1>0. /\ DownloadTypes /\ FilesFit /\ TokensFit /\ hop \in Hop /\ server \in Server /\ target \in Target
      /\ MaxBytes \in Nat /\ got \in Nat /\ server.size \in Nat /\ hop.count \in Nat
  BY DEF DownloadInv, DownloadTypes, DownloadConstants, Hop, Server
<1>1. CASE Files!Send
  <2>1. DownloadTypes'
    <3>1. files' \subseteq Nat /\ tokens' \subseteq Host
      <4>1. hop.host \in Host
        BY <1>0 DEF Hop
      <4>2. files' \in {{}, files \cup {hop.count}} /\ tokens' \in {tokens, tokens \cup {hop.host}}
        BY <1>1 DEF Files!Send, Files!Fail
      <4> QED BY <1>0, <4>1, <4>2 DEF DownloadTypes
    <3>2. got' \in {got, 0} /\ phase' \in {"failed", "waiting"} /\ UNCHANGED <<mode, hop, server, target>>
      BY <1>1 DEF Files!Send, Files!Fail
    <3> QED BY <1>0, <3>1, <3>2 DEF DownloadTypes
  <2>2. FilesFit'
    BY <1>0, <1>1 DEF Files!Send, Files!Fail, FilesFit
  <2>3. TokensFit'
    BY <1>0, <1>1 DEF Files!Send, TokensFit
  <2> QED BY <2>1, <2>2, <2>3 DEF DownloadInv
<1>2. ASSUME NEW host \in Host, Files!Redirect(host) PROVE DownloadInv'
  <2>1. hop' = [host |-> host, count |-> hop.count + 1, auth |-> Files!NextAuth(host)]
    BY <1>2 DEF Files!Redirect
  <2>2. Files!NextAuth(host) \in BOOLEAN /\ (Files!NextAuth(host) => hop.auth /\ host = hop.host)
    BY <1>0 DEF Files!NextAuth, Hop
  <2>3. hop' \in Hop /\ hop'.host = host /\ hop'.auth = Files!NextAuth(host)
    BY <1>0, <2>1, <2>2 DEF Hop
  <2>4. /\ files' = {} /\ phase' = "request" /\ UNCHANGED <<mode, server, got, target, tokens>>
        /\ phase = "waiting"
    BY <1>0, <1>2 DEF Files!Redirect, FilesFit
  <2>5. DownloadTypes'
    BY <1>0, <2>3, <2>4 DEF DownloadTypes
  <2>6. FilesFit' /\ TokensFit'
    BY <1>0, <2>2, <2>3, <2>4 DEF FilesFit, TokensFit
  <2> QED BY <2>5, <2>6 DEF DownloadInv
<1>3. CASE Files!Refused
  BY <1>0, <1>3 DEF Files!Refused, Files!Fail, DownloadInv, DownloadTypes, FilesFit, TokensFit
<1>4. CASE Files!Accepted
  <2>1. TokensFit' /\ DownloadTypes'
    BY <1>0, <1>4 DEF Files!Accepted, Files!Fail, DownloadTypes, TokensFit
  <2>2. FilesFit'
    <3>1. CASE phase' = "failed" /\ files' = {} /\ UNCHANGED <<mode, server, got, target>>
      BY <1>0, <1>4, <3>1 DEF Files!Accepted, FilesFit
    <3>2. CASE phase' = "streaming" /\ UNCHANGED <<mode, hop, server, got, files, target>>
      BY <1>0, <1>4, <3>2 DEF Files!Accepted, FilesFit
    <3> QED BY <1>4, <3>1, <3>2 DEF Files!Accepted, Files!Fail
  <2> QED BY <2>1, <2>2 DEF DownloadInv
<1>5. CASE Files!Chunk
  <2>0. got + 1 \in Nat
    BY <1>0
  <2>1. /\ got' \in {got, got + 1} /\ phase' \in {"failed", phase} /\ files' \in {{}, files}
        /\ UNCHANGED <<mode, hop, server, target, tokens>>
    BY <1>5 DEF Files!Chunk, Files!Fail
  <2>3. TokensFit' /\ DownloadTypes'
    BY <1>0, <2>0, <2>1 DEF DownloadTypes, TokensFit
  <2>2. FilesFit'
    BY <1>0, <1>5 DEF Files!Chunk, Files!Fail, FilesFit
  <2> QED BY <2>2, <2>3 DEF DownloadInv
<1>6. CASE Files!End
  <2>1. server' \in Server /\ server'.size = got
    BY <1>0, <1>6 DEF Files!End, Server
  <2>2. TokensFit' /\ DownloadTypes'
    BY <1>0, <1>6, <2>1 DEF Files!End, DownloadTypes, TokensFit
  <2>3. FilesFit'
    BY <1>0, <1>6, <2>1 DEF Files!End, FilesFit
  <2> QED BY <2>2, <2>3 DEF DownloadInv
<1>7. CASE Files!Finish
  <2>1. CASE Files!TooLarge
    BY <1>0, <1>7, <2>1 DEF Files!Finish, Files!Fail, DownloadInv, DownloadTypes, FilesFit, TokensFit
  <2>2. CASE ~Files!TooLarge
    <3>0. got = server.size /\ got <= MaxBytes
      BY <1>0, <1>7, <2>2 DEF Files!Finish, Files!TooLarge, FilesFit, DownloadTypes
    <3>1. /\ target' = [new |-> TRUE, chunks |-> got] /\ files' = {} /\ phase' = "done" /\ got' = got
          /\ UNCHANGED <<mode, hop, server, tokens>>
      BY <1>0, <1>7, <2>2 DEF Files!Finish, FilesFit
    <3>2. target' \in Target /\ target'.chunks = got
      BY <1>0, <3>1 DEF Target
    <3>3. DownloadTypes'
      BY <1>0, <3>1, <3>2 DEF DownloadTypes
    <3>4. FilesFit' /\ TokensFit'
      BY <1>0, <3>0, <3>1, <3>2 DEF FilesFit, TokensFit
    <3> QED BY <3>3, <3>4 DEF DownloadInv
  <2> QED BY <2>1, <2>2
<1>8. CASE Files!Crash \/ UNCHANGED Files!vars
  BY <1>0, <1>8 DEF Files!Crash, Files!vars, DownloadInv, DownloadTypes, FilesFit, TokensFit
<1> QED BY <1>1, <1>2, <1>3, <1>4, <1>5, <1>6, <1>7, <1>8 DEF Files!Next

\* For any hosts, bodies, limits and redirects, directly or with curl: the target is a whole body
\* within the limit or was not touched, no temporary file is left after an end (downloadFileStreaming),
\* and the token was sent to one host at most, whatever the chain of redirects (githubHeaders).
THEOREM DownloadStaysSafe ==
  ASSUME DownloadConstants
  PROVE  Files!Spec => [](Files!WholeOrNothing /\ Files!TokenStaysAtItsHost)
<1>1. Files!Init => DownloadInv
  BY DownloadStarts
<1>2. DownloadInv /\ [Files!Next]_Files!vars => DownloadInv'
  BY DownloadStep
<1>3. DownloadInv => Files!WholeOrNothing /\ Files!TokenStaysAtItsHost
  BY DEF DownloadInv, FilesFit, TokensFit, Files!WholeOrNothing, Files!TokenStaysAtItsHost
<1> QED BY <1>1, <1>2, <1>3, PTL DEF Files!Spec

-----------------------------------------------------------------------------
(* UpdateInstaller.                                                         *)

CONSTANTS Updater, Release, Installed, Mode, Present, MaxFaults
VARIABLES bin, manifest, registered, cache, run, faults

Update == INSTANCE UpdateInstaller

Versions == Release \cup {Installed, 0}
Kinds    == {"genuine", "altered", "broken"}
Bytes    == {Update!None} \cup (Versions \X Kinds)
Agents   == Update!Agent \cup UNION Present
Closing  == {"remove", "add", "save", "saving"}
Stages   == {"idle", "load", "info", "inspect", "compare", "sums", "cli", "mcp", "verify", "attest", "probe",
             "put_cli", "put_mcp", "vault", "ended"} \cup Closing
Results  == {"none", "invalid", "unmanaged", "needed", "unneeded", "current", "failed", "repaired", "updated", "crashed"}
Command  ==
  [pc : Stages, install : BOOLEAN, tagged : BOOLEAN, target : Versions, mode : Mode \cup {"required"},
   was : Versions, agent : Update!Agent, added : SUBSET Update!Agent, alone : BOOLEAN, result : Results]
Manifest == [is : {"whole", "torn", "absent"}, version : Versions, registered : SUBSET Agents]

DiskTypes ==
  /\ bin \in [Update!Exe -> Bytes] /\ cache \in [Release -> [Update!File -> Bytes]]
  /\ manifest \in Manifest
  /\ DOMAIN registered \subseteq Agents /\ registered \in [DOMAIN registered -> BOOLEAN]

UpdateTypes == DiskTypes /\ run \in [Updater -> Command]

\* No updater has met another.
Lone == \A u \in Updater : run[u].alone

Put(v) == \A e \in Update!Exe : bin[e] = Update!Genuine(v)
Cached(v) == \A e \in Update!Exe : cache[v][e] = Update!Genuine(v)
Names(a) == a \in DOMAIN registered /\ registered[a] = TRUE
ReadsAs(v) == manifest.is = "whole" /\ manifest.version = v

\* The agents come one after the other, once the executables are in place.
AgentFits(n) ==
  /\ n.pc \notin Closing \cup {"ended"} => n.agent = "claude" /\ n.added = {}
  /\ n.pc \in {"remove", "add"} => n.agent \notin n.added /\ (n.agent = "claude" => n.added = {})

\* What a command with progress n relies on, if it is alone.
Fits(n) ==
  /\ n.pc \in {"inspect", "compare"} \/ (n.pc = "info" /\ n.install) => ReadsAs(n.was)
  /\ n.pc \in {"attest", "probe", "put_cli", "put_mcp"} => Cached(n.target)
  /\ n.pc = "put_mcp" => bin["cli"] = Update!Genuine(n.target)
  /\ n.pc = "vault" \/ n.pc \in Closing => Put(n.target)
  /\ n.pc \in Closing => \A a \in n.added : Names(a)
  /\ n.pc = "add" => n.agent \in DOMAIN registered

\* An executable is what was there at first or what was verified.
BinFits ==
  \A e \in Update!Exe :
    bin[e] \in {Update!None} \cup Update!Damaged(Installed) \cup {Update!Genuine(v) : v \in Release \cup {Installed}}

UpdateInv ==
  /\ UpdateTypes
  /\ \A u \in Updater : /\ AgentFits(run[u])
                        /\ \/ run[u] = Update!Idle
                           \/ run[u].pc # "idle" /\ run[u].target \in Release
  /\ Lone => /\ BinFits
             /\ \A u \in Updater : Fits(run[u])
             /\ \A u, w \in Updater : Update!Running(u) /\ Update!Running(w) => u = w

\* Bytes of a version.
LEMMA BytesOf ==
  /\ Update!None \in Bytes
  /\ \A v \in Versions : Update!Genuine(v) \in Bytes /\ Update!Damaged(v) \subseteq Bytes
<1>1. \A v \in Versions, k \in Kinds : <<v, k>> \in Versions \X Kinds
  OBVIOUS
<1> QED BY <1>1 DEF Bytes, Kinds, Update!Genuine, Update!Damaged

\* Before the first command.
LEMMA UpdateStarts == ASSUME Update!Init PROVE UpdateInv
<1>1. /\ Update!Idle \in Command /\ Update!Idle.pc = "idle" /\ Update!Idle.alone
      /\ Update!Idle.agent = "claude" /\ Update!Idle.added = {}
  BY DEF Update!Idle, Command, Stages, Versions, Results, Update!Agent
<1>2. \A u \in Updater : run[u] = Update!Idle
  BY DEF Update!Init
<1>3. UpdateTypes
  <2>1. bin \in [Update!Exe -> Bytes]
    <3>1. {Update!None, Update!Genuine(Installed)} \cup Update!Damaged(Installed) \subseteq Bytes
      BY BytesOf DEF Versions
    <3> QED BY <3>1 DEF Update!Init
  <2>2. cache \in [Release -> [Update!File -> Bytes]]
    BY BytesOf DEF Update!Init
  <2>3. PICK present \in Present : registered = [a \in present |-> TRUE]
    BY DEF Update!Init
  <2>4. /\ DOMAIN registered = present /\ present \subseteq Agents
        /\ registered \in [DOMAIN registered -> BOOLEAN]
    BY <2>3 DEF Agents
  <2>5. PICK is \in {"whole", "absent"} : manifest = [Update!Whole(Installed, present) EXCEPT !.is = is]
    BY <2>4 DEF Update!Init
  <2>6. manifest \in Manifest
    BY <2>4, <2>5 DEF Update!Whole, Manifest, Versions
  <2>7. run \in [Updater -> Command]
    BY <1>1 DEF Update!Init
  <2> QED BY <2>1, <2>2, <2>4, <2>6, <2>7 DEF UpdateTypes, DiskTypes
<1>4. BinFits
  BY DEF Update!Init, BinFits
<1>5. \A u \in Updater : Fits(run[u]) /\ AgentFits(run[u])
  BY <1>1, <1>2 DEF Fits, AgentFits, Closing
<1>6. \A u \in Updater : ~Update!Running(u)
  BY <1>1, <1>2 DEF Update!Running
<1> QED BY <1>2, <1>3, <1>4, <1>5, <1>6 DEF UpdateInv

\* What is known of a running command.
LEMMA RunningFits ==
  ASSUME UpdateInv, NEW u \in Updater, Update!Running(u)
  PROVE  /\ run[u] \in Command /\ DiskTypes /\ run \in [Updater -> Command]
         /\ run[u].target \in Release /\ AgentFits(run[u])
         /\ Lone => Fits(run[u]) /\ BinFits
BY DEF UpdateInv, UpdateTypes, Update!Running, Update!Idle

\* A running command goes on; nobody else is running unless it met another.
LEMMA CommandStep ==
  ASSUME UpdateInv, NEW u \in Updater, Update!Running(u), NEW n \in Command, run' = [run EXCEPT ![u] = n],
         n.alone = run[u].alone, n.target = run[u].target, n.pc # "idle", AgentFits(n),
         DiskTypes', Lone => BinFits' /\ Fits(n)'
  PROVE  UpdateInv'
<1>0. run \in [Updater -> Command]
  BY DEF UpdateInv, UpdateTypes
<1>1. run'[u] = n /\ \A w \in Updater \ {u} : run'[w] = run[w]
  BY <1>0
<1>2. UpdateTypes'
  BY <1>0 DEF UpdateTypes
<1>3. ASSUME NEW w \in Updater
      PROVE  /\ AgentFits(run'[w])
             /\ run'[w] = Update!Idle \/ (run'[w].pc # "idle" /\ run'[w].target \in Release)
  BY <1>1, RunningFits DEF UpdateInv
<1>4. ASSUME Lone' PROVE Lone
  BY <1>1, <1>4 DEF Lone
<1>5. ASSUME Lone', NEW w \in Updater, w # u
      PROVE  run'[w] = run[w] /\ ~Update!Running(w) /\ run[w].pc \in {"idle", "ended"}
  BY <1>1, <1>4, <1>5 DEF UpdateInv, Update!Running
<1>6. ASSUME Lone', NEW w \in Updater PROVE Fits(run[w])'
  <2>1. CASE w = u
    BY <1>1, <1>4, <1>6, <2>1 DEF Fits, ReadsAs, Cached, Put, Names
  <2>2. CASE w # u
    BY <1>5, <1>6, <2>2 DEF Fits, Closing
  <2> QED BY <2>1, <2>2
<1>7. ASSUME Lone', NEW w \in Updater, NEW x \in Updater, Update!Running(w)', Update!Running(x)' PROVE w = x
  BY <1>5, <1>7 DEF Update!Running
<1>8. \A w \in Updater : AgentFits(run[w])'
  BY <1>3 DEF AgentFits
<1> QED BY <1>2, <1>3, <1>4, <1>6, <1>7, <1>8 DEF UpdateInv

\* A command goes to another stage, up to the first agent, without touching what is installed.
LEMMA GotoStep ==
  ASSUME UpdateInv, NEW u \in Updater, Update!Running(u), run[u].pc \notin Closing,
         NEW pc \in Stages \ {"idle", "put_mcp", "add", "save", "saving"}, Update!Goto(u, pc),
         UNCHANGED <<bin, manifest, registered>>, cache' \in [Release -> [Update!File -> Bytes]],
         Lone => /\ pc \in {"inspect", "compare"} \/ (pc = "info" /\ run[u].install) => ReadsAs(run[u].was)
                 /\ pc \in {"attest", "probe", "put_cli"} =>
                      \A e \in Update!Exe : cache'[run[u].target][e] = Update!Genuine(run[u].target)
                 /\ pc \in {"vault", "remove"} => Put(run[u].target)
  PROVE  UpdateInv'
<1>1. PICK n : n = [run[u] EXCEPT !.pc = pc]
  OBVIOUS
<1>2. /\ n \in Command /\ n.alone = run[u].alone /\ n.target = run[u].target /\ n.pc = pc /\ n.was = run[u].was
      /\ n.install = run[u].install /\ n.agent = run[u].agent /\ n.added = run[u].added
      /\ run' = [run EXCEPT ![u] = n]
  BY <1>1, RunningFits DEF Command, Update!Goto
<1>3. n.agent = "claude" /\ n.added = {}
  BY <1>2, RunningFits DEF AgentFits, Update!Running
<1>4. AgentFits(n)
  BY <1>3 DEF AgentFits
<1>5. DiskTypes' /\ (Lone => BinFits')
  BY RunningFits DEF DiskTypes, BinFits
<1>6. ASSUME Lone PROVE Fits(n)'
  <2>1. n.pc \in Closing => n.pc = "remove"
    BY <1>2 DEF Closing
  <2> QED BY <1>2, <1>3, <1>6, <2>1 DEF Fits, ReadsAs, Cached, Put, Names
<1> QED BY <1>2, <1>4, <1>5, <1>6, CommandStep

\* A command ends, what is installed as it is.
LEMMA CommandEnds ==
  ASSUME UpdateInv, NEW u \in Updater, Update!Running(u), NEW result \in Results,
         Update!EndAs(u, result), UNCHANGED <<bin, registered, cache>>, manifest' \in Manifest
  PROVE  UpdateInv'
<1>1. PICK n : n = [run[u] EXCEPT !.pc = "ended", !.result = result]
  OBVIOUS
<1>2. /\ n \in Command /\ n.alone = run[u].alone /\ n.target = run[u].target /\ n.pc = "ended"
      /\ run' = [run EXCEPT ![u] = n]
  BY <1>1, RunningFits DEF Command, Stages, Update!EndAs
<1>3. AgentFits(n) /\ Fits(n)'
  BY <1>2 DEF AgentFits, Fits, Closing
<1>4. DiskTypes' /\ (Lone => BinFits')
  BY RunningFits DEF DiskTypes, BinFits
<1> QED BY <1>2, <1>3, <1>4, CommandStep

\* A command starts, and is alone if no other runs.
LEMMA CommandStarts ==
  ASSUME UpdateInv, NEW u \in Updater, NEW v \in Release, NEW install \in BOOLEAN, NEW tagged \in BOOLEAN,
         NEW m \in Mode, Update!Start(u, v, install, tagged, m)
  PROVE  UpdateInv'
<1>0. /\ UpdateTypes /\ run \in [Updater -> Command] /\ UNCHANGED <<bin, manifest, registered, cache>>
      /\ run[u] = Update!Idle /\ Update!Idle.pc = "idle" /\ Update!Idle.alone
      /\ Update!Idle.agent = "claude" /\ Update!Idle.added = {}
  BY DEF UpdateInv, UpdateTypes, Update!Start, Update!Idle
<1>1. PICK others : others = {w \in Updater \ {u} : Update!Running(w)}
  OBVIOUS
<1>2. PICK alone \in BOOLEAN : alone = (others = {})
  OBVIOUS
<1>3. PICK pc \in {"load", "info"} : pc = IF install THEN "load" ELSE "info"
  OBVIOUS
<1>4. PICK n : n = [Update!Idle EXCEPT !.pc = pc, !.install = install, !.tagged = tagged, !.target = v, !.mode = m,
                                       !.alone = alone]
  OBVIOUS
<1>5. /\ n \in Command /\ n.pc = pc /\ n.target = v /\ n.alone = alone /\ n.install = install
      /\ n.agent = "claude" /\ n.added = {}
  <2>1. v \in Versions /\ 0 \in Versions /\ m \in Mode \cup {"required"}
    BY DEF Versions
  <2> QED BY <1>4, <2>1 DEF Command, Stages, Results, Update!Agent, Update!Idle
<1>6. run' = [w \in Updater |-> IF w = u THEN n
                                ELSE IF w \in others THEN [run[w] EXCEPT !.alone = FALSE] ELSE run[w]]
  <2>1. \A w \in Updater : run'[w] = IF w = u THEN n
                                     ELSE IF w \in others THEN [run[w] EXCEPT !.alone = FALSE] ELSE run[w]
    BY <1>1, <1>2, <1>3, <1>4 DEF Update!Start, Update!Idle
  <2>2. run' = [w \in Updater |-> run'[w]]
    BY DEF Update!Start
  <2> QED BY <2>1, <2>2
<1>7. \A w \in others : w \in Updater /\ w # u /\ Update!Running(w)
  BY <1>1
<1>8. \A w \in Updater : /\ run'[w] \in Command
                         /\ w # u /\ w \notin others => run'[w] = run[w]
                         /\ w \in others => /\ run'[w].alone = FALSE /\ run'[w].pc = run[w].pc
                                            /\ run'[w].target = run[w].target
                                            /\ run'[w].agent = run[w].agent /\ run'[w].added = run[w].added
  BY <1>0, <1>5, <1>6, <1>7 DEF Command
<1>9. UpdateTypes'
  BY <1>0, <1>6, <1>8 DEF UpdateTypes, DiskTypes
<1>10. run'[u] = n
  BY <1>6
<1>11. AgentFits(n)
  BY <1>5 DEF AgentFits
<1>12. ASSUME NEW w \in Updater
       PROVE  AgentFits(run'[w]) /\ (run'[w] = Update!Idle \/ (run'[w].pc # "idle" /\ run'[w].target \in Release))
  <2>1. CASE w = u
    BY <1>3, <1>5, <1>10, <1>11, <2>1
  <2>2. CASE w \in others
    <3>1. AgentFits(run[w]) /\ run[w].pc # "idle" /\ run[w].target \in Release
      BY <1>7, <2>2, RunningFits DEF Update!Running
    <3> QED BY <1>8, <2>2, <3>1 DEF AgentFits
  <2>3. CASE w # u /\ w \notin others
    BY <1>8, <2>3 DEF UpdateInv
  <2> QED BY <2>1, <2>2, <2>3
<1>13. ASSUME Lone' PROVE others = {} /\ Lone
  <2>1. others = {}
    BY <1>7, <1>8, <1>13 DEF Lone
  <2> QED BY <1>0, <1>8, <1>13, <2>1 DEF Lone
<1>14. ASSUME Lone', NEW w \in Updater PROVE Fits(run[w])'
  <2>1. CASE w = u
    <3>1. n.pc \notin {"inspect", "compare", "attest", "probe", "put_cli", "put_mcp", "vault", "add"} \cup Closing
      BY <1>3, <1>5 DEF Closing
    <3>2. ~(n.pc = "info" /\ n.install)
      BY <1>3, <1>5
    <3> QED BY <1>10, <2>1, <3>1, <3>2 DEF Fits
  <2>2. CASE w # u
    <3>1. run'[w] = run[w] /\ Fits(run[w])
      BY <1>8, <1>13, <1>14, <2>2 DEF UpdateInv
    <3> QED BY <1>0, <3>1 DEF Fits, ReadsAs, Cached, Put, Names
  <2> QED BY <2>1, <2>2
<1>15. ASSUME Lone', NEW w \in Updater, NEW x \in Updater, Update!Running(w)', Update!Running(x)' PROVE w = x
  <2>1. \A y \in Updater \ {u} : ~Update!Running(y)'
    BY <1>1, <1>8, <1>13, <1>15 DEF Update!Running
  <2> QED BY <1>15, <2>1
<1>16. ASSUME Lone' PROVE BinFits'
  BY <1>0, <1>13, <1>16 DEF UpdateInv, BinFits
<1>17. \A w \in Updater : AgentFits(run[w])'
  BY <1>12 DEF AgentFits
<1> QED BY <1>9, <1>12, <1>14, <1>15, <1>16, <1>17 DEF UpdateInv

\* The release and the manifest are asked for.
LEMMA LoadStep ==
  ASSUME UpdateInv, NEW u \in Updater, Update!ReleaseInfo(u) \/ Update!LoadManifest(u) PROVE UpdateInv'
<1>0. /\ Update!Running(u) /\ UNCHANGED <<bin, manifest, registered, cache>>
      /\ run[u].pc \in {"info", "load"} /\ run[u].pc \notin Closing
      /\ {"load", "info", "inspect"} \subseteq Stages \ {"idle", "put_mcp", "add", "save", "saving"}
  BY DEF Update!Running, Update!ReleaseInfo, Update!LoadManifest, Closing, Stages
<1>1. CASE Update!ReleaseInfo(u)
  <2>1. PICK pc \in {"inspect", "load"} : Update!Goto(u, pc) /\ (pc = "inspect" => run[u].install)
    BY <1>1 DEF Update!ReleaseInfo
  <2>2. Lone /\ pc = "inspect" => ReadsAs(run[u].was)
    BY <1>0, <1>1, <2>1, RunningFits DEF Fits, Update!ReleaseInfo
  <2>3. cache' \in [Release -> [Update!File -> Bytes]]
    BY <1>0, RunningFits DEF DiskTypes
  <2> QED BY <1>0, <2>1, <2>2, <2>3, GotoStep
<1>2. CASE Update!LoadManifest(u) /\ \E r \in Results : Update!EndAs(u, r)
  BY <1>0, <1>2, RunningFits, CommandEnds DEF DiskTypes
<1>3. CASE Update!LoadManifest(u) /\ ~\E r \in Results : Update!EndAs(u, r)
  <2>1. PICK pc \in {"info", "inspect"} :
          /\ run' = [run EXCEPT ![u].pc = pc, ![u].was = manifest.version]
          /\ manifest.is = "whole"
    BY <1>3 DEF Update!LoadManifest, Results
  <2>2. PICK n : n = [run[u] EXCEPT !.pc = pc, !.was = manifest.version]
    OBVIOUS
  <2>3. /\ n \in Command /\ n.alone = run[u].alone /\ n.target = run[u].target /\ n.pc = pc
        /\ n.was = manifest.version /\ n.agent = run[u].agent /\ n.added = run[u].added
        /\ run' = [run EXCEPT ![u] = n]
    <3>1. manifest.version \in Versions /\ pc \in Stages /\ run[u] \in Command
      BY <1>0, <2>1, RunningFits DEF DiskTypes, Manifest, Stages
    <3> QED BY <2>1, <2>2, <3>1, RunningFits, <1>0 DEF Command
  <2>4. AgentFits(n)
    BY <1>0, <2>1, <2>3, RunningFits DEF AgentFits, Closing
  <2>5. Fits(n)'
    BY <1>0, <2>1, <2>3 DEF Fits, ReadsAs, Closing
  <2>6. DiskTypes' /\ (Lone => BinFits')
    BY <1>0, RunningFits DEF DiskTypes, BinFits
  <2> QED BY <1>0, <2>1, <2>3, <2>4, <2>5, <2>6, CommandStep
<1> QED BY <1>1, <1>2, <1>3

\* The installed executables are inspected and compared.
LEMMA InspectStep == ASSUME UpdateInv, NEW u \in Updater,
                            Update!Inspect(u) \/ Update!Compare(u) PROVE UpdateInv'
<1>0. /\ Update!Running(u) /\ UNCHANGED <<bin, manifest, registered, cache>>
      /\ run[u].pc \in {"inspect", "compare"} /\ run[u].pc \notin Closing
      /\ {"compare", "sums"} \subseteq Stages \ {"idle", "put_mcp", "add", "save", "saving"}
  BY DEF Update!Running, Update!Inspect, Update!Compare, Closing, Stages
<1>1. \/ \E pc \in {"compare", "sums"} : Update!Goto(u, pc)
      \/ \E r \in Results : Update!EndAs(u, r)
  BY DEF Update!Inspect, Update!Compare, Results
<1>2. Lone => ReadsAs(run[u].was)
  BY <1>0, RunningFits DEF Fits
<1>3. cache' \in [Release -> [Update!File -> Bytes]] /\ manifest' \in Manifest
  BY <1>0, RunningFits DEF DiskTypes
<1>4. CASE \E pc \in {"compare", "sums"} : Update!Goto(u, pc)
  BY <1>0, <1>2, <1>3, <1>4, GotoStep
<1>5. CASE \E r \in Results : Update!EndAs(u, r)
  BY <1>0, <1>3, <1>5, CommandEnds
<1> QED BY <1>1, <1>4, <1>5

\* A file of the release arrives.
LEMMA FileArrives == ASSUME UpdateInv, NEW u \in Updater, Update!Download(u) PROVE UpdateInv'
<1>0. /\ run[u].pc \in Update!File /\ Update!Running(u) /\ UNCHANGED <<bin, manifest, registered>>
      /\ run[u].pc \notin Closing
  BY DEF Update!Download, Update!File, Update!Exe, Update!Running, Closing
<1>1. PICK v \in Versions : v = run[u].target
  BY <1>0, RunningFits DEF Command
<1>2. PICK bytes \in Bytes : cache' = [cache EXCEPT ![v][run[u].pc] = bytes] /\ Update!Goto(u, Update!After(run[u].pc))
  BY <1>1, BytesOf DEF Update!Download
<1>3. cache' \in [Release -> [Update!File -> Bytes]]
  BY <1>0, <1>2, RunningFits DEF DiskTypes
<1>4. Update!After(run[u].pc) \in {"cli", "mcp", "verify"}
  BY <1>0 DEF Update!After, Update!File, Update!Exe
<1>5. Update!After(run[u].pc) \in Stages \ {"idle", "put_mcp", "add", "save", "saving"}
  BY <1>4 DEF Stages
<1> QED BY <1>0, <1>2, <1>3, <1>4, <1>5, GotoStep

\* The release is verified and tried.
LEMMA VerifyStep ==
  ASSUME UpdateInv, NEW u \in Updater, Update!Verify(u) \/ Update!Attest(u) \/ Update!Probe(u) \/ Update!ResolveVault(u)
  PROVE  UpdateInv'
<1>0. Update!Running(u) /\ UNCHANGED <<bin, manifest, registered, cache>> /\ run[u].pc \notin Closing
  BY DEF Update!Running, Update!Verify, Update!Attest, Update!Probe, Update!ResolveVault, Closing
<1>1. PICK v : v = run[u].target
  OBVIOUS
<1>2. \/ Update!EndAs(u, "failed")
      \/ Update!SumsMatch(v) /\ Update!Goto(u, "attest")
      \/ run[u].pc = "attest" /\ Update!Goto(u, "probe")
      \/ run[u].pc = "probe" /\ Update!Goto(u, "put_cli")
      \/ run[u].pc = "vault" /\ Update!Goto(u, "remove")
  BY <1>1 DEF Update!Verify, Update!Attest, Update!Probe, Update!ResolveVault
<1>3. /\ cache' \in [Release -> [Update!File -> Bytes]] /\ manifest' \in Manifest /\ "failed" \in Results
      /\ {"attest", "probe", "put_cli", "remove"} \subseteq Stages \ {"idle", "put_mcp", "add", "save", "saving"}
  BY <1>0, RunningFits DEF DiskTypes, Stages, Closing, Results
<1>4. CASE Update!EndAs(u, "failed")
  BY <1>0, <1>3, <1>4, CommandEnds
<1>5. CASE Update!SumsMatch(v) /\ Update!Goto(u, "attest")
  <2>1. \A e \in Update!Exe : cache'[v][e] = Update!Genuine(v)
    BY <1>0, <1>5 DEF Update!SumsMatch, Update!File, Update!Exe
  <2> QED BY <1>0, <1>1, <1>3, <1>5, <2>1, GotoStep
<1>6. CASE run[u].pc \in {"attest", "probe"} /\ \E pc \in {"probe", "put_cli"} : Update!Goto(u, pc)
  <2>1. Lone => \A e \in Update!Exe : cache'[v][e] = Update!Genuine(v)
    BY <1>0, <1>1, <1>6, RunningFits DEF Fits, Cached
  <2> QED BY <1>0, <1>1, <1>3, <1>6, <2>1, GotoStep
<1>7. CASE run[u].pc = "vault" /\ Update!Goto(u, "remove")
  <2>1. Lone => Put(v)
    BY <1>0, <1>1, <1>7, RunningFits DEF Fits
  <2> QED BY <1>0, <1>1, <1>3, <1>7, <2>1, GotoStep
<1> QED BY <1>2, <1>4, <1>5, <1>6, <1>7

\* An executable is renamed into place.
LEMMA InstallsStep == ASSUME UpdateInv, NEW u \in Updater, Update!InstallExecutables(u) PROVE UpdateInv'
<1>0. Update!Running(u) /\ UNCHANGED <<manifest, registered, cache>> /\ run[u].pc \in {"put_cli", "put_mcp"}
  BY DEF Update!Running, Update!InstallExecutables, Update!InstallExecutable
<1>1. PICK v : v = run[u].target
  OBVIOUS
<1>2. PICK e \in Update!Exe, next \in {"put_mcp", "vault"} :
        /\ bin' = [bin EXCEPT ![e] = cache[v][e]] /\ Update!Goto(u, next)
        /\ (run[u].pc = "put_cli" /\ e = "cli" /\ next = "put_mcp") \/ (run[u].pc = "put_mcp" /\ e = "mcp" /\ next = "vault")
  <2>1. CASE run[u].pc = "put_cli" /\ Update!InstallExecutable(u, "cli", "put_mcp")
    BY <1>1, <2>1 DEF Update!InstallExecutable, Update!Exe
  <2>2. CASE run[u].pc = "put_mcp" /\ Update!InstallExecutable(u, "mcp", "vault")
    BY <1>1, <2>2 DEF Update!InstallExecutable, Update!Exe
  <2> QED BY <2>1, <2>2 DEF Update!InstallExecutables
<1>3. PICK n : n = [run[u] EXCEPT !.pc = next]
  OBVIOUS
<1>4. next \in Stages
  BY DEF Stages
<1>5. /\ n \in Command /\ n.alone = run[u].alone /\ n.target = v /\ n.pc = next
      /\ n.agent = run[u].agent /\ n.added = run[u].added
      /\ run' = [run EXCEPT ![u] = n]
  BY <1>0, <1>1, <1>2, <1>3, <1>4, RunningFits DEF Command, Update!Goto
<1>6. /\ bin \in [Update!Exe -> Bytes] /\ cache \in [Release -> [Update!File -> Bytes]]
      /\ v \in Release /\ e \in Update!File
  BY <1>0, <1>1, RunningFits DEF DiskTypes, Update!File
<1>7. DiskTypes'
  BY <1>0, <1>2, <1>6, RunningFits DEF DiskTypes
<1>8. AgentFits(n)
  <2>1. n.agent = "claude" /\ n.added = {}
    BY <1>0, <1>5, RunningFits DEF AgentFits, Closing
  <2> QED BY <2>1 DEF AgentFits
<1>9. ASSUME Lone PROVE BinFits' /\ Fits(n)'
  <2>1. Cached(v) /\ BinFits /\ (run[u].pc = "put_mcp" => bin["cli"] = Update!Genuine(v))
    BY <1>0, <1>1, <1>9, RunningFits DEF Fits
  <2>2. bin'[e] = Update!Genuine(v) /\ \A f \in Update!Exe \ {e} : bin'[f] = bin[f]
    BY <1>2, <1>6, <2>1 DEF Cached
  <2>3. BinFits'
    BY <1>6, <2>1, <2>2 DEF BinFits
  <2>4. next = "vault" => Put(v)'
    BY <1>2, <2>1, <2>2 DEF Put, Update!Exe
  <2>5. next = "put_mcp" => bin'["cli"] = Update!Genuine(v) /\ Cached(v)'
    BY <1>0, <1>2, <2>1, <2>2 DEF Cached
  <2> QED BY <1>2, <1>5, <2>3, <2>4, <2>5 DEF Fits, Closing
<1> QED BY <1>0, <1>1, <1>5, <1>7, <1>8, <1>9, <1>2, CommandStep

\* The server is registered again with an agent.
LEMMA RegisterStep == ASSUME UpdateInv, NEW u \in Updater, Update!RefreshRegistration(u) PROVE UpdateInv'
<1>0. /\ Update!Running(u) /\ UNCHANGED <<bin, manifest, cache>> /\ run[u].pc \in {"remove", "add"}
      /\ {"remove", "add", "save"} \subseteq Stages \cap Closing
  BY DEF Update!Running, Update!RefreshRegistration, Stages, Closing
<1>1. PICK a \in Update!Agent : a = run[u].agent
  BY <1>0, RunningFits DEF Command
<1>2. PICK gained \in SUBSET {a}, next \in {"remove", "add", "save"} :
        /\ run' = [run EXCEPT ![u].pc = next, ![u].agent = IF next = "add" THEN a ELSE "codex",
                              ![u].added = @ \cup gained]
        /\ (registered' = registered) \/ \E b \in BOOLEAN : registered' = [registered EXCEPT ![a] = b]
        /\ gained # {} => registered' = [registered EXCEPT ![a] = TRUE] /\ run[u].pc = "add"
        /\ next = "add" => gained = {} /\ a \in DOMAIN registered
        /\ next = "remove" => a = "claude"
  <2>1. CASE Update!Goto(u, "add")
    <3>1. run[u].pc = "remove" /\ a \in DOMAIN registered
      BY <1>1, <2>1, <1>0, RunningFits
        DEF Update!RefreshRegistration, Update!Goto, Update!NextAgent, Command
    <3>2. run' = [run EXCEPT ![u].pc = "add", ![u].agent = a, ![u].added = @ \cup {}]
      BY <1>0, <1>1, <2>1, RunningFits DEF Update!Goto, Command
    <3> QED BY <1>1, <3>1, <3>2 DEF Update!RefreshRegistration
  <2>2. CASE ~Update!Goto(u, "add")
    <3>1. PICK gained \in {{}, {a}} :
            /\ Update!NextAgent(u, gained)
            /\ (registered' = registered) \/ \E b \in BOOLEAN : registered' = [registered EXCEPT ![a] = b]
            /\ gained # {} => registered' = [registered EXCEPT ![a] = TRUE] /\ run[u].pc = "add"
      BY <1>1, <2>2 DEF Update!RefreshRegistration
    <3>2. PICK next \in {"remove", "save"} : next = IF a = "claude" THEN "remove" ELSE "save"
      OBVIOUS
    <3>3. run' = [run EXCEPT ![u].pc = next, ![u].agent = IF next = "add" THEN a ELSE "codex",
                             ![u].added = @ \cup gained]
      BY <1>1, <3>1, <3>2 DEF Update!NextAgent
    <3> QED BY <3>1, <3>2, <3>3
  <2> QED BY <2>1, <2>2
<1>3. PICK agent \in Update!Agent : agent = IF next = "add" THEN a ELSE "codex"
  BY DEF Update!Agent
<1>4. PICK n : n = [run[u] EXCEPT !.pc = next, !.agent = agent, !.added = @ \cup gained]
  OBVIOUS
<1>5. /\ n \in Command /\ n.alone = run[u].alone /\ n.target = run[u].target /\ n.pc = next
      /\ n.agent = agent /\ n.added = run[u].added \cup gained
      /\ run' = [run EXCEPT ![u] = n]
  <2>1. /\ run[u] \in Command /\ run \in [Updater -> Command] /\ run[u].added \cup gained \in SUBSET Update!Agent
        /\ next \in Stages
    BY <1>0, <1>1, RunningFits DEF Command
  <2> QED BY <1>2, <1>3, <1>4, <2>1 DEF Command
<1>6. a \notin run[u].added /\ (a = "claude" => run[u].added = {})
  BY <1>0, <1>1, RunningFits DEF AgentFits
<1>7. AgentFits(n)
  <2>1. CASE next = "add"
    BY <1>2, <1>3, <1>5, <1>6, <2>1 DEF AgentFits, Closing
  <2>2. CASE next = "remove"
    <3>1. n.agent = "codex" /\ n.added \subseteq {"claude"}
      BY <1>2, <1>3, <1>5, <1>6, <2>2
    <3> QED BY <1>5, <2>2, <3>1 DEF AgentFits, Closing
  <2>3. CASE next = "save"
    BY <1>5, <2>3 DEF AgentFits, Closing
  <2> QED BY <2>1, <2>2, <2>3
<1>8. /\ DOMAIN registered' = DOMAIN registered
      /\ registered' \in [DOMAIN registered -> BOOLEAN]
      /\ DOMAIN registered \subseteq Agents
  BY <1>0, <1>2, RunningFits DEF DiskTypes
<1>9. DiskTypes'
  BY <1>0, <1>8, RunningFits DEF DiskTypes
<1>10. ASSUME Lone PROVE Fits(n)'
  <2>1. /\ Put(n.target) /\ \A b \in run[u].added : Names(b)
        /\ run[u].pc = "add" => a \in DOMAIN registered
    BY <1>0, <1>1, <1>5, <1>10, RunningFits DEF Fits, Closing
  <2>2. Put(n.target)'
    BY <1>0, <2>1 DEF Put
  <2>3. ASSUME NEW b \in n.added PROVE Names(b)'
    <3>1. CASE b \in run[u].added
      <4>1. b # a /\ Names(b)
        BY <1>6, <2>1, <3>1
      <4>2. registered'[b] = registered[b]
        BY <1>2, <4>1 DEF Names
      <4> QED BY <1>8, <4>1, <4>2 DEF Names
    <3>2. CASE b \notin run[u].added
      <4>1. b = a /\ a \in DOMAIN registered /\ registered' = [registered EXCEPT ![a] = TRUE]
        BY <1>2, <1>5, <2>1, <2>3, <3>2
      <4> QED BY <1>8, <4>1 DEF Names
    <3> QED BY <3>1, <3>2
  <2>4. next = "add" => n.agent \in DOMAIN registered'
    BY <1>2, <1>3, <1>5, <1>8
  <2> QED BY <1>2, <1>5, <2>2, <2>3, <2>4 DEF Fits
<1>11. Lone => BinFits'
  BY <1>0, RunningFits DEF BinFits
<1> QED BY <1>0, <1>2, <1>5, <1>7, <1>9, <1>10, <1>11, CommandStep

\* The manifest is written in place, and the command ends.
LEMMA SaveStep == ASSUME UpdateInv, NEW u \in Updater, Update!SaveManifest(u) PROVE UpdateInv'
<1>0. /\ Update!Running(u) /\ UNCHANGED <<bin, registered, cache>> /\ run[u].pc \in {"save", "saving"}
  BY DEF Update!Running, Update!SaveManifest
<1>1. CASE run[u].pc = "save"
  <2>1. manifest' = [manifest EXCEPT !.is = "torn"] /\ Update!Goto(u, "saving")
    BY <1>1 DEF Update!SaveManifest
  <2>2. PICK n : n = [run[u] EXCEPT !.pc = "saving"]
    OBVIOUS
  <2>3. /\ n \in Command /\ n.alone = run[u].alone /\ n.target = run[u].target /\ n.pc = "saving"
        /\ n.agent = run[u].agent /\ n.added = run[u].added
        /\ run' = [run EXCEPT ![u] = n]
    BY <1>0, <2>1, <2>2, RunningFits DEF Command, Stages, Closing, Update!Goto
  <2>4. AgentFits(n)
    BY <2>3 DEF AgentFits, Closing
  <2>5. manifest' \in Manifest
    BY <1>0, <2>1, RunningFits DEF DiskTypes, Manifest
  <2>6. DiskTypes' /\ (Lone => BinFits')
    BY <1>0, <2>5, RunningFits DEF DiskTypes, BinFits
  <2>7. ASSUME Lone PROVE Fits(n)'
    <3>1. Put(n.target) /\ \A a \in n.added : Names(a)
      BY <1>0, <1>1, <2>3, <2>7, RunningFits DEF Fits, Closing
    <3>2. Put(n.target)' /\ \A a \in n.added : Names(a)'
      BY <1>0, <3>1 DEF Put, Names
    <3> QED BY <2>3, <3>2 DEF Fits
  <2> QED BY <1>0, <2>3, <2>4, <2>6, <2>7, CommandStep
<1>2. CASE run[u].pc = "saving"
  <2>1. /\ manifest' = Update!Whole(run[u].target, run[u].added)
        /\ \E r \in Results : Update!EndAs(u, r)
    BY <1>2 DEF Update!SaveManifest, Results
  <2>2. run[u].target \in Versions /\ run[u].added \in SUBSET Agents
    BY <1>0, RunningFits DEF Command, Agents
  <2>3. manifest' \in Manifest
    BY <2>1, <2>2 DEF Manifest, Update!Whole
  <2> QED BY <1>0, <2>1, <2>3, CommandEnds
<1> QED BY <1>0, <1>1, <1>2

\* A step fails or a command dies.
LEMMA FailStep == ASSUME UpdateInv, NEW u \in Updater,
                         Update!StepFails(u) \/ Update!Crash(u) PROVE UpdateInv'
<1>1. /\ Update!Running(u) /\ UNCHANGED <<bin, manifest, registered, cache>>
      /\ \E r \in Results : Update!EndAs(u, r)
  BY DEF Update!Running, Update!StepFails, Update!Crash, Update!File, Update!Exe, Results
<1>2. manifest' \in Manifest
  BY <1>1, RunningFits DEF DiskTypes
<1> QED BY <1>1, <1>2, CommandEnds

\* Every step of an update.
LEMMA UpdateSteps == ASSUME UpdateInv, [Update!Next]_(Update!vars) PROVE UpdateInv'
<1>1. ASSUME NEW u \in Updater, NEW v \in Release, NEW install \in BOOLEAN, NEW tagged \in BOOLEAN, NEW m \in Mode,
             Update!Start(u, v, install, tagged, m)
      PROVE  UpdateInv'
  BY <1>1, CommandStarts
<1>2. ASSUME NEW u \in Updater,
             \/ Update!ReleaseInfo(u) \/ Update!LoadManifest(u) \/ Update!Inspect(u) \/ Update!Compare(u)
             \/ Update!Download(u) \/ Update!Verify(u) \/ Update!Attest(u) \/ Update!Probe(u)
             \/ Update!InstallExecutables(u) \/ Update!ResolveVault(u) \/ Update!RefreshRegistration(u)
             \/ Update!SaveManifest(u) \/ Update!StepFails(u) \/ Update!Crash(u)
      PROVE  UpdateInv'
  BY <1>2, LoadStep, InspectStep, FileArrives, VerifyStep, InstallsStep, RegisterStep, SaveStep, FailStep
<1>3. ASSUME UNCHANGED Update!vars PROVE UpdateInv'
  <2>1. bin' = bin /\ manifest' = manifest /\ registered' = registered /\ cache' = cache /\ run' = run
    BY <1>3 DEF Update!vars
  <2>2. UpdateTypes' /\ (Lone' => Lone /\ BinFits')
    BY <2>1 DEF UpdateInv, UpdateTypes, DiskTypes, Lone, BinFits
  <2>3. \A u \in Updater : (Fits(run[u]) => Fits(run[u])') /\ (AgentFits(run[u]) => AgentFits(run[u])')
    BY <2>1 DEF Fits, AgentFits, ReadsAs, Cached, Put, Names
  <2> QED BY <2>1, <2>2, <2>3 DEF UpdateInv, Update!Running
<1> QED BY <1>1, <1>2, <1>3 DEF Update!Next

\* UpdateInstaller: an updater that met no other installs only what it verified (parts update and lone update of
\* UpdateIsTrue).
THEOREM InstallsStayVerified == Update!Spec => []Update!InstallsWhatItVerified
<1>1. UpdateInv => Update!InstallsWhatItVerified
  BY DEF UpdateInv, Lone, BinFits, Update!InstallsWhatItVerified
<1>2. Update!Init => UpdateInv
  BY UpdateStarts
<1>3. UpdateInv /\ [Update!Next]_(Update!vars) => UpdateInv'
  BY UpdateSteps
<1> QED BY <1>1, <1>2, <1>3, PTL DEF Update!Spec

\* What a step says of the results of the commands.
LEMMA ResultsOf ==
  ASSUME UpdateInv, NEW w \in Updater, NEW u \in Updater
  PROVE  /\ \A pc : Update!Goto(w, pc) => run'[u].result = run[u].result
         /\ \A r : Update!EndAs(w, r) => /\ run'[u].alone = run[u].alone /\ run'[u].target = run[u].target
                                         /\ run'[u].result = run[u].result \/ (u = w /\ run'[u].result = r)
<1>1. run \in [Updater -> Command] /\ run[w] \in Command
  BY DEF UpdateInv, UpdateTypes
<1>2. ASSUME NEW pc, Update!Goto(w, pc) PROVE run'[u].result = run[u].result
  BY <1>1, <1>2 DEF Update!Goto, Command
<1>3. ASSUME NEW r, Update!EndAs(w, r)
      PROVE  /\ run'[u].alone = run[u].alone /\ run'[u].target = run[u].target
             /\ run'[u].result = run[u].result \/ (u = w /\ run'[u].result = r)
  <2>1. PICK n : n = [run[w] EXCEPT !.pc = "ended", !.result = r]
    OBVIOUS
  <2>2. n.alone = run[w].alone /\ n.target = run[w].target /\ n.result = r /\ run' = [run EXCEPT ![w] = n]
    BY <1>1, <1>3, <2>1 DEF Update!EndAs, Command
  <2> QED BY <1>1, <2>2
<1> QED BY <1>2, <1>3

\* What is true when a command has ended well.
TruthTold(u) ==
  /\ Put(run[u].target) /\ ReadsAs(run[u].target)
  /\ run[u].result # "current" => \A a \in manifest.registered : Names(a)

\* A command that ends well is the one whose step it is, and what it says is so.
LEMMA WellEnded ==
  ASSUME UpdateInv, NEW w \in Updater, NEW u \in Updater, Lone', run'[u].result # run[u].result,
         NEW r \in {"current", "updated", "repaired"}, Update!EndAs(w, r), UNCHANGED <<bin, registered>>,
         Lone => /\ manifest'.is = "whole" /\ manifest'.version = run[w].target /\ Put(run[w].target)
                 /\ r # "current" => \A a \in manifest'.registered : Names(a)
  PROVE  TruthTold(u)'
<1>1. \A x \in Updater : run'[x].alone = run[x].alone
  BY ResultsOf
<1>2. Lone
  BY <1>1 DEF Lone
<1>3. u = w /\ run'[u].target = run[w].target /\ run'[u].result = r
  BY ResultsOf
<1> QED BY <1>2, <1>3 DEF TruthTold, ReadsAs, Put, Names

\* A command that met no other and ends well leaves both executables as the target's, the manifest says so, and an
\* agent that it names is registered (parts update and lone update of UpdateIsTrue).
THEOREM SuccessStaysTrue == Update!Spec => [][Update!SuccessIsTrue]_(Update!vars)
<1>1. ASSUME UpdateInv, Update!Next PROVE Update!SuccessIsTrue
  <2> SUFFICES ASSUME NEW u \in Updater, Lone', run'[u].result # run[u].result,
                      run'[u].result \in {"current", "updated", "repaired"}
               PROVE  TruthTold(u)'
    <3>1. ASSUME NEW u \in Updater, TruthTold(u)'
          PROVE  /\ \A e \in Update!Exe : bin'[e] = Update!Genuine(run'[u].target)
                 /\ manifest'.is = "whole" /\ manifest'.version = run'[u].target
                 /\ run'[u].result # "current" => \A a \in manifest'.registered : a \in DOMAIN registered' /\ registered'[a]
      BY <3>1 DEF TruthTold, Put, ReadsAs, Names
    <3> QED BY <3>1 DEF Update!SuccessIsTrue, Lone
  <2>0. run \in [Updater -> Command]
    BY <1>1 DEF UpdateInv, UpdateTypes
  <2>1. ASSUME NEW w \in Updater, NEW v \in Release, NEW install \in BOOLEAN, NEW tagged \in BOOLEAN, NEW m \in Mode,
               Update!Start(w, v, install, tagged, m)
        PROVE  FALSE
    <3>1. CASE u = w
      <4>1. run[w] = Update!Idle
        BY <2>1 DEF Update!Start
      <4>2. run'[w].result = "none"
        BY <2>1, <4>1 DEF Update!Start, Update!Idle
      <4> QED BY <3>1, <4>2
    <3>2. CASE u # w
      <4>1. run'[u] = run[u] \/ run'[u] = [run[u] EXCEPT !.alone = FALSE]
        BY <2>1, <3>2 DEF Update!Start
      <4>2. run'[u].result = run[u].result
        BY <2>0, <4>1 DEF Command
      <4> QED BY <4>2
    <3> QED BY <3>1, <3>2
  <2>2. ASSUME NEW w \in Updater, NEW r, Update!EndAs(w, r), r \notin {"current", "updated", "repaired"}
        PROVE FALSE
    BY <1>1, <2>2, ResultsOf
  <2>3. ASSUME NEW w \in Updater, NEW pc, Update!Goto(w, pc) PROVE FALSE
    BY <1>1, <2>3, ResultsOf
  <2>4. ASSUME NEW w \in Updater, Update!LoadManifest(w) PROVE FALSE
    <3>1. CASE \E r : Update!EndAs(w, r) /\ r \notin {"current", "updated", "repaired"}
      BY <2>2, <3>1
    <3>2. CASE ~\E r : Update!EndAs(w, r) /\ r \notin {"current", "updated", "repaired"}
      <4>1. PICK pc \in {"info", "inspect"} : run' = [run EXCEPT ![w].pc = pc, ![w].was = manifest.version]
        BY <2>4, <3>2 DEF Update!LoadManifest
      <4>2. run'[u].result = run[u].result
        BY <2>0, <4>1 DEF Command
      <4> QED BY <4>2
    <3> QED BY <3>1, <3>2
  <2>5. ASSUME NEW w \in Updater,
               \/ Update!ReleaseInfo(w) \/ Update!Download(w) \/ Update!InstallExecutables(w) \/ Update!ResolveVault(w)
        PROVE  FALSE
    BY <2>3, <2>5
      DEF Update!ReleaseInfo, Update!Download, Update!InstallExecutables, Update!InstallExecutable, Update!ResolveVault
  <2>6. ASSUME NEW w \in Updater,
               \/ Update!Inspect(w) \/ Update!Verify(w) \/ Update!Attest(w) \/ Update!Probe(w)
               \/ Update!StepFails(w) \/ Update!Crash(w)
        PROVE  FALSE
    BY <2>2, <2>3, <2>6
      DEF Update!Inspect, Update!Verify, Update!Attest, Update!Probe, Update!StepFails, Update!Crash
  <2>7. ASSUME NEW w \in Updater, Update!RefreshRegistration(w) PROVE FALSE
    <3>1. CASE \E pc : Update!Goto(w, pc)
      BY <2>3, <3>1
    <3>2. CASE ~\E pc : Update!Goto(w, pc)
      <4>1. PICK gained : Update!NextAgent(w, gained)
        BY <2>7, <3>2 DEF Update!RefreshRegistration
      <4>2. PICK n : n = [run[w] EXCEPT !.pc = IF run[w].agent = "claude" THEN "remove" ELSE "save",
                                        !.agent = "codex", !.added = @ \cup gained]
        OBVIOUS
      <4>3. run' = [run EXCEPT ![w] = n] /\ n.result = run[w].result
        BY <2>0, <4>1, <4>2 DEF Update!NextAgent, Command
      <4>4. run'[u].result = run[u].result
        BY <2>0, <4>3
      <4> QED BY <4>4
    <3> QED BY <3>1, <3>2
  <2>8. ASSUME NEW w \in Updater, Update!Compare(w) PROVE TruthTold(u)'
    <3>1. /\ Update!EndAs(w, "current") /\ UNCHANGED <<bin, manifest, registered>> /\ Update!Running(w)
          /\ run[w].pc = "compare" /\ run[w].was = run[w].target /\ Update!MatchesRelease(w)
      BY <2>2, <2>3, <2>8 DEF Update!Compare, Update!Running, Update!SameVersion
    <3>2. Lone => manifest'.is = "whole" /\ manifest'.version = run[w].target
      BY <1>1, <3>1, RunningFits DEF Fits, ReadsAs
    <3>3. Put(run[w].target)
      BY <3>1 DEF Put, Update!MatchesRelease, Update!IsTarget
    <3> QED BY <1>1, <3>1, <3>2, <3>3, WellEnded
  <2>9. ASSUME NEW w \in Updater, Update!SaveManifest(w) PROVE TruthTold(u)'
    <3>1. /\ run[w].pc = "saving" /\ Update!Running(w) /\ UNCHANGED <<bin, registered>>
          /\ manifest' = Update!Whole(run[w].target, run[w].added)
          /\ Update!EndAs(w, "repaired") \/ Update!EndAs(w, "updated")
      BY <2>3, <2>9 DEF Update!SaveManifest, Update!Running
    <3>2. manifest'.is = "whole" /\ manifest'.version = run[w].target /\ manifest'.registered = run[w].added
      BY <3>1 DEF Update!Whole
    <3>3. Lone => Put(run[w].target) /\ \A a \in manifest'.registered : Names(a)
      BY <1>1, <3>1, <3>2, RunningFits DEF Fits, Closing
    <3> QED BY <1>1, <3>1, <3>2, <3>3, WellEnded
  <2> QED BY <1>1, <2>1, <2>4, <2>5, <2>6, <2>7, <2>8, <2>9 DEF Update!Next
<1>2. Update!Init => UpdateInv
  BY UpdateStarts
<1>3. UpdateInv /\ [Update!Next]_(Update!vars) => UpdateInv'
  BY UpdateSteps
<1> QED BY <1>1, <1>2, <1>3, PTL DEF Update!Spec

-----------------------------------------------------------------------------
(* ArtifactInstall.                                                         *)

CONSTANTS Task, ProcOf(_), KindOf(_), DepthOf(_), MaxEvents, None
VARIABLES dir, task, ns, alive, excused, claim, events

Install == INSTANCE ArtifactInstall

InstallConstants == None \notin Task

HowFar    == {"idle", "claiming", "claimed", "sweeping", "swept", "owner", "owned", "staging", "staged", "renaming",
              "activated", "succeeding", "failing", "reading", "loaded", "failed", "dead"}
Effort    == [pc : HowFar, force : BOOLEAN, activated : BOOLEAN, doomed : SUBSET Install!Proc]
Namespace == [dir : BOOLEAN, owner : {"none", "torn", "whole"}, old : BOOLEAN, staged : SUBSET Task]

InstallTypes ==
  /\ dir \in [Install!Kind -> {"none", "good", "corrupt"}] /\ claim \in [Install!Kind -> Task \cup {None}]
  /\ task \in [Task -> Effort] /\ ns \in [Install!Proc -> Namespace]
  /\ alive \subseteq Install!Proc /\ excused \subseteq Task

\* From the claim to its release, and its part between the look at what is installed and the replacement.
Inside    == {"claimed", "sweeping", "swept", "owner", "owned", "staging", "staged", "renaming", "activated",
              "succeeding", "failing"}
Preparing == {"owner", "owned", "staging", "staged"}
Replacing == {"staging", "staged", "renaming"}

\* A load inside has the claim. One that met no fault has what it is about to use, and has replaced nothing
\* that was good unless a failed read forced it.
EffortFits(t) ==
  LET k == KindOf(t)
      p == ProcOf(t) IN
  /\ task[t].pc \in Inside => claim[k] = t /\ p \in alive
  /\ task[t].pc \in {"renaming", "activated"} => task[t].activated
  /\ task[t].pc \in Preparing /\ ~task[t].force => dir[k] # "good"
  /\ t \notin excused =>
       /\ task[t].pc \notin {"failing", "failed"}
       /\ task[t].pc = "owner" => ns[p].owner # "none"
       /\ task[t].pc \in Replacing => t \in ns[p].staged
       /\ task[t].pc = "activated" => dir[k] = "good"
       /\ task[t].pc \in {"succeeding", "reading"} /\ task[t].force => dir[k] = "good"

InstallInv == InstallTypes /\ \A t \in Task : EffortFits(t)

LEMMA InstallFacts ==
  ASSUME InstallInv, NEW t \in Task
  PROVE  /\ InstallTypes /\ EffortFits(t) /\ task[t] \in Effort /\ task[t].pc \in HowFar
         /\ KindOf(t) \in Install!Kind /\ ProcOf(t) \in Install!Proc
         /\ ns[ProcOf(t)] \in Namespace /\ ns[ProcOf(t)].staged \subseteq Task
         /\ dir[KindOf(t)] \in {"none", "good", "corrupt"}
<1>1. InstallTypes /\ EffortFits(t) /\ KindOf(t) \in Install!Kind /\ ProcOf(t) \in Install!Proc
  BY DEF InstallInv, Install!Kind, Install!Proc
<1>2. task[t] \in Effort /\ ns[ProcOf(t)] \in Namespace /\ dir[KindOf(t)] \in {"none", "good", "corrupt"}
  BY <1>1 DEF InstallTypes
<1> QED BY <1>1, <1>2 DEF Effort, Namespace

\* A load has become n, and the others stay.
LEMMA EffortMoves ==
  ASSUME InstallTypes, NEW t \in Task, NEW n \in Effort, task' = [task EXCEPT ![t] = n]
  PROVE  task' \in [Task -> Effort] /\ task'[t] = n /\ \A u \in Task : u # t => task'[u] = task[u]
BY DEF InstallTypes

LEMMA EffortGoes ==
  ASSUME InstallTypes, NEW t \in Task, NEW pc \in HowFar, Install!Go(t, pc)
  PROVE  /\ task' \in [Task -> Effort] /\ \A u \in Task : u # t => task'[u] = task[u]
         /\ task'[t].pc = pc /\ task'[t].force = task[t].force /\ task'[t].activated = task[t].activated
<1>1. task[t] \in Effort
  BY DEF InstallTypes
<1>2. PICK n \in Effort : n = [task[t] EXCEPT !.pc = pc]
  BY <1>1 DEF Effort
<1>3. n.pc = pc /\ n.force = task[t].force /\ n.activated = task[t].activated
  BY <1>1, <1>2 DEF Effort
<1>4. task' = [task EXCEPT ![t] = n]
  BY <1>2 DEF Install!Go
<1> QED BY <1>3, <1>4, EffortMoves

\* A load keeps what it has while others go on.
LEMMA EffortStays ==
  ASSUME NEW u \in Task, EffortFits(u), task'[u] = task[u],
         task[u].pc \in Inside => claim'[KindOf(u)] = claim[KindOf(u)] /\ (ProcOf(u) \in alive => ProcOf(u) \in alive'),
         u \in excused => u \in excused',
         task[u].pc \in Preparing /\ dir'[KindOf(u)] = "good" => dir[KindOf(u)] = "good",
         u \notin excused' /\ task[u].pc = "owner" /\ ns[ProcOf(u)].owner # "none" => ns'[ProcOf(u)].owner # "none",
         u \notin excused' /\ task[u].pc \in Replacing /\ u \in ns[ProcOf(u)].staged => u \in ns'[ProcOf(u)].staged,
         u \notin excused' /\ (task[u].pc = "activated" \/ (task[u].pc \in {"succeeding", "reading"} /\ task[u].force))
           /\ dir[KindOf(u)] = "good" => dir'[KindOf(u)] = "good"
  PROVE  EffortFits(u)'
BY DEF EffortFits

\* Two loads inside do not want the same artifact.
LEMMA OneInside ==
  ASSUME InstallInv, NEW t \in Task, NEW u \in Task, task[t].pc \in Inside, task[u].pc \in Inside,
         KindOf(t) = KindOf(u)
  PROVE  t = u
BY InstallFacts DEF EffortFits

\* One load goes on; the disk, the claims and the processes stay.
LEMMA EffortSteps ==
  ASSUME InstallInv, NEW t \in Task, dir' = dir, claim' = claim, ns' = ns, alive' = alive,
         excused \subseteq excused', excused' \subseteq Task, task' \in [Task -> Effort],
         \A u \in Task : u # t => task'[u] = task[u], EffortFits(t)'
  PROVE  InstallInv'
<1>1. InstallTypes'
  BY DEF InstallInv, InstallTypes
<1>2. ASSUME NEW u \in Task, u # t PROVE EffortFits(u)'
  BY <1>2, InstallFacts, EffortStays
<1> QED BY <1>1, <1>2 DEF InstallInv

LEMMA InstallBegins == ASSUME Install!Init PROVE InstallInv
<1>1. /\ dir \in [Install!Kind -> {"none", "good", "corrupt"}] /\ claim = [k \in Install!Kind |-> None]
      /\ task = [t \in Task |-> [pc |-> "idle", force |-> FALSE, activated |-> FALSE, doomed |-> {}]]
      /\ ns \in [Install!Proc -> {Install!NoNamespace,
                                  [Install!NoNamespace EXCEPT !.dir = TRUE, !.owner = "whole", !.old = TRUE]}]
      /\ alive = Install!Proc /\ excused = {}
  BY DEF Install!Init
<1>2. /\ Install!NoNamespace \in Namespace
      /\ [Install!NoNamespace EXCEPT !.dir = TRUE, !.owner = "whole", !.old = TRUE] \in Namespace
  BY DEF Install!NoNamespace, Namespace
<1>3. ns \in [Install!Proc -> Namespace]
  BY <1>1, <1>2
<1>4. task \in [Task -> Effort] /\ \A t \in Task : task[t].pc = "idle"
  BY <1>1 DEF Effort, HowFar
<1>5. InstallTypes
  BY <1>1, <1>3, <1>4 DEF InstallTypes
<1>6. \A t \in Task : EffortFits(t)
  BY <1>4 DEF EffortFits, Inside, Preparing, Replacing
<1> QED BY <1>5, <1>6 DEF InstallInv

LEMMA InstallLooks == ASSUME InstallInv, NEW t \in Task, Install!Start(t) PROVE InstallInv'
<1>1. /\ task[t].pc = "idle" /\ dir' = dir /\ claim' = claim /\ ns' = ns /\ alive' = alive /\ excused' = excused
      /\ Install!Go(t, IF Install!Accepts(t) /\ Install!Looks(t) THEN "reading" ELSE "claiming")
  BY DEF Install!Start, Install!At
<1>2. PICK pc \in {"reading", "claiming"} :
        Install!Go(t, pc) /\ (pc = "reading" => Install!Looks(t))
  BY <1>1
<1>3. /\ task' \in [Task -> Effort] /\ \A u \in Task : u # t => task'[u] = task[u]
      /\ task'[t].pc = pc /\ task'[t].force = task[t].force
  BY <1>2, InstallFacts, EffortGoes DEF HowFar
<1>4. pc = "reading" /\ task[t].force => dir[KindOf(t)] = "good"
  BY <1>2 DEF Install!Looks
<1>5. EffortFits(t)'
  BY <1>1, <1>2, <1>3, <1>4, InstallFacts DEF EffortFits, Inside, Preparing, Replacing
<1> QED BY <1>1, <1>3, <1>5, InstallFacts, EffortSteps DEF InstallTypes

LEMMA InstallWaits == ASSUME InstallInv, NEW t \in Task, Install!ClaimTimesOut(t) PROVE InstallInv'
<1>1. /\ Install!Go(t, "failed") /\ excused' = excused \cup {t}
      /\ dir' = dir /\ claim' = claim /\ ns' = ns /\ alive' = alive
  BY DEF Install!ClaimTimesOut
<1>2. /\ task' \in [Task -> Effort] /\ \A u \in Task : u # t => task'[u] = task[u]
      /\ task'[t].pc = "failed"
  BY <1>1, InstallFacts, EffortGoes DEF HowFar
<1>3. EffortFits(t)'
  BY <1>1, <1>2 DEF EffortFits, Inside, Preparing
<1> QED BY <1>1, <1>2, <1>3, InstallFacts, EffortSteps DEF InstallTypes

LEMMA InstallClaims == ASSUME InstallConstants, InstallInv, NEW t \in Task, Install!Acquire(t) PROVE InstallInv'
<1>1. /\ ProcOf(t) \in alive /\ task[t].pc = "claiming" /\ ~Install!HeldByTheLiving(KindOf(t))
      /\ claim' = [claim EXCEPT ![KindOf(t)] = t] /\ Install!Go(t, "claimed")
      /\ dir' = dir /\ ns' = ns /\ alive' = alive /\ excused' = excused
  BY DEF Install!Acquire, Install!At
<1>2. InstallTypes /\ KindOf(t) \in Install!Kind
  BY InstallFacts
<1>3. /\ task' \in [Task -> Effort] /\ \A u \in Task : u # t => task'[u] = task[u]
      /\ task'[t].pc = "claimed"
  BY <1>1, <1>2, EffortGoes DEF HowFar
<1>4. claim'[KindOf(t)] = t /\ \A k \in Install!Kind : k # KindOf(t) => claim'[k] = claim[k]
  BY <1>1, <1>2 DEF InstallTypes
<1>5. InstallTypes'
  BY <1>1, <1>2, <1>3 DEF InstallTypes
<1>6. EffortFits(t)'
  <2>1. "claimed" \notin Preparing \cup Replacing
    BY DEF Preparing, Replacing
  <2>2. task'[t].pc \notin Preparing /\ task'[t].pc \notin Replacing
    BY <1>3, <2>1
  <2> QED BY <1>1, <1>3, <1>4, <2>2 DEF EffortFits
<1>7. ASSUME NEW u \in Task, u # t PROVE EffortFits(u)'
  <2>1. CASE task[u].pc \in Inside /\ KindOf(u) = KindOf(t)
    <3>1. claim[KindOf(t)] = u /\ ProcOf(u) \in alive /\ u # None
      BY <2>1, InstallFacts DEF EffortFits, InstallConstants
    <3> QED BY <1>1, <3>1 DEF Install!HeldByTheLiving
  <2>2. CASE ~(task[u].pc \in Inside /\ KindOf(u) = KindOf(t))
    <3>1. EffortFits(u) /\ KindOf(u) \in Install!Kind
      BY InstallFacts
    <3> QED BY <1>1, <1>3, <1>4, <1>7, <2>2, <3>1, EffortStays
  <2> QED BY <2>1, <2>2
<1> QED BY <1>5, <1>6, <1>7 DEF InstallInv

\* Where only the load's place and what it would sweep change.
LEMMA InstallSweepLooks == ASSUME InstallInv, NEW t \in Task, Install!SweepLook(t) PROVE InstallInv'
<1>1. /\ ProcOf(t) \in alive /\ task[t].pc = "claimed"
      /\ task' = [task EXCEPT ![t].pc = "sweeping", ![t].doomed = Install!Doomed]
      /\ dir' = dir /\ claim' = claim /\ ns' = ns /\ alive' = alive /\ excused' = excused
  BY DEF Install!SweepLook, Install!At
<1>2. PICK n \in Effort : n = [task[t] EXCEPT !.pc = "sweeping"]
  <2>1. task[t] \in Effort /\ "sweeping" \in HowFar
    BY InstallFacts DEF HowFar
  <2> QED BY <2>1 DEF Effort
<1>3. n.pc = "sweeping"
  BY <1>2, InstallFacts DEF Effort
<1>4. Install!Doomed \subseteq Install!Proc
  BY DEF Install!Doomed
<1>5. PICK m \in Effort : m = [n EXCEPT !.doomed = Install!Doomed]
  BY <1>4 DEF Effort
<1>6. m.pc = "sweeping"
  BY <1>3, <1>5 DEF Effort
<1>7. task' = [task EXCEPT ![t] = m]
  BY <1>1, <1>2, <1>5, InstallFacts DEF InstallTypes
<1>8. task' \in [Task -> Effort] /\ task'[t] = m /\ \A u \in Task : u # t => task'[u] = task[u]
  BY <1>7, InstallFacts, EffortMoves
<1>9. task[t].pc \in Inside /\ "sweeping" \notin Preparing \cup Replacing
  BY <1>1 DEF Inside, Preparing, Replacing
<1>10. EffortFits(t)'
  BY <1>1, <1>6, <1>8, <1>9, InstallFacts DEF EffortFits
<1> QED BY <1>1, <1>8, <1>10, InstallFacts, EffortSteps DEF InstallTypes

\* Whoever loses its staging directory or its half-written owner file has met a fault.
LEMMA InstallSweeps == ASSUME InstallInv, NEW t \in Task, Install!SweepRemove(t) PROVE InstallInv'
<1> DEFINE gone == task[t].doomed
<1>1. /\ ProcOf(t) \in alive /\ task[t].pc = "sweeping"
      /\ ns' = [p \in Install!Proc |-> IF p \in gone THEN Install!NoNamespace ELSE ns[p]]
      /\ excused' = excused \cup
           {u \in Task : ProcOf(u) \in gone /\ (u \in ns[ProcOf(u)].staged \/ task[u].pc = "owner")}
      /\ task' = [task EXCEPT ![t].pc = "swept", ![t].doomed = {}]
      /\ dir' = dir /\ claim' = claim /\ alive' = alive
  BY DEF Install!SweepRemove, Install!At
<1>2. PICK n \in Effort : n = [task[t] EXCEPT !.pc = "swept"]
  <2>1. task[t] \in Effort /\ "swept" \in HowFar
    BY InstallFacts DEF HowFar
  <2> QED BY <2>1 DEF Effort
<1>3. n.pc = "swept"
  BY <1>2, InstallFacts DEF Effort
<1>4. PICK m \in Effort : m = [n EXCEPT !.doomed = {}]
  BY DEF Effort
<1>5. m.pc = "swept"
  BY <1>3, <1>4 DEF Effort
<1>6. task' = [task EXCEPT ![t] = m]
  BY <1>1, <1>2, <1>4, InstallFacts DEF InstallTypes
<1>7. task' \in [Task -> Effort] /\ task'[t] = m /\ \A u \in Task : u # t => task'[u] = task[u]
  BY <1>6, InstallFacts, EffortMoves
<1>8. task[t].pc \in Inside /\ "swept" \notin Preparing \cup Replacing
  BY <1>1 DEF Inside, Preparing, Replacing
<1>9. EffortFits(t)'
  BY <1>1, <1>5, <1>7, <1>8, InstallFacts DEF EffortFits
<1>10. Install!NoNamespace \in Namespace
  BY DEF Namespace, Install!NoNamespace
<1>11. ns' \in [Install!Proc -> Namespace]
  BY <1>1, <1>10, InstallFacts DEF InstallTypes
<1>12. InstallTypes'
  BY <1>1, <1>7, <1>11, InstallFacts DEF InstallTypes
<1>13. ASSUME NEW u \in Task, u # t PROVE EffortFits(u)'
  <2>1. EffortFits(u) /\ ProcOf(u) \in Install!Proc
    BY InstallFacts
  <2>2. ProcOf(u) \notin gone => ns'[ProcOf(u)] = ns[ProcOf(u)]
    BY <1>1, <2>1
  <2> QED BY <1>1, <1>7, <1>13, <2>1, <2>2, EffortStays
<1> QED BY <1>9, <1>12, <1>13 DEF InstallInv

\* The namespace of a load's process has become n; nothing that others have staged is lost.
LEMMA NamespaceMoves ==
  ASSUME InstallInv, NEW t \in Task, NEW n \in Namespace, ns' = [ns EXCEPT ![ProcOf(t)] = n],
         n.owner = "none" => ns[ProcOf(t)].owner = "none", ns[ProcOf(t)].staged \ {t} \subseteq n.staged,
         task' \in [Task -> Effort], \A u \in Task : u # t => task'[u] = task[u],
         dir' \in [Install!Kind -> {"none", "good", "corrupt"}],
         \A k \in Install!Kind : k # KindOf(t) => dir'[k] = dir[k],
         dir[KindOf(t)] = "good" => dir'[KindOf(t)] = "good", dir' = dir \/ (task[t].pc \in Inside),
         claim' = claim \/ (task[t].pc \in Inside /\ claim' = [claim EXCEPT ![KindOf(t)] = None]),
         alive' = alive, excused' = excused, EffortFits(t)'
  PROVE  InstallInv'
<1>1. InstallTypes /\ KindOf(t) \in Install!Kind /\ ProcOf(t) \in Install!Proc
  BY InstallFacts
<1>2. ns' \in [Install!Proc -> Namespace] /\ ns'[ProcOf(t)] = n
      /\ \A p \in Install!Proc : p # ProcOf(t) => ns'[p] = ns[p]
  BY <1>1 DEF InstallTypes
<1>3. /\ claim' \in [Install!Kind -> Task \cup {None}]
      /\ \A k \in Install!Kind : k # KindOf(t) => claim'[k] = claim[k]
  BY <1>1 DEF InstallTypes
<1>4. InstallTypes'
  BY <1>1, <1>2, <1>3 DEF InstallTypes
<1>5. ASSUME NEW u \in Task, u # t PROVE EffortFits(u)'
  <2>1. EffortFits(u) /\ ProcOf(u) \in Install!Proc /\ KindOf(u) \in Install!Kind
    BY InstallFacts
  <2>2. ns'[ProcOf(u)].owner = "none" => ns[ProcOf(u)].owner = "none"
    BY <1>2, <2>1
  <2>3. u \in ns[ProcOf(u)].staged => u \in ns'[ProcOf(u)].staged
    BY <1>2, <1>5, <2>1
  <2>4. task[u].pc \in Inside => claim'[KindOf(u)] = claim[KindOf(u)] /\ dir'[KindOf(u)] = dir[KindOf(u)]
    BY <1>3, <1>5, <2>1, OneInside
  <2>5. Preparing \subseteq Inside
    BY DEF Preparing, Inside
  <2>6. dir[KindOf(u)] = "good" => dir'[KindOf(u)] = "good"
    BY <2>1
  <2> QED BY <1>5, <2>1, <2>2, <2>3, <2>4, <2>5, <2>6, EffortStays
<1> QED BY <1>4, <1>5 DEF InstallInv

\* Whoever finds the artifact after the wait is done; else it has nothing good to lose, unless it was forced.
LEMMA InstallPrepares == ASSUME InstallInv, NEW t \in Task, Install!Prepare(t) PROVE InstallInv'
<1> DEFINE p == ProcOf(t)
<1>1. /\ task[t].pc = "swept" /\ dir' = dir /\ claim' = claim /\ alive' = alive /\ excused' = excused
  BY DEF Install!Prepare, Install!At
<1>2. InstallTypes /\ ns[p] \in Namespace /\ EffortFits(t) /\ task[t].pc \in Inside
  BY <1>1, InstallFacts DEF Inside
<1>3. CASE Install!Rechecked(t)
  <2>1. Install!Go(t, "succeeding") /\ ns' = ns
    BY <1>3 DEF Install!Prepare
  <2>2. /\ task' \in [Task -> Effort] /\ \A u \in Task : u # t => task'[u] = task[u]
        /\ task'[t].pc = "succeeding" /\ task'[t].force = task[t].force
    BY <1>2, <2>1, EffortGoes DEF HowFar
  <2>3. task[t].force => dir[KindOf(t)] = "good"
    BY <1>3 DEF Install!Rechecked, Install!Looks
  <2>4. "succeeding" \notin Preparing \cup Replacing
    BY DEF Preparing, Replacing
  <2>5. EffortFits(t)'
    BY <1>1, <1>2, <2>1, <2>2, <2>3, <2>4 DEF EffortFits
  <2> QED BY <1>1, <1>2, <2>1, <2>2, <2>5, EffortSteps DEF InstallTypes
<1>4. CASE ~Install!Rechecked(t)
  <2>1. /\ Install!Go(t, "owner")
        /\ ns' = [ns EXCEPT ![p].dir = TRUE, ![p].owner = "torn", ![p].old = ns[p].old /\ ns[p].owner # "none"]
    BY <1>4 DEF Install!Prepare
  <2>2. /\ task' \in [Task -> Effort] /\ \A u \in Task : u # t => task'[u] = task[u]
        /\ task'[t].pc = "owner" /\ task'[t].force = task[t].force
    BY <1>2, <2>1, EffortGoes DEF HowFar
  <2>3. PICK o \in BOOLEAN : o = (ns[p].old /\ ns[p].owner # "none")
    OBVIOUS
  <2>4. PICK n \in Namespace : n = [ns[p] EXCEPT !.dir = TRUE]
    BY <1>2 DEF Namespace
  <2>5. n.staged = ns[p].staged
    BY <1>2, <2>4 DEF Namespace
  <2>6. PICK m \in Namespace : m = [n EXCEPT !.owner = "torn"]
    BY DEF Namespace
  <2>7. m.staged = ns[p].staged /\ m.owner = "torn"
    BY <2>5, <2>6 DEF Namespace
  <2>8. PICK l \in Namespace : l = [m EXCEPT !.old = o]
    BY DEF Namespace
  <2>9. l.staged = ns[p].staged /\ l.owner = "torn"
    BY <2>7, <2>8 DEF Namespace
  <2>10. ns' = [ns EXCEPT ![p] = l]
    BY <1>2, <2>1, <2>3, <2>4, <2>6, <2>8, InstallFacts DEF InstallTypes
  <2>11. ns'[p] = l
    BY <1>2, <2>10, InstallFacts DEF InstallTypes
  <2>12. ~task[t].force => dir[KindOf(t)] # "good"
    BY <1>2, <1>4 DEF Install!Rechecked, Install!Accepts, Install!Looks
  <2>13. "owner" \notin Replacing
    BY DEF Replacing
  <2>14. EffortFits(t)'
    BY <1>1, <1>2, <2>2, <2>9, <2>11, <2>12, <2>13 DEF EffortFits
  <2> QED BY <1>1, <1>2, <2>2, <2>9, <2>10, <2>14, NamespaceMoves DEF InstallTypes
<1> QED BY <1>3, <1>4

LEMMA InstallWritesOwner == ASSUME InstallInv, NEW t \in Task, Install!WriteOwner(t) PROVE InstallInv'
<1> DEFINE p == ProcOf(t)
<1>1. /\ task[t].pc = "owner" /\ dir' = dir /\ claim' = claim /\ alive' = alive /\ excused' = excused
  BY DEF Install!WriteOwner, Install!At
<1>2. InstallTypes /\ ns[p] \in Namespace /\ EffortFits(t) /\ task[t].pc \in Inside /\ task[t].pc \in Preparing
  BY <1>1, InstallFacts DEF Inside, Preparing
<1>3. CASE ns[p].owner = "none"
  <2>1. Install!Go(t, "failing") /\ ns' = ns
    BY <1>3 DEF Install!WriteOwner
  <2>2. /\ task' \in [Task -> Effort] /\ \A u \in Task : u # t => task'[u] = task[u]
        /\ task'[t].pc = "failing"
    BY <1>2, <2>1, EffortGoes DEF HowFar
  <2>3. "failing" \notin Preparing \cup Replacing
    BY DEF Preparing, Replacing
  <2>4. EffortFits(t)'
    BY <1>1, <1>2, <1>3, <2>1, <2>2, <2>3 DEF EffortFits
  <2> QED BY <1>1, <1>2, <2>1, <2>2, <2>4, EffortSteps DEF InstallTypes
<1>4. CASE ns[p].owner # "none"
  <2>1. Install!Go(t, "owned") /\ ns' = [ns EXCEPT ![p].owner = "whole"]
    BY <1>4 DEF Install!WriteOwner
  <2>2. /\ task' \in [Task -> Effort] /\ \A u \in Task : u # t => task'[u] = task[u]
        /\ task'[t].pc = "owned" /\ task'[t].force = task[t].force
    BY <1>2, <2>1, EffortGoes DEF HowFar
  <2>3. PICK n \in Namespace : n = [ns[p] EXCEPT !.owner = "whole"]
    BY <1>2 DEF Namespace
  <2>4. n.staged = ns[p].staged /\ n.owner = "whole" /\ ns' = [ns EXCEPT ![p] = n]
    BY <1>2, <2>1, <2>3 DEF Namespace
  <2>5. "owned" \notin Replacing
    BY DEF Replacing
  <2>6. EffortFits(t)'
    BY <1>1, <1>2, <2>2, <2>5 DEF EffortFits
  <2> QED BY <1>1, <1>2, <2>2, <2>4, <2>6, NamespaceMoves DEF InstallTypes
<1> QED BY <1>3, <1>4

LEMMA InstallMakesStaging == ASSUME InstallInv, NEW t \in Task, Install!MakeStaging(t) PROVE InstallInv'
<1> DEFINE p == ProcOf(t)
<1>1. /\ task[t].pc = "owned" /\ dir' = dir /\ claim' = claim /\ alive' = alive /\ excused' = excused
      /\ ns' = [ns EXCEPT ![p].dir = TRUE, ![p].old = FALSE, ![p].staged = ns[p].staged \cup {t}]
      /\ Install!Go(t, "staging")
  BY DEF Install!MakeStaging, Install!At
<1>2. InstallTypes /\ ns[p] \in Namespace /\ EffortFits(t) /\ task[t].pc \in Inside /\ task[t].pc \in Preparing
  BY <1>1, InstallFacts DEF Inside, Preparing
<1>3. /\ task' \in [Task -> Effort] /\ \A u \in Task : u # t => task'[u] = task[u]
      /\ task'[t].pc = "staging" /\ task'[t].force = task[t].force
  BY <1>1, <1>2, EffortGoes DEF HowFar
<1>4. PICK S \in SUBSET Task : S = ns[p].staged \cup {t}
  BY <1>2 DEF Namespace
<1>5. PICK n \in Namespace : n = [ns[p] EXCEPT !.dir = TRUE]
  BY <1>2 DEF Namespace
<1>6. n.owner = ns[p].owner
  BY <1>2, <1>5 DEF Namespace
<1>7. PICK m \in Namespace : m = [n EXCEPT !.old = FALSE]
  BY DEF Namespace
<1>8. m.owner = ns[p].owner
  BY <1>6, <1>7 DEF Namespace
<1>9. PICK l \in Namespace : l = [m EXCEPT !.staged = S]
  BY DEF Namespace
<1>10. l.owner = ns[p].owner /\ l.staged = S
  BY <1>8, <1>9 DEF Namespace
<1>11. ns' = [ns EXCEPT ![p] = l] /\ ns'[p] = l
  BY <1>1, <1>2, <1>4, <1>5, <1>7, <1>9, InstallFacts DEF InstallTypes
<1>12. EffortFits(t)'
  BY <1>1, <1>2, <1>3, <1>4, <1>10, <1>11 DEF EffortFits
<1> QED BY <1>1, <1>2, <1>3, <1>4, <1>10, <1>11, <1>12, NamespaceMoves DEF InstallTypes

LEMMA InstallStages == ASSUME InstallInv, NEW t \in Task,
                              Install!Stage(t) \/ Install!DownloadFails(t) PROVE InstallInv'
<1>1. /\ task[t].pc = "staging" /\ dir' = dir /\ claim' = claim /\ ns' = ns /\ alive' = alive
      /\ \/ Install!Go(t, IF Install!Staged(t) THEN "staged" ELSE "failing") /\ excused' = excused
         \/ Install!Go(t, "failing") /\ excused' = excused \cup {t}
  BY DEF Install!Stage, Install!DownloadFails, Install!At
<1>2. PICK pc \in {"staged", "failing"} :
        /\ Install!Go(t, pc) /\ excused \subseteq excused' /\ excused' \subseteq excused \cup {t}
        /\ pc = "staged" => Install!Staged(t)
        /\ pc = "failing" => ~Install!Staged(t) \/ t \in excused'
  BY <1>1
<1>3. /\ InstallTypes /\ EffortFits(t) /\ task[t].pc \in Inside /\ task[t].pc \in Preparing
      /\ task[t].pc \in Replacing
  BY <1>1, InstallFacts DEF Inside, Preparing, Replacing
<1>4. /\ task' \in [Task -> Effort] /\ \A u \in Task : u # t => task'[u] = task[u]
      /\ task'[t].pc = pc /\ task'[t].force = task[t].force
  BY <1>2, <1>3, EffortGoes DEF HowFar
<1>5. pc = "failing" => t \in excused'
  BY <1>2, <1>3 DEF EffortFits, Install!Staged
<1>6. "failing" \notin Preparing \cup Replacing
  BY DEF Preparing, Replacing
<1>7. EffortFits(t)'
  BY <1>1, <1>2, <1>3, <1>4, <1>5, <1>6 DEF EffortFits, Install!Staged
<1> QED BY <1>1, <1>2, <1>3, <1>4, <1>7, EffortSteps DEF InstallTypes

\* Replacing: whoever is at its second read of what goes has met a fault.
LEMMA InstallRemoves == ASSUME InstallInv, NEW t \in Task, Install!Remove(t) PROVE InstallInv'
<1>1. /\ task[t].pc = "staged" /\ claim' = claim /\ ns' = ns /\ alive' = alive
  BY DEF Install!Remove, Install!At
<1>2. /\ InstallTypes /\ EffortFits(t) /\ task[t] \in Effort /\ KindOf(t) \in Install!Kind
      /\ task[t].pc \in Inside /\ task[t].pc \in Preparing /\ task[t].pc \in Replacing
  BY <1>1, InstallFacts DEF Inside, Preparing, Replacing
<1>3. CASE Install!Staged(t)
  <2>1. /\ dir' = [dir EXCEPT ![KindOf(t)] = "none"]
        /\ task' = [task EXCEPT ![t].pc = "renaming", ![t].activated = TRUE]
        /\ excused' = excused \cup
             {u \in Task : KindOf(u) = KindOf(t) /\ task[u].pc = "reading" /\ task[u].force}
    BY <1>3 DEF Install!Remove
  <2>2. PICK n \in Effort : n = [task[t] EXCEPT !.pc = "renaming"]
    BY <1>2 DEF Effort, HowFar
  <2>3. n.pc = "renaming"
    BY <1>2, <2>2 DEF Effort
  <2>4. PICK m \in Effort : m = [n EXCEPT !.activated = TRUE]
    BY DEF Effort
  <2>5. m.pc = "renaming" /\ m.activated
    BY <2>3, <2>4 DEF Effort
  <2>6. task' = [task EXCEPT ![t] = m]
    BY <1>2, <2>1, <2>2, <2>4 DEF InstallTypes
  <2>7. task' \in [Task -> Effort] /\ task'[t] = m /\ \A u \in Task : u # t => task'[u] = task[u]
    BY <1>2, <2>6, EffortMoves
  <2>8. dir' \in [Install!Kind -> {"none", "good", "corrupt"}] /\ dir'[KindOf(t)] = "none"
        /\ \A k \in Install!Kind : k # KindOf(t) => dir'[k] = dir[k]
    BY <1>2, <2>1 DEF InstallTypes
  <2>9. InstallTypes'
    BY <1>1, <1>2, <2>1, <2>7, <2>8 DEF InstallTypes
  <2>10. "renaming" \notin Preparing
    BY DEF Preparing
  <2>11. EffortFits(t)'
    BY <1>1, <1>2, <1>3, <2>5, <2>7, <2>10 DEF EffortFits, Install!Staged
  <2>12. ASSUME NEW u \in Task, u # t PROVE EffortFits(u)'
    <3>1. EffortFits(u) /\ KindOf(u) \in Install!Kind
      BY InstallFacts
    <3>2. task[u].pc \in Inside => KindOf(u) # KindOf(t)
      BY <1>2, <2>12, OneInside
    <3>3. Preparing \subseteq Inside /\ "activated" \in Inside /\ "succeeding" \in Inside
      BY DEF Preparing, Inside
    <3>4. task[u].pc \in Inside => dir'[KindOf(u)] = dir[KindOf(u)]
      BY <2>8, <3>1, <3>2
    <3>5. u \notin excused' /\ task[u].pc = "reading" /\ task[u].force => dir'[KindOf(u)] = dir[KindOf(u)]
      BY <2>1, <2>8, <3>1
    <3> QED BY <1>1, <2>1, <2>7, <2>12, <3>1, <3>3, <3>4, <3>5, EffortStays
  <2> QED BY <2>9, <2>11, <2>12 DEF InstallInv
<1>4. CASE ~Install!Staged(t)
  <2>1. Install!Go(t, "failing") /\ dir' = dir /\ excused' = excused
    BY <1>4 DEF Install!Remove
  <2>2. /\ task' \in [Task -> Effort] /\ \A u \in Task : u # t => task'[u] = task[u]
        /\ task'[t].pc = "failing"
    BY <1>2, <2>1, EffortGoes DEF HowFar
  <2>3. "failing" \notin Preparing \cup Replacing
    BY DEF Preparing, Replacing
  <2>4. EffortFits(t)'
    BY <1>1, <1>2, <1>4, <2>1, <2>2, <2>3 DEF EffortFits, Install!Staged
  <2> QED BY <1>1, <1>2, <2>1, <2>2, <2>4, EffortSteps DEF InstallTypes
<1> QED BY <1>3, <1>4

LEMMA InstallRenames == ASSUME InstallInv, NEW t \in Task, Install!Rename(t) PROVE InstallInv'
<1> DEFINE p == ProcOf(t)
<1>1. /\ task[t].pc = "renaming" /\ claim' = claim /\ alive' = alive /\ excused' = excused
  BY DEF Install!Rename, Install!At
<1>2. /\ InstallTypes /\ EffortFits(t) /\ ns[p] \in Namespace /\ KindOf(t) \in Install!Kind
      /\ p \in Install!Proc
      /\ task[t].pc \in Inside /\ task[t].pc \in Replacing /\ task[t].activated
  BY <1>1, InstallFacts DEF Inside, Replacing, EffortFits
<1>3. CASE Install!Staged(t)
  <2>1. /\ dir' = [dir EXCEPT ![KindOf(t)] = "good"] /\ Install!Go(t, "activated")
        /\ ns' = [ns EXCEPT ![p].staged = ns[p].staged \ {t}, ![p].old = FALSE]
    BY <1>3 DEF Install!Rename
  <2>2. /\ task' \in [Task -> Effort] /\ \A u \in Task : u # t => task'[u] = task[u]
        /\ task'[t].pc = "activated" /\ task'[t].activated = task[t].activated
    BY <1>2, <2>1, EffortGoes DEF HowFar
  <2>3. dir' \in [Install!Kind -> {"none", "good", "corrupt"}] /\ dir'[KindOf(t)] = "good"
        /\ \A k \in Install!Kind : k # KindOf(t) => dir'[k] = dir[k]
    BY <1>2, <2>1 DEF InstallTypes
  <2>4. PICK S \in SUBSET Task : S = ns[p].staged \ {t}
    BY <1>2 DEF Namespace
  <2>5. PICK n \in Namespace : n = [ns[p] EXCEPT !.staged = S]
    BY <1>2 DEF Namespace
  <2>6. n.staged = S /\ n.owner = ns[p].owner
    BY <1>2, <2>5 DEF Namespace
  <2>7. PICK m \in Namespace : m = [n EXCEPT !.old = FALSE]
    BY DEF Namespace
  <2>8. m.staged = S /\ m.owner = ns[p].owner
    BY <2>6, <2>7 DEF Namespace
  <2>9. ns' = [ns EXCEPT ![p] = m]
    BY <1>2, <2>1, <2>4, <2>5, <2>7 DEF InstallTypes
  <2>10. "activated" \notin Preparing \cup Replacing
    BY DEF Preparing, Replacing
  <2>11. EffortFits(t)'
    BY <1>1, <1>2, <2>2, <2>3, <2>10 DEF EffortFits
  <2> QED BY <1>1, <1>2, <2>2, <2>3, <2>4, <2>8, <2>9, <2>11, NamespaceMoves
<1>4. CASE ~Install!Staged(t)
  <2>1. Install!Go(t, "failing") /\ dir' = dir /\ ns' = ns
    BY <1>4 DEF Install!Rename
  <2>2. /\ task' \in [Task -> Effort] /\ \A u \in Task : u # t => task'[u] = task[u]
        /\ task'[t].pc = "failing"
    BY <1>2, <2>1, EffortGoes DEF HowFar
  <2>3. "failing" \notin Preparing \cup Replacing
    BY DEF Preparing, Replacing
  <2>4. EffortFits(t)'
    BY <1>1, <1>2, <1>4, <2>1, <2>2, <2>3 DEF EffortFits, Install!Staged
  <2> QED BY <1>1, <1>2, <2>1, <2>2, <2>4, EffortSteps DEF InstallTypes
<1> QED BY <1>3, <1>4

LEMMA InstallVerifies == ASSUME InstallInv, NEW t \in Task, Install!Verify(t) PROVE InstallInv'
<1>1. /\ task[t].pc = "activated" /\ dir' = dir /\ claim' = claim /\ ns' = ns /\ alive' = alive
      /\ excused' = excused
      /\ Install!Go(t, IF Install!Accepts(t) /\ Install!Looks(t) THEN "succeeding" ELSE "failing")
  BY DEF Install!Verify, Install!At
<1>2. InstallTypes /\ EffortFits(t) /\ task[t].pc \in Inside /\ task[t].activated
  BY <1>1, InstallFacts DEF Inside, EffortFits
<1>3. PICK pc \in {"succeeding", "failing"} :
        /\ Install!Go(t, pc)
        /\ pc = "succeeding" => Install!Looks(t)
        /\ pc = "failing" => ~Install!Looks(t)
  BY <1>1, <1>2 DEF Install!Accepts
<1>4. /\ task' \in [Task -> Effort] /\ \A u \in Task : u # t => task'[u] = task[u]
      /\ task'[t].pc = pc /\ task'[t].force = task[t].force
  BY <1>2, <1>3, EffortGoes DEF HowFar
<1>5. pc = "failing" => dir[KindOf(t)] # "good"
  BY <1>3 DEF Install!Looks
<1>6. pc = "succeeding" /\ task[t].force => dir[KindOf(t)] = "good"
  BY <1>3 DEF Install!Looks
<1>7. pc \notin Preparing \cup Replacing
  BY DEF Preparing, Replacing
<1>8. EffortFits(t)'
  BY <1>1, <1>2, <1>4, <1>5, <1>6, <1>7 DEF EffortFits
<1> QED BY <1>1, <1>2, <1>4, <1>8, EffortSteps DEF InstallTypes

LEMMA InstallFinishes == ASSUME InstallInv, NEW t \in Task, Install!Finish(t) PROVE InstallInv'
<1> DEFINE p    == ProcOf(t)
           rest == [ns[p] EXCEPT !.staged = ns[p].staged \ {t}, !.old = ns[p].old /\ ~Install!Staged(t)]
<1>1. /\ \/ task[t].pc = "succeeding" /\ Install!Go(t, "reading")
         \/ task[t].pc = "failing" /\ Install!Go(t, "failed")
      /\ ns' = [ns EXCEPT ![p] = IF rest.owner = "none" /\ rest.staged = {} THEN Install!NoNamespace ELSE rest]
      /\ claim' = [claim EXCEPT ![KindOf(t)] = None]
      /\ dir' = dir /\ alive' = alive /\ excused' = excused
  BY DEF Install!Finish, Install!At
<1>2. InstallTypes /\ EffortFits(t) /\ ns[p] \in Namespace /\ task[t].pc \in Inside
  BY <1>1, InstallFacts DEF Inside
<1>3. PICK pc \in {"reading", "failed"} :
        Install!Go(t, pc) /\ (task[t].pc = IF pc = "reading" THEN "succeeding" ELSE "failing")
  BY <1>1
<1>4. /\ task' \in [Task -> Effort] /\ \A u \in Task : u # t => task'[u] = task[u]
      /\ task'[t].pc = pc /\ task'[t].force = task[t].force
  BY <1>2, <1>3, EffortGoes DEF HowFar
<1>5. pc \notin Inside \cup Preparing \cup Replacing
  BY DEF Inside, Preparing, Replacing
<1>6. EffortFits(t)'
  BY <1>1, <1>2, <1>3, <1>4, <1>5 DEF EffortFits
<1>7. PICK S \in SUBSET Task : S = ns[p].staged \ {t}
  BY <1>2 DEF Namespace
<1>8. PICK o \in BOOLEAN : o = (ns[p].old /\ ~Install!Staged(t))
  OBVIOUS
<1>9. PICK r1 \in Namespace : r1 = [ns[p] EXCEPT !.staged = S]
  BY <1>2 DEF Namespace
<1>10. r1.staged = S /\ r1.owner = ns[p].owner
  BY <1>2, <1>9 DEF Namespace
<1>11. PICK r \in Namespace : r = [r1 EXCEPT !.old = o]
  BY DEF Namespace
<1>12. r.staged = S /\ r.owner = ns[p].owner
  BY <1>10, <1>11 DEF Namespace
<1>13. rest = r
  BY <1>7, <1>8, <1>9, <1>11
<1>14. PICK n \in Namespace : n = IF r.owner = "none" /\ r.staged = {} THEN Install!NoNamespace ELSE r
  BY DEF Namespace, Install!NoNamespace
<1>15. (n.owner = "none" => ns[p].owner = "none") /\ ns[p].staged \ {t} \subseteq n.staged
  BY <1>7, <1>12, <1>14 DEF Install!NoNamespace
<1>16. ns' = [ns EXCEPT ![p] = n]
  BY <1>1, <1>13, <1>14
<1> QED BY <1>1, <1>2, <1>4, <1>6, <1>15, <1>16, NamespaceMoves DEF InstallTypes

\* What was activated by force is good when it is read, or a fault has met it.
LEMMA InstallReads == ASSUME InstallInv, NEW t \in Task, Install!Read(t) PROVE InstallInv'
<1>1. /\ task[t].pc = "reading" /\ dir' = dir /\ claim' = claim /\ ns' = ns /\ alive' = alive
      /\ excused' = excused
  BY DEF Install!Read, Install!At
<1>2. InstallTypes /\ EffortFits(t) /\ task[t] \in Effort
  BY <1>1, InstallFacts
<1>3. CASE Install!Go(t, "loaded")
  <2>1. /\ task' \in [Task -> Effort] /\ \A u \in Task : u # t => task'[u] = task[u]
        /\ task'[t].pc = "loaded"
    BY <1>2, <1>3, EffortGoes DEF HowFar
  <2>2. "loaded" \notin Inside \cup Preparing \cup Replacing
    BY DEF Inside, Preparing, Replacing
  <2>3. EffortFits(t)'
    BY <2>1, <2>2 DEF EffortFits
  <2> QED BY <1>1, <1>2, <2>1, <2>3, EffortSteps DEF InstallTypes
<1>4. CASE task' = [task EXCEPT ![t].pc = "claiming", ![t].force = TRUE, ![t].activated = FALSE]
  <2>1. PICK n \in Effort : n = [task[t] EXCEPT !.pc = "claiming"]
    BY <1>2 DEF Effort, HowFar
  <2>2. n.pc = "claiming"
    BY <1>2, <2>1 DEF Effort
  <2>3. PICK m \in Effort : m = [n EXCEPT !.force = TRUE]
    BY DEF Effort
  <2>4. m.pc = "claiming"
    BY <2>2, <2>3 DEF Effort
  <2>5. PICK l \in Effort : l = [m EXCEPT !.activated = FALSE]
    BY DEF Effort
  <2>6. l.pc = "claiming"
    BY <2>4, <2>5 DEF Effort
  <2>7. task' = [task EXCEPT ![t] = l]
    BY <1>2, <1>4, <2>1, <2>3, <2>5 DEF InstallTypes
  <2>8. task' \in [Task -> Effort] /\ task'[t] = l /\ \A u \in Task : u # t => task'[u] = task[u]
    BY <1>2, <2>7, EffortMoves
  <2>9. "claiming" \notin Inside \cup Preparing \cup Replacing
    BY DEF Inside, Preparing, Replacing
  <2>10. EffortFits(t)'
    BY <2>6, <2>8, <2>9 DEF EffortFits
  <2> QED BY <1>1, <1>2, <2>8, <2>10, EffortSteps DEF InstallTypes
<1>5. CASE Install!Go(t, "failed") /\ dir[KindOf(t)] # "good" /\ task[t].force
  <2>1. /\ task' \in [Task -> Effort] /\ \A u \in Task : u # t => task'[u] = task[u]
        /\ task'[t].pc = "failed"
    BY <1>2, <1>5, EffortGoes DEF HowFar
  <2>2. "failed" \notin Inside \cup Preparing \cup Replacing
    BY DEF Inside, Preparing, Replacing
  <2>3. t \in excused
    BY <1>1, <1>2, <1>5 DEF EffortFits
  <2>4. EffortFits(t)'
    BY <1>1, <2>1, <2>2, <2>3 DEF EffortFits
  <2> QED BY <1>1, <1>2, <2>1, <2>4, EffortSteps DEF InstallTypes
<1> QED BY <1>3, <1>4, <1>5 DEF Install!Read

\* Who dies leaves the claim, the namespace and half a replacement behind.
LEMMA InstallCrashes == ASSUME InstallInv, NEW p \in Install!Proc, Install!Crash(p) PROVE InstallInv'
<1>1. /\ alive' = alive \ {p} /\ dir' = dir /\ claim' = claim /\ ns' = ns /\ excused' = excused
      /\ task' = [t \in Task |-> IF ProcOf(t) = p /\ task[t].pc \notin {"idle", "loaded", "failed"}
                                 THEN [task[t] EXCEPT !.pc = "dead", !.doomed = {}] ELSE task[t]]
  BY DEF Install!Crash
<1>2. InstallTypes
  BY DEF InstallInv
<1>3. \A e \in Effort : /\ [e EXCEPT !.pc = "dead", !.doomed = {}] \in Effort
                        /\ [e EXCEPT !.pc = "dead", !.doomed = {}].pc = "dead"
  BY DEF Effort, HowFar
<1>4. task' \in [Task -> Effort]
  BY <1>1, <1>2, <1>3 DEF InstallTypes
<1>5. InstallTypes'
  BY <1>1, <1>2, <1>4 DEF InstallTypes
<1>6. ASSUME NEW u \in Task PROVE EffortFits(u)'
  <2>1. EffortFits(u) /\ task[u] \in Effort
    BY InstallFacts
  <2>2. CASE ProcOf(u) = p /\ task[u].pc \notin {"idle", "loaded", "failed"}
    <3>1. task'[u].pc = "dead"
      BY <1>1, <1>3, <2>1, <2>2
    <3>2. "dead" \notin Inside \cup Preparing \cup Replacing
      BY DEF Inside, Preparing, Replacing
    <3> QED BY <3>1, <3>2 DEF EffortFits
  <2>3. CASE ~(ProcOf(u) = p /\ task[u].pc \notin {"idle", "loaded", "failed"})
    <3>1. task'[u] = task[u]
      BY <1>1, <2>3
    <3>2. task[u].pc \in Inside => ProcOf(u) # p
      BY <2>3 DEF Inside
    <3> QED BY <1>1, <2>1, <3>1, <3>2, EffortStays
  <2> QED BY <2>2, <2>3
<1> QED BY <1>5, <1>6 DEF InstallInv

LEMMA InstallAges == ASSUME InstallInv, NEW p \in Install!Proc, Install!Age(p) PROVE InstallInv'
<1>1. /\ ns' = [ns EXCEPT ![p].old = TRUE]
      /\ dir' = dir /\ claim' = claim /\ task' = task /\ alive' = alive /\ excused' = excused
  BY DEF Install!Age
<1>2. InstallTypes /\ ns[p] \in Namespace
  BY DEF InstallInv, InstallTypes
<1>3. PICK n \in Namespace : n = [ns[p] EXCEPT !.old = TRUE]
  BY <1>2 DEF Namespace
<1>4. n.owner = ns[p].owner /\ n.staged = ns[p].staged /\ ns' = [ns EXCEPT ![p] = n]
  BY <1>1, <1>2, <1>3 DEF Namespace
<1>5. /\ ns' \in [Install!Proc -> Namespace]
      /\ \A q \in Install!Proc : ns'[q].owner = ns[q].owner /\ ns'[q].staged = ns[q].staged
  BY <1>2, <1>4 DEF InstallTypes
<1>6. InstallTypes'
  BY <1>1, <1>2, <1>5 DEF InstallTypes
<1>7. \A u \in Task : EffortFits(u)'
  BY <1>1, <1>5, InstallFacts, EffortStays
<1> QED BY <1>6, <1>7 DEF InstallInv

LEMMA InstallDamages == ASSUME InstallInv, NEW k \in Install!Kind, Install!Damage(k) PROVE InstallInv'
<1>1. /\ dir[k] = "good" /\ dir' = [dir EXCEPT ![k] = "corrupt"]
      /\ excused' = excused \cup {t \in Task : KindOf(t) = k}
      /\ claim' = claim /\ task' = task /\ ns' = ns /\ alive' = alive
  BY DEF Install!Damage
<1>2. InstallTypes
  BY DEF InstallInv
<1>3. /\ dir' \in [Install!Kind -> {"none", "good", "corrupt"}] /\ dir'[k] = "corrupt"
      /\ \A j \in Install!Kind : j # k => dir'[j] = dir[j]
  BY <1>1, <1>2 DEF InstallTypes
<1>4. InstallTypes'
  BY <1>1, <1>2, <1>3 DEF InstallTypes
<1>5. ASSUME NEW u \in Task PROVE EffortFits(u)'
  <2>1. EffortFits(u) /\ KindOf(u) \in Install!Kind
    BY InstallFacts
  <2>2. dir'[KindOf(u)] = "good" => dir[KindOf(u)] = "good"
    BY <1>3, <2>1
  <2>3. u \notin excused' => dir'[KindOf(u)] = dir[KindOf(u)]
    BY <1>1, <1>3, <2>1
  <2> QED BY <1>1, <2>1, <2>2, <2>3, EffortStays
<1> QED BY <1>4, <1>5 DEF InstallInv

LEMMA InstallKeeps == ASSUME InstallConstants, InstallInv, [Install!Next]_(Install!vars) PROVE InstallInv'
<1>1. ASSUME NEW t \in Task,
             \/ Install!Start(t) \/ Install!Acquire(t) \/ Install!ClaimTimesOut(t) \/ Install!SweepLook(t)
             \/ Install!SweepRemove(t) \/ Install!Prepare(t) \/ Install!WriteOwner(t) \/ Install!MakeStaging(t)
      PROVE  InstallInv'
  BY <1>1, InstallLooks, InstallClaims, InstallWaits, InstallSweepLooks, InstallSweeps, InstallPrepares,
     InstallWritesOwner, InstallMakesStaging
<1>2. ASSUME NEW t \in Task,
             \/ Install!Stage(t) \/ Install!DownloadFails(t) \/ Install!Remove(t) \/ Install!Rename(t)
             \/ Install!Verify(t) \/ Install!Finish(t) \/ Install!Read(t)
      PROVE  InstallInv'
  BY <1>2, InstallStages, InstallRemoves, InstallRenames, InstallVerifies, InstallFinishes, InstallReads
<1>3. ASSUME NEW p \in Install!Proc, Install!Crash(p) \/ Install!Age(p) PROVE InstallInv'
  BY <1>3, InstallCrashes, InstallAges
<1>4. ASSUME NEW k \in Install!Kind, Install!Damage(k) PROVE InstallInv'
  BY <1>4, InstallDamages
<1>5. CASE UNCHANGED Install!vars
  <2>1. dir' = dir /\ claim' = claim /\ task' = task /\ ns' = ns /\ alive' = alive /\ excused' = excused
    BY <1>5 DEF Install!vars
  <2> QED BY <2>1 DEF InstallInv, InstallTypes, EffortFits
<1> QED BY <1>1, <1>2, <1>3, <1>4, <1>5 DEF Install!Next

\* For any processes, threads and artifacts: a load fails only after a fault that it has met.
THEOREM FailuresHaveCauses == ASSUME InstallConstants PROVE Install!Spec => []Install!FailureHasACause
<1>1. Install!Init => InstallInv
  BY InstallBegins
<1>2. InstallInv /\ [Install!Next]_(Install!vars) => InstallInv'
  BY InstallKeeps
<1>3. InstallInv => Install!FailureHasACause
  BY DEF InstallInv, EffortFits, Install!FailureHasACause
<1> QED BY <1>1, <1>2, <1>3, PTL DEF Install!Spec

\* And what is good goes only where a failed read has asked for a new one.
THEOREM GoodArtifactsStay == ASSUME InstallConstants PROVE Install!Spec => [][Install!GoodStays]_(Install!vars)
<1>1. Install!Init => InstallInv
  BY InstallBegins
<1>2. InstallInv /\ [Install!Next]_(Install!vars) => InstallInv'
  BY InstallKeeps
<1>3. ASSUME InstallInv, [Install!Next]_(Install!vars) PROVE [Install!GoodStays]_(Install!vars)
  <2> SUFFICES ASSUME Install!Next, NEW k \in Install!Kind, dir[k] = "good", dir'[k] = "none"
               PROVE  \E t \in Task : KindOf(t) = k /\ task[t].pc = "staged" /\ task[t].force
    BY <1>3 DEF Install!GoodStays
  <2>1. dir \in [Install!Kind -> {"none", "good", "corrupt"}] /\ dir' # dir
    BY <1>3 DEF InstallInv, InstallTypes
  <2>2. ASSUME NEW t \in Task, Install!Remove(t) PROVE KindOf(t) = k /\ task[t].pc = "staged" /\ task[t].force
    <3>1. task[t].pc = "staged" /\ dir' = [dir EXCEPT ![KindOf(t)] = "none"]
      BY <2>1, <2>2 DEF Install!Remove, Install!At
    <3>2. KindOf(t) = k
      BY <2>1, <3>1
    <3>3. EffortFits(t) /\ "staged" \in Preparing
      BY <1>3, InstallFacts DEF Preparing
    <3> QED BY <3>1, <3>2, <3>3 DEF EffortFits
  <2>3. ASSUME NEW t \in Task, Install!Rename(t) PROVE FALSE
    BY <2>1, <2>3 DEF Install!Rename
  <2>4. ASSUME NEW j \in Install!Kind, Install!Damage(j) PROVE FALSE
    BY <2>1, <2>4 DEF Install!Damage
  <2>5. ASSUME NEW t \in Task,
               \/ Install!Start(t) \/ Install!Acquire(t) \/ Install!ClaimTimesOut(t) \/ Install!SweepLook(t)
               \/ Install!SweepRemove(t) \/ Install!Prepare(t) \/ Install!WriteOwner(t) \/ Install!MakeStaging(t)
               \/ Install!Stage(t) \/ Install!DownloadFails(t) \/ Install!Verify(t) \/ Install!Finish(t) \/ Install!Read(t)
        PROVE  FALSE
    BY <2>1, <2>5
      DEF Install!Start, Install!Acquire, Install!ClaimTimesOut, Install!SweepLook, Install!SweepRemove,
      Install!Prepare, Install!WriteOwner, Install!MakeStaging, Install!Stage, Install!DownloadFails, Install!Verify,
      Install!Finish, Install!Read
  <2>6. ASSUME NEW p \in Install!Proc, Install!Crash(p) \/ Install!Age(p) PROVE FALSE
    BY <2>1, <2>6 DEF Install!Crash, Install!Age
  <2> QED BY <2>2, <2>3, <2>4, <2>5, <2>6 DEF Install!Next
<1> QED BY <1>1, <1>2, <1>3, PTL DEF Install!Spec

-----------------------------------------------------------------------------
(* The installation of a plugin: PluginInstall over any commands, sources   *)
(* and contents of files.  Only the code of a directory is of one source,   *)
(* its settings are Obsidian's.                                             *)

CONSTANTS Installer, Requests, Released, Cloned, Local, Content, MaxTrouble
VARIABLES temp, backup, list, wanted, mishap, spent

Plugin == INSTANCE PluginInstall

Sources == Released \cup Cloned \cup Local

\* What the constants are: directories of plugins, and what a file may hold.
PluginConstants ==
  /\ Installed \subseteq [Plugin!File -> Content] /\ Sources \subseteq [Plugin!File -> Content]
  /\ "no" \in Content /\ "new" \in Content
  /\ \A r \in Requests : r.type \in {"git", "local"} /\ r.enable \in BOOLEAN

Dir     == [Plugin!File -> Content]
Steps   == {"idle", "start", "staged", "kept", "aside", "placed", "installed", "listing", "undo", "clear", "back",
            "ok", "failed"}
Ids     == SUBSET {"this", "other"}
Progress == [step : Steps, source : Dir, enable : BOOLEAN, had : BOOLEAN, moved : BOOLEAN, next : Ids]
List    == [torn : BOOLEAN, ids : Ids]
Wish    == [data : Content, ids : Ids, code : [Plugin!File \ {"data"} -> Content]]

PluginTypes ==
  /\ target \in Dir /\ temp \in [Installer -> Dir] /\ backup \in [Installer -> Dir]
  /\ list \in List /\ op \in [Installer -> Progress] /\ wanted \in Wish

Codes == {Plugin!Code(d) : d \in Installed \cup Released \cup Cloned \cup Local}
OfOne(d) == d = Plugin!NoDir \/ Plugin!Code(d) \in Codes

\* No command is removing what it had put in place, and no removal was left half-way.
Unseen == \A a \in Installer : op[a].step # "clear"
Mended == mishap \cap {"half", "cut"} = {}

\* What is staged is of the source; until a removal was left half-way, every directory is of one
\* source, the plugin's while no command is removing its files.
DirsFit ==
  /\ \A a \in Plugin!Running :
       /\ op[a].source \in Sources
       /\ op[a].step \in {"staged", "kept", "aside"} => Plugin!Code(temp[a]) = Plugin!Code(op[a].source)
  /\ Mended => (Unseen => OfOne(target)) /\ \A a \in Installer : OfOne(temp[a]) /\ OfOne(backup[a])

\* A list is torn by the command that writes it; a command that enables has read what is there.
ListFits ==
  /\ list.torn => "torn" \in mishap \/ \E a \in Installer : op[a].step = "listing"
  /\ \A a \in Installer : op[a].step = "listing" => op[a].enable
  /\ "overwritten" \notin mishap =>
       /\ list.ids = wanted.ids
       /\ \A a \in Plugin!Running : op[a].enable => op[a].next = list.ids \cup {"this"}

\* The code that was reported last, and the settings that were saved last, are in a directory.
Code(d) == Plugin!Code(d) = wanted.code
Data(d) == "late" \notin mishap /\ wanted.data # "no" => d["data"] = wanted.data

\* What a command that runs alone has done by each step.
AloneFits(a) ==
  LET step == op[a].step IN
  /\ step \in {"start", "staged", "kept"} => ~op[a].moved
  /\ step \in {"start", "staged", "kept"} \/ (step = "undo" /\ ~op[a].moved) =>
       Data(target) /\ ("unreported" \notin mishap => Code(target))
  /\ step \in {"staged", "kept"} => (op[a].had <=> target # Plugin!NoDir)
  /\ step \in {"kept", "aside"} => Data(temp[a])
  /\ step = "aside" => op[a].moved
  /\ step \in {"aside", "back"} => target = Plugin!NoDir
  /\ step \in {"placed", "installed", "listing"} => Plugin!Code(target) = Plugin!Code(op[a].source) /\ Data(target)
  /\ step \in {"aside", "clear", "back"} \/ (step \in {"placed", "undo"} /\ op[a].moved) =>
       Data(backup[a]) /\ ("unreported" \notin mishap => Code(backup[a]))

Clear == mishap \cap {"half", "gone", "two"} = {}

SwapFits ==
  /\ "two" \notin mishap => \A a, b \in Plugin!Running : a = b
  /\ Clear =>
       /\ \A a \in Plugin!Running : AloneFits(a)
       /\ Plugin!Running = {} => Data(target) /\ ("unreported" \notin mishap => Code(target))

PluginInv == PluginTypes /\ DirsFit /\ ListFits /\ SwapFits

\* A step of one command leaves the others as they are.
Others(a) == \A b \in Installer \ {a} : op'[b] = op[b]
SameJob(a) ==
  /\ op'[a].source = op[a].source /\ op'[a].enable = op[a].enable /\ op'[a].next = op[a].next
  /\ op'[a].had = op[a].had /\ op'[a].moved = op[a].moved

LEMMA StepIs ==
  ASSUME NEW a \in Installer, NEW s \in Steps, op \in [Installer -> Progress], Plugin!Step(a, s)
  PROVE  op' \in [Installer -> Progress] /\ op'[a].step = s /\ SameJob(a) /\ Others(a)
<1>1. op[a] \in Progress
  OBVIOUS
<1>2. PICK n : n = [op[a] EXCEPT !.step = s]
  OBVIOUS
<1>3. n \in Progress /\ n.step = s
  BY <1>1, <1>2 DEF Progress
<1>4. /\ n.source = op[a].source /\ n.enable = op[a].enable /\ n.next = op[a].next
      /\ n.had = op[a].had /\ n.moved = op[a].moved
  BY <1>1, <1>2 DEF Progress
<1>5. op' = [op EXCEPT ![a] = n]
  BY <1>2 DEF Plugin!Step
<1> QED BY <1>3, <1>4, <1>5 DEF SameJob, Others

\* The settings are no code.
LEMMA CodeKeeps ==
  ASSUME NEW d \in Dir, NEW v \in Content
  PROVE  /\ [d EXCEPT !["data"] = v] \in Dir /\ Plugin!Code([d EXCEPT !["data"] = v]) = Plugin!Code(d)
         /\ [d EXCEPT !["data"] = v]["data"] = v
BY DEF Dir, Plugin!Code, Plugin!File

LEMMA NoDirIsDir == ASSUME PluginConstants PROVE Plugin!NoDir \in Dir /\ Plugin!NoDir["data"] = "no"
  BY DEF PluginConstants, Dir, Plugin!NoDir, Plugin!File

LEMMA CodeIs == ASSUME NEW d \in Dir PROVE Plugin!Code(d) \in [Plugin!File \ {"data"} -> Content] /\ d["data"] \in Content
  BY DEF Dir, Plugin!Code, Plugin!File

\* Who runs alone goes on alone.
LEMMA SwapBy ==
  ASSUME SwapFits, NEW a \in Plugin!Running, Others(a), mishap \subseteq mishap',
         Clear' /\ Clear /\ AloneFits(a) /\ op'[a].step \notin {"idle", "ok", "failed"} => AloneFits(a)',
         Clear' /\ Clear /\ AloneFits(a) /\ op'[a].step \in {"idle", "ok", "failed"} =>
           Data(target)' /\ ("unreported" \notin mishap' => Code(target)')
  PROVE  SwapFits'
<1>1. ASSUME "two" \notin mishap' PROVE \A b \in Plugin!Running' : b = a
  <2>1. \A b \in Plugin!Running : b = a
    BY <1>1 DEF SwapFits
  <2> QED BY <2>1 DEF Plugin!Running, Others
<1>2. ASSUME Clear' PROVE Clear /\ AloneFits(a) /\ "two" \notin mishap'
  BY <1>2 DEF Clear, SwapFits
<1>3. a \in Plugin!Running' <=> op'[a].step \notin {"idle", "ok", "failed"}
  BY DEF Plugin!Running
<1>4. ASSUME Clear', NEW b \in Plugin!Running' PROVE AloneFits(b)'
  <2>1. b = a
    BY <1>1, <1>2, <1>4
  <2>2. AloneFits(a)'
    BY <1>2, <1>3, <1>4, <2>1
  <2> QED BY <2>1, <2>2
<1>5. ASSUME Clear', Plugin!Running' = {} PROVE Data(target)' /\ ("unreported" \notin mishap' => Code(target)')
  BY <1>2, <1>3, <1>5
<1> QED BY <1>1, <1>4, <1>5 DEF SwapFits

\* A step that leaves the list alone.
LEMMA ListBy ==
  ASSUME ListFits, NEW a \in Installer, Others(a), list' = list, wanted'.ids = wanted.ids, mishap \subseteq mishap',
         op'[a].enable = op[a].enable /\ op'[a].next = op[a].next,
         op'[a].step \notin {"idle", "ok", "failed", "listing"} => a \in Plugin!Running,
         op'[a].step # "listing",
         op[a].step = "listing" => "torn" \in mishap'
  PROVE  ListFits'
<1>1. list'.torn => "torn" \in mishap' \/ \E b \in Installer : op'[b].step = "listing"
  BY DEF ListFits, Others
<1>2. \A b \in Installer : op'[b].step = "listing" => op'[b].enable
  BY DEF ListFits, Others
<1>3. ASSUME "overwritten" \notin mishap'
      PROVE  list'.ids = wanted'.ids /\ \A b \in Plugin!Running' : op'[b].enable => op'[b].next = list'.ids \cup {"this"}
  <2>1. \A b \in Plugin!Running' : b \in Plugin!Running /\ op'[b].enable = op[b].enable /\ op'[b].next = op[b].next
    BY DEF Plugin!Running, Others
  <2> QED BY <1>3, <2>1 DEF ListFits
<1> QED BY <1>1, <1>2, <1>3 DEF ListFits

\* A step that keeps every directory of one source.
LEMMA DirsBy ==
  ASSUME DirsFit, NEW a \in Plugin!Running, Others(a), mishap \subseteq mishap',
         \A b \in Installer \ {a} : temp'[b] = temp[b] /\ backup'[b] = backup[b],
         op'[a].step \notin {"idle", "ok", "failed"} => op'[a].source = op[a].source,
         op'[a].step \in {"staged", "kept", "aside"} => Plugin!Code(temp'[a]) = Plugin!Code(op[a].source),
         Mended' /\ OfOne(temp[a]) /\ OfOne(backup[a]) /\ (Unseen => OfOne(target))
           => OfOne(temp'[a]) /\ OfOne(backup'[a]) /\ (Unseen' => OfOne(target'))
  PROVE  DirsFit'
<1>0. a \in Installer
  BY DEF Plugin!Running
<1>1. ASSUME NEW b \in Plugin!Running'
      PROVE  /\ op'[b].source \in Sources
             /\ op'[b].step \in {"staged", "kept", "aside"} => Plugin!Code(temp'[b]) = Plugin!Code(op'[b].source)
  <2>1. CASE b = a
    BY <1>1, <2>1 DEF DirsFit, Plugin!Running
  <2>2. CASE b # a
    BY <1>1, <2>2 DEF DirsFit, Plugin!Running, Others
  <2> QED BY <2>1, <2>2
<1>2. ASSUME Mended'
      PROVE  (Unseen' => OfOne(target')) /\ \A b \in Installer : OfOne(temp'[b]) /\ OfOne(backup'[b])
  <2>1. Mended
    BY <1>2 DEF Mended
  <2>2. (Unseen => OfOne(target)) /\ \A b \in Installer : OfOne(temp[b]) /\ OfOne(backup[b])
    BY <2>1 DEF DirsFit
  <2>3. OfOne(temp'[a]) /\ OfOne(backup'[a]) /\ (Unseen' => OfOne(target'))
    BY <1>0, <1>2, <2>2
  <2> QED BY <1>0, <2>2, <2>3
<1> QED BY <1>1, <1>2 DEF DirsFit, OfOne, Codes, Plugin!Code, Plugin!NoDir

\* Who removes nothing leaves open whether another does.
LEMMA UnseenBy ==
  ASSUME NEW a \in Installer, Others(a), op[a].step # "clear", op'[a].step # "clear"
  PROVE  Unseen' <=> Unseen
BY DEF Unseen, Others

\* A command starts.
LEMMA PluginStarts ==
  ASSUME PluginConstants, PluginInv, NEW a \in Installer, NEW r \in Requests, NEW source \in Plugin!Materialized(r),
         Plugin!Start(a, r, source)
  PROVE  PluginInv'
<1>0. PluginTypes /\ DirsFit /\ ListFits /\ SwapFits /\ list \in List
  BY DEF PluginInv, PluginTypes
<1> DEFINE enable == r.enable /\ "this" \notin list.ids
           next == list.ids \cup {"this"}
           job == [Plugin!NoOp EXCEPT !.step = "start", !.source = source, !.enable = enable, !.next = next]
<1>1. /\ op[a].step = "idle" /\ op' = [op EXCEPT ![a] = job]
      /\ mishap' = mishap \cup (IF Plugin!Running = {} THEN {} ELSE {"two"})
      /\ UNCHANGED <<target, temp, backup, list, wanted>>
  BY DEF Plugin!Start, Plugin!EnablePlan, Plugin!Mishap
<1>2. source \in Sources /\ source \in Dir
  BY DEF PluginConstants, Plugin!Materialized, Plugin!ReleaseFor, Sources, Dir
<1>3. /\ job \in Progress /\ job.step = "start" /\ job.source = source
      /\ job.enable = enable /\ job.next = next /\ ~job.moved
  <2>1. enable \in BOOLEAN
    OBVIOUS
  <2>2. next \in Ids
    <3>1. list.ids \in Ids
      BY <1>0 DEF List
    <3> QED BY <3>1 DEF Ids
  <2>3. "start" \in Steps
    BY DEF Steps
  <2> HIDE DEF enable, next
  <2>4. Plugin!NoOp \in Progress /\ ~Plugin!NoOp.moved
    <3>1. "idle" \in Steps /\ {} \in Ids
      BY DEF Steps, Ids
    <3> QED BY <3>1, NoDirIsDir DEF Progress, Plugin!NoOp
  <2>5. job \in Progress
    BY <1>2, <2>1, <2>2, <2>3, <2>4 DEF Progress
  <2>6. job.step = "start" /\ job.source = source /\ job.enable = enable
    BY <2>4 DEF Progress
  <2>7. job.next = next /\ ~job.moved
    BY <2>4 DEF Progress
  <2> HIDE DEF job
  <2> QED BY <2>5, <2>6, <2>7
<1>4. /\ op' \in [Installer -> Progress] /\ op'[a] = job /\ Others(a)
      /\ op'[a].step = "start" /\ op'[a].source = source /\ op'[a].enable = enable /\ op'[a].next = next /\ ~op'[a].moved
  <2>1. op' \in [Installer -> Progress] /\ op'[a] = job /\ Others(a)
    <3> HIDE DEF job
    <3> QED BY <1>0, <1>1, <1>3 DEF PluginTypes, Others
  <2> HIDE DEF job, enable, next
  <2> QED BY <1>3, <2>1
<1>5. PluginTypes'
  BY <1>0, <1>1, <1>4 DEF PluginTypes
<1> HIDE DEF job, enable
<1>6. /\ Plugin!Running' = Plugin!Running \cup {a} /\ a \notin Plugin!Running
      /\ \A b \in Plugin!Running : op'[b] = op[b] /\ b # a
  BY <1>1, <1>4 DEF Plugin!Running, Others
<1>7. DirsFit'
  <2>1. ASSUME NEW b \in Plugin!Running'
        PROVE  /\ op'[b].source \in Sources
               /\ op'[b].step \in {"staged", "kept", "aside"} => Plugin!Code(temp'[b]) = Plugin!Code(op'[b].source)
    BY <1>0, <1>1, <1>2, <1>4, <1>6 DEF DirsFit
  <2>2. ASSUME Mended' PROVE (Unseen' => OfOne(target')) /\ \A b \in Installer : OfOne(temp'[b]) /\ OfOne(backup'[b])
    <3>1. Mended
      BY <1>1, <2>2 DEF Mended
    <3>2. Unseen' <=> Unseen
      BY <1>1, <1>4, UnseenBy
    <3> QED BY <1>0, <1>1, <3>1, <3>2 DEF DirsFit
  <2> QED BY <2>1, <2>2 DEF DirsFit, OfOne, Codes, Plugin!Code, Plugin!NoDir
<1>8. ListFits'
  <2>1. list.torn => "torn" \in mishap' \/ \E b \in Installer : op'[b].step = "listing"
    BY <1>0, <1>1, <1>4 DEF ListFits, Others
  <2>2. \A b \in Installer : op'[b].step = "listing" => op'[b].enable
    BY <1>0, <1>4 DEF ListFits, Others
  <2>3. ASSUME "overwritten" \notin mishap'
        PROVE  list.ids = wanted.ids /\ \A b \in Plugin!Running' : op'[b].enable => op'[b].next = list.ids \cup {"this"}
    BY <1>0, <1>1, <1>4, <1>6, <2>3 DEF ListFits
  <2> QED BY <1>1, <2>1, <2>2, <2>3 DEF ListFits
<1>9. SwapFits'
  <2>1. ASSUME "two" \notin mishap' PROVE Plugin!Running' = {a} /\ Plugin!Running = {}
    BY <1>1, <1>6, <2>1
  <2>2. ASSUME Clear' PROVE AloneFits(a)'
    <3>1. Clear /\ Plugin!Running = {} /\ ("unreported" \notin mishap' => "unreported" \notin mishap)
      BY <1>1, <2>1, <2>2 DEF Clear
    <3>2. Data(target) /\ ("unreported" \notin mishap => Code(target))
      BY <1>0, <3>1 DEF SwapFits
    <3>3. Data(target)' /\ ("unreported" \notin mishap' => Code(target)')
      BY <1>1, <3>1, <3>2 DEF Data, Code, Plugin!Code
    <3> QED BY <1>4, <3>3 DEF AloneFits
  <2>3. ASSUME Clear' PROVE Plugin!Running' = {a}
    BY <2>1, <2>3 DEF Clear
  <2> QED BY <2>1, <2>2, <2>3 DEF SwapFits
<1> QED BY <1>5, <1>7, <1>8, <1>9 DEF PluginInv

\* The files are staged.
LEMMA PluginStages ==
  ASSUME PluginConstants, PluginInv, NEW a \in Installer, Plugin!Stage(a)
  PROVE  PluginInv'
<1>0. PluginTypes /\ DirsFit /\ ListFits /\ SwapFits /\ op \in [Installer -> Progress] /\ op[a] \in Progress
  BY DEF PluginInv, PluginTypes
<1> DEFINE had == target # Plugin!NoDir
           job == [op[a] EXCEPT !.step = "staged", !.had = had]
<1>1. /\ op[a].step = "start" /\ op' = [op EXCEPT ![a] = job] /\ temp' = [temp EXCEPT ![a] = op[a].source]
      /\ UNCHANGED <<target, backup, list, wanted, mishap>>
  BY DEF Plugin!Stage
<1>2. /\ job \in Progress /\ job.step = "staged" /\ job.had = had /\ job.source = op[a].source
      /\ job.enable = op[a].enable /\ job.next = op[a].next /\ job.moved = op[a].moved
  <2>1. had \in BOOLEAN
    OBVIOUS
  <2> HIDE DEF had
  <2>2. job \in Progress
    <3>1. "staged" \in Steps
      BY DEF Steps
    <3> QED BY <1>0, <2>1, <3>1 DEF Progress
  <2>3. job.step = "staged" /\ job.had = had /\ job.source = op[a].source
    BY <1>0, <2>1 DEF Progress
  <2>4. job.enable = op[a].enable /\ job.next = op[a].next /\ job.moved = op[a].moved
    BY <1>0, <2>1 DEF Progress
  <2> HIDE DEF job
  <2> QED BY <2>2, <2>3, <2>4
<1>3. op' \in [Installer -> Progress] /\ op'[a] = job /\ Others(a) /\ a \in Plugin!Running
  BY <1>0, <1>1, <1>2 DEF Others, Plugin!Running
<1>4. temp' \in [Installer -> Dir] /\ temp'[a] = op[a].source /\ \A b \in Installer \ {a} : temp'[b] = temp[b]
  BY <1>0, <1>1 DEF PluginTypes, Progress
<1> HIDE DEF job
<1>5. PluginTypes'
  BY <1>0, <1>1, <1>3, <1>4 DEF PluginTypes
<1>6. DirsFit'
  <2>0. Unseen' <=> Unseen
    BY <1>1, <1>2, <1>3, UnseenBy
  <2>1. OfOne(temp'[a])
    BY <1>0, <1>3, <1>4 DEF DirsFit, OfOne, Codes, Sources
  <2> QED BY <1>0, <1>1, <1>2, <1>3, <1>4, <2>0, <2>1, DirsBy
<1>7. ListFits'
  BY <1>0, <1>1, <1>2, <1>3, ListBy
<1>8. SwapFits'
  <2>1. ASSUME AloneFits(a) PROVE AloneFits(a)'
    <3>1. ~op[a].moved /\ Data(target) /\ ("unreported" \notin mishap => Code(target))
      BY <1>1, <2>1 DEF AloneFits
    <3>2. Data(target)' /\ ("unreported" \notin mishap' => Code(target)')
      BY <1>1, <3>1 DEF Data, Code, Plugin!Code
    <3> QED BY <1>1, <1>2, <1>3, <3>1, <3>2 DEF AloneFits, Plugin!NoDir
  <2> QED BY <1>0, <1>1, <1>2, <1>3, <2>1, SwapBy
<1> QED BY <1>5, <1>6, <1>7, <1>8 DEF PluginInv

\* The installed settings are taken over.
LEMMA PluginKeeps ==
  ASSUME PluginConstants, PluginInv, NEW a \in Installer, Plugin!KeepSettings(a)
  PROVE  PluginInv'
<1>0. /\ PluginTypes /\ DirsFit /\ ListFits /\ SwapFits /\ op \in [Installer -> Progress] /\ op[a] \in Progress
      /\ target \in Dir /\ temp \in [Installer -> Dir] /\ temp[a] \in Dir
  BY DEF PluginInv, PluginTypes
<1> DEFINE v == IF op[a].had /\ target["data"] # "no" THEN target["data"] ELSE temp[a]["data"]
<1>1. /\ op[a].step = "staged" /\ Plugin!Step(a, "kept") /\ temp' = [temp EXCEPT ![a] = [temp[a] EXCEPT !["data"] = v]]
      /\ UNCHANGED <<target, backup, list, wanted, mishap>>
  BY DEF Plugin!KeepSettings
<1>2. v \in Content
  BY <1>0, CodeIs
<1> HIDE DEF v
<1>3. op' \in [Installer -> Progress] /\ op'[a].step = "kept" /\ SameJob(a) /\ Others(a) /\ a \in Plugin!Running
  <2>1. op' \in [Installer -> Progress] /\ op'[a].step = "kept" /\ SameJob(a) /\ Others(a)
    <3>1. "kept" \in Steps
      BY DEF Steps
    <3> QED BY <1>0, <1>1, <3>1, StepIs
  <2> QED BY <1>0, <1>1, <2>1 DEF Plugin!Running
<1>4. /\ temp' \in [Installer -> Dir] /\ \A b \in Installer \ {a} : temp'[b] = temp[b]
      /\ Plugin!Code(temp'[a]) = Plugin!Code(temp[a]) /\ temp'[a]["data"] = v
  <2>1. /\ [temp[a] EXCEPT !["data"] = v] \in Dir /\ Plugin!Code([temp[a] EXCEPT !["data"] = v]) = Plugin!Code(temp[a])
        /\ [temp[a] EXCEPT !["data"] = v]["data"] = v
    BY <1>0, <1>2, CodeKeeps
  <2> QED BY <1>0, <1>1, <2>1
<1>5. PluginTypes'
  BY <1>0, <1>1, <1>3, <1>4 DEF PluginTypes
<1>6. DirsFit'
  <2>0. Unseen' <=> Unseen
    BY <1>1, <1>3, UnseenBy
  <2>1. Plugin!Code(temp[a]) = Plugin!Code(op[a].source) /\ op[a].source \in Sources
    BY <1>0, <1>1, <1>3 DEF DirsFit
  <2>2. OfOne(temp'[a])
    BY <1>4, <2>1 DEF OfOne, Codes, Sources
  <2> QED BY <1>0, <1>1, <1>3, <1>4, <2>1, <2>0, <2>2, DirsBy DEF SameJob
<1>7. ListFits'
  BY <1>0, <1>1, <1>3, ListBy DEF SameJob
<1>8. SwapFits'
  <2>1. ASSUME AloneFits(a) PROVE AloneFits(a)'
    <3>1. ~op[a].moved /\ Data(target) /\ ("unreported" \notin mishap => Code(target)) /\ (op[a].had <=> target # Plugin!NoDir)
      BY <1>1, <2>1 DEF AloneFits
    <3>2. Data(target)' /\ ("unreported" \notin mishap' => Code(target)')
      BY <1>1, <3>1 DEF Data, Code, Plugin!Code
    <3>3. Data(temp[a])'
      BY <1>1, <1>4, <3>1, NoDirIsDir DEF Data, v
    <3> QED BY <1>1, <1>3, <3>1, <3>2, <3>3 DEF AloneFits, Plugin!NoDir, SameJob
  <2> QED BY <1>0, <1>1, <1>3, <2>1, SwapBy
<1> QED BY <1>5, <1>6, <1>7, <1>8 DEF PluginInv

\* The installed plugin goes aside.
LEMMA PluginMoves ==
  ASSUME PluginConstants, PluginInv, NEW a \in Installer, Plugin!MoveAside(a)
  PROVE  PluginInv'
<1>0. /\ PluginTypes /\ DirsFit /\ ListFits /\ SwapFits /\ op \in [Installer -> Progress] /\ op[a] \in Progress
      /\ target \in Dir /\ backup \in [Installer -> Dir]
  BY DEF PluginInv, PluginTypes
<1> DEFINE job == [op[a] EXCEPT !.step = "aside", !.moved = TRUE]
<1>1. /\ op[a].step = "kept" /\ op' = [op EXCEPT ![a] = job] /\ target' = Plugin!NoDir
      /\ backup' = [backup EXCEPT ![a] = target] /\ UNCHANGED <<temp, list, wanted>>
      /\ mishap' = mishap \cup (IF \E b \in Plugin!Running : op[b].step = "clear" THEN {"cut"} ELSE {})
  BY DEF Plugin!MoveAside, Plugin!Mishap
<1>2. /\ job \in Progress /\ job.step = "aside" /\ job.had = op[a].had /\ job.source = op[a].source
      /\ job.enable = op[a].enable /\ job.next = op[a].next /\ job.moved
  <2>1. job \in Progress
    <3>1. "aside" \in Steps
      BY DEF Steps
    <3> QED BY <1>0, <3>1 DEF Progress
  <2>2. job.step = "aside" /\ job.had = op[a].had /\ job.source = op[a].source
    BY <1>0 DEF Progress
  <2>3. job.enable = op[a].enable /\ job.next = op[a].next /\ job.moved
    BY <1>0 DEF Progress
  <2> HIDE DEF job
  <2> QED BY <2>1, <2>2, <2>3
<1>3. op' \in [Installer -> Progress] /\ op'[a] = job /\ Others(a) /\ a \in Plugin!Running
  BY <1>0, <1>1, <1>2 DEF Others, Plugin!Running
<1>4. backup' \in [Installer -> Dir] /\ backup'[a] = target /\ \A b \in Installer \ {a} : backup'[b] = backup[b]
  BY <1>0, <1>1
<1> HIDE DEF job
<1>5. PluginTypes'
  BY <1>0, <1>1, <1>3, <1>4, NoDirIsDir DEF PluginTypes
<1>6. DirsFit'
  <2>1. Plugin!Code(temp[a]) = Plugin!Code(op[a].source)
    BY <1>0, <1>1, <1>3 DEF DirsFit
  <2>2. OfOne(target') /\ mishap \subseteq mishap'
    BY <1>1 DEF OfOne
  <2>3. ASSUME Mended' PROVE Unseen
    BY <1>1, <2>3 DEF Mended, Unseen, Plugin!Running
  <2> QED BY <1>0, <1>1, <1>2, <1>3, <1>4, <2>1, <2>2, <2>3, DirsBy
<1>7. ListFits'
  BY <1>0, <1>1, <1>2, <1>3, ListBy
<1>8. SwapFits'
  <2>0. /\ mishap \subseteq mishap' /\ ("late" \in mishap' <=> "late" \in mishap)
        /\ ("unreported" \in mishap' <=> "unreported" \in mishap)
    BY <1>1
  <2>1. ASSUME AloneFits(a) PROVE AloneFits(a)'
    <3>1. Data(target) /\ ("unreported" \notin mishap => Code(target)) /\ Data(temp[a])
      BY <1>1, <2>1 DEF AloneFits
    <3>2. Data(backup[a])' /\ ("unreported" \notin mishap' => Code(backup[a])') /\ Data(temp[a])'
      BY <1>1, <1>4, <2>0, <3>1 DEF Data, Code, Plugin!Code
    <3> QED BY <1>1, <1>2, <1>3, <3>2 DEF AloneFits, Plugin!NoDir
  <2> QED BY <1>0, <1>1, <1>2, <1>3, <2>0, <2>1, SwapBy
<1> QED BY <1>5, <1>6, <1>7, <1>8 DEF PluginInv

\* The staged files are put in its place.
LEMMA PluginPuts ==
  ASSUME PluginConstants, PluginInv, NEW a \in Installer, Plugin!PutInPlace(a)
  PROVE  PluginInv'
<1>0. /\ PluginTypes /\ DirsFit /\ ListFits /\ SwapFits /\ op \in [Installer -> Progress]
      /\ target \in Dir /\ temp \in [Installer -> Dir]
  BY DEF PluginInv, PluginTypes
<1>1. /\ op[a].step = "aside" \/ (op[a].step = "kept" /\ ~op[a].had)
      /\ Plugin!Step(a, "placed") /\ target = Plugin!NoDir /\ target' = temp[a]
      /\ temp' = [temp EXCEPT ![a] = Plugin!NoDir] /\ UNCHANGED <<backup, list, wanted, mishap>>
  BY DEF Plugin!PutInPlace
<1>3. op' \in [Installer -> Progress] /\ op'[a].step = "placed" /\ SameJob(a) /\ Others(a) /\ a \in Plugin!Running
  <2>1. op' \in [Installer -> Progress] /\ op'[a].step = "placed" /\ SameJob(a) /\ Others(a)
    <3>1. "placed" \in Steps
      BY DEF Steps
    <3> QED BY <1>0, <1>1, <3>1, StepIs
  <2> QED BY <1>0, <1>1, <2>1 DEF Plugin!Running
<1>4. temp' \in [Installer -> Dir] /\ temp'[a] = Plugin!NoDir /\ \A b \in Installer \ {a} : temp'[b] = temp[b]
  BY <1>0, <1>1, NoDirIsDir
<1>5. PluginTypes'
  BY <1>0, <1>1, <1>3, <1>4 DEF PluginTypes
<1>6. DirsFit'
  <2>0. Unseen' <=> Unseen
    BY <1>1, <1>3, UnseenBy
  <2>1. OfOne(Plugin!NoDir)
    BY DEF OfOne
  <2>2. target' = temp[a]
    BY <1>1
  <2> QED BY <1>0, <1>1, <1>3, <1>4, <2>0, <2>1, <2>2, DirsBy DEF SameJob
<1>7. ListFits'
  BY <1>0, <1>1, <1>3, ListBy DEF SameJob
<1>8. SwapFits'
  <2>1. ASSUME AloneFits(a) PROVE AloneFits(a)'
    <3>1. /\ Data(temp[a]) /\ Plugin!Code(temp[a]) = Plugin!Code(op[a].source)
          /\ op[a].moved => Data(backup[a]) /\ ("unreported" \notin mishap => Code(backup[a]))
      BY <1>0, <1>1, <1>3, <2>1 DEF AloneFits, DirsFit
    <3>2. /\ Data(target)' /\ Plugin!Code(target') = Plugin!Code(op[a].source)
          /\ op[a].moved => Data(backup[a])' /\ ("unreported" \notin mishap' => Code(backup[a])')
      BY <1>1, <3>1 DEF Data, Code, Plugin!Code
    <3>3. (Plugin!Code(target) = Plugin!Code(op[a].source))'
      BY <1>3, <3>2 DEF SameJob, Plugin!Code
    <3> QED BY <1>1, <1>3, <3>2, <3>3 DEF AloneFits, SameJob
  <2> QED BY <1>0, <1>1, <1>3, <2>1, SwapBy
<1> QED BY <1>5, <1>6, <1>7, <1>8 DEF PluginInv

\* The backup is removed, or the list is about to be written.
LEMMA PluginDrops ==
  ASSUME PluginConstants, PluginInv, NEW a \in Installer, Plugin!DropBackup(a)
  PROVE  PluginInv'
<1>0. /\ PluginTypes /\ DirsFit /\ ListFits /\ SwapFits /\ op \in [Installer -> Progress] /\ backup \in [Installer -> Dir]
  BY DEF PluginInv, PluginTypes
<1>1. /\ op[a].step = "placed" /\ Plugin!Step(a, "installed") /\ backup' = [backup EXCEPT ![a] = Plugin!NoDir]
      /\ UNCHANGED <<target, temp, list, wanted, mishap>>
  BY DEF Plugin!DropBackup
<1>3. op' \in [Installer -> Progress] /\ op'[a].step = "installed" /\ SameJob(a) /\ Others(a) /\ a \in Plugin!Running
  <2>1. op' \in [Installer -> Progress] /\ op'[a].step = "installed" /\ SameJob(a) /\ Others(a)
    <3>1. "installed" \in Steps
      BY DEF Steps
    <3> QED BY <1>0, <1>1, <3>1, StepIs
  <2> QED BY <1>0, <1>1, <2>1 DEF Plugin!Running
<1>4. backup' \in [Installer -> Dir] /\ backup'[a] = Plugin!NoDir /\ \A b \in Installer \ {a} : backup'[b] = backup[b]
  BY <1>0, <1>1, NoDirIsDir
<1>5. PluginTypes'
  BY <1>0, <1>1, <1>3, <1>4 DEF PluginTypes
<1>6. DirsFit'
  <2>0. Unseen' <=> Unseen
    BY <1>1, <1>3, UnseenBy
  <2>1. OfOne(Plugin!NoDir)
    BY DEF OfOne
  <2> QED BY <1>0, <1>1, <1>3, <1>4, <2>0, <2>1, DirsBy DEF SameJob
<1>7. ListFits'
  BY <1>0, <1>1, <1>3, ListBy DEF SameJob
<1>8. SwapFits'
  <2>1. ASSUME AloneFits(a) PROVE AloneFits(a)'
    <3>1. Data(target) /\ Plugin!Code(target) = Plugin!Code(op[a].source)
      BY <1>1, <2>1 DEF AloneFits
    <3>2. Data(target)' /\ (Plugin!Code(target) = Plugin!Code(op[a].source))'
      BY <1>1, <1>3, <3>1 DEF Data, Plugin!Code, SameJob
    <3> QED BY <1>1, <1>3, <3>2 DEF AloneFits
  <2> QED BY <1>0, <1>1, <1>3, <2>1, SwapBy
<1> QED BY <1>5, <1>6, <1>7, <1>8 DEF PluginInv

\* A call fails, and what was done so far is about to be undone.
LEMMA PluginFails ==
  ASSUME PluginConstants, PluginInv, NEW a \in Installer, Plugin!Fail(a)
  PROVE  PluginInv'
<1>0. /\ PluginTypes /\ DirsFit /\ ListFits /\ SwapFits /\ op \in [Installer -> Progress]
      /\ target \in Dir /\ backup \in [Installer -> Dir] /\ backup[a] \in Dir
  BY DEF PluginInv, PluginTypes
<1> DEFINE rest(left) == [f \in Plugin!File |-> IF f \in left THEN backup[a][f] ELSE "no"]
<1>1. /\ op[a].step \in {"start", "staged", "kept", "aside"} \/ (op[a].step = "placed" /\ op[a].moved)
      /\ Plugin!Step(a, "undo") /\ UNCHANGED <<target, temp, list, wanted>>
  BY DEF Plugin!Fail
<1>2. PICK left \in (IF op[a].step = "placed" THEN SUBSET Plugin!File ELSE {Plugin!File}) :
        /\ backup' = [backup EXCEPT ![a] = rest(left)]
        /\ mishap' = mishap \cup (IF left # Plugin!File THEN {"half"} ELSE {})
  BY DEF Plugin!Fail, Plugin!Mishap
<1>3. op' \in [Installer -> Progress] /\ op'[a].step = "undo" /\ SameJob(a) /\ Others(a) /\ a \in Plugin!Running
  <2>1. op' \in [Installer -> Progress] /\ op'[a].step = "undo" /\ SameJob(a) /\ Others(a)
    <3>1. "undo" \in Steps
      BY DEF Steps
    <3> QED BY <1>0, <1>1, <3>1, StepIs
  <2> QED BY <1>0, <1>1, <2>1 DEF Plugin!Running
<1>4. rest(left) \in Dir /\ (left = Plugin!File => rest(left) = backup[a])
  BY <1>0, NoDirIsDir DEF Dir, PluginConstants
<1> HIDE DEF rest
<1>5. /\ backup' \in [Installer -> Dir] /\ \A b \in Installer \ {a} : backup'[b] = backup[b]
      /\ left = Plugin!File => backup'[a] = backup[a]
  BY <1>0, <1>2, <1>4
<1>6. mishap \subseteq mishap' /\ ("half" \notin mishap' => left = Plugin!File /\ mishap' = mishap)
  BY <1>2
<1>7. PluginTypes'
  BY <1>0, <1>1, <1>3, <1>5 DEF PluginTypes
<1>8. DirsFit'
  <2>0. Unseen' <=> Unseen
    BY <1>1, <1>3, UnseenBy
  <2>1. ASSUME Mended' PROVE backup'[a] = backup[a]
    BY <1>5, <1>6, <2>1 DEF Mended
  <2> QED BY <1>0, <1>1, <1>3, <1>5, <1>6, <2>0, <2>1, DirsBy DEF SameJob
<1>9. ListFits'
  BY <1>0, <1>1, <1>3, <1>6, ListBy DEF SameJob
<1>10. SwapFits'
  <2>1. ASSUME Clear', AloneFits(a) PROVE AloneFits(a)'
    <3>1. left = Plugin!File /\ mishap' = mishap /\ backup'[a] = backup[a]
      BY <1>5, <1>6, <2>1 DEF Clear
    <3>2. CASE op[a].moved
      <4>1. Data(backup[a]) /\ ("unreported" \notin mishap => Code(backup[a]))
        BY <1>1, <2>1, <3>2 DEF AloneFits
      <4>2. Data(backup[a])' /\ ("unreported" \notin mishap' => Code(backup[a])')
        BY <1>1, <3>1, <4>1 DEF Data, Code, Plugin!Code
      <4> QED BY <1>3, <3>2, <4>2 DEF AloneFits, SameJob
    <3>3. CASE ~op[a].moved
      <4>1. Data(target) /\ ("unreported" \notin mishap => Code(target))
        BY <1>1, <2>1, <3>3 DEF AloneFits
      <4>2. Data(target)' /\ ("unreported" \notin mishap' => Code(target)')
        BY <1>1, <3>1, <4>1 DEF Data, Code, Plugin!Code
      <4> QED BY <1>3, <3>3, <4>2 DEF AloneFits, SameJob
    <3> QED BY <3>2, <3>3
  <2> QED BY <1>0, <1>3, <1>6, <2>1, SwapBy
<1> QED BY <1>7, <1>8, <1>9, <1>10 DEF PluginInv

\* What was staged is taken away.
LEMMA PluginUnstages ==
  ASSUME PluginConstants, PluginInv, NEW a \in Installer, Plugin!Unstage(a)
  PROVE  PluginInv'
<1>0. PluginTypes /\ DirsFit /\ ListFits /\ SwapFits /\ op \in [Installer -> Progress] /\ temp \in [Installer -> Dir]
  BY DEF PluginInv, PluginTypes
<1> DEFINE step == IF op[a].moved THEN "clear" ELSE "failed"
<1>1. /\ op[a].step = "undo" /\ Plugin!Step(a, step) /\ temp' = [temp EXCEPT ![a] = Plugin!NoDir]
      /\ UNCHANGED <<target, backup, list, wanted, mishap>>
  BY DEF Plugin!Unstage
<1>3. op' \in [Installer -> Progress] /\ op'[a].step = step /\ SameJob(a) /\ Others(a) /\ a \in Plugin!Running
  <2>1. op' \in [Installer -> Progress] /\ op'[a].step = step /\ SameJob(a) /\ Others(a)
    <3>1. step \in Steps
      BY DEF Steps
    <3> HIDE DEF step
    <3> QED BY <1>0, <1>1, <3>1, StepIs
  <2> QED BY <1>0, <1>1, <2>1 DEF Plugin!Running
<1>4. temp' \in [Installer -> Dir] /\ temp'[a] = Plugin!NoDir /\ \A b \in Installer \ {a} : temp'[b] = temp[b]
  BY <1>0, <1>1, NoDirIsDir
<1>5. PluginTypes'
  BY <1>0, <1>1, <1>3, <1>4 DEF PluginTypes
<1>6. DirsFit'
  <2>0. Unseen' => Unseen
    BY <1>1, <1>3 DEF Unseen, Others
  <2>1. OfOne(Plugin!NoDir)
    BY DEF OfOne
  <2> QED BY <1>0, <1>1, <1>3, <1>4, <2>0, <2>1, DirsBy DEF SameJob
<1>7. ListFits'
  BY <1>0, <1>1, <1>3, ListBy DEF SameJob
<1>8. SwapFits'
  <2>1. ASSUME AloneFits(a), op[a].moved PROVE AloneFits(a)'
    <3>1. Data(backup[a]) /\ ("unreported" \notin mishap => Code(backup[a]))
      BY <1>1, <2>1 DEF AloneFits
    <3>2. Data(backup[a])' /\ ("unreported" \notin mishap' => Code(backup[a])')
      BY <1>1, <3>1 DEF Data, Code, Plugin!Code
    <3>3. op'[a].step = "clear"
      BY <1>3, <2>1
    <3> QED BY <3>2, <3>3 DEF AloneFits
  <2>2. ASSUME AloneFits(a), ~op[a].moved PROVE Data(target)' /\ ("unreported" \notin mishap' => Code(target)')
    <3>1. Data(target) /\ ("unreported" \notin mishap => Code(target))
      BY <1>1, <2>2 DEF AloneFits
    <3> QED BY <1>1, <3>1 DEF Data, Code, Plugin!Code
  <2> QED BY <1>0, <1>1, <1>3, <2>1, <2>2, SwapBy
<1> QED BY <1>5, <1>6, <1>7, <1>8 DEF PluginInv

\* A file of what is in the place of the old plugin is removed; who sees the rest sees the command at it.
LEMMA PluginClears ==
  ASSUME PluginConstants, PluginInv, NEW a \in Installer, Plugin!RemoveNew(a)
  PROVE  PluginInv'
<1>0. PluginTypes /\ DirsFit /\ ListFits /\ SwapFits /\ op \in [Installer -> Progress] /\ target \in Dir
  BY DEF PluginInv, PluginTypes
<1> DEFINE step == IF target' = Plugin!NoDir THEN "back" ELSE "clear"
<1>1. /\ op[a].step = "clear" /\ Plugin!Step(a, step) /\ \E f \in Plugin!File : target' = [target EXCEPT ![f] = "no"]
      /\ UNCHANGED <<temp, backup, list, wanted, mishap>>
  BY DEF Plugin!RemoveNew
<1>2. target' \in Dir
  BY <1>0, <1>1 DEF Dir, PluginConstants
<1>3. op' \in [Installer -> Progress] /\ op'[a].step = step /\ SameJob(a) /\ Others(a) /\ a \in Plugin!Running
  <2>1. op' \in [Installer -> Progress] /\ op'[a].step = step /\ SameJob(a) /\ Others(a)
    <3>1. step \in Steps
      BY DEF Steps
    <3> HIDE DEF step
    <3> QED BY <1>0, <1>1, <3>1, StepIs
  <2> QED BY <1>0, <1>1, <2>1 DEF Plugin!Running
<1>4. step \in {"clear", "back"} /\ (step = "back" => target' = Plugin!NoDir)
  OBVIOUS
<1> HIDE DEF step
<1>5. PluginTypes'
  BY <1>0, <1>1, <1>2, <1>3 DEF PluginTypes
<1>6. DirsFit'
  <2>1. ASSUME Unseen' PROVE OfOne(target')
    <3>1. op'[a].step # "clear"
      BY <2>1 DEF Unseen
    <3> QED BY <1>3, <1>4, <3>1 DEF OfOne
  <2> QED BY <1>0, <1>1, <1>3, <1>4, <2>1, DirsBy DEF SameJob
<1>7. ListFits'
  BY <1>0, <1>1, <1>3, <1>4, ListBy DEF SameJob
<1>8. SwapFits'
  <2>1. ASSUME AloneFits(a) PROVE AloneFits(a)'
    <3>1. Data(backup[a]) /\ ("unreported" \notin mishap => Code(backup[a]))
      BY <1>1, <2>1 DEF AloneFits
    <3>2. Data(backup[a])' /\ ("unreported" \notin mishap' => Code(backup[a])')
      BY <1>1, <3>1 DEF Data, Code, Plugin!Code
    <3> QED BY <1>3, <1>4, <3>2 DEF AloneFits, Plugin!NoDir
  <2> QED BY <1>0, <1>1, <1>3, <1>4, <2>1, SwapBy
<1> QED BY <1>5, <1>6, <1>7, <1>8 DEF PluginInv

\* The old plugin is put back.
LEMMA PluginRestores ==
  ASSUME PluginConstants, PluginInv, NEW a \in Installer, Plugin!Restore(a)
  PROVE  PluginInv'
<1>0. /\ PluginTypes /\ DirsFit /\ ListFits /\ SwapFits /\ op \in [Installer -> Progress]
      /\ target \in Dir /\ backup \in [Installer -> Dir]
  BY DEF PluginInv, PluginTypes
<1>1. /\ op[a].step = "back" /\ Plugin!Step(a, "failed") /\ UNCHANGED <<temp, list, wanted>>
      /\ \/ /\ target' = backup[a] /\ backup' = [backup EXCEPT ![a] = Plugin!NoDir] /\ mishap' = mishap
         \/ UNCHANGED <<target, backup>> /\ mishap' = mishap \cup {"gone"}
  BY DEF Plugin!Restore, Plugin!Mishap
<1>3. op' \in [Installer -> Progress] /\ op'[a].step = "failed" /\ SameJob(a) /\ Others(a) /\ a \in Plugin!Running
  <2>1. op' \in [Installer -> Progress] /\ op'[a].step = "failed" /\ SameJob(a) /\ Others(a)
    <3>1. "failed" \in Steps
      BY DEF Steps
    <3> QED BY <1>0, <1>1, <3>1, StepIs
  <2> QED BY <1>0, <1>1, <2>1 DEF Plugin!Running
<1>4. /\ target' \in Dir /\ backup' \in [Installer -> Dir] /\ backup'[a] \in {backup[a], Plugin!NoDir}
      /\ target' \in {target, backup[a]} /\ \A b \in Installer \ {a} : backup'[b] = backup[b]
  BY <1>0, <1>1, NoDirIsDir
<1>5. PluginTypes'
  BY <1>0, <1>1, <1>3, <1>4 DEF PluginTypes
<1>6. DirsFit'
  <2>0. Unseen' <=> Unseen
    BY <1>1, <1>3, UnseenBy
  <2>1. OfOne(Plugin!NoDir)
    BY DEF OfOne
  <2>2. ASSUME OfOne(backup[a]), Unseen => OfOne(target)
        PROVE  OfOne(backup'[a]) /\ (Unseen' => OfOne(target'))
    BY <1>4, <2>0, <2>1, <2>2
  <2>4. mishap \subseteq mishap' /\ \A b \in Installer \ {a} : temp'[b] = temp[b] /\ backup'[b] = backup[b]
    BY <1>1, <1>4
  <2>5. temp'[a] = temp[a]
    BY <1>1
  <2> QED BY <1>0, <1>3, <2>2, <2>4, <2>5, DirsBy DEF SameJob
<1>7. ListFits'
  BY <1>0, <1>1, <1>3, ListBy DEF SameJob
<1>8. SwapFits'
  <2>1. ASSUME Clear', AloneFits(a) PROVE Data(target)' /\ ("unreported" \notin mishap' => Code(target)')
    <3>1. target' = backup[a] /\ mishap' = mishap
      BY <1>1, <2>1 DEF Clear
    <3>2. Data(backup[a]) /\ ("unreported" \notin mishap => Code(backup[a]))
      BY <1>1, <2>1 DEF AloneFits
    <3> QED BY <1>1, <3>1, <3>2 DEF Data, Code, Plugin!Code
  <2> QED BY <1>0, <1>1, <1>3, <2>1, SwapBy
<1> QED BY <1>5, <1>6, <1>7, <1>8 DEF PluginInv

\* The list is opened for writing.
LEMMA PluginEnables ==
  ASSUME PluginConstants, PluginInv, NEW a \in Installer, Plugin!Enable(a)
  PROVE  PluginInv'
<1>0. PluginTypes /\ DirsFit /\ ListFits /\ SwapFits /\ op \in [Installer -> Progress] /\ list \in List
  BY DEF PluginInv, PluginTypes
<1>1. /\ op[a].step = "installed" /\ op[a].enable /\ list' = [list EXCEPT !.torn = TRUE] /\ Plugin!Step(a, "listing")
      /\ UNCHANGED <<target, temp, backup, wanted, mishap>>
  BY DEF Plugin!Enable
<1>3. op' \in [Installer -> Progress] /\ op'[a].step = "listing" /\ SameJob(a) /\ Others(a) /\ a \in Plugin!Running
  <2>1. op' \in [Installer -> Progress] /\ op'[a].step = "listing" /\ SameJob(a) /\ Others(a)
    <3>1. "listing" \in Steps
      BY DEF Steps
    <3> QED BY <1>0, <1>1, <3>1, StepIs
  <2> QED BY <1>0, <1>1, <2>1 DEF Plugin!Running
<1>4. list' \in List /\ list'.ids = list.ids
  BY <1>0, <1>1 DEF List
<1>5. PluginTypes'
  BY <1>0, <1>1, <1>3, <1>4 DEF PluginTypes
<1>6. DirsFit'
  <2>0. Unseen' <=> Unseen
    BY <1>1, <1>3, UnseenBy
  <2> QED BY <1>0, <1>1, <1>3, <2>0, DirsBy DEF SameJob
<1>7. ListFits'
  <2>1. \A b \in Installer : op'[b].step = "listing" => op'[b].enable
    BY <1>0, <1>1, <1>3 DEF ListFits, Others, SameJob
  <2>2. \A b \in Plugin!Running' : b \in Plugin!Running /\ op'[b].enable = op[b].enable /\ op'[b].next = op[b].next
    BY <1>3 DEF Plugin!Running, Others, SameJob
  <2>3. ASSUME "overwritten" \notin mishap'
        PROVE  list'.ids = wanted'.ids /\ \A b \in Plugin!Running' : op'[b].enable => op'[b].next = list'.ids \cup {"this"}
    BY <1>0, <1>1, <1>4, <2>2, <2>3 DEF ListFits
  <2> QED BY <1>3, <2>1, <2>3 DEF ListFits
<1>8. SwapFits'
  <2>1. ASSUME AloneFits(a) PROVE AloneFits(a)'
    <3>1. Data(target) /\ Plugin!Code(target) = Plugin!Code(op[a].source)
      BY <1>1, <2>1 DEF AloneFits
    <3>2. Data(target)' /\ (Plugin!Code(target) = Plugin!Code(op[a].source))'
      BY <1>1, <1>3, <3>1 DEF Data, Plugin!Code, SameJob
    <3> QED BY <1>3, <3>2 DEF AloneFits
  <2> QED BY <1>0, <1>1, <1>3, <2>1, SwapBy
<1> QED BY <1>5, <1>6, <1>7, <1>8 DEF PluginInv

\* The command reports success.
LEMMA PluginReports ==
  ASSUME PluginConstants, PluginInv, NEW a \in Installer, Plugin!WriteList(a)
  PROVE  PluginInv'
<1>0. /\ PluginTypes /\ DirsFit /\ ListFits /\ SwapFits /\ op \in [Installer -> Progress] /\ list \in List
      /\ op[a] \in Progress /\ wanted \in Wish
  BY DEF PluginInv, PluginTypes
<1> DEFINE job == [Plugin!NoOp EXCEPT !.step = "ok"]
           wish == IF op[a].enable THEN wanted.ids \cup {"this"} ELSE wanted.ids
<1>1. /\ op[a].step = "listing" \/ (op[a].step = "installed" /\ ~op[a].enable)
      /\ list' = (IF op[a].enable THEN [torn |-> FALSE, ids |-> op[a].next] ELSE list)
      /\ op' = [op EXCEPT ![a] = job]
      /\ UNCHANGED <<target, temp, backup, mishap>>
  BY DEF Plugin!WriteList
<1>2. wanted' = [wanted EXCEPT !.code = Plugin!Code(op[a].source), !.ids = wish]
  BY DEF Plugin!WriteList
<1>3. job \in Progress /\ job.step = "ok"
  <2>1. Plugin!NoOp \in Progress
    <3>1. "idle" \in Steps /\ {} \in Ids
      BY DEF Steps, Ids
    <3> QED BY <3>1, NoDirIsDir DEF Progress, Plugin!NoOp
  <2>2. "ok" \in Steps
    BY DEF Steps
  <2> QED BY <2>1, <2>2 DEF Progress
<1> HIDE DEF job
<1>4. op' \in [Installer -> Progress] /\ op'[a].step = "ok" /\ Others(a) /\ a \in Plugin!Running
  BY <1>0, <1>1, <1>3 DEF Others, Plugin!Running
<1>5. wanted' \in Wish /\ wanted'.data = wanted.data /\ wanted'.code = Plugin!Code(op[a].source) /\ wanted'.ids = wish
  <2>1. op[a].source \in Dir
    BY <1>0 DEF Progress
  <2>2. Plugin!Code(op[a].source) \in [Plugin!File \ {"data"} -> Content]
    BY <2>1, CodeIs
  <2>3. wish \in Ids
    <3>1. wanted.ids \in Ids
      BY <1>0 DEF Wish
    <3> QED BY <3>1 DEF Ids
  <2> HIDE DEF wish
  <2> QED BY <1>0, <1>2, <2>2, <2>3 DEF Wish
<1>6. list' \in List
  <2>1. op[a].next \in Ids
    BY <1>0 DEF Progress
  <2> QED BY <1>0, <1>1, <2>1 DEF List
<1>7. PluginTypes'
  BY <1>0, <1>1, <1>4, <1>5, <1>6 DEF PluginTypes
<1>8. DirsFit'
  <2>0. Unseen' <=> Unseen
    BY <1>1, <1>4, UnseenBy
  <2> QED BY <1>0, <1>1, <1>4, <2>0, DirsBy
<1>9. ListFits'
  <2>1. list'.torn => "torn" \in mishap' \/ \E b \in Installer : op'[b].step = "listing"
    <3>1. CASE op[a].enable
      BY <1>1, <3>1
    <3>2. CASE ~op[a].enable
      BY <1>0, <1>1, <1>4, <3>2 DEF ListFits, Others
    <3> QED BY <3>1, <3>2
  <2>2. \A b \in Installer : op'[b].step = "listing" => op'[b].enable
    BY <1>0, <1>4 DEF ListFits, Others
  <2>3. ASSUME "overwritten" \notin mishap'
        PROVE  list'.ids = wanted'.ids /\ \A b \in Plugin!Running' : op'[b].enable => op'[b].next = list'.ids \cup {"this"}
    <3>1. list.ids = wanted.ids /\ \A b \in Plugin!Running : op[b].enable => op[b].next = list.ids \cup {"this"}
      BY <1>0, <1>1, <2>3 DEF ListFits
    <3>2. list'.ids = (IF op[a].enable THEN list.ids \cup {"this"} ELSE list.ids)
      BY <1>1, <1>4, <3>1
    <3>3. list'.ids = wanted'.ids
      BY <1>5, <3>1, <3>2
    <3>4. \A b \in Plugin!Running' : b \in Plugin!Running /\ op'[b] = op[b]
      BY <1>4 DEF Plugin!Running, Others
    <3>5. list'.ids \cup {"this"} = list.ids \cup {"this"}
      BY <3>2
    <3> QED BY <3>1, <3>3, <3>4, <3>5
  <2> QED BY <2>1, <2>2, <2>3 DEF ListFits
<1>10. SwapFits'
  <2>1. ASSUME AloneFits(a) PROVE Data(target)' /\ Code(target)'
    <3>1. Data(target) /\ Plugin!Code(target) = Plugin!Code(op[a].source)
      BY <1>1, <2>1 DEF AloneFits
    <3>2. Plugin!Code(target') = Plugin!Code(target)
      BY <1>1 DEF Plugin!Code
    <3> QED BY <1>1, <1>5, <3>1, <3>2 DEF Data, Code, Plugin!Code
  <2> QED BY <1>0, <1>1, <1>4, <2>1, SwapBy
<1> QED BY <1>7, <1>8, <1>9, <1>10 DEF PluginInv

\* The list cannot be written, or the command is killed.
LEMMA PluginDies ==
  ASSUME PluginConstants, PluginInv, NEW a \in Installer, Plugin!ListFails(a) \/ Plugin!Crash(a)
  PROVE  PluginInv'
<1>0. PluginTypes /\ DirsFit /\ ListFits /\ SwapFits /\ op \in [Installer -> Progress] /\ op[a] \in Progress
  BY DEF PluginInv, PluginTypes
<1>1. /\ Plugin!Step(a, "failed") /\ UNCHANGED <<target, temp, backup, list, wanted>>
      /\ a \in Plugin!Running
  BY DEF Plugin!ListFails, Plugin!Crash, Plugin!Running
<1>2. /\ mishap \subseteq mishap'
      /\ op[a].step \in {"aside", "clear", "back"} \/ (op[a].step = "undo" /\ op[a].moved) => "gone" \in mishap'
      /\ op[a].step = "clear" => "cut" \in mishap'
      /\ op[a].step = "listing" => "torn" \in mishap'
      /\ op[a].step \in {"placed", "installed", "listing"} => "unreported" \in mishap'
      /\ Clear' => ("late" \in mishap' <=> "late" \in mishap)
  BY DEF Plugin!ListFails, Plugin!Crash, Plugin!Mishap
<1>3. op' \in [Installer -> Progress] /\ op'[a].step = "failed" /\ SameJob(a) /\ Others(a)
  <2>1. "failed" \in Steps
    BY DEF Steps
  <2> QED BY <1>0, <1>1, <2>1, StepIs
<1>4. PluginTypes'
  BY <1>0, <1>1, <1>3 DEF PluginTypes
<1>5. DirsFit'
  <2>1. ASSUME Mended' PROVE Unseen' <=> Unseen
    <3>1. op[a].step # "clear"
      BY <1>2, <2>1 DEF Mended
    <3> QED BY <1>3, <3>1, UnseenBy
  <2> QED BY <1>0, <1>1, <1>2, <1>3, <2>1, DirsBy DEF SameJob
<1>6. ListFits'
  BY <1>0, <1>1, <1>2, <1>3, ListBy DEF SameJob
<1>7. SwapFits'
  <2>1. ASSUME Clear', AloneFits(a) PROVE Data(target)' /\ ("unreported" \notin mishap' => Code(target)')
    <3>1. \/ op[a].step \in {"start", "staged", "kept"} \/ (op[a].step = "undo" /\ ~op[a].moved)
          \/ op[a].step \in {"placed", "installed", "listing"}
      <4>1. op[a].step \in Steps
        BY <1>0 DEF Progress
      <4> QED BY <1>1, <1>2, <2>1, <4>1 DEF Steps, Clear, Plugin!Running
    <3>2. CASE op[a].step \in {"start", "staged", "kept"} \/ (op[a].step = "undo" /\ ~op[a].moved)
      <4>1. Data(target) /\ ("unreported" \notin mishap => Code(target))
        BY <2>1, <3>2 DEF AloneFits
      <4> QED BY <1>1, <1>2, <2>1, <4>1 DEF Data, Code, Plugin!Code
    <3>3. CASE op[a].step \in {"placed", "installed", "listing"}
      <4>1. Data(target)
        BY <2>1, <3>3 DEF AloneFits
      <4> QED BY <1>1, <1>2, <2>1, <3>3, <4>1 DEF Data
    <3> QED BY <3>1, <3>2, <3>3
  <2> QED BY <1>0, <1>1, <1>2, <1>3, <2>1, SwapBy
<1> QED BY <1>4, <1>5, <1>6, <1>7 DEF PluginInv

\* Obsidian saves the settings.
LEMMA SettingsAreSaved ==
  ASSUME PluginConstants, PluginInv, Plugin!SaveSettings
  PROVE  PluginInv'
<1>0. PluginTypes /\ DirsFit /\ ListFits /\ SwapFits /\ target \in Dir /\ wanted \in Wish
  BY DEF PluginInv, PluginTypes
<1>1. /\ target # Plugin!NoDir /\ target' = [target EXCEPT !["data"] = "new"] /\ wanted' = [wanted EXCEPT !.data = "new"]
      /\ UNCHANGED <<temp, backup, list, op>>
      /\ mishap' = mishap \cup (IF \E a \in Plugin!Running : Plugin!SettingsCopied(a) THEN {"late"} ELSE {})
  BY DEF Plugin!SaveSettings, Plugin!Mishap
<1>2. /\ target' \in Dir /\ Plugin!Code(target') = Plugin!Code(target) /\ target'["data"] = "new" /\ target' # Plugin!NoDir
  BY <1>0, <1>1, CodeKeeps, NoDirIsDir DEF PluginConstants
<1>3. wanted' \in Wish /\ wanted'.data = "new" /\ wanted'.ids = wanted.ids /\ wanted'.code = wanted.code
  BY <1>0, <1>1 DEF Wish, PluginConstants
<1>4. PluginTypes'
  BY <1>0, <1>1, <1>2, <1>3 DEF PluginTypes
<1>5. Plugin!Running' = Plugin!Running
  BY <1>1 DEF Plugin!Running
<1>6. DirsFit'
  <2>1. OfOne(target) => OfOne(target')
    BY <1>1, <1>2 DEF OfOne
  <2>2. (Unseen' <=> Unseen) /\ (Mended' => Mended)
    BY <1>1 DEF Unseen, Mended
  <2> QED BY <1>0, <1>1, <1>5, <2>1, <2>2 DEF DirsFit, OfOne, Codes, Plugin!Code, Plugin!NoDir
<1>7. ListFits'
  BY <1>0, <1>1, <1>3, <1>5 DEF ListFits
<1>8. SwapFits'
  <2>1. Data(target)'
    BY <1>2, <1>3 DEF Data
  <2>2. (Clear' => Clear) /\ ("two" \notin mishap' => "two" \notin mishap) /\ ("unreported" \notin mishap' => "unreported" \notin mishap)
    BY <1>1 DEF Clear
  <2>3. ASSUME Code(target) PROVE Code(target)'
    BY <1>2, <1>3, <2>3 DEF Code, Plugin!Code
  <2>4. ASSUME NEW a \in Plugin!Running, AloneFits(a) PROVE AloneFits(a)'
    <3>1. CASE Plugin!SettingsCopied(a)
      <4>1. "late" \in mishap'
        BY <1>1, <3>1
      <4>2. ASSUME Code(backup[a]) PROVE Code(backup[a])'
        BY <1>1, <1>3, <4>2 DEF Code, Plugin!Code
      <4>3. (Plugin!Code(target) = Plugin!Code(op[a].source)) => (Plugin!Code(target) = Plugin!Code(op[a].source))'
        BY <1>1, <1>2 DEF Plugin!Code
      <4>4. Data(temp[a])' /\ Data(backup[a])'
        BY <4>1 DEF Data
      <4> QED BY <1>1, <1>2, <2>1, <2>2, <2>3, <2>4, <3>1, <4>2, <4>3, <4>4 DEF AloneFits, Plugin!NoDir
    <3>2. CASE ~Plugin!SettingsCopied(a)
      <4>1. op[a].step \notin {"aside", "back"}
        BY <1>1, <2>4 DEF AloneFits
      <4>2. (Plugin!Code(target) = Plugin!Code(op[a].source)) => (Plugin!Code(target) = Plugin!Code(op[a].source))'
        BY <1>1, <1>2 DEF Plugin!Code
      <4> QED BY <1>1, <1>2, <2>1, <2>2, <2>3, <2>4, <3>2, <4>1, <4>2 DEF AloneFits, Plugin!SettingsCopied, Plugin!NoDir
    <3> QED BY <3>1, <3>2
  <2> QED BY <1>0, <1>5, <2>1, <2>2, <2>3, <2>4 DEF SwapFits
<1> QED BY <1>4, <1>6, <1>7, <1>8 DEF PluginInv

\* Obsidian saves the list.
LEMMA ListIsSaved ==
  ASSUME PluginConstants, PluginInv, Plugin!SaveList
  PROVE  PluginInv'
<1>0. PluginTypes /\ DirsFit /\ ListFits /\ SwapFits /\ list \in List /\ wanted \in Wish
  BY DEF PluginInv, PluginTypes
<1>1. /\ list' = [list EXCEPT !.ids = list.ids \ {"other"}] /\ wanted' = [wanted EXCEPT !.ids = wanted.ids \ {"other"}]
      /\ UNCHANGED <<target, temp, backup, op>>
      /\ mishap' = mishap \cup (IF \E a \in Plugin!Running : op[a].enable THEN {"overwritten"} ELSE {})
  BY DEF Plugin!SaveList, Plugin!Mishap
<1>2. list' \in List /\ list'.ids = list.ids \ {"other"} /\ list'.torn = list.torn
  <2>1. list.ids \ {"other"} \in Ids
    <3>1. list.ids \in Ids
      BY <1>0 DEF List
    <3> QED BY <3>1 DEF Ids
  <2> QED BY <1>0, <1>1, <2>1 DEF List
<1>3. wanted' \in Wish /\ wanted'.ids = wanted.ids \ {"other"} /\ wanted'.data = wanted.data /\ wanted'.code = wanted.code
  <2>1. wanted.ids \ {"other"} \in Ids
    <3>1. wanted.ids \in Ids
      BY <1>0 DEF Wish
    <3> QED BY <3>1 DEF Ids
  <2> QED BY <1>0, <1>1, <2>1 DEF Wish
<1>4. PluginTypes'
  BY <1>0, <1>1, <1>2, <1>3 DEF PluginTypes
<1>5. Plugin!Running' = Plugin!Running /\ mishap \subseteq mishap'
  BY <1>1 DEF Plugin!Running
<1>6. DirsFit'
  <2>1. (Unseen' <=> Unseen) /\ (Mended' => Mended)
    BY <1>1 DEF Unseen, Mended
  <2> QED BY <1>0, <1>1, <1>5, <2>1 DEF DirsFit, OfOne, Codes, Plugin!Code, Plugin!NoDir
<1>7. ListFits'
  <2>1. ASSUME "overwritten" \notin mishap'
        PROVE  list'.ids = wanted'.ids /\ \A b \in Plugin!Running' : op'[b].enable => op'[b].next = list'.ids \cup {"this"}
    <3>1. list.ids = wanted.ids
      BY <1>0, <1>1, <2>1 DEF ListFits
    <3>2. \A b \in Plugin!Running : ~op[b].enable
      BY <1>1, <2>1
    <3> QED BY <1>1, <1>2, <1>3, <1>5, <3>1, <3>2
  <2> QED BY <1>0, <1>1, <1>2, <1>5, <2>1 DEF ListFits
<1>8. SwapFits'
  <2>1. ("late" \in mishap' <=> "late" \in mishap) /\ ("unreported" \in mishap' <=> "unreported" \in mishap)
        /\ ("two" \in mishap' <=> "two" \in mishap) /\ (Clear' <=> Clear)
    BY <1>1 DEF Clear
  <2>2. (Data(target)' <=> Data(target)) /\ (Code(target)' <=> Code(target))
    BY <1>1, <1>3, <2>1 DEF Data, Code, Plugin!Code
  <2>3. ASSUME NEW a \in Installer PROVE AloneFits(a)' <=> AloneFits(a)
    <3>1. /\ (Data(temp[a])' <=> Data(temp[a])) /\ (Data(backup[a])' <=> Data(backup[a]))
          /\ (Code(backup[a])' <=> Code(backup[a]))
      BY <1>1, <1>3, <2>1 DEF Data, Code, Plugin!Code
    <3>2. (Plugin!Code(target) = Plugin!Code(op[a].source))' <=> (Plugin!Code(target) = Plugin!Code(op[a].source))
      BY <1>1 DEF Plugin!Code
    <3> QED BY <1>1, <2>1, <2>2, <3>1, <3>2 DEF AloneFits, Plugin!NoDir
  <2>4. \A a \in Plugin!Running : a \in Installer
    BY DEF Plugin!Running
  <2> QED BY <1>0, <1>5, <2>1, <2>2, <2>3, <2>4 DEF SwapFits
<1> QED BY <1>4, <1>6, <1>7, <1>8 DEF PluginInv

LEMMA PluginBegins == ASSUME PluginConstants, Plugin!Init PROVE PluginInv
<1>1. /\ target \in Installed /\ temp = [a \in Installer |-> Plugin!NoDir] /\ backup = [a \in Installer |-> Plugin!NoDir]
      /\ list = [torn |-> FALSE, ids |-> {"other"}] /\ op = [a \in Installer |-> Plugin!NoOp]
      /\ wanted = [data |-> target["data"], ids |-> {"other"}, code |-> Plugin!Code(target)]
  BY DEF Plugin!Init
<1>2. Plugin!NoOp \in Progress /\ Plugin!NoOp.step = "idle"
  <2>1. "idle" \in Steps /\ {} \in Ids
    BY DEF Steps, Ids
  <2> QED BY <2>1, NoDirIsDir DEF Progress, Plugin!NoOp
<1>3. target \in Dir
  BY <1>1 DEF PluginConstants, Dir
<1>4. {"other"} \in Ids
  BY DEF Ids
<1>5. list \in List /\ ~list.torn /\ list.ids = {"other"}
  BY <1>1, <1>4 DEF List
<1>6. wanted \in Wish /\ wanted.data = target["data"] /\ wanted.ids = {"other"} /\ wanted.code = Plugin!Code(target)
  <2>1. Plugin!Code(target) \in [Plugin!File \ {"data"} -> Content] /\ target["data"] \in Content
    BY <1>3, CodeIs
  <2> QED BY <1>1, <1>4, <2>1 DEF Wish
<1>7. Plugin!Running = {} /\ \A a \in Installer : op[a].step = "idle"
  BY <1>1, <1>2 DEF Plugin!Running
<1>8. PluginTypes
  BY <1>1, <1>2, <1>3, <1>5, <1>6, NoDirIsDir DEF PluginTypes
<1>9. DirsFit
  <2>1. OfOne(target) /\ OfOne(Plugin!NoDir)
    BY <1>1 DEF OfOne, Codes
  <2> QED BY <1>1, <1>7, <2>1 DEF DirsFit
<1>10. ListFits
  BY <1>5, <1>6, <1>7 DEF ListFits
<1>11. SwapFits
  BY <1>6, <1>7 DEF SwapFits, Data, Code
<1> QED BY <1>8, <1>9, <1>10, <1>11 DEF PluginInv

LEMMA PluginGoesOn == ASSUME PluginConstants, PluginInv, [Plugin!Next]_(Plugin!vars) PROVE PluginInv'
<1>1. ASSUME NEW a \in Installer, NEW r \in Requests, NEW source \in Plugin!Materialized(r), Plugin!Start(a, r, source)
      PROVE  PluginInv'
  BY <1>1, PluginStarts
<1>2. ASSUME NEW a \in Installer,
             \/ Plugin!Stage(a) \/ Plugin!KeepSettings(a) \/ Plugin!MoveAside(a) \/ Plugin!PutInPlace(a)
             \/ Plugin!DropBackup(a) \/ Plugin!Fail(a) \/ Plugin!Unstage(a) \/ Plugin!RemoveNew(a) \/ Plugin!Restore(a)
             \/ Plugin!Enable(a) \/ Plugin!WriteList(a) \/ Plugin!ListFails(a) \/ Plugin!Crash(a)
      PROVE  PluginInv'
  BY <1>2, PluginStages, PluginKeeps, PluginMoves, PluginPuts, PluginDrops, PluginFails,
     PluginUnstages, PluginClears, PluginRestores, PluginEnables, PluginReports, PluginDies
<1>3. CASE Plugin!SaveSettings \/ Plugin!SaveList
  BY <1>3, SettingsAreSaved, ListIsSaved
<1>4. CASE UNCHANGED Plugin!vars
  <2>1. UNCHANGED <<target, temp, backup, list, op, wanted, mishap>>
    BY <1>4 DEF Plugin!vars
  <2>2. Plugin!Running' = Plugin!Running
    BY <2>1 DEF Plugin!Running
  <2>3. PluginTypes' /\ ListFits'
    BY <2>1, <2>2 DEF PluginInv, PluginTypes, ListFits
  <2>4. DirsFit'
    BY <2>1, <2>2 DEF PluginInv, DirsFit, Unseen, Mended, OfOne, Codes, Plugin!Code, Plugin!NoDir
  <2>5. /\ Clear' = Clear /\ (Data(target)' <=> Data(target)) /\ (Code(target)' <=> Code(target))
        /\ \A a \in Installer : AloneFits(a)' <=> AloneFits(a)
    BY <2>1 DEF Clear, AloneFits, Data, Code, Plugin!Code, Plugin!NoDir
  <2>6. SwapFits'
    <3>1. \A a \in Plugin!Running : a \in Installer
      BY DEF Plugin!Running
    <3> QED BY <2>1, <2>2, <2>5, <3>1 DEF PluginInv, SwapFits
  <2> QED BY <2>3, <2>4, <2>6 DEF PluginInv
<1> QED BY <1>1, <1>2, <1>3, <1>4 DEF Plugin!Next

\* For any number of commands and any sources (installPluginRuntime): the files of the installed plugin
\* are of one source, except while a command that failed is removing the new ones again and after a
\* removal that was left half-way; what was reported last and what Obsidian saved last is what is there
\* when no command runs, unless the named mishap is in between, and the list loses nothing.
THEOREM PluginStaysWhole ==
  ASSUME PluginConstants
  PROVE  Plugin!Spec => [](/\ Plugin!PluginIsWhole /\ Plugin!ReportedIsInstalled
                           /\ Plugin!SettingsSurvive /\ Plugin!ListIsKept)
<1>1. Plugin!Init => PluginInv
  BY PluginBegins
<1>2. PluginInv /\ [Plugin!Next]_(Plugin!vars) => PluginInv'
  BY PluginGoesOn
<1>3. ASSUME PluginInv
      PROVE  Plugin!PluginIsWhole /\ Plugin!ReportedIsInstalled /\ Plugin!SettingsSurvive /\ Plugin!ListIsKept
  <2>1. Plugin!PluginIsWhole
    BY <1>3 DEF PluginInv, DirsFit, Unseen, Mended, OfOne, Codes, Plugin!PluginIsWhole, Plugin!Unless
  <2>2. Plugin!ReportedIsInstalled
    BY <1>3 DEF PluginInv, SwapFits, Clear, Code, Plugin!ReportedIsInstalled, Plugin!Unless
  <2>3. Plugin!SettingsSurvive
    BY <1>3 DEF PluginInv, SwapFits, Clear, Data, Plugin!SettingsSurvive, Plugin!Unless
  <2>4. Plugin!ListIsKept
    <3> SUFFICES ASSUME Plugin!Running = {}
                 PROVE  /\ Plugin!Unless({"torn"}) => ~list.torn
                        /\ Plugin!Unless({"torn", "overwritten"}) => list.ids = wanted.ids
      BY DEF Plugin!ListIsKept
    <3>1. \A a \in Installer : op[a].step # "listing"
      BY DEF Plugin!Running
    <3> QED BY <1>3, <3>1 DEF PluginInv, ListFits, Plugin!Unless
  <2> QED BY <2>1, <2>2, <2>3, <2>4
<1> QED BY <1>1, <1>2, <1>3, PTL DEF Plugin!Spec
=============================================================================
