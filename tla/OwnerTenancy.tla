------------------------------ MODULE OwnerTenancy ------------------------------
(***************************************************************************)
(* Who serves one tenancy slot (src/daemon/client.ts, owner-registry.ts,    *)
(* server.ts).  A client that finds no usable owner claims the right to     *)
(* spawn a successor; the child takes the claim over, looks for             *)
(* predecessors, publishes itself in the owner record, releases the claim   *)
(* and sees its predecessor torn down before it loads the embedding model.  *)
(* Daemons that stop serving drain step by step.  The owner record, the     *)
(* pulse, the sentinel and the reaped markers are files that every process  *)
(* reads and writes without a lock; the claim is the only mutual exclusion  *)
(* (module ExclusiveClaim says when it holds).                              *)
(*                                                                         *)
(* A daemon here is one incarnation, with the pass of ensureReady of the    *)
(* client that spawns it.                                                   *)
(***************************************************************************)
EXTENDS Naturals, FiniteSets, TLAPS

CONSTANTS
  Daemon,      \* the incarnations that are ever spawned
  NoDaemon,
  Verified,    \* those whose process start identity is authoritative
  BinaryOf,    \* the binary version of each
  MaxMishaps   \* bounds the crashes, stalls, failures, requested shutdowns and
               \* claims of live daemons that reach their time to live

ASSUME NoDaemonAssumption == NoDaemon \notin Daemon
ASSUME VerifiedAssumption == Verified \subseteq Daemon
ASSUME MaxMishapsAssumption == MaxMishaps \in Nat

VARIABLES
  owner,     \* whom the owner record names
  epoch,     \* the epoch each daemon published itself with; 0 before
  pulse,     \* the pulse file: written by whom, in what phase, how long ago
  sentinel,  \* the successor that last announced a supersession
  claim,     \* the daemon whose spawn the successor claim is for
  expired,   \* was the claim of a live daemon ever reclaimed by its age?
  life,      \* where each daemon stands, from its client's first look
  seen,      \* the owner its client observed
  proof,     \* why its client wants a successor
  target,    \* the predecessor it has to see torn down
  reap,      \* how far it is with that
  told,      \* the supersession a draining daemon was told of
  marker,    \* the supersession its reaped marker was written for
  model,     \* the daemons that have the embedding model in memory
  stalled,   \* those whose event loop is blocked
  faltered,  \* those that were ever stalled
  grace,     \* the owner whose record is within the startup grace
  termed,    \* those that were sent SIGTERM
  mishaps    \* how many of those there were

fileVars == <<owner, epoch, pulse, sentinel>>
claimVars == <<claim, expired>>
clientVars == <<seen, proof>>
reapVars == <<target, reap, told, marker>>
healthVars == <<stalled, faltered, grace, termed, mishaps>>

vars == <<fileVars, claimVars, life, clientVars, reapVars, model, healthVars>>

\* The client: patient or doubtful while its Heartbeat is under way, judged,
\* claiming.  The boot: spawned to published, or failing, undoing.  Then the
\* phase ready and the stages of drain.
Life == {"none", "patient", "doubtful", "judged", "claiming", "spawned",
         "bound", "prepared", "unrecovered", "signalled", "safe", "pulsed",
         "published", "failing", "undoing", "ready", "draining", "removing",
         "closing", "closed", "dead"}

Proof == {"cold", "identity-mismatch", "draining", "wedged"}

\* start: nothing done; sent: SIGTERM went out before the publication.
Reap == {"start", "sent", "asked", "terminate", "termed", "killed", "proved",
         "failed"}

MaybeDaemon == Daemon \cup {NoDaemon}

\* Every variable holds a value the code could hold; who serves has released
\* the claim and is within its epoch.
TypeOK ==
  /\ owner \in MaybeDaemon
  /\ epoch \in [Daemon -> Nat]
  /\ pulse \in [by : MaybeDaemon, phase : {"starting", "ready", "draining"},
                fresh : BOOLEAN]
  /\ sentinel \in MaybeDaemon
  /\ claim \in MaybeDaemon
  /\ expired \in BOOLEAN
  /\ life \in [Daemon -> Life]
  /\ seen \in [Daemon -> MaybeDaemon]
  /\ proof \in [Daemon -> Proof]
  /\ target \in [Daemon -> MaybeDaemon]
  /\ reap \in [Daemon -> Reap]
  /\ told \in [Daemon -> MaybeDaemon]
  /\ marker \in [Daemon -> MaybeDaemon]
  /\ {model, stalled, faltered, termed} \subseteq SUBSET Daemon
  /\ grace \in MaybeDaemon
  /\ mishaps \in 0..MaxMishaps
  /\ \A d \in Daemon : life[d] = "ready" => claim # d /\ epoch[d] > 0

Init ==
  /\ owner = NoDaemon
  /\ epoch = [d \in Daemon |-> 0]
  /\ pulse = [by |-> NoDaemon, phase |-> "starting", fresh |-> FALSE]
  /\ sentinel = NoDaemon
  /\ claim = NoDaemon
  /\ expired = FALSE
  /\ life = [d \in Daemon |-> "none"]
  /\ seen = [d \in Daemon |-> NoDaemon]
  /\ proof = [d \in Daemon |-> "cold"]
  /\ target = [d \in Daemon |-> NoDaemon]
  /\ reap = [d \in Daemon |-> "start"]
  /\ told = [d \in Daemon |-> NoDaemon]
  /\ marker = [d \in Daemon |-> NoDaemon]
  /\ model = {}
  /\ stalled = {}
  /\ faltered = {}
  /\ grace = NoDaemon
  /\ termed = {}
  /\ mishaps = 0

Mishap == mishaps < MaxMishaps /\ mishaps' = mishaps + 1

\* The file of the owner record is removed.
NoOwner == owner' = NoDaemon /\ grace' = NoDaemon

Becomes(d, stage) == life' = [life EXCEPT ![d] = stage]

\* The observation behind a spawn has served its turn.
Forgets(d) ==
  /\ seen' = [seen EXCEPT ![d] = NoDaemon]
  /\ proof' = [proof EXCEPT ![d] = "cold"]

SameBinary(d, c) == c # NoDaemon /\ BinaryOf[d] = BinaryOf[c]

Runs(d) ==
  life[d] \in {"ready", "draining", "removing", "closing"} /\ d \notin stalled

\* readOwnerPulseProof: the pulse file names this incarnation and is young.
FreshPulse(c) == pulse.by = c /\ pulse.fresh

DrainingPulse(c) == pulse.by = c /\ pulse.phase = "draining"

\* The main loop answers a Heartbeat.  From the publication to the phase ready
\* it runs without a break, so that nobody ever hears "starting" from an owner.
Answers(c) == life[c] = "ready" /\ c \notin stalled

-----------------------------------------------------------------------------
(* The client: ensureReady, ownerVerdict, spawnOwner, tryClaimSuccessor.    *)

Judged(d, why) ==
  /\ Becomes(d, "judged")
  /\ proof' = [proof EXCEPT ![d] = why]

\* ensureReady reads the record; another binary is replaced on sight.  For its
\* own, ownerVerdict reads the pulse and the startup grace before it asks for a
\* Heartbeat: they decide what a missing answer will mean.
Look(d) ==
  LET drains == FreshPulse(owner) /\ DrainingPulse(owner) IN
  /\ life[d] = "none"
  /\ seen' = [seen EXCEPT ![d] = owner]
  /\ \/ owner = NoDaemon /\ Judged(d, "cold")
     \/ owner # NoDaemon /\ ~SameBinary(d, owner) /\ Judged(d, "identity-mismatch")
     \/ SameBinary(d, owner) /\ drains /\ Judged(d, "draining")
     \/ /\ SameBinary(d, owner)
        /\ ~drains
        /\ Becomes(d, IF FreshPulse(owner) \/ owner = grace
                      THEN "patient" ELSE "doubtful")
        /\ UNCHANGED proof
  /\ UNCHANGED <<fileVars, claimVars, reapVars, model, healthVars>>

\* The Heartbeat of ownerVerdict is answered, or not.  A pass that uses the
\* owner, or waits, starts over.
Judge(d) ==
  LET c == seen[d] IN
  /\ life[d] \in {"patient", "doubtful"}
  /\ \/ /\ Answers(c) \/ life[d] = "patient"
        /\ Becomes(d, "none")
        /\ Forgets(d)
     \/ /\ life[c] = "draining" /\ c \notin stalled
        /\ Judged(d, "draining")
        /\ UNCHANGED seen
     \/ /\ ~Answers(c) /\ life[d] = "doubtful"
        /\ Judged(d, "wedged")
        /\ UNCHANGED seen
  /\ UNCHANGED <<fileVars, claimVars, reapVars, model, healthVars>>

\* The claim names a live process: its own daemon's.
ClaimLives ==
  claim # NoDaemon /\ life[claim] \notin {"spawned", "dead"}

\* Nobody holds the claim, or it may be reclaimed: the process it names is
\* dead, where until the rebind it names the client, which may be gone; or the
\* time to live has passed for a holder whose identity is not authoritative.
ClaimOpen == ClaimLives => claim \notin Verified

\* ExclusiveClaim.acquire: a claim that may be reclaimed is.
Takes(d) ==
  /\ ClaimOpen
  /\ IF ClaimLives
     THEN Mishap /\ expired' = TRUE
     ELSE UNCHANGED <<mishaps, expired>>
  /\ claim' = d

GivesBack(d) == claim' = IF claim = d THEN NoDaemon ELSE claim

Replaceable_AnyOwner(d) ==
  \/ owner = NoDaemon
  \/ ~SameBinary(d, owner)
  \/ DrainingPulse(owner)
  \/ ~FreshPulse(owner) /\ owner # grace

\* What successorStillNeeded and assertSuccessorPublicationStillSafe both ask
\* of the record: it still names whom the client observed, and that one is of
\* another binary, or draining, or neither young nor pulsing.
Replaceable(d) ==
  \/ owner = NoDaemon
  \/ /\ seen[d] \in {NoDaemon, owner}
     /\ ~SameBinary(d, owner)
  \/ /\ seen[d] = owner
     /\ \/ DrainingPulse(owner)
        \/ (~FreshPulse(owner) /\ owner # grace)

StillNeeded(d) ==
  /\ Replaceable(d)
  /\ \/ owner = NoDaemon
     \/ ~SameBinary(d, owner)
     \/ DrainingPulse(owner)
     \/ proof[d] \notin {"identity-mismatch", "draining"}

\* The claim stays busy until the deadline of the client.
Busy(d) ==
  /\ life[d] = "judged"
  /\ claim # NoDaemon
  /\ life[claim] # "dead"
  /\ Becomes(d, "none")
  /\ Forgets(d)
  /\ UNCHANGED <<fileVars, claimVars, reapVars, model, healthVars>>

Acquire(d) ==
  /\ life[d] = "judged"
  /\ Takes(d)
  /\ Becomes(d, "claiming")
  /\ UNCHANGED <<fileVars, clientVars, reapVars, model, stalled, faltered, grace,
                 termed>>

\* Under the claim, the need for a successor is checked again and the child
\* spawned; or there is no need, or the breaker (module SuccessorBreaker) wants
\* the client to wait or to give up.
Admit(d) ==
  /\ life[d] = "claiming"
  /\ \/ /\ StillNeeded(d)
        /\ Becomes(d, "spawned")
        /\ UNCHANGED <<claim, clientVars>>
     \/ /\ GivesBack(d)
        /\ Becomes(d, "none")
        /\ Forgets(d)
  /\ UNCHANGED <<fileVars, expired, reapVars, model, healthVars>>

-----------------------------------------------------------------------------
(* The child: SearchDaemon.start.                                          *)

Abort(d) == Becomes(d, "dead") /\ GivesBack(d)

HasWedgedTarget(d) == SameBinary(d, target[d])

\* sameProtocolPredecessorRecovered.
Recovered(c) == Answers(c) \/ (FreshPulse(c) /\ ~DrainingPulse(c))

\* A check of the boot does not hold: the claim went to somebody else, the
\* wedged predecessor has recovered, or the owner is to be kept.
Refused(d) ==
  \/ life[d] \in {"spawned", "bound"} /\ claim # d
  \/ life[d] = "prepared" /\ HasWedgedTarget(d) /\ Recovered(target[d])
  \/ life[d] = "signalled" /\ ~Replaceable(d)

\* The boot is refused; or the child cannot be spawned, a file or the socket not
\* be read or made.  The claim is given back if it is still its own.
BootFails(d) ==
  /\ life[d] \in {"spawned", "bound", "prepared", "unrecovered", "signalled",
                  "safe", "pulsed"}
  /\ \/ Refused(d) /\ UNCHANGED mishaps
     \/ Mishap
  /\ Abort(d)
  /\ UNCHANGED <<fileVars, expired, clientVars, reapVars, model, stalled,
                 faltered, grace, termed>>

\* bindSuccessorClaimOrExit and recordSuccessorClaimHolder: the claim of the
\* client becomes that of the child ...
Rebind(d) ==
  /\ life[d] = "spawned"
  /\ claim = d
  /\ Becomes(d, "bound")
  /\ UNCHANGED <<fileVars, claimVars, clientVars, reapVars, model, healthVars>>

\* ... and a daemon started by hand, with no observation, takes its own.
StandAlone(d) ==
  /\ life[d] = "none"
  /\ Takes(d)
  /\ Becomes(d, "bound")
  /\ UNCHANGED <<fileVars, clientVars, reapVars, model, stalled, faltered, grace,
                 termed>>

\* prepareSupersessionTargets.  The record of the slot is the only predecessor
\* here; it counts if its process exists and it is of another binary or the
\* owner the client found wedged.
Prepare(d) ==
  /\ life[d] = "bound"
  /\ target' = [target EXCEPT ![d] =
       IF /\ owner # NoDaemon
          /\ life[owner] # "dead"
          /\ \/ ~SameBinary(d, owner)
             \/ proof[d] = "wedged" /\ seen[d] = owner
       THEN owner ELSE NoDaemon]
  /\ Becomes(d, "prepared")
  /\ UNCHANGED <<fileVars, claimVars, clientVars, reap, told, marker, model,
                 healthVars>>

\* preSignalSameProtocolWedgedTargets asks a wedged predecessor once more ...
Recheck(d) ==
  /\ life[d] = "prepared"
  /\ \/ /\ HasWedgedTarget(d)
        /\ ~Recovered(target[d])
        /\ Becomes(d, "unrecovered")
     \/ /\ ~HasWedgedTarget(d)
        /\ Becomes(d, "signalled")
  /\ UNCHANGED <<fileVars, claimVars, clientVars, reapVars, model, healthVars>>

\* ... and signals it, when it is known to be the same process; it may have
\* recovered since.
PreSignal(d) ==
  LET t == target[d]
      sends == t \in Verified /\ life[t] # "dead"
  IN
  /\ life[d] = "unrecovered"
  /\ Becomes(d, "signalled")
  /\ reap' = [reap EXCEPT ![d] = IF sends THEN "sent" ELSE @]
  /\ termed' = IF sends THEN termed \cup {t} ELSE termed
  /\ UNCHANGED <<fileVars, claimVars, clientVars, target, told, marker, model,
                 stalled, faltered, grace, mishaps>>

\* assertSuccessorPublicationStillSafe.
AssertSafe(d) ==
  /\ life[d] = "signalled"
  /\ Replaceable(d)
  /\ Becomes(d, "safe")
  /\ UNCHANGED <<fileVars, claimVars, clientVars, reapVars, model, healthVars>>

\* nextOwnerEpoch, and writeOwnerAndPulse: first the pulse ...
WritePulse(d) ==
  /\ life[d] = "safe"
  /\ epoch' = [epoch EXCEPT ![d] =
                 IF owner = NoDaemon THEN 1 ELSE epoch[owner] + 1]
  /\ pulse' = [by |-> d, phase |-> "starting", fresh |-> TRUE]
  /\ Becomes(d, "pulsed")
  /\ UNCHANGED <<owner, sentinel, claimVars, clientVars, reapVars, model,
                 healthVars>>

\* ... then the record, whatever it says by then.
Publish(d) ==
  /\ life[d] = "pulsed"
  /\ owner' = d
  /\ grace' = d
  /\ Becomes(d, "published")
  /\ Forgets(d)
  /\ UNCHANGED <<epoch, pulse, sentinel, claimVars, reapVars, model, stalled,
                 faltered, termed, mishaps>>

Announce(d) ==
  sentinel' = IF target[d] # NoDaemon THEN d ELSE sentinel

Serve_ClaimKept(d) ==
  /\ life[d] = "published"
  /\ claim = d
  /\ Announce(d)
  /\ Becomes(d, "ready")
  /\ reap' = [reap EXCEPT ![d] = IF target[d] = NoDaemon THEN "proved" ELSE @]
  /\ UNCHANGED <<owner, epoch, pulse, claimVars, clientVars, target, told,
                 marker, model, healthVars>>

\* The supersession is announced, the claim released and the phase ready.
Serve(d) ==
  /\ life[d] = "published"
  /\ claim = d
  /\ Announce(d)
  /\ claim' = NoDaemon
  /\ Becomes(d, "ready")
  /\ reap' = [reap EXCEPT ![d] = IF target[d] = NoDaemon THEN "proved" ELSE @]
  /\ UNCHANGED <<owner, epoch, pulse, expired, clientVars, target, told, marker,
                 model, healthVars>>

\* The boot fails after the publication: the claim is gone, or the breaker cannot
\* be reset, or the settings not be read once the claim is released, or the
\* sentinel not be written ...
ServeFails(d) ==
  /\ life[d] = "published"
  /\ \/ claim # d /\ Announce(d) /\ UNCHANGED <<claim, mishaps>>
     \/ claim = d /\ Announce(d) /\ claim' \in {d, NoDaemon} /\ Mishap
     \/ UNCHANGED <<sentinel, claim>> /\ Mishap
  /\ Becomes(d, "failing")
  /\ UNCHANGED <<owner, epoch, pulse, expired, clientVars, reapVars, model,
                 stalled, faltered, grace, termed>>

\* ... and takes the record back, in the two steps of removeOwnerFile, and then
\* the claim.
Withdraw(d) ==
  /\ \/ /\ life[d] = "failing"
        /\ owner = d
        /\ Becomes(d, "undoing")
        /\ UNCHANGED <<owner, grace, claim>>
     \/ /\ life[d] = "failing"
        /\ owner # d
        /\ Abort(d)
        /\ UNCHANGED <<owner, grace>>
     \/ /\ life[d] = "undoing"
        /\ NoOwner
        /\ Abort(d)
  /\ UNCHANGED <<epoch, pulse, sentinel, expired, clientVars, reapVars, model,
                 stalled, faltered, termed, mishaps>>

-----------------------------------------------------------------------------
(* A serving daemon, and drain.                                            *)

\* bumpPulse writes the file of the slot whether or not the record still names
\* this daemon; while it drains, only the progress of a build does.
PulseTick(d) ==
  LET now == [by |-> d, fresh |-> TRUE,
              phase |-> IF life[d] = "ready" THEN "ready" ELSE "draining"]
  IN
  /\ Runs(d)
  /\ pulse # now
  /\ pulse' = now
  /\ UNCHANGED <<owner, epoch, sentinel, claimVars, life, clientVars, reapVars,
                 model, healthVars>>

StartDrain(d, supersession) ==
  /\ life[d] = "ready"
  /\ d \notin stalled
  /\ Becomes(d, "draining")
  /\ told' = [told EXCEPT ![d] = supersession]

\* Shutdown by the user, or the idle timer.
Shutdown(d) ==
  /\ Mishap
  /\ StartDrain(d, NoDaemon)
  /\ UNCHANGED <<fileVars, claimVars, clientVars, target, reap, marker, model,
                 stalled, faltered, grace, termed>>

Named(d) == sentinel # NoDaemon /\ target[sentinel] = d

\* superseded: a missing or an older record is no reason to step down.
Superseded(d) == owner \notin {NoDaemon, d} /\ epoch[owner] >= epoch[d]

OwnershipPoll(d) ==
  /\ \/ Named(d) /\ StartDrain(d, sentinel)
     \/ ~Named(d) /\ Superseded(d) /\ StartDrain(d, NoDaemon)
  /\ UNCHANGED <<fileVars, claimVars, clientVars, target, reap, marker, model,
                 healthVars>>

\* The socket goes first; removeOwnerFile reads the record ...
Relinquish(d) ==
  /\ life[d] = "draining"
  /\ d \notin stalled
  /\ Becomes(d, IF owner = d THEN "removing" ELSE "closing")
  /\ UNCHANGED <<fileVars, claimVars, clientVars, reapVars, model, healthVars>>

\* ... and then removes the file, whatever it says by then.
RemoveOwner(d) ==
  /\ life[d] = "removing"
  /\ d \notin stalled
  /\ NoOwner
  /\ Becomes(d, "closing")
  /\ UNCHANGED <<epoch, pulse, sentinel, claimVars, clientVars, reapVars, model,
                 stalled, faltered, termed, mishaps>>

Close_MarkedAnyway(d) ==
  /\ life[d] = "closing"
  /\ d \notin stalled
  /\ Becomes(d, "closed")
  /\ model' \in {model, model \ {d}}
  /\ \/ UNCHANGED marker
     \/ /\ told[d] # NoDaemon
        /\ marker' = [marker EXCEPT ![d] = told[d]]
  /\ UNCHANGED <<fileVars, claimVars, clientVars, target, reap, told,
                 healthVars>>

\* Profiles and the embed scheduler are closed, or fail to, or not before the
\* deadline of a supersession.  The marker is written when both are closed, and
\* may fail to be.
Close(d) ==
  /\ life[d] = "closing"
  /\ d \notin stalled
  /\ Becomes(d, "closed")
  /\ \/ UNCHANGED <<model, marker>>
     \/ model' = model \ {d} /\ UNCHANGED marker
     \/ /\ told[d] # NoDaemon
        /\ model' = model \ {d}
        /\ marker' = [marker EXCEPT ![d] = told[d]]
  /\ UNCHANGED <<fileVars, claimVars, clientVars, target, reap, told,
                 healthVars>>

\* The embed scheduler waits for the teardown of the predecessor, then loads;
\* the model goes again when it was idle.
LoadModel(d) ==
  /\ Runs(d)
  /\ reap[d] = "proved"
  /\ d \notin model
  /\ model' = model \cup {d}
  /\ UNCHANGED <<fileVars, claimVars, life, clientVars, reapVars, healthVars>>

UnloadModel(d) ==
  /\ Runs(d)
  /\ d \in model
  /\ model' = model \ {d}
  /\ UNCHANGED <<fileVars, claimVars, life, clientVars, reapVars, healthVars>>

-----------------------------------------------------------------------------
(* reapSupersessionTarget, which runs beside everything else.              *)

\* hasReapingProof.
Proven(d) ==
  \/ marker[target[d]] = d
  \/ target[d] \in Verified /\ life[target[d]] = "dead"

IdentityMatches_Record(d) ==
  owner \in {NoDaemon, target[d]} /\ life[target[d]] # "dead"

\* predecessorIdentityStillMatches.
IdentityMatches(d) ==
  /\ ~SameBinary(d, target[d]) => owner \in {NoDaemon, target[d]}
  /\ life[target[d]] # "dead"

ReapGoes(d, stage) == reap' = [reap EXCEPT ![d] = stage]

\* Proof ends it at every stage.
ReapProven(d) ==
  /\ reap[d] \notin {"proved", "failed"}
  /\ Proven(d)
  /\ ReapGoes(d, "proved")
  /\ UNCHANGED <<life, told, termed>>

\* sendCourtesyShutdown, to another binary only.  A predecessor whose event
\* loop is blocked does not answer, and nobody stops waiting for it.
Courtesy(d) ==
  LET t == target[d] IN
  /\ reap[d] = "start"
  /\ ~Proven(d)
  /\ ~SameBinary(d, t)
  /\ \/ StartDrain(t, d) /\ ReapGoes(d, "asked")
     \/ /\ life[t] # "ready"
        /\ ReapGoes(d, "terminate")
        /\ UNCHANGED <<life, told>>
  /\ UNCHANGED termed

\* The grace after an accepted Shutdown is over, or the predecessor is of the
\* same binary: on to termination.
ToTermination(d) ==
  /\ \/ reap[d] = "asked"
     \/ reap[d] \in {"start", "sent"} /\ SameBinary(d, target[d])
  /\ ~Proven(d)
  /\ ReapGoes(d, IF reap[d] = "sent" THEN "termed" ELSE "terminate")
  /\ UNCHANGED <<life, told, termed>>

\* terminateWithVerifiedProof up to SIGTERM.
Terminate(d) ==
  LET t == target[d] IN
  /\ reap[d] = "terminate"
  /\ ~Proven(d)
  /\ \/ /\ t \in Verified /\ IdentityMatches(d)
        /\ termed' = termed \cup {t}
        /\ ReapGoes(d, "termed")
     \/ /\ t \notin Verified \/ ~IdentityMatches(d)
        /\ ReapGoes(d, "failed")
        /\ UNCHANGED termed
  /\ UNCHANGED <<life, told>>

\* The wait for SIGTERM is over: SIGKILL, which ends the process within the wait
\* that follows.
Kill(d) ==
  LET t == target[d] IN
  /\ reap[d] = "termed"
  /\ ~Proven(d)
  /\ \/ /\ IdentityMatches(d)
        /\ Becomes(t, "dead")
        /\ termed' = termed \ {t}
        /\ ReapGoes(d, "killed")
     \/ /\ ~IdentityMatches(d)
        /\ ReapGoes(d, "failed")
        /\ UNCHANGED <<life, termed>>
  /\ UNCHANGED told

ReapStep(d) ==
  /\ Runs(d)
  /\ target[d] # NoDaemon
  /\ \/ ReapProven(d)
     \/ Courtesy(d)
     \/ ToTermination(d)
     \/ Terminate(d)
     \/ Kill(d)
  /\ model' = {e \in model : life'[e] # "dead"}
  /\ stalled' = {e \in stalled : life'[e] # "dead"}
  /\ UNCHANGED <<fileVars, claimVars, clientVars, target, marker, faltered,
                 grace, mishaps>>

-----------------------------------------------------------------------------
(* The world.                                                              *)

\* The process ends: after a drain, by SIGTERM, or by a crash.
Dies(d) ==
  /\ Becomes(d, "dead")
  /\ model' = model \ {d}
  /\ stalled' = stalled \ {d}
  /\ termed' = termed \ {d}
  /\ UNCHANGED <<fileVars, claimVars, clientVars, reapVars, faltered, grace>>

Exit(d) == life[d] = "closed" /\ Dies(d) /\ UNCHANGED mishaps

ExitOnTerm(d) ==
  /\ d \in termed
  /\ life[d] # "dead"
  /\ Dies(d)
  /\ UNCHANGED mishaps

Crash(d) ==
  /\ life[d] \notin {"none", "patient", "doubtful", "judged", "dead"}
  /\ Mishap
  /\ Dies(d)

\* The event loop blocks, or the process is stopped ...
Stall(d) ==
  /\ Runs(d)
  /\ Mishap
  /\ stalled' = stalled \cup {d}
  /\ faltered' = faltered \cup {d}
  /\ UNCHANGED <<fileVars, claimVars, life, clientVars, reapVars, model, grace,
                 termed>>

\* ... and goes on; a pending SIGTERM then ends it.
Resume(d) ==
  /\ d \in stalled
  /\ life[d] # "dead"
  /\ d \notin termed
  /\ stalled' = stalled \ {d}
  /\ UNCHANGED <<fileVars, claimVars, life, clientVars, reapVars, model,
                 faltered, grace, termed, mishaps>>

\* The staleness window passes since the last pulse; a daemon that serves and
\* is not stalled pulses in time.
PulseAges ==
  /\ pulse.fresh
  /\ ~Answers(pulse.by)
  /\ pulse' = [pulse EXCEPT !.fresh = FALSE]
  /\ UNCHANGED <<owner, epoch, sentinel, claimVars, life, clientVars, reapVars,
                 model, healthVars>>

GraceEnds ==
  /\ grace # NoDaemon
  /\ grace' = NoDaemon
  /\ UNCHANGED <<fileVars, claimVars, life, clientVars, reapVars, model,
                 stalled, faltered, termed, mishaps>>

Next ==
  \/ \E d \in Daemon :
       \/ Look(d)
       \/ Judge(d)
       \/ Busy(d)
       \/ Acquire(d)
       \/ Admit(d)
       \/ BootFails(d)
       \/ Rebind(d)
       \/ StandAlone(d)
       \/ Prepare(d)
       \/ Recheck(d)
       \/ PreSignal(d)
       \/ AssertSafe(d)
       \/ WritePulse(d)
       \/ Publish(d)
       \/ Serve(d)
       \/ ServeFails(d)
       \/ Withdraw(d)
       \/ PulseTick(d)
       \/ Shutdown(d)
       \/ OwnershipPoll(d)
       \/ Relinquish(d)
       \/ RemoveOwner(d)
       \/ Close(d)
       \/ LoadModel(d)
       \/ UnloadModel(d)
       \/ ReapStep(d)
       \/ Exit(d)
       \/ ExitOnTerm(d)
       \/ Crash(d)
       \/ Stall(d)
       \/ Resume(d)
  \/ PulseAges
  \/ GraceEnds

Spec == Init /\ [][Next]_vars

\* A daemon that is not stalled goes on with its background work.
Fairness == \A d \in Daemon : WF_vars(ReapStep(d))

FairSpec == Spec /\ Fairness

-----------------------------------------------------------------------------

\* A daemon that holds a predecessor's teardown for proven, and may have its
\* model in memory, does not share the memory with that predecessor's: a
\* record or a socket that is gone, or a teardown that timed out, is no proof.
ModelAfterTeardown ==
  \A d \in model : target[d] # NoDaemon => target[d] \notin model

\* As long as claims are not reclaimed from live successors, nobody takes the
\* slot from a daemon of its own binary that serves and never blocked: not a
\* client with an old observation, nor a second successor.
HealthyKept ==
  [][\A d \in Daemon :
       (/\ ~expired
        /\ owner' = d
        /\ owner # d
        /\ SameBinary(d, owner)
        /\ life[owner] = "ready")
       => owner \in faltered]_vars

\* A successor that runs on sees the wedged predecessor torn down, whatever
\* state that is in, and may load its model.
WedgedIsReaped ==
  \A d \in Daemon : \A t \in {e \in Verified \ {d} : SameBinary(d, e)} :
    (Runs(d) /\ target[d] = t) ~> (~Runs(d) \/ reap[d] = "proved")

\* The same for a predecessor of another binary: if it gives no proof, bounded
\* termination does.
ReplacedIsReaped ==
  \A d \in Daemon :
    (Runs(d) /\ target[d] \in Verified /\ ~SameBinary(d, target[d]))
      ~> (~Runs(d) \/ reap[d] = "proved")

-----------------------------------------------------------------------------
(* Proofs, for any number of daemons and mishaps: the variables keep their  *)
(* types, no model is loaded beside that of a predecessor seen torn down,   *)
(* and a healthy owner keeps its slot.                                      *)

USE NoDaemonAssumption, VerifiedAssumption, MaxMishapsAssumption

\* The stages after serving, or after a publication that is taken back; nobody
\* comes back from them.
Past(c) ==
  life[c] \in {"failing", "undoing", "draining", "removing", "closing", "closed",
               "dead"}

\* What the record names has published itself, with an epoch.
Stages ==
  /\ owner # NoDaemon => life[owner] \in {"published", "ready"} \/ Past(owner)
  /\ \A d \in Daemon :
       /\ life[d] \in {"pulsed", "published", "ready"} => epoch[d] > 0
       /\ life[d] \in {"patient", "doubtful"} => seen[d] # NoDaemon

\* Past is kept by every step.
LEMMA PastStays ==
  ASSUME TypeOK, [Next]_vars, NEW c \in Daemon, Past(c) PROVE Past(c)'
<1> USE DEF TypeOK, Past, MaybeDaemon, Life, Proof, Reap
<1>1. ASSUME NEW d \in Daemon, Look(d) \/ Judge(d) \/ Busy(d) \/ Acquire(d) \/ Admit(d)
      PROVE Past(c)'
  BY <1>1 DEF Look, Judge, Busy, Acquire, Admit, Judged, Becomes
<1>2. ASSUME NEW d \in Daemon, BootFails(d) \/ Rebind(d) \/ StandAlone(d) \/ Prepare(d) \/ Recheck(d)
                       \/ PreSignal(d) \/ AssertSafe(d)
      PROVE Past(c)'
  BY <1>2 DEF BootFails, Rebind, StandAlone, Prepare, Recheck, PreSignal, AssertSafe, Abort, Becomes
<1>3. ASSUME NEW d \in Daemon, WritePulse(d) \/ Publish(d) \/ Serve(d) \/ ServeFails(d) \/ Withdraw(d)
                       \/ PulseTick(d)
      PROVE Past(c)'
  BY <1>3 DEF WritePulse, Publish, Serve, ServeFails, Withdraw, Abort, PulseTick, Becomes
<1>4. ASSUME NEW d \in Daemon, Shutdown(d) \/ OwnershipPoll(d) PROVE Past(c)'
  BY <1>4 DEF Shutdown, OwnershipPoll, StartDrain, Becomes
<1>5. ASSUME NEW d \in Daemon, Relinquish(d) \/ RemoveOwner(d) \/ Close(d) PROVE Past(c)'
  BY <1>5 DEF Relinquish, RemoveOwner, Close, Becomes
<1>6. ASSUME NEW d \in Daemon, ReapStep(d) PROVE Past(c)'
  BY <1>6 DEF ReapStep, ReapProven, Courtesy, ToTermination, Terminate, Kill, StartDrain, Becomes
<1>7. ASSUME NEW d \in Daemon, Exit(d) \/ ExitOnTerm(d) \/ Crash(d) PROVE Past(c)'
  BY <1>7 DEF Exit, ExitOnTerm, Crash, Dies, Becomes
<1>8. ASSUME NEW d \in Daemon, LoadModel(d) \/ UnloadModel(d) \/ Stall(d) \/ Resume(d) PROVE Past(c)'
  BY <1>8 DEF LoadModel, UnloadModel, Stall, Resume
<1>9. CASE PulseAges \/ GraceEnds \/ UNCHANGED vars
  BY <1>9 DEF PulseAges, GraceEnds, vars
<1> QED BY <1>1, <1>2, <1>3, <1>4, <1>5, <1>6, <1>7, <1>8, <1>9 DEF Next

-----------------------------------------------------------------------------
(* Types.                                                                   *)

\* Who takes the claim holds it, and counts the reclaim of a live daemon's.
LEMMA TakesTyped ==
  ASSUME TypeOK, NEW d \in Daemon, Takes(d)
  PROVE  claim' = d /\ mishaps' \in 0..MaxMishaps /\ expired' \in BOOLEAN
<1>1. CASE ClaimLives
  <2>1. mishaps < MaxMishaps /\ mishaps' = mishaps + 1 /\ expired' = TRUE
    BY <1>1 DEF Takes, Mishap
  <2> QED BY <2>1 DEF Takes, TypeOK
<1>2. CASE ~ClaimLives
  <2>1. mishaps' = mishaps /\ expired' = expired
    BY <1>2 DEF Takes
  <2> QED BY <2>1 DEF Takes, TypeOK
<1> QED BY <1>1, <1>2

\* Each step keeps the types.
LEMMA TypeStep ==
  ASSUME TypeOK, Stages, [Next]_vars PROVE TypeOK'
<1> USE DEF TypeOK, MaybeDaemon, Life, Proof, Reap
<1> USE DEF fileVars, claimVars, clientVars, reapVars, healthVars, Becomes, Forgets
<1>1. ASSUME NEW d \in Daemon, Look(d) PROVE TypeOK'
  BY <1>1 DEF Look, Judged
<1>2. ASSUME NEW d \in Daemon, Judge(d) PROVE TypeOK'
  BY <1>2 DEF Judge, Judged
<1>3. ASSUME NEW d \in Daemon, Busy(d) PROVE TypeOK'
  BY <1>3 DEF Busy
<1>4. ASSUME NEW d \in Daemon, Acquire(d) PROVE TypeOK'
  <2>1. claim' = d /\ mishaps' \in 0..MaxMishaps /\ expired' \in BOOLEAN
    BY <1>4, TakesTyped DEF Acquire
  <2> QED BY <1>4, <2>1 DEF Acquire
<1>5. ASSUME NEW d \in Daemon, Admit(d) PROVE TypeOK'
  BY <1>5 DEF Admit, GivesBack
<1>6. ASSUME NEW d \in Daemon, BootFails(d) PROVE TypeOK'
  BY <1>6 DEF BootFails, Abort, GivesBack, Mishap
<1>7. ASSUME NEW d \in Daemon, Rebind(d) \/ Recheck(d) \/ AssertSafe(d) PROVE TypeOK'
  BY <1>7 DEF Rebind, Recheck, AssertSafe
<1>8. ASSUME NEW d \in Daemon, StandAlone(d) PROVE TypeOK'
  <2>1. claim' = d /\ mishaps' \in 0..MaxMishaps /\ expired' \in BOOLEAN
    BY <1>8, TakesTyped DEF StandAlone
  <2> QED BY <1>8, <2>1 DEF StandAlone
<1>9. ASSUME NEW d \in Daemon, Prepare(d) PROVE TypeOK'
  BY <1>9 DEF Prepare
<1>10. ASSUME NEW d \in Daemon, PreSignal(d) PROVE TypeOK'
  BY <1>10 DEF PreSignal
<1>22. ASSUME NEW d \in Daemon, WritePulse(d) PROVE TypeOK'
  BY <1>22 DEF WritePulse
<1>23. ASSUME NEW d \in Daemon, Publish(d) PROVE TypeOK'
  BY <1>23 DEF Publish
<1>24. ASSUME NEW d \in Daemon, Serve(d) PROVE TypeOK'
  BY <1>24 DEF Serve, Announce, Stages
<1>25. ASSUME NEW d \in Daemon, ServeFails(d) PROVE TypeOK'
  BY <1>25 DEF ServeFails, Announce, Mishap
<1>26. ASSUME NEW d \in Daemon, Withdraw(d) PROVE TypeOK'
  BY <1>26 DEF Withdraw, Abort, GivesBack, NoOwner
<1>11. ASSUME NEW d \in Daemon, PulseTick(d) PROVE TypeOK'
  BY <1>11 DEF PulseTick
<1>12. ASSUME NEW d \in Daemon, Shutdown(d) PROVE TypeOK'
  BY <1>12 DEF Shutdown, StartDrain, Mishap
<1>13. ASSUME NEW d \in Daemon, OwnershipPoll(d) PROVE TypeOK'
  BY <1>13 DEF OwnershipPoll, StartDrain
<1>14. ASSUME NEW d \in Daemon, Relinquish(d) \/ RemoveOwner(d) \/ Close(d) PROVE TypeOK'
  BY <1>14 DEF Relinquish, RemoveOwner, NoOwner, Close
<1>15. ASSUME NEW d \in Daemon, LoadModel(d) \/ UnloadModel(d) PROVE TypeOK'
  BY <1>15 DEF LoadModel, UnloadModel
<1>16. ASSUME NEW d \in Daemon, ReapStep(d) PROVE TypeOK'
  <2> USE <1>16 DEF ReapStep, ReapGoes
  <2>1. CASE ReapProven(d)
    BY <2>1 DEF ReapProven
  <2>2. CASE Courtesy(d)
    BY <2>2 DEF Courtesy, StartDrain
  <2>3. CASE ToTermination(d)
    BY <2>3 DEF ToTermination
  <2>4. CASE Terminate(d)
    BY <2>4 DEF Terminate
  <2>5. CASE Kill(d)
    BY <2>5 DEF Kill
  <2> QED BY <2>1, <2>2, <2>3, <2>4, <2>5
<1>17. ASSUME NEW d \in Daemon, Exit(d) \/ ExitOnTerm(d) \/ Crash(d) PROVE TypeOK'
  BY <1>17 DEF Exit, ExitOnTerm, Crash, Dies, Mishap
<1>18. ASSUME NEW d \in Daemon, Stall(d) \/ Resume(d) PROVE TypeOK'
  BY <1>18 DEF Stall, Resume, Mishap
<1>19. CASE PulseAges
  BY <1>19 DEF PulseAges
<1>20. CASE GraceEnds
  BY <1>20 DEF GraceEnds
<1>21. CASE UNCHANGED vars
  BY <1>21 DEF vars
<1> QED
  BY <1>1, <1>2, <1>3, <1>4, <1>5, <1>6, <1>7, <1>8, <1>9, <1>10, <1>11, <1>12, <1>13, <1>14,
     <1>15, <1>16, <1>17, <1>18, <1>19, <1>20, <1>21, <1>22, <1>23, <1>24, <1>25, <1>26 DEF Next

\* What a client's look at the record can come to.
LEMMA LookOutcomes ==
  ASSUME TypeOK, NEW d \in Daemon, Look(d)
  PROVE  /\ life[d] = "none"
         /\ seen' = [seen EXCEPT ![d] = owner]
         /\ \/ Becomes(d, "judged") /\ proof' = [proof EXCEPT ![d] = "cold"] /\ owner = NoDaemon
            \/ /\ Becomes(d, "judged") /\ proof' = [proof EXCEPT ![d] = "identity-mismatch"]
               /\ ~SameBinary(d, owner)
            \/ /\ Becomes(d, "judged") /\ proof' = [proof EXCEPT ![d] = "draining"]
               /\ DrainingPulse(owner) /\ owner # NoDaemon
            \/ /\ Becomes(d, "patient") \/ Becomes(d, "doubtful")
               /\ proof' = proof /\ owner # NoDaemon
         /\ UNCHANGED <<fileVars, claimVars, reapVars, model, healthVars>>
  BY DEF Look, Judged, SameBinary

\* Each step keeps the stages of the owner and of the observations.
LEMMA StagesStep ==
  ASSUME TypeOK, Stages, [Next]_vars PROVE Stages'
<1> USE DEF TypeOK, Stages, Past, MaybeDaemon, Life, Proof, Reap
<1> USE DEF fileVars, claimVars, clientVars, reapVars, healthVars, Becomes, Forgets
<1>1. ASSUME NEW d \in Daemon, Look(d) PROVE Stages'
  BY <1>1, LookOutcomes
<1>15. ASSUME NEW d \in Daemon, Judge(d) \/ Busy(d) PROVE Stages'
  BY <1>15 DEF Judge, Busy, Judged
<1>2. ASSUME NEW d \in Daemon, Acquire(d) \/ Admit(d) \/ BootFails(d) PROVE Stages'
  BY <1>2 DEF Acquire, Admit, BootFails, Abort
<1>3. ASSUME NEW d \in Daemon, Rebind(d) \/ StandAlone(d) \/ Prepare(d) \/ Recheck(d) \/ PreSignal(d)
                       \/ AssertSafe(d)
      PROVE Stages'
  BY <1>3 DEF Rebind, StandAlone, Prepare, Recheck, PreSignal, AssertSafe
<1>4. ASSUME NEW d \in Daemon, WritePulse(d) PROVE Stages'
  BY <1>4 DEF WritePulse
<1>12. ASSUME NEW d \in Daemon, Publish(d) PROVE Stages'
  BY <1>12 DEF Publish
<1>13. ASSUME NEW d \in Daemon, ServeFails(d) PROVE Stages'
  BY <1>13 DEF ServeFails
<1>14. ASSUME NEW d \in Daemon, Withdraw(d) PROVE Stages'
  BY <1>14 DEF Withdraw, NoOwner, Abort
<1>5. ASSUME NEW d \in Daemon, Serve(d) PROVE Stages'
  BY <1>5 DEF Serve
<1>6. ASSUME NEW d \in Daemon, PulseTick(d) \/ LoadModel(d) \/ UnloadModel(d) \/ Stall(d) \/ Resume(d) PROVE Stages'
  BY <1>6 DEF PulseTick, LoadModel, UnloadModel, Stall, Resume
<1>7. ASSUME NEW d \in Daemon, Shutdown(d) \/ OwnershipPoll(d) PROVE Stages'
  BY <1>7 DEF Shutdown, OwnershipPoll, StartDrain
<1>8. ASSUME NEW d \in Daemon, Relinquish(d) \/ RemoveOwner(d) \/ Close(d) PROVE Stages'
  BY <1>8 DEF Relinquish, RemoveOwner, NoOwner, Close
<1>9. ASSUME NEW d \in Daemon, ReapStep(d) PROVE Stages'
  BY <1>9 DEF ReapStep, ReapProven, Courtesy, ToTermination, Terminate, Kill, StartDrain
<1>10. ASSUME NEW d \in Daemon, Exit(d) \/ ExitOnTerm(d) \/ Crash(d) PROVE Stages'
  BY <1>10 DEF Exit, ExitOnTerm, Crash, Dies
<1>11. CASE PulseAges \/ GraceEnds \/ UNCHANGED vars
  BY <1>11 DEF PulseAges, GraceEnds, vars
<1> QED
  BY <1>1, <1>2, <1>3, <1>4, <1>5, <1>6, <1>7, <1>8, <1>9, <1>10, <1>11, <1>12, <1>13, <1>14,
     <1>15 DEF Next

-----------------------------------------------------------------------------
(* The teardown of a predecessor.                                           *)

Early == {"none", "patient", "doubtful", "judged", "claiming", "spawned", "bound",
          "prepared", "unrecovered"}

Gone(c) == life[c] \in {"closed", "dead"} /\ c \notin model

\* Reaping starts after the preparation; who holds a model has its proof and
\* lives; a marker is written by a daemon that has closed without its model;
\* and a proof is about a predecessor that has closed or died.
Teardown ==
  /\ \A d \in Daemon : life[d] \in Early => reap[d] = "start"
  /\ \A d \in model : life[d] \in {"ready", "draining", "removing", "closing", "closed"} /\ reap[d] = "proved"
  /\ \A d \in Daemon : marker[d] # NoDaemon => Gone(d)
  /\ \A d \in Daemon : reap[d] = "proved" /\ target[d] # NoDaemon => Gone(target[d])

\* Each step keeps them.
LEMMA TeardownStep ==
  ASSUME TypeOK, Teardown, [Next]_vars PROVE Teardown'
<1> USE DEF TypeOK, Teardown, Gone, Early, MaybeDaemon, Life, Reap
<1> USE DEF fileVars, claimVars, clientVars, reapVars, healthVars, Becomes
<1>1. ASSUME NEW d \in Daemon, Look(d) \/ Judge(d) \/ Busy(d) \/ Acquire(d) \/ Admit(d) PROVE Teardown'
  BY <1>1 DEF Look, Judge, Busy, Acquire, Admit, Judged
<1>2. ASSUME NEW d \in Daemon, Rebind(d) \/ StandAlone(d) \/ Recheck(d) \/ AssertSafe(d) PROVE Teardown'
  BY <1>2 DEF Rebind, StandAlone, Recheck, AssertSafe
<1>15. ASSUME NEW d \in Daemon, BootFails(d) PROVE Teardown'
  BY <1>15 DEF BootFails, Abort
<1>3. ASSUME NEW d \in Daemon, Prepare(d) PROVE Teardown'
  BY <1>3 DEF Prepare
<1>4. ASSUME NEW d \in Daemon, PreSignal(d) PROVE Teardown'
  BY <1>4 DEF PreSignal
<1>5. ASSUME NEW d \in Daemon, WritePulse(d) \/ Publish(d) PROVE Teardown'
  BY <1>5 DEF WritePulse, Publish
<1>16. ASSUME NEW d \in Daemon, ServeFails(d) \/ Withdraw(d) PROVE Teardown'
  BY <1>16 DEF ServeFails, Withdraw, Abort
<1>6. ASSUME NEW d \in Daemon, Serve(d) PROVE Teardown'
  BY <1>6 DEF Serve
<1>7. ASSUME NEW d \in Daemon, Shutdown(d) \/ OwnershipPoll(d) PROVE Teardown'
  BY <1>7 DEF Shutdown, OwnershipPoll, StartDrain
<1>8. ASSUME NEW d \in Daemon, Relinquish(d) \/ RemoveOwner(d) \/ PulseTick(d) \/ Stall(d) \/ Resume(d)
      PROVE Teardown'
  BY <1>8 DEF Relinquish, RemoveOwner, PulseTick, Stall, Resume
<1>9. ASSUME NEW d \in Daemon, Close(d) PROVE Teardown'
  BY <1>9 DEF Close
<1>10. ASSUME NEW d \in Daemon, LoadModel(d) PROVE Teardown'
  BY <1>10 DEF LoadModel, Runs
<1>11. ASSUME NEW d \in Daemon, UnloadModel(d) PROVE Teardown'
  BY <1>11 DEF UnloadModel
<1>12. ASSUME NEW d \in Daemon, ReapStep(d) PROVE Teardown'
  <2>1. Runs(d) /\ target[d] \in Daemon /\ UNCHANGED <<target, marker>>
    BY <1>12 DEF ReapStep
  <2>2. model' = {e \in model : life'[e] # "dead"}
    BY <1>12 DEF ReapStep
  <2>3. CASE ReapProven(d)
    <3>1. Gone(target[d])
      BY <2>1, <2>3 DEF ReapProven, Proven
    <3> QED BY <2>1, <2>2, <2>3, <3>1 DEF ReapProven, ReapGoes, Runs
  <2>4. CASE Courtesy(d)
    BY <2>1, <2>2, <2>4 DEF Courtesy, StartDrain, ReapGoes, Runs
  <2>5. CASE ToTermination(d)
    BY <2>1, <2>2, <2>5 DEF ToTermination, ReapGoes, Runs
  <2>6. CASE Terminate(d)
    BY <2>1, <2>2, <2>6 DEF Terminate, ReapGoes, Runs
  <2>7. CASE Kill(d)
    BY <2>1, <2>2, <2>7 DEF Kill, ReapGoes, Runs
  <2> QED BY <1>12, <2>3, <2>4, <2>5, <2>6, <2>7 DEF ReapStep
<1>13. ASSUME NEW d \in Daemon, Exit(d) \/ ExitOnTerm(d) \/ Crash(d) PROVE Teardown'
  BY <1>13 DEF Exit, ExitOnTerm, Crash, Dies
<1>14. CASE PulseAges \/ GraceEnds \/ UNCHANGED vars
  BY <1>14 DEF PulseAges, GraceEnds, vars
<1> QED
  BY <1>1, <1>2, <1>3, <1>4, <1>5, <1>6, <1>7, <1>8, <1>9, <1>10, <1>11, <1>12, <1>13, <1>14,
     <1>15, <1>16 DEF Next

-----------------------------------------------------------------------------
(* What was observed of an owner.                                           *)

Started(c) == life[c] \in {"published", "ready"} \/ Past(c)

\* What the clients saw is still so: draining daemons drain, another binary
\* is another binary; whoever is to be torn down has published itself, and
\* who is stalled has faltered.
Obs ==
  /\ pulse.phase = "draining" => pulse.by \in Daemon /\ Past(pulse.by)
  /\ \A d \in Daemon : proof[d] = "draining" => seen[d] \in Daemon /\ Past(seen[d])
  /\ \A d \in Daemon : proof[d] = "cold" /\ life[d] \notin {"patient", "doubtful"} => seen[d] = NoDaemon
  /\ \A d \in Daemon : proof[d] = "identity-mismatch" => ~SameBinary(d, seen[d])
  /\ \A d \in Daemon : life[d] = "none" => proof[d] = "cold"
  /\ \A d \in Daemon : target[d] # NoDaemon => Started(target[d])
  /\ \A c \in termed : Started(c)
  /\ stalled \subseteq faltered

\* Each step keeps them.
LEMMA ObsStep ==
  ASSUME TypeOK, Stages, Obs, [Next]_vars PROVE Obs'
<1>0. \A c \in Daemon : Past(c) => Past(c)'
  BY PastStays
<1> USE <1>0 DEF TypeOK, Stages, Obs, Started, SameBinary, MaybeDaemon, Life, Proof, Reap
<1> USE DEF fileVars, claimVars, clientVars, reapVars, healthVars, Becomes, Forgets
<1>1. ASSUME NEW d \in Daemon, Look(d) PROVE Obs'
  <2> USE DEF DrainingPulse, Past
  <2>0. /\ life[d] = "none"
        /\ seen' = [seen EXCEPT ![d] = owner]
        /\ UNCHANGED <<fileVars, claimVars, reapVars, model, healthVars>>
    BY <1>1, LookOutcomes
  <2>1. CASE proof' = [proof EXCEPT ![d] = "cold"] /\ Becomes(d, "judged") /\ owner = NoDaemon
    BY <2>0, <2>1
  <2>2. CASE /\ proof' = [proof EXCEPT ![d] = "identity-mismatch"] /\ Becomes(d, "judged")
             /\ ~SameBinary(d, owner)
    BY <2>0, <2>2
  <2>3. CASE /\ proof' = [proof EXCEPT ![d] = "draining"] /\ Becomes(d, "judged")
             /\ DrainingPulse(owner) /\ owner # NoDaemon
    BY <2>0, <2>3
  <2>4. CASE proof' = proof /\ (Becomes(d, "patient") \/ Becomes(d, "doubtful"))
    BY <2>0, <2>4
  <2> QED BY <1>1, LookOutcomes, <2>1, <2>2, <2>3, <2>4
<1>2. ASSUME NEW d \in Daemon, Judge(d) PROVE Obs'
  BY <1>2 DEF Judge, Judged, DrainingPulse, Past
<1>3. ASSUME NEW d \in Daemon, Busy(d) PROVE Obs'
  BY <1>3 DEF Busy, Past
<1>4. ASSUME NEW d \in Daemon, Acquire(d) \/ Admit(d) PROVE Obs'
  BY <1>4 DEF Acquire, Admit, Past
<1>5. ASSUME NEW d \in Daemon, Rebind(d) \/ StandAlone(d) \/ Recheck(d) \/ AssertSafe(d) PROVE Obs'
  BY <1>5 DEF Rebind, StandAlone, Recheck, AssertSafe, Past
<1>17. ASSUME NEW d \in Daemon, BootFails(d) PROVE Obs'
  BY <1>17 DEF BootFails, Abort, Past
<1>6. ASSUME NEW d \in Daemon, Prepare(d) PROVE Obs'
  BY <1>6 DEF Prepare, Past
<1>7. ASSUME NEW d \in Daemon, PreSignal(d) PROVE Obs'
  BY <1>7 DEF PreSignal, Past
<1>8. ASSUME NEW d \in Daemon, WritePulse(d) \/ Publish(d) PROVE Obs'
  BY <1>8 DEF WritePulse, Publish, Past
<1>18. ASSUME NEW d \in Daemon, ServeFails(d) \/ Withdraw(d) PROVE Obs'
  BY <1>18 DEF ServeFails, Withdraw, Abort, Past
<1>9. ASSUME NEW d \in Daemon, Serve(d) PROVE Obs'
  BY <1>9 DEF Serve, Past
<1>10. ASSUME NEW d \in Daemon, PulseTick(d) PROVE Obs'
  BY <1>10 DEF PulseTick, Runs, Past
<1>11. ASSUME NEW d \in Daemon, Shutdown(d) \/ OwnershipPoll(d) PROVE Obs'
  BY <1>11 DEF Shutdown, OwnershipPoll, StartDrain, Past
<1>12. ASSUME NEW d \in Daemon, Relinquish(d) \/ RemoveOwner(d) \/ Close(d) PROVE Obs'
  BY <1>12 DEF Relinquish, RemoveOwner, Close, Past
<1>13. ASSUME NEW d \in Daemon, LoadModel(d) \/ UnloadModel(d) \/ Stall(d) \/ Resume(d) PROVE Obs'
  BY <1>13 DEF LoadModel, UnloadModel, Stall, Resume, Past
<1>14. ASSUME NEW d \in Daemon, ReapStep(d) PROVE Obs'
  <2> USE <1>14 DEF ReapStep, ReapGoes, Past
  <2>1. CASE ReapProven(d)
    BY <2>1 DEF ReapProven
  <2>2. CASE Courtesy(d)
    BY <2>2 DEF Courtesy, StartDrain
  <2>3. CASE ToTermination(d)
    BY <2>3 DEF ToTermination
  <2>4. CASE Terminate(d)
    BY <2>4 DEF Terminate
  <2>5. CASE Kill(d)
    BY <2>5 DEF Kill
  <2> QED BY <2>1, <2>2, <2>3, <2>4, <2>5
<1>15. ASSUME NEW d \in Daemon, Exit(d) \/ ExitOnTerm(d) \/ Crash(d) PROVE Obs'
  BY <1>15 DEF Exit, ExitOnTerm, Crash, Dies, Past
<1>16. CASE PulseAges \/ GraceEnds \/ UNCHANGED vars
  BY <1>16 DEF PulseAges, GraceEnds, vars, Past
<1> QED
  BY <1>1, <1>2, <1>3, <1>4, <1>5, <1>6, <1>7, <1>8, <1>9, <1>10, <1>11, <1>12, <1>13, <1>14,
     <1>15, <1>16, <1>17, <1>18 DEF Next

-----------------------------------------------------------------------------
(* Whoever replaces an owner.                                               *)

Booting == {"bound", "prepared", "unrecovered", "signalled", "safe", "pulsed",
            "published"}

\* Between its rebind and its release, a successor has the claim.
ClaimHeld == \A d \in Daemon : life[d] \in Booting => claim = d

Faulty(c) == c \in faltered \/ Past(c)

\* A successor of the owner's own binary that goes towards its publication
\* was sent for that owner, and found it drained or blocked.
Replace ==
  \A d \in Daemon : SameBinary(d, owner) =>
    /\ life[d] = "prepared" /\ seen[d] = owner => target[d] = owner \/ Past(owner)
    /\ life[d] \in {"unrecovered", "signalled", "safe", "pulsed"} /\ seen[d] = owner => Faulty(owner)
    /\ life[d] \in {"safe", "pulsed"} => seen[d] = owner

Exclusive == ~expired => ClaimHeld /\ Replace

\* Each step keeps them, while no claim of a live successor was reclaimed.
LEMMA ClaimStep ==
  ASSUME TypeOK, ~expired', ClaimHeld, [Next]_vars PROVE ClaimHeld'
<1> USE DEF TypeOK, ClaimHeld, Booting, MaybeDaemon, Life
<1> USE DEF fileVars, claimVars, clientVars, reapVars, healthVars, Becomes
<1>1. ASSUME NEW d \in Daemon, Look(d) \/ Judge(d) \/ Busy(d) PROVE ClaimHeld'
  BY <1>1 DEF Look, Judge, Busy, Judged
<1>2. ASSUME NEW d \in Daemon, Acquire(d) \/ StandAlone(d) PROVE ClaimHeld'
  <2>1. ~ClaimLives
    BY <1>2 DEF Acquire, StandAlone, Takes
  <2>2. \A e \in Daemon : life[e] \notin Booting
    BY <2>1 DEF ClaimLives
  <2> QED BY <1>2, <2>2 DEF Acquire, StandAlone, Takes
<1>11. ASSUME NEW d \in Daemon, Admit(d) \/ BootFails(d) \/ Withdraw(d) PROVE ClaimHeld'
  BY <1>11 DEF Admit, BootFails, Withdraw, Abort, GivesBack
<1>3. ASSUME NEW d \in Daemon, Rebind(d) \/ Prepare(d) \/ Recheck(d) \/ PreSignal(d) \/ AssertSafe(d)
      PROVE ClaimHeld'
  BY <1>3 DEF Rebind, Prepare, Recheck, PreSignal, AssertSafe
<1>4. ASSUME NEW d \in Daemon, WritePulse(d) \/ Publish(d) \/ Serve(d) \/ ServeFails(d) PROVE ClaimHeld'
  BY <1>4 DEF WritePulse, Publish, Serve, ServeFails
<1>5. ASSUME NEW d \in Daemon, Shutdown(d) \/ OwnershipPoll(d) PROVE ClaimHeld'
  BY <1>5 DEF Shutdown, OwnershipPoll, StartDrain
<1>6. ASSUME NEW d \in Daemon, Relinquish(d) \/ RemoveOwner(d) \/ Close(d) PROVE ClaimHeld'
  BY <1>6 DEF Relinquish, RemoveOwner, Close
<1>7. ASSUME NEW d \in Daemon, ReapStep(d) PROVE ClaimHeld'
  BY <1>7 DEF ReapStep, ReapProven, Courtesy, ToTermination, Terminate, Kill, StartDrain
<1>8. ASSUME NEW d \in Daemon, Exit(d) \/ ExitOnTerm(d) \/ Crash(d) PROVE ClaimHeld'
  BY <1>8 DEF Exit, ExitOnTerm, Crash, Dies
<1>9. ASSUME NEW d \in Daemon, PulseTick(d) \/ LoadModel(d) \/ UnloadModel(d) \/ Stall(d) \/ Resume(d)
      PROVE ClaimHeld'
  BY <1>9 DEF PulseTick, LoadModel, UnloadModel, Stall, Resume
<1>10. CASE PulseAges \/ GraceEnds \/ UNCHANGED vars
  BY <1>10 DEF PulseAges, GraceEnds, vars
<1> QED BY <1>1, <1>2, <1>3, <1>4, <1>5, <1>6, <1>7, <1>8, <1>9, <1>10, <1>11 DEF Next

\* The same for what a successor knows of the owner that it replaces.
LEMMA ReplaceStep ==
  ASSUME TypeOK, Stages, Obs, ClaimHeld, Replace, [Next]_vars PROVE Replace' \/ expired'
<1>0. \A c \in Daemon : Past(c) => Past(c)'
  BY PastStays
<1> USE <1>0 DEF TypeOK, Replace, Faulty, SameBinary, MaybeDaemon, Life, Proof, Reap
<1> USE DEF fileVars, claimVars, clientVars, reapVars, healthVars, Becomes, Forgets
<1>1. ASSUME NEW d \in Daemon, Look(d) \/ Judge(d) \/ Busy(d) PROVE Replace'
  BY <1>1 DEF Look, Judge, Busy, Judged
<1>2. ASSUME NEW d \in Daemon, Acquire(d) \/ Admit(d) \/ BootFails(d) PROVE Replace'
  BY <1>2 DEF Acquire, Admit, BootFails, Abort
<1>3. ASSUME NEW d \in Daemon, Rebind(d) \/ StandAlone(d) PROVE Replace'
  BY <1>3 DEF Rebind, StandAlone
<1>4. ASSUME NEW d \in Daemon, Prepare(d) PROVE Replace'
  <2>1. SameBinary(d, owner) /\ seen[d] = owner => proof[d] \in {"draining", "wedged"}
    BY <1>4 DEF Prepare, Obs
  <2>2. proof[d] = "draining" => Past(seen[d])
    BY DEF Obs
  <2>3. life[owner] = "dead" => Past(owner)
    BY DEF Past
  <2> QED BY <1>4, <2>1, <2>2, <2>3 DEF Prepare
<1>5. ASSUME NEW d \in Daemon, Recheck(d) PROVE Replace'
  <2>1. CASE SameBinary(d, owner) /\ seen[d] = owner /\ ~Past(owner)
    <3>1. target[d] = owner /\ ~Recovered(owner)
      BY <1>5, <2>1 DEF Recheck, HasWedgedTarget
    <3>2. life[owner] = "ready"
      BY <1>5, <2>1 DEF Recheck, Stages, ClaimHeld, Booting
    <3>3. owner \in faltered
      BY <3>1, <3>2 DEF Recovered, Answers, Obs
    <3> QED BY <1>5, <3>3 DEF Recheck
  <2>2. CASE ~(SameBinary(d, owner) /\ seen[d] = owner /\ ~Past(owner))
    BY <1>5, <2>2 DEF Recheck
  <2> QED BY <2>1, <2>2
<1>15. ASSUME NEW d \in Daemon, PreSignal(d) PROVE Replace'
  BY <1>15 DEF PreSignal
<1>6. ASSUME NEW d \in Daemon, AssertSafe(d) PROVE Replace'
  <2>1. SameBinary(d, owner) => seen[d] = owner
    BY <1>6 DEF AssertSafe, Replaceable
  <2> QED BY <1>6, <2>1 DEF AssertSafe
<1>16. ASSUME NEW d \in Daemon, WritePulse(d) PROVE Replace'
  BY <1>16 DEF WritePulse
<1>7. ASSUME NEW d \in Daemon, Publish(d) PROVE Replace'
  <2>1. \A e \in Daemon \ {d} : life[e] \notin {"prepared", "unrecovered", "signalled", "safe", "pulsed"}
    BY <1>7 DEF Publish, ClaimHeld, Booting
  <2> QED BY <1>7, <2>1 DEF Publish
<1>17. ASSUME NEW d \in Daemon, ServeFails(d) \/ Withdraw(d) PROVE Replace'
  BY <1>17 DEF ServeFails, Withdraw, NoOwner, Abort
<1>8. ASSUME NEW d \in Daemon, Serve(d) PROVE Replace'
  BY <1>8 DEF Serve
<1>9. ASSUME NEW d \in Daemon, Shutdown(d) \/ OwnershipPoll(d) PROVE Replace'
  BY <1>9 DEF Shutdown, OwnershipPoll, StartDrain
<1>10. ASSUME NEW d \in Daemon, Relinquish(d) \/ RemoveOwner(d) \/ Close(d) PROVE Replace'
  BY <1>10 DEF Relinquish, RemoveOwner, NoOwner, Close
<1>11. ASSUME NEW d \in Daemon, ReapStep(d) PROVE Replace'
  BY <1>11 DEF ReapStep, ReapProven, Courtesy, ToTermination, Terminate, Kill, StartDrain
<1>12. ASSUME NEW d \in Daemon, Exit(d) \/ ExitOnTerm(d) \/ Crash(d) PROVE Replace'
  BY <1>12 DEF Exit, ExitOnTerm, Crash, Dies
<1>13. ASSUME NEW d \in Daemon, PulseTick(d) \/ LoadModel(d) \/ UnloadModel(d) \/ Stall(d) \/ Resume(d)
       PROVE Replace'
  BY <1>13 DEF PulseTick, LoadModel, UnloadModel, Stall, Resume
<1>14. CASE PulseAges \/ GraceEnds \/ UNCHANGED vars
  BY <1>14 DEF PulseAges, GraceEnds, vars
<1> QED
  BY <1>1, <1>2, <1>3, <1>4, <1>5, <1>6, <1>7, <1>8, <1>9, <1>10, <1>11, <1>12, <1>13, <1>14,
     <1>15, <1>16, <1>17 DEF Next

\* A claim that was once reclaimed from a live successor stays so marked.
LEMMA ExpiredStays ==
  ASSUME [Next]_vars, expired PROVE expired'
<1> USE DEF fileVars, claimVars, clientVars, reapVars, healthVars
<1>1. ASSUME NEW d \in Daemon, Look(d) \/ Judge(d) \/ Busy(d) \/ Acquire(d) \/ Admit(d) \/ StandAlone(d)
      PROVE expired'
  BY <1>1 DEF Look, Judge, Busy, Acquire, Admit, StandAlone, Takes
<1>2. ASSUME NEW d \in Daemon, BootFails(d) \/ Rebind(d) \/ Prepare(d) \/ Recheck(d) \/ PreSignal(d)
                       \/ AssertSafe(d)
      PROVE expired'
  BY <1>2 DEF BootFails, Rebind, Prepare, Recheck, PreSignal, AssertSafe
<1>7. ASSUME NEW d \in Daemon, WritePulse(d) \/ Publish(d) \/ Serve(d) \/ ServeFails(d) \/ Withdraw(d)
                       \/ PulseTick(d)
      PROVE expired'
  BY <1>7 DEF WritePulse, Publish, Serve, ServeFails, Withdraw, PulseTick
<1>3. ASSUME NEW d \in Daemon, Shutdown(d) \/ OwnershipPoll(d) \/ Relinquish(d) \/ RemoveOwner(d) \/ Close(d)
      PROVE expired'
  BY <1>3 DEF Shutdown, OwnershipPoll, Relinquish, RemoveOwner, Close
<1>4. ASSUME NEW d \in Daemon, LoadModel(d) \/ UnloadModel(d) \/ ReapStep(d) \/ Stall(d) \/ Resume(d) PROVE expired'
  BY <1>4 DEF LoadModel, UnloadModel, ReapStep, Stall, Resume
<1>5. ASSUME NEW d \in Daemon, Exit(d) \/ ExitOnTerm(d) \/ Crash(d) PROVE expired'
  BY <1>5 DEF Exit, ExitOnTerm, Crash, Dies
<1>6. CASE PulseAges \/ GraceEnds \/ UNCHANGED vars
  BY <1>6 DEF PulseAges, GraceEnds, vars
<1> QED BY <1>1, <1>2, <1>3, <1>4, <1>5, <1>6, <1>7 DEF Next

-----------------------------------------------------------------------------
(* The theorems.                                                            *)

IInv == TypeOK /\ Stages /\ Teardown /\ Obs /\ Exclusive

\* The inductive invariant holds.
LEMMA Inductive == Spec => []IInv
<1>1. Init => IInv
  <2> SUFFICES ASSUME Init PROVE IInv
    OBVIOUS
  <2>1. TypeOK
    <3>1. pulse \in [by : MaybeDaemon, phase : {"starting", "ready", "draining"}, fresh : BOOLEAN]
      BY DEF Init, MaybeDaemon
    <3>2. /\ epoch \in [Daemon -> Nat]
          /\ life \in [Daemon -> Life]
          /\ seen \in [Daemon -> MaybeDaemon]
          /\ proof \in [Daemon -> Proof]
      BY DEF Init, MaybeDaemon, Life, Proof
    <3>3. /\ target \in [Daemon -> MaybeDaemon]
          /\ reap \in [Daemon -> Reap]
          /\ told \in [Daemon -> MaybeDaemon]
          /\ marker \in [Daemon -> MaybeDaemon]
      BY DEF Init, MaybeDaemon, Reap
    <3>4. /\ {owner, sentinel, claim, grace} \subseteq MaybeDaemon
          /\ expired \in BOOLEAN
          /\ {model, stalled, faltered, termed} \subseteq SUBSET Daemon
      BY DEF Init, MaybeDaemon
    <3>5. mishaps \in 0..MaxMishaps /\ \A d \in Daemon : life[d] # "ready"
      BY DEF Init
    <3> QED BY <3>1, <3>2, <3>3, <3>4, <3>5 DEF TypeOK
  <2>2. Stages /\ Teardown
    BY DEF Init, Stages, Teardown, Gone
  <2>3. Obs
    BY DEF Init, Obs, Started
  <2>4. Exclusive
    BY DEF Init, Exclusive, ClaimHeld, Replace, Booting
  <2> QED BY <2>1, <2>2, <2>3, <2>4 DEF IInv
<1>2. IInv /\ [Next]_vars => IInv'
  <2> SUFFICES ASSUME IInv, [Next]_vars PROVE IInv'
    OBVIOUS
  <2>1. TypeOK' /\ Stages'
    BY TypeStep, StagesStep DEF IInv
  <2>2. Teardown'
    BY TeardownStep DEF IInv
  <2>3. Obs'
    BY ObsStep DEF IInv
  <2>4. Exclusive'
    BY ClaimStep, ReplaceStep, ExpiredStays DEF IInv, Exclusive
  <2> QED BY <2>1, <2>2, <2>3, <2>4 DEF IInv
<1> QED BY <1>1, <1>2, PTL DEF Spec

\* Every variable of the tenancy keeps its type, and who serves has released
\* the claim and published itself with an epoch.
THEOREM TenancyTypeCorrect == Spec => []TypeOK
<1>1. IInv => TypeOK
  BY DEF IInv
<1> QED BY <1>1, Inductive, PTL

\* No daemon has the embedding model in memory beside the predecessor that it
\* replaced, however many daemons, crashes and blocked event loops there are.
THEOREM NoModelBesidePredecessor == Spec => []ModelAfterTeardown
<1>1. IInv => ModelAfterTeardown
  BY DEF IInv, TypeOK, MaybeDaemon, Teardown, Gone, ModelAfterTeardown
<1> QED BY <1>1, Inductive, PTL

\* Only a publication names another owner, and while no claim of a live
\* successor was reclaimed, it takes the slot of an owner of its own binary
\* only if that one drained or was blocked.
LEMMA HealthyStep ==
  ASSUME IInv, [Next]_vars, NEW d \in Daemon, ~expired, owner' = d, owner # d,
         SameBinary(d, owner), life[owner] = "ready"
  PROVE  owner \in faltered
<1> USE DEF fileVars, claimVars, clientVars, reapVars, healthVars
<1>1. ASSUME NEW e \in Daemon, Publish(e) PROVE owner \in faltered
  <2>1. e = d
    BY <1>1 DEF Publish
  <2> QED BY <1>1, <2>1 DEF Publish, IInv, Exclusive, Replace, Faulty, Past
<1>2. ASSUME NEW e \in Daemon, Look(e) \/ Judge(e) \/ Busy(e) \/ Acquire(e) \/ Admit(e) \/ StandAlone(e)
      PROVE FALSE
  BY <1>2 DEF Look, Judge, Busy, Acquire, Admit, StandAlone
<1>3. ASSUME NEW e \in Daemon, BootFails(e) \/ Rebind(e) \/ Prepare(e) \/ Recheck(e) \/ PreSignal(e)
                       \/ AssertSafe(e)
      PROVE FALSE
  BY <1>3 DEF BootFails, Rebind, Prepare, Recheck, PreSignal, AssertSafe
<1>8. ASSUME NEW e \in Daemon, WritePulse(e) \/ Serve(e) \/ ServeFails(e) \/ Withdraw(e) \/ PulseTick(e)
      PROVE FALSE
  BY <1>8 DEF WritePulse, Serve, ServeFails, Withdraw, NoOwner, PulseTick
<1>4. ASSUME NEW e \in Daemon, Shutdown(e) \/ OwnershipPoll(e) \/ Relinquish(e) \/ RemoveOwner(e) \/ Close(e)
      PROVE FALSE
  BY <1>4 DEF Shutdown, OwnershipPoll, Relinquish, RemoveOwner, NoOwner, Close
<1>5. ASSUME NEW e \in Daemon, LoadModel(e) \/ UnloadModel(e) \/ ReapStep(e) \/ Stall(e) \/ Resume(e) PROVE FALSE
  BY <1>5 DEF LoadModel, UnloadModel, ReapStep, Stall, Resume
<1>6. ASSUME NEW e \in Daemon, Exit(e) \/ ExitOnTerm(e) \/ Crash(e) PROVE FALSE
  BY <1>6 DEF Exit, ExitOnTerm, Crash, Dies
<1>7. ASSUME PulseAges \/ GraceEnds \/ UNCHANGED vars PROVE FALSE
  BY <1>7 DEF PulseAges, GraceEnds, vars
<1> QED BY <1>1, <1>2, <1>3, <1>4, <1>5, <1>6, <1>7, <1>8 DEF Next

\* Nobody takes the slot from a healthy daemon of its own binary.
THEOREM HealthyOwnerStays == Spec => HealthyKept
<1>1. IInv /\ [Next]_vars =>
        [\A d \in Daemon :
           (/\ ~expired
            /\ owner' = d
            /\ owner # d
            /\ SameBinary(d, owner)
            /\ life[owner] = "ready")
           => owner \in faltered]_vars
  BY HealthyStep
<1> QED BY <1>1, Inductive, PTL DEF Spec, HealthyKept
=============================================================================
