---------------------------- MODULE SuccessorBreaker ----------------------------
(***************************************************************************)
(* The churn breaker of daemon/owner-registry.ts.  Before a client starts a *)
(* daemon it takes the successor claim and charges the attempt to a file;   *)
(* the daemon removes the file when it has published itself.  Clients and   *)
(* daemons are processes of their own: each action is what one of them does *)
(* between two points where another may run, or die.                        *)
(***************************************************************************)
EXTENDS Naturals, Sequences, SequencesExt

CONSTANTS Client, Binaries,     \* assignments of a version to each client
          MaxFailures, Window, Base, MaxDelay, Ttl,
          MaxClaims, MaxNow     \* bounds: claims taken, and the clock

VARIABLES now,
          file,       \* the breaker file: "missing", "corrupt" or "ok", and its record
          claim,      \* the claim: its id (0 if free), whose token it bears, and when it was taken
          client,     \* of each client: its version, its stage, its claim and the record it admitted
          daemon,     \* of each claim id: the stage and version of the daemon started under it
          taken,      \* claims taken so far
          spawns,     \* times of the starts charged to the present budget, history
          stolen      \* whether a claim was taken from a live holder, history

vars == <<now, file, claim, client, daemon, taken, spawns, stolen>>

Fresh(v) == [version |-> v, attempts |-> 0, first |-> 0, until |-> 0, holder |-> 0]
Missing == [kind |-> "missing", rec |-> Fresh("none")]
Written(rec) == [kind |-> "ok", rec |-> rec]
Free == [id |-> 0, side |-> "none", since |-> 0]
Idle(v) == [at |-> "idle", id |-> 0, version |-> v, rec |-> Fresh("none")]
NoDaemon == [at |-> "none", version |-> "none"]

Init ==
  /\ now = 1 /\ file = Missing /\ claim = Free /\ taken = 0
  /\ \E b \in Binaries : client = [c \in Client |-> Idle(b[c])]
  /\ daemon = [i \in 1 .. MaxClaims |-> NoDaemon]
  /\ spawns = <<>> /\ stolen = FALSE

\* settings: a delay doubles with each attempt, up to a limit.
Delay(attempts) == LET d == Base * 2 ^ (attempts - 1) IN IF d > MaxDelay THEN MaxDelay ELSE d

Foreign(v) == file.kind = "ok" /\ file.rec.version /= v

\* The record that a caller of version v works on: a foreign one is set aside, an old one forgotten.
Usable(v) ==
  IF file.kind = "missing" \/ Foreign(v) \/ (file.rec.first /= 0 /\ now - file.rec.first >= Window)
  THEN Fresh(v)
  ELSE file.rec

\* quarantineBreakerFile: a corrupt or foreign file is renamed.
SetAside(v) == IF file.kind = "corrupt" \/ Foreign(v) THEN Missing ELSE file

\* A set-aside count is gone: what is charged from now on belongs to a new budget.
Charges(v) == IF file.kind = "corrupt" \/ Foreign(v) THEN <<>> ELSE spawns

Charged_Uncounted(rec, id) == [rec EXCEPT !.holder = id]

Charged(rec, id) ==
  LET n == rec.attempts + 1 IN
  [rec EXCEPT !.holder = id, !.attempts = n,
              !.first = IF rec.first = 0 THEN now ELSE rec.first,
              !.until = now + Delay(n)]

HolderDead ==
  CASE claim.side = "client" -> \A c \in Client : client[c].id /= claim.id
    [] claim.side = "daemon" -> daemon[claim.id].at \in {"none", "gone"}
    [] OTHER -> FALSE

Held(id) == claim.id = id
Release(id) == claim' = IF Held(id) THEN Free ELSE claim

-----------------------------------------------------------------------------
\* ExclusiveClaim.acquire: a dead holder gives way, and a live one whose start is unproven after Ttl.
Acquire(c) ==
  /\ client[c].at = "idle" /\ taken < MaxClaims
  /\ claim.id = 0 \/ HolderDead \/ now - claim.since >= Ttl
  /\ stolen' = (stolen \/ (claim.id /= 0 /\ ~HolderDead))
  /\ taken' = taken + 1
  /\ claim' = [id |-> taken', side |-> "client", since |-> now]
  /\ client' = [client EXCEPT ![c].at = "claimed", ![c].id = taken']
  /\ UNCHANGED <<now, file, daemon, spawns>>

Stop(c) == client' = [client EXCEPT ![c] = Idle(@.version)] /\ Release(client[c].id)

\* tryClaimSuccessor up to the write: refused, put off, not needed (needed is FALSE) or admitted.
Consider(c, needed) ==
  LET v == client[c].version
      rec == Usable(v) IN
  /\ client[c].at = "claimed"
  /\ file' = SetAside(v) /\ spawns' = Charges(v)
  /\ IF file.kind = "corrupt" \/ rec.until > now \/ rec.attempts >= MaxFailures \/ ~needed
     THEN Stop(c)
     ELSE /\ client' = [client EXCEPT ![c].at = "admitted", ![c].rec = Charged(rec, client[c].id)]
          /\ UNCHANGED claim
  /\ UNCHANGED <<now, daemon, taken, stolen>>

\* writeSuccessorBreaker: the attempt is on disk before anything is started.
Charge(c) ==
  /\ client[c].at = "admitted"
  /\ file' = Written(client[c].rec)
  /\ client' = [client EXCEPT ![c].at = "charged"]
  /\ UNCHANGED <<now, claim, daemon, taken, spawns, stolen>>

\* The client is done as soon as the process exists; the claim waits for the daemon.
Start(c) ==
  /\ client[c].at = "charged"
  /\ daemon' = [daemon EXCEPT ![client[c].id] = [at |-> "started", version |-> client[c].version]]
  /\ spawns' = Append(spawns, now)
  /\ client' = [client EXCEPT ![c].at = "done"]
  /\ UNCHANGED <<now, file, claim, taken, stolen>>

\* markSpawnFailure rewrites the record it admitted.
StartFails(c) ==
  /\ client[c].at = "charged"
  /\ file' = Written([client[c].rec EXCEPT !.holder = 0])
  /\ spawns' = Append(spawns, now)
  /\ Stop(c)
  /\ UNCHANGED <<now, daemon, taken, stolen>>

\* A client ends, or is killed at any point; what it had written stays.
ClientEnds(c) ==
  /\ client[c].at /= "idle"
  /\ client' = [client EXCEPT ![c] = Idle(@.version)]
  /\ UNCHANGED <<now, file, claim, daemon, taken, spawns, stolen>>

\* The daemon rebinds the claim to its own token, or exits.
Bind(i) ==
  /\ daemon[i].at = "started"
  /\ IF Held(i)
     THEN claim' = [claim EXCEPT !.side = "daemon"] /\ daemon' = [daemon EXCEPT ![i].at = "bound"]
     ELSE daemon' = [daemon EXCEPT ![i].at = "gone"] /\ UNCHANGED claim
  /\ UNCHANGED <<now, file, client, taken, spawns, stolen>>

Gone(i) == daemon' = [daemon EXCEPT ![i].at = "gone"]

\* recordSuccessorClaimHolder: only the attempt that names this claim is written again.
RecordHolder(i) ==
  LET v == daemon[i].version
      rec == Usable(v) IN
  /\ daemon[i].at = "bound"
  /\ spawns' = Charges(v)
  /\ IF ~Held(i) \/ file.kind = "corrupt"
     THEN Gone(i) /\ Release(i) /\ file' = IF Held(i) THEN SetAside(v) ELSE file
     ELSE /\ daemon' = [daemon EXCEPT ![i].at = "booting"]
          /\ file' = IF rec.holder = i THEN Written(rec) ELSE SetAside(v)
          /\ UNCHANGED claim
  /\ UNCHANGED <<now, client, taken, stolen>>

ResetAllowed_Any(i) == TRUE

ResetAllowed(i) == Held(i)

\* The owner record is published: the breaker goes and the claim is consumed.
Publish(i) ==
  /\ daemon[i].at = "booting"
  /\ IF ResetAllowed(i) THEN file' = Missing ELSE UNCHANGED file
  /\ spawns' = IF Held(i) THEN <<>> ELSE spawns
  /\ Gone(i) /\ Release(i)
  /\ UNCHANGED <<now, client, taken, stolen>>

\* A boot that fails releases its claim; one that is killed does not.
BootFails(i) ==
  /\ daemon[i].at \in {"bound", "booting"}
  /\ Gone(i) /\ (Release(i) \/ UNCHANGED claim)
  /\ UNCHANGED <<now, file, client, taken, spawns, stolen>>

\* Something else damages the file (only while no one is at it, to bound the cases).
Corrupt ==
  /\ file.kind = "ok" /\ claim.id = 0 /\ file' = [file EXCEPT !.kind = "corrupt"]
  /\ UNCHANGED <<now, claim, client, daemon, taken, spawns, stolen>>

Tick == now < MaxNow /\ now' = now + 1 /\ UNCHANGED <<file, claim, client, daemon, taken, spawns, stolen>>

Next ==
  \/ Corrupt \/ Tick
  \/ \E c \in Client : \/ Acquire(c)
                       \/ \E needed \in BOOLEAN : Consider(c, needed)
                       \/ Charge(c) \/ Start(c) \/ StartFails(c) \/ ClientEnds(c)
  \/ \E i \in 1 .. MaxClaims : Bind(i) \/ RecordHolder(i) \/ Publish(i) \/ BootFails(i)

Spec == Init /\ [][Next]_vars

-----------------------------------------------------------------------------
\* As long as no daemon gets published, no count is set aside and no claim is taken from a live
\* holder, more than 2 * MaxFailures starts take a whole window, whoever makes them and whichever
\* of them dies half-way (owner-registry.ts:432, 834).
ChurnBounded ==
  ~stolen => \A i \in 1 .. Len(spawns) - 2 * MaxFailures : spawns[i + 2 * MaxFailures] - spawns[i] >= Window

\* A daemon that lost its claim never clears the count that others are charged to
\* (owner-registry.ts:518): a file disappears only by its own reset or by being set aside.
OnlyHolderClears ==
  (file.kind = "ok" /\ file'.kind = "missing") =>
     \/ claim.id /= 0 /\ claim'.id = 0 /\ daemon[claim.id].at = "booting"
     \/ \E c \in Client : client[c].at = "claimed" /\ client'[c] /= client[c] /\ Foreign(client[c].version)
     \/ \E i \in 1 .. MaxClaims : daemon[i].at = "bound" /\ daemon'[i].at = "booting" /\ Foreign(daemon[i].version)
=================================================================================
