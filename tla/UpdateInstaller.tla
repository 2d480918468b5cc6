---------------------------- MODULE UpdateInstaller ----------------------------
(***************************************************************************)
(* The self-update of a managed install (src/update/installer.ts): a check  *)
(* says whether an update is needed; an install reads the manifest, inspects *)
(* the two installed executables, downloads a release into the cache        *)
(* directory of its tag, verifies it, renames the executables into place,   *)
(* registers the MCP server again with each agent and writes the manifest.  *)
(* Nothing keeps two updaters apart, and an updater can fail or be killed   *)
(* between any two of its steps.                                            *)
(*                                                                         *)
(* The bytes of a file are <<v, kind>>: "genuine", exactly what release v   *)
(* holds, "altered", something else that still reports version v, or        *)
(* "broken", something that cannot be run or read as a list.                *)
(***************************************************************************)
EXTENDS Naturals, Sequences

CONSTANTS
  Updater,     \* processes, each of which runs one command
  Release,     \* versions that can be asked for
  Installed,   \* the version that is installed at first, and that of an unmanaged program
  Mode,        \* bound: the modes of verification, of ReleaseVerifyMode
  Present,     \* bound: which agents there may be, sets of Agent
  MaxFaults    \* bound on crashes, failing steps and altered transfers

VARIABLES
  bin,         \* executable -> bytes, or None
  manifest,    \* install.json: whole, torn while it is written, or absent
  registered,  \* agent that is present -> does its configuration name the MCP server?
  cache,       \* release -> file -> bytes, or None
  run,         \* updater -> its progress
  faults

vars == <<bin, manifest, registered, cache, run, faults>>

Exe   == {"cli", "mcp"}
File  == Exe \cup {"sums"}
Agent == {"claude", "codex"}

None       == << >>
Genuine(v) == <<v, "genuine">>
Damaged(v) == {<<v, "altered">>, <<v, "broken">>}

Whole(v, agents) == [is |-> "whole", version |-> v, registered |-> agents]

\* `tagged`: the command names a release, else `target` is the latest one; `was`: the
\* version in the manifest it read; `added`: the agents it has registered.
Idle == [pc |-> "idle", install |-> TRUE, tagged |-> FALSE, target |-> 0, mode |-> "required", was |-> 0,
         agent |-> "claude", added |-> {}, alone |-> TRUE, result |-> "none"]

Running(u) == run[u].pc \notin {"idle", "ended"}

Init ==
  /\ bin \in [Exe -> {None, Genuine(Installed)} \cup Damaged(Installed)]
  /\ \E present \in Present : registered = [a \in present |-> TRUE]
  /\ \E is \in {"whole", "absent"} : manifest = [Whole(Installed, DOMAIN registered) EXCEPT !.is = is]
  /\ cache = [v \in Release |-> [f \in File |-> None]]
  /\ run = [u \in Updater |-> Idle]
  /\ faults = 0

Fault == faults < MaxFaults /\ faults' = faults + 1

Goto(u, pc) == run' = [run EXCEPT ![u].pc = pc]
EndAs(u, result) == run' = [run EXCEPT ![u].pc = "ended", ![u].result = result]

\* A check asks for the release first, an install for the manifest.
Start(u, v, install, tagged, mode) ==
  /\ run[u] = Idle
  /\ LET others == {w \in Updater \ {u} : Running(w)}
     IN  run' = [w \in Updater |->
           IF w = u
           THEN [Idle EXCEPT !.pc = IF install THEN "load" ELSE "info", !.install = install, !.tagged = tagged,
                             !.target = v, !.mode = mode, !.alone = others = {}]
           ELSE IF w \in others THEN [run[w] EXCEPT !.alone = FALSE] ELSE run[w]]
  /\ UNCHANGED <<bin, manifest, registered, cache, faults>>

\* What the release holds and where has arrived.
ReleaseInfo(u) ==
  /\ run[u].pc = "info"
  /\ Goto(u, IF run[u].install THEN "inspect" ELSE "load")
  /\ UNCHANGED <<bin, manifest, registered, cache, faults>>

\* A named release is wanted when it is another one, the latest when it is newer.
Wanted(u, current) == IF run[u].tagged THEN current # run[u].target ELSE current < run[u].target

LoadManifest(u) ==
  /\ run[u].pc = "load"
  /\ \/ manifest.is = "torn" /\ EndAs(u, "invalid")
     \/ manifest.is = "absent" /\ run[u].install /\ EndAs(u, "unmanaged")
     \/ /\ manifest.is = "absent" /\ ~run[u].install
        /\ EndAs(u, IF Wanted(u, Installed) THEN "needed" ELSE "unneeded")
     \/ /\ manifest.is = "whole"
        /\ run' = [run EXCEPT ![u].pc = IF run[u].install THEN "info" ELSE "inspect",
                              ![u].was = manifest.version]
  /\ UNCHANGED <<bin, manifest, registered, cache, faults>>

\* An executable is there, runs, and reports the version of the manifest.
LooksHealthy(u, e) == bin[e] # None /\ bin[e][1] = run[u].was /\ bin[e][2] # "broken"
IsHealthy(u) == \A e \in Exe : LooksHealthy(u, e)

SameVersion(u) == run[u].was = run[u].target

\* The executables are inspected.  Sound ones are to be compared with the published
\* checksums, by a check only when the release is the installed one.
Inspect(u) ==
  /\ run[u].pc = "inspect"
  /\ \/ IsHealthy(u) /\ (run[u].install \/ SameVersion(u)) /\ Goto(u, "compare")
     \/ IsHealthy(u) /\ ~run[u].install /\ ~SameVersion(u)
        /\ EndAs(u, IF Wanted(u, run[u].was) THEN "needed" ELSE "unneeded")
     \/ ~IsHealthy(u) /\ ~run[u].install /\ EndAs(u, "needed")
     \/ ~IsHealthy(u) /\ run[u].install /\ Goto(u, "sums")
  /\ UNCHANGED <<bin, manifest, registered, cache, faults>>

IsTarget(u, e) == bin[e] = Genuine(run[u].target)
MatchesRelease_ByVersion(u) == IsHealthy(u)

\* Both executables have the checksums that the release publishes.
MatchesRelease(u) == \A e \in Exe : IsTarget(u, e)

\* The published checksums have arrived; a list damaged on the way names others.
Compare(u) ==
  /\ run[u].pc = "compare"
  /\ LET current == SameVersion(u) /\ MatchesRelease(u)
     IN  \/ current /\ EndAs(u, "current") /\ UNCHANGED faults
         \/ /\ (~current /\ UNCHANGED faults) \/ Fault
            /\ IF run[u].install THEN Goto(u, "sums") ELSE EndAs(u, "needed")
  /\ UNCHANGED <<bin, manifest, registered, cache>>

After(f) == CASE f = "sums" -> "cli" [] f = "cli" -> "mcp" [] f = "mcp" -> "verify"

\* A transfer into the cache replaces the file as a whole; the bytes may have been
\* damaged on the way.
Download(u) ==
  LET f == run[u].pc
      v == run[u].target
      Keep(bytes) == cache' = [cache EXCEPT ![v][f] = bytes] /\ Goto(u, After(f))
  IN  /\ f \in File
      /\ \/ Keep(Genuine(v)) /\ UNCHANGED faults
         \/ Fault /\ \E bytes \in Damaged(v) : Keep(bytes)
      /\ UNCHANGED <<bin, manifest, registered>>

SumsMatch_CliOnly(v) == \A f \in {"sums", "cli"} : cache[v][f] = Genuine(v)

\* Every executable of the cache has the checksum that the list names for it.
SumsMatch(v) == \A f \in File : cache[v][f] = Genuine(v)

Verify(u) ==
  /\ run[u].pc = "verify"
  /\ IF SumsMatch(run[u].target) THEN Goto(u, "attest") ELSE EndAs(u, "failed")
  /\ UNCHANGED <<bin, manifest, registered, cache, faults>>

\* The attestation bundle has arrived (in between other processes have run) and the files
\* are verified against it; only the mode "required" makes a failure an error.
Attest(u) ==
  LET v == run[u].target
      attested == \A e \in Exe : cache[v][e] = Genuine(v)
  IN  /\ run[u].pc = "attest"
      /\ IF run[u].mode = "required" /\ ~attested THEN EndAs(u, "failed") ELSE Goto(u, "probe")
      /\ UNCHANGED <<bin, manifest, registered, cache, faults>>

\* The downloaded executables are run for their version.
Probe(u) ==
  LET v == run[u].target
      reports == \A e \in Exe : cache[v][e] # None /\ cache[v][e][1] = v /\ cache[v][e][2] # "broken"
  IN  /\ run[u].pc = "probe"
      /\ IF reports THEN Goto(u, "put_cli") ELSE EndAs(u, "failed")
      /\ UNCHANGED <<bin, manifest, registered, cache, faults>>

\* Copied to a temporary file beside the executable and renamed over it.
InstallExecutable(u, e, next) ==
  /\ bin' = [bin EXCEPT ![e] = cache[run[u].target][e]]
  /\ Goto(u, next)
  /\ UNCHANGED <<manifest, registered, cache, faults>>

InstallExecutables(u) ==
  \/ run[u].pc = "put_cli" /\ InstallExecutable(u, "cli", "put_mcp")
  \/ run[u].pc = "put_mcp" /\ InstallExecutable(u, "mcp", "vault")

\* The path of the vault resolves (else the command fails).
ResolveVault(u) ==
  /\ run[u].pc = "vault"
  /\ Goto(u, "remove")
  /\ UNCHANGED <<bin, manifest, registered, cache, faults>>

\* After claude comes codex, and then the manifest.
NextAgent(u, added) ==
  run' = [run EXCEPT ![u].pc = IF run[u].agent = "claude" THEN "remove" ELSE "save",
                     ![u].agent = "codex", ![u].added = @ \cup added]

\* The server is removed from the agent's configuration, whatever comes of it, and added
\* again; a failing add is only a warning.  An agent that is not there is passed over.
RefreshRegistration(u) ==
  LET a == run[u].agent
      Names(b) == registered' = [registered EXCEPT ![a] = b]
  IN  /\ \/ run[u].pc = "remove" /\ a \notin DOMAIN registered /\ NextAgent(u, {}) /\ UNCHANGED <<registered, faults>>
         \/ run[u].pc = "remove" /\ a \in DOMAIN registered /\ Names(FALSE) /\ Goto(u, "add") /\ UNCHANGED faults
         \/ run[u].pc = "remove" /\ a \in DOMAIN registered /\ Fault /\ Goto(u, "add") /\ UNCHANGED registered
         \/ run[u].pc = "add" /\ Names(TRUE) /\ NextAgent(u, {a}) /\ UNCHANGED faults
         \/ run[u].pc = "add" /\ Fault /\ NextAgent(u, {}) /\ UNCHANGED registered
      /\ UNCHANGED <<bin, manifest, cache>>

\* The manifest is truncated and written in place.
SaveManifest(u) ==
  /\ \/ run[u].pc = "save" /\ manifest' = [manifest EXCEPT !.is = "torn"] /\ Goto(u, "saving")
     \/ /\ run[u].pc = "saving"
        /\ manifest' = Whole(run[u].target, run[u].added)
        /\ EndAs(u, IF SameVersion(u) THEN "repaired" ELSE "updated")
  /\ UNCHANGED <<bin, registered, cache, faults>>

\* A request (in "checksum" mode there is none for the attestation), a copy, a path or a
\* write fails, which ends the command where it is.
StepFails(u) ==
  /\ run[u].pc \in {"info", "compare", "verify", "attest", "probe", "put_cli", "put_mcp", "vault", "save", "saving"} \cup File
  /\ run[u].pc = "attest" => run[u].mode # "checksum"
  /\ Fault
  /\ EndAs(u, "failed")
  /\ UNCHANGED <<bin, manifest, registered, cache>>

Crash(u) ==
  /\ Running(u)
  /\ Fault
  /\ EndAs(u, "crashed")
  /\ UNCHANGED <<bin, manifest, registered, cache>>

Next ==
  \E u \in Updater :
    \/ \E v \in Release, install, tagged \in BOOLEAN, mode \in Mode : Start(u, v, install, tagged, mode)
    \/ ReleaseInfo(u) \/ LoadManifest(u) \/ Inspect(u) \/ Compare(u)
    \/ Download(u) \/ Verify(u) \/ Attest(u) \/ Probe(u)
    \/ InstallExecutables(u) \/ ResolveVault(u) \/ RefreshRegistration(u) \/ SaveManifest(u)
    \/ StepFails(u) \/ Crash(u)

Spec == Init /\ [][Next]_vars

-----------------------------------------------------------------------------

\* Updaters that meet no other install only what they verified: whatever they downloaded,
\* and wherever they die, an executable is what was there at first or a genuine one.
InstallsWhatItVerified ==
  (\A u \in Updater : run[u].alone) =>
    \A e \in Exe : bin[e] \in {None} \cup Damaged(Installed) \cup {Genuine(v) : v \in Release \cup {Installed}}

\* A command that met no other and ends well tells the truth, whatever an earlier one
\* left half done: both executables are the target's, the manifest says so, and an agent
\* that it names as registered is.
SuccessIsTrue ==
  \A u \in Updater :
      (\A w \in Updater : run'[w].alone)
        /\ run'[u].result # run[u].result /\ run'[u].result \in {"current", "updated", "repaired"} =>
      /\ \A e \in Exe : bin'[e] = Genuine(run'[u].target)
      /\ manifest'.is = "whole" /\ manifest'.version = run'[u].target
      /\ run'[u].result # "current" => \A a \in manifest'.registered : a \in DOMAIN registered' /\ registered'[a]
================================================================================
