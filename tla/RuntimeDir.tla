------------------------------ MODULE RuntimeDir ------------------------------
(***************************************************************************)
(* The runtime directory of the daemons: owner records, sockets and process *)
(* ids, over upgrades, crashes and the reuse of ids (daemon/owner-registry, *)
(* daemon/server, daemon/transport).  Module OwnerTenancy takes sockets and *)
(* process identities for granted and has one record; here they are files   *)
(* and numbers that outlive who they were for.  The platform tells start     *)
(* times.                                                                   *)
(*                                                                         *)
(* A slot is a protocol version and a binary: daemons of another slot are   *)
(* predecessors to be upgraded.  Slot and binary change together.           *)
(***************************************************************************)
EXTENDS Naturals, FiniteSets

CONSTANTS
  Daemon,
  SlotOf,      \* daemon -> the slot whose record it writes
  PathOf,      \* daemon -> its socket path: a nonce of its own, or the fixed one
  Pid,         \* process ids, few enough to be reused
  MaxFaults    \* bound on crashes and foreign processes

VARIABLES
  record,      \* slot -> whom its owner record names, "none" without one
  socket,      \* path -> who bound the file there, "none" without one
  proc,        \* pid -> [who, birth]: the process and which start of that pid it is
  stage,       \* daemon -> how far it is in its life
  pid,         \* daemon -> [id, birth]: its process id and which start of it it is
  torn,        \* daemons whose reaped marker is written: they hold no model any more
  reap,        \* daemon -> predecessor -> [at, birth]: what it does about it, by which token
  sweep,       \* daemon -> [at, path, saw]: its sweep of stale sockets
  past         \* [faults, hit, lost, over, raced]: what the properties refer to

vars == <<record, socket, proc, stage, pid, torn, reap, sweep, past>>

Slots == {SlotOf[d] : d \in Daemon}
Paths == {PathOf[d] : d \in Daemon}
NoReap == [at |-> "none", birth |-> 0]
NoSweep == [at |-> "none", path |-> "none", saw |-> "none"]

Init ==
  /\ record = [s \in Slots |-> "none"]
  /\ socket = [p \in Paths |-> "none"]
  /\ proc = [i \in Pid |-> [who |-> "none", birth |-> 0]]
  /\ stage = [d \in Daemon |-> "none"]
  /\ pid = [d \in Daemon |-> [id |-> 0, birth |-> 0]]
  /\ torn = {}
  /\ reap = [d \in Daemon |-> [e \in Daemon |-> NoReap]]
  /\ sweep = [d \in Daemon |-> NoSweep]
  /\ past = [faults |-> 0, hit |-> {}, lost |-> {}, over |-> {}, raced |-> {}]

Become(d, s) == stage' = [stage EXCEPT ![d] = s]
Listens(d) == stage[d] \in {"listening", "found", "serving", "draining"}
Fault == past.faults < MaxFaults
Starting(i, who) == proc' = [proc EXCEPT ![i] = [who |-> who, birth |-> @.birth + 1]]

\* A process dies: its files stay.
Dies(d) ==
  /\ stage' = [stage EXCEPT ![d] = "dead"]
  /\ proc' = [proc EXCEPT ![pid[d].id].who = "none"]
  /\ reap' = [reap EXCEPT ![d] = [e \in Daemon |-> NoReap]]
  /\ sweep' = [sweep EXCEPT ![d] = NoSweep]

\* resolveOwnerFromEnv: a daemon starts under a free process id.
Start(d, i) ==
  /\ stage[d] = "none" /\ proc[i].who = "none"
  /\ Starting(i, d)
  /\ pid' = [pid EXCEPT ![d] = [id |-> i, birth |-> proc[i].birth + 1]]
  /\ Become(d, "starting")
  /\ UNCHANGED <<record, socket, torn, reap, sweep, past>>

\* Files that are taken for stale in the moment between a bind and its listen, or that came
\* after the look at them, are lost to who bound them.
NotBound(d) == IF d \in Daemon /\ stage[d] = "bound" THEN {d} ELSE {}
Lost(es) == past' = [past EXCEPT !.lost = @ \cup es]

Refuses_Always(p) == socket[p] # "none"

\* A probe is refused when there is a file and nobody listens.
Refuses(p) == socket[p] # "none" /\ ~Listens(socket[p])

\* It binds its path; a file in the way is probed, and is taken for stale when nobody answers.
Bind(d) ==
  LET p == PathOf[d]
  IN  /\ stage[d] \in {"starting", "cleared"}
      /\ IF socket[p] = "none"
         THEN socket' = [socket EXCEPT ![p] = d] /\ Become(d, "bound") /\ UNCHANGED <<proc, reap, sweep, past>>
         ELSE /\ UNCHANGED socket
              /\ IF stage[d] = "starting" /\ Refuses(p)
                 THEN /\ Become(d, "refused")
                      /\ sweep' = [sweep EXCEPT ![d].saw = socket[p]]
                      /\ Lost(NotBound(socket[p]))
                      /\ UNCHANGED <<proc, reap>>
                 ELSE Dies(d) /\ UNCHANGED past
      /\ UNCHANGED <<record, pid, torn>>

\* fsRmSocket: what is at the path by now is removed.
ClearStale(d) ==
  LET p == PathOf[d]
  IN  /\ stage[d] = "refused"
      /\ socket' = [socket EXCEPT ![p] = "none"]
      /\ Lost({socket[p]} \ {sweep[d].saw, "none"})
      /\ sweep' = [sweep EXCEPT ![d] = NoSweep]
      /\ Become(d, "cleared")
      /\ UNCHANGED <<record, proc, pid, torn, reap>>

Listen(d) ==
  /\ stage[d] = "bound"
  /\ Become(d, "listening")
  /\ UNCHANGED <<record, socket, proc, pid, torn, reap, sweep, past>>

Token(e) == [at |-> "start", birth |-> proc[pid[e].id].birth]

\* discoverDaemonPredecessors, prepareSupersessionTargets: the owners of the other records
\* whose process id is in use, with the start identity that it has now.
Discover(d) ==
  /\ stage[d] = "listening"
  /\ reap' = [reap EXCEPT ![d] = [e \in Daemon |->
       IF /\ \E s \in Slots \ {SlotOf[d]} : record[s] = e
          /\ proc[pid[e].id].who # "none"
       THEN Token(e) ELSE NoReap]]
  /\ Become(d, "found")
  /\ UNCHANGED <<record, socket, proc, pid, torn, sweep, past>>

\* The owner record is written; the sweep of stale sockets starts with the service.
Publish(d) ==
  /\ stage[d] = "found"
  /\ record' = [record EXCEPT ![SlotOf[d]] = d]
  /\ Become(d, "serving")
  /\ sweep' = [sweep EXCEPT ![d].at = "next"]
  /\ past' = [past EXCEPT
       !.over = @ \cup ({record[SlotOf[d]]} \ {"none"}),
       !.raced = @ \cup {x \in {d} : \E e \in Daemon : SlotOf[e] = SlotOf[d] /\ stage[e] = "removing"}]
  /\ UNCHANGED <<socket, proc, pid, torn, reap>>

---------------------------------------------------------------------------
(* Seeing a predecessor torn down. *)

TokenAlive_ByPid(d, e) == proc[pid[e].id].who # "none"

\* isAlive: the process id is in use, by the start that the token was made of.
TokenAlive(d, e) == proc[pid[e].id].who # "none" /\ proc[pid[e].id].birth = reap[d][e].birth

\* hasReapingProof: a reaped marker, or the death of the process.
Proven(d, e) == e \in torn \/ ~TokenAlive(d, e)

\* predecessorIdentityStillMatches, of an upgrade.
IdentityMatches(d, e) == record[SlotOf[e]] \in {e, "none"} /\ TokenAlive(d, e)

To(d, e, at) == reap' = [reap EXCEPT ![d][e].at = at]

\* sendCourtesyShutdown: whoever listens at the recorded path is asked; only the incarnation
\* that is named accepts, and drains.
Ask(d, e) ==
  /\ reap[d][e].at = "start" /\ ~Proven(d, e)
  /\ IF socket[PathOf[e]] = e /\ stage[e] = "serving"
     THEN /\ To(d, e, "asked")
          /\ Become(e, "draining")
          /\ sweep' = [sweep EXCEPT ![e] = NoSweep]
     ELSE To(d, e, "late") /\ UNCHANGED <<stage, sweep>>
  /\ UNCHANGED <<record, socket, proc, pid, torn, past>>

\* It has not been torn down in the time that is given.
Waited(d, e) ==
  /\ reap[d][e].at = "asked" /\ ~Proven(d, e)
  /\ To(d, e, "late")
  /\ UNCHANGED <<record, socket, proc, stage, pid, torn, sweep, past>>

\* signalProcess: the start identity is looked at once more, and the process is signalled.
\* A signal kills a process or, SIGTERM, is not heeded.
Signal(d, e, at) ==
  LET who == proc[pid[e].id].who
  IN  /\ past' = [past EXCEPT !.hit = @ \cup {<<e, who, reap[d][e].birth>>}]
      /\ \/ at = "termed" /\ To(d, e, at) /\ UNCHANGED <<proc, stage, sweep>>
         \/ /\ proc' = [proc EXCEPT ![pid[e].id].who = "none"]
            /\ IF who \in Daemon
               THEN /\ stage' = [stage EXCEPT ![who] = "dead"]
                    /\ reap' = [reap EXCEPT ![who] = [x \in Daemon |-> NoReap], ![d][e].at = at]
                    /\ sweep' = [sweep EXCEPT ![who] = NoSweep]
               ELSE To(d, e, at) /\ UNCHANGED <<stage, sweep>>

\* terminateWithVerifiedProof: SIGTERM, and SIGKILL after a while; a record that names
\* somebody else by now, or another process under the id, ends it.
Terminate(d, e) ==
  /\ reap[d][e].at \in {"late", "termed"} /\ ~Proven(d, e)
  /\ IF IdentityMatches(d, e) /\ TokenAlive(d, e)
     THEN Signal(d, e, IF reap[d][e].at = "late" THEN "termed" ELSE "killed")
     ELSE To(d, e, "failed") /\ UNCHANGED <<proc, stage, sweep, past>>
  /\ UNCHANGED <<record, socket, pid, torn>>

---------------------------------------------------------------------------
(* Leaving. *)

StartDrain(d) ==
  /\ stage[d] = "serving"
  /\ Become(d, "draining")
  /\ sweep' = [sweep EXCEPT ![d] = NoSweep]
  /\ UNCHANGED <<record, socket, proc, pid, torn, reap, past>>

\* The server is closed, which unlinks what is at its path.
Unlinks(d) ==
  /\ socket' = [socket EXCEPT ![PathOf[d]] = "none"]
  /\ Lost({socket[PathOf[d]]} \ {d, "none"})

Relinquish(d) ==
  /\ stage[d] = "draining"
  /\ Unlinks(d)
  /\ Become(d, "closed")
  /\ UNCHANGED <<record, proc, pid, torn, reap, sweep>>

ReadRecord_Blind(d) ==
  /\ stage[d] = "closed"
  /\ Unlinks(d)
  /\ Become(d, "removing")
  /\ UNCHANGED <<record, proc, pid, torn, reap, sweep>>

\* The path is removed once more; removeOwnerFile looks whether the record is still its own.
ReadRecord(d) ==
  /\ stage[d] = "closed"
  /\ Unlinks(d)
  /\ Become(d, IF record[SlotOf[d]] = d THEN "removing" ELSE "closing")
  /\ UNCHANGED <<record, proc, pid, torn, reap, sweep>>

RemoveRecord(d) ==
  /\ stage[d] = "removing"
  /\ record' = [record EXCEPT ![SlotOf[d]] = "none"]
  /\ Become(d, "closing")
  /\ UNCHANGED <<socket, proc, pid, torn, reap, sweep, past>>

\* The model is closed; a daemon that was told of its supersession leaves its marker.
Exit(d) ==
  /\ stage[d] = "closing"
  /\ torn' = torn \cup {e \in {d} : \E c \in Daemon : reap[c][d].at # "none"}
  /\ Dies(d)
  /\ UNCHANGED <<record, socket, pid, past>>

Crash(d) ==
  /\ Fault /\ stage[d] \notin {"none", "dead"}
  /\ past' = [past EXCEPT !.faults = @ + 1]
  /\ Dies(d)
  /\ UNCHANGED <<record, socket, pid, torn>>

\* The system gives a free process id to something else.
Foreign(i) ==
  /\ Fault /\ proc[i].who = "none" /\ proc[i].birth > 0
  /\ past' = [past EXCEPT !.faults = @ + 1]
  /\ Starting(i, "foreign")
  /\ UNCHANGED <<record, socket, stage, pid, torn, reap, sweep>>

---------------------------------------------------------------------------
(* sweepStaleDaemonSockets, of a daemon that has begun to serve. *)

Recorded(p) == \E d \in Daemon : PathOf[d] = p /\ \E s \in Slots : record[s] = d
SameStem(d, p) == \E e \in Daemon : PathOf[e] = p /\ SlotOf[e] = SlotOf[d]

\* A file of its own kind that no record names: its inode is taken down.
SweepLook(d, p) ==
  /\ sweep[d].at = "next" /\ p # PathOf[d] /\ SameStem(d, p)
  /\ socket[p] # "none" /\ ~Recorded(p)
  /\ sweep' = [sweep EXCEPT ![d] = [at |-> "look", path |-> p, saw |-> socket[p]]]
  /\ UNCHANGED <<record, socket, proc, stage, pid, torn, reap, past>>

SweepProbe(d) ==
  LET p == sweep[d].path
  IN  /\ sweep[d].at = "look"
      /\ sweep' = [sweep EXCEPT ![d] = IF Refuses(p) THEN [@ EXCEPT !.at = "refused"]
                                       ELSE [NoSweep EXCEPT !.at = "next"]]
      /\ Lost(IF Refuses(p) THEN NotBound(socket[p]) ELSE {})
      /\ UNCHANGED <<record, socket, proc, stage, pid, torn, reap>>

\* The file is removed when it is still the one that was looked at and no record names it.
SweepRemove(d) ==
  LET p == sweep[d].path
  IN  /\ sweep[d].at = "refused"
      /\ socket' = IF socket[p] = sweep[d].saw /\ ~Recorded(p)
                   THEN [socket EXCEPT ![p] = "none"] ELSE socket
      /\ sweep' = [sweep EXCEPT ![d] = [NoSweep EXCEPT !.at = "next"]]
      /\ UNCHANGED <<record, proc, stage, pid, torn, reap, past>>

Next ==
  \/ \E d \in Daemon, i \in Pid : Start(d, i)
  \/ \E d \in Daemon : Bind(d) \/ ClearStale(d) \/ Listen(d) \/ Discover(d) \/ Publish(d)
  \/ \E d, e \in Daemon : Ask(d, e) \/ Waited(d, e) \/ Terminate(d, e)
  \/ \E d \in Daemon : StartDrain(d) \/ Relinquish(d) \/ ReadRecord(d) \/ RemoveRecord(d) \/ Exit(d) \/ Crash(d)
  \/ \E d \in Daemon : SweepProbe(d) \/ SweepRemove(d) \/ \E p \in Paths : SweepLook(d, p)
  \/ \E i \in Pid : Foreign(i)

Spec == Init /\ [][Next]_vars

---------------------------------------------------------------------------
\* A daemon that listens can be reached at its path, unless somebody took its file for stale
\* in the moment between its bind and its listen, or removed what had come to the path after
\* it had looked (transport.ts:287-334).
ServingIsReachable ==
  \A d \in Daemon : Listens(d) => socket[PathOf[d]] = d \/ d \in past.lost

\* A daemon that serves is named by the record of its slot, until a later one publishes over
\* it, or when it published while a predecessor was between its look at the record and the
\* removal (owner-registry.ts:1122-1132).
RecordStays ==
  \A d \in Daemon : stage[d] = "serving" =>
    record[SlotOf[d]] = d \/ d \in past.over \cup past.raced

\* A signal that does not hit the predecessor it is meant for hits the process that had its
\* id already when the token was made: between the two no process takes its place
\* (owner-registry.ts:786-800).
SignalsHitTheirToken ==
  \A h \in past.hit : h[2] = h[1] \/ h[3] # pid[h[1]].birth

FilesAreTheirs == ServingIsReachable /\ RecordStays /\ SignalsHitTheirToken
================================================================================
