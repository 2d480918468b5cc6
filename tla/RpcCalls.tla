------------------------------- MODULE RpcCalls -------------------------------
(***************************************************************************)
(* A client's call over attempts, connections and daemons: daemon/client    *)
(* (withDaemon, requestOnce), daemon/transport (connectRpc, createRpcServer) *)
(* and the admission of daemon/server.  A connection carries one request,   *)
(* as every caller in the code has it.  A frame arrives in one piece or two. *)
(***************************************************************************)
EXTENDS Naturals, FiniteSets

CONSTANTS
  Call,
  MaxInc,       \* bound on daemons started one after the other
  MaxTry,       \* attempts that fit before the deadline of a call
  FixedPath,    \* TRUE: all daemons bind one path; FALSE: each its own
  MaxFaults     \* bound on drains, crashes, overruns and stalled frames

VARIABLES
  life,    \* incarnation -> "none", "up", "draining", "gone"
  call,    \* call -> [st, try, owner]: owner is whom ensureReady returned
  att,     \* <<call, try>> -> its connection and its request, see None
  faults

vars == <<life, call, att, faults>>

Inc == 1..MaxInc
Att == Call \X (1..MaxTry)

\* link: "open"; "cut" by the client, "dropped" by the server, each not noticed by the other yet;
\* "closed".  got: pieces of the request the server has.  resp: the answer on its way.
None == [link |-> "none", inc |-> 0, got |-> 0, exec |-> "none", cancelled |-> FALSE, resp |-> "none", due |-> FALSE]

Init ==
  /\ life = [i \in Inc |-> "none"]
  /\ call = [c \in Call |-> [st |-> "idle", try |-> 0, owner |-> 0]]
  /\ att = [a \in Att |-> None]
  /\ faults = 0

Fault == faults < MaxFaults /\ faults' = faults + 1
Up == {i \in Inc : life[i] = "up"}
Waits(a) == call[a[1]].st = "sent" /\ call[a[1]].try = a[2]
Active(a) == att[a].exec = "running"

\* isLifecycleError: these are tried again, the others are the caller's.
Settled(c, how) == [call EXCEPT ![c].st = IF how = "again" THEN "idle" ELSE how]

---------------------------------------------------------------------------
(* The client. *)

\* A client, this one or another, finds no daemon and starts one.
Start(i) ==
  /\ Up = {} /\ life[i] = "none" /\ \A j \in Inc : j < i => life[j] # "none"
  /\ life' = [life EXCEPT ![i] = "up"]
  /\ UNCHANGED <<call, att, faults>>

\* ensureReady hands out a daemon that answers.
Ready(c) ==
  /\ call[c].st = "idle" /\ call[c].try < MaxTry
  /\ \E i \in Up : call' = [call EXCEPT ![c].st = "ready", ![c].owner = i]
  /\ UNCHANGED <<life, att, faults>>

\* The deadline of the call has passed.
GiveUp(c) ==
  /\ call[c].st = "idle" /\ call[c].try = MaxTry
  /\ call' = Settled(c, "unavailable")
  /\ UNCHANGED <<life, att, faults>>

\* requestOnce: a connection of its own, and the request with the incarnation of the owner.
Send(c) ==
  LET t == IF FixedPath THEN Up ELSE Up \cap {call[c].owner}
      a == <<c, call[c].try + 1>>
  IN  /\ call[c].st = "ready"
      /\ IF t = {}
         THEN call' = [Settled(c, "again") EXCEPT ![c].try = @ + 1] /\ UNCHANGED att
         ELSE /\ call' = [call EXCEPT ![c].st = "sent", ![c].try = @ + 1]
              /\ \E i \in t : att' = [att EXCEPT ![a].link = "open", ![a].inc = i]
      /\ UNCHANGED <<life, faults>>

Left(a) == IF att[a].link = "dropped" THEN "closed" ELSE "cut"

\* The answer resolves or rejects the waiter; the connection is closed in any case.
Answer(a) ==
  /\ Waits(a) /\ att[a].resp # "none" /\ att[a].link \in {"open", "dropped"}
  /\ call' = Settled(a[1], att[a].resp)
  /\ att' = [att EXCEPT ![a].link = Left(a), ![a].resp = "none"]
  /\ UNCHANGED <<life, faults>>

LinkLost_Forgets(a) ==
  /\ att[a].link = "dropped"
  /\ att' = [att EXCEPT ![a].link = "closed", ![a].resp = "none"]
  /\ UNCHANGED <<life, call, faults>>

\* The socket has closed: who waits on it is rejected, and tries again.  An answer may be lost.
LinkLost(a) ==
  /\ att[a].link = "dropped"
  /\ att' = [att EXCEPT ![a].link = "closed", ![a].resp = "none"]
  /\ call' = IF Waits(a) THEN Settled(a[1], "again") ELSE call
  /\ UNCHANGED <<life, faults>>

\* The deadline of the request passes, which both sides see.
Overrun(a) ==
  /\ Fault /\ Waits(a) /\ ~att[a].due
  /\ att' = [att EXCEPT ![a].due = TRUE]
  /\ UNCHANGED <<life, call>>

\* The timer of the request: the waiter is rejected with ETIMEDOUT and the socket destroyed.
TimesOut(a) ==
  /\ Waits(a) /\ att[a].due
  /\ call' = Settled(a[1], "again")
  /\ att' = [att EXCEPT ![a].link = Left(a), ![a].resp = "none"]
  /\ UNCHANGED <<life, faults>>

\* The process of the caller ends.
CallerDies(c) ==
  /\ Fault /\ call[c].st = "sent"
  /\ call' = [call EXCEPT ![c].st = "dead"]
  /\ att' = [att EXCEPT ![<<c, call[c].try>>] = [@ EXCEPT !.link = Left(<<c, call[c].try>>), !.resp = "none"]]
  /\ UNCHANGED life

---------------------------------------------------------------------------
(* The server. *)

Serves(a) == att[a].inc \in Inc /\ life[att[a].inc] \in {"up", "draining"}
Reply(a, r) == IF att[a].link = "open" THEN r ELSE "none"

Refusal_AnyIncarnation(a) == IF att[a].due THEN "failed" ELSE "none"

\* validateRequest: a request that is overdue is the caller's error, one for another incarnation
\* is tried again.
Refusal(a) ==
  IF att[a].due THEN "failed"
  ELSE IF att[a].inc # call[a[1]].owner THEN "again" ELSE "none"

\* A piece of the frame arrives, also one of a client that has hung up since; when the frame is
\* whole the request is admitted.
Receive(a, n) ==
  /\ Serves(a) /\ att[a].link \in {"open", "cut"} /\ att[a].got < n
  /\ att' = [att EXCEPT ![a] =
       IF n < 2 THEN [@ EXCEPT !.got = n]
       ELSE IF Refusal(a) = "none" THEN [@ EXCEPT !.got = 2, !.exec = "running"]
       ELSE [@ EXCEPT !.got = 2, !.exec = "refused", !.resp = Reply(a, Refusal(a))]]
  /\ UNCHANGED <<life, call, faults>>

\* The result, or an error in its place when it does not fit a frame.
Finish(a) ==
  /\ Serves(a) /\ Active(a) /\ ~att[a].cancelled /\ ~att[a].due
  /\ \E r \in {"ok", "failed"} : att' = [att EXCEPT ![a].exec = "done", ![a].resp = Reply(a, r)]
  /\ UNCHANGED <<life, call, faults>>

\* What was cancelled, or comes after the deadline, is answered with an error.
Ends(a) ==
  /\ Serves(a) /\ Active(a) /\ (att[a].due \/ att[a].cancelled)
  /\ att' = [att EXCEPT ![a].exec = "ended", ![a].resp = Reply(a, "failed")]
  /\ UNCHANGED <<life, call, faults>>

\* onConnectionClosed cancels what runs for a connection.
Cancelled_Forgets(a) == att[a].cancelled
Cancelled(a) == att[a].cancelled \/ Active(a)

\* The server sees that the client has hung up.
HungUp(a) ==
  /\ Serves(a) /\ att[a].link = "cut"
  /\ att' = [att EXCEPT ![a].link = "closed", ![a].cancelled = Cancelled(a)]
  /\ UNCHANGED <<life, call, faults>>

Idles_AnyTime(a) == TRUE

\* A connection is dropped for silence only when nothing runs for it.
Idles(a) == ~Active(a)

\* The idle timeout: a frame that stalled, or a request that never came.
IdleTimeout(a) ==
  /\ Serves(a) /\ att[a].link = "open" /\ Idles(a) /\ att[a].resp = "none"
  /\ att[a].got < 2 => faults < MaxFaults
  /\ faults' = IF att[a].got < 2 THEN faults + 1 ELSE faults
  /\ att' = [att EXCEPT ![a].link = "dropped", ![a].cancelled = Cancelled(a)]
  /\ UNCHANGED <<life, call>>

\* What becomes of the connections and requests of a daemon.
Drops(i, running) ==
  att' = [a \in Att |->
    IF att[a].inc # i THEN att[a]
    ELSE [att[a] EXCEPT
            !.link = CASE @ = "open" -> "dropped" [] @ = "cut" -> "closed" [] OTHER -> @,
            !.cancelled = Cancelled(a),
            !.exec = IF Active(a) THEN running ELSE @]]

\* Relinquish: the connections are destroyed, which cancels what runs for them.
Drain(i) ==
  /\ Fault /\ life[i] = "up"
  /\ life' = [life EXCEPT ![i] = "draining"]
  /\ Drops(i, "running")
  /\ UNCHANGED call

\* The drain waits for the requests that run.
Drained(i) ==
  /\ life[i] = "draining" /\ ~\E a \in Att : att[a].inc = i /\ Active(a)
  /\ life' = [life EXCEPT ![i] = "gone"]
  /\ UNCHANGED <<call, att, faults>>

Crash(i) ==
  /\ Fault /\ life[i] \in {"up", "draining"}
  /\ life' = [life EXCEPT ![i] = "gone"]
  /\ Drops(i, "lost")
  /\ UNCHANGED call

Next ==
  \/ \E c \in Call : Ready(c) \/ GiveUp(c) \/ Send(c) \/ CallerDies(c)
  \/ \E a \in Att : Answer(a) \/ LinkLost(a) \/ Overrun(a) \/ TimesOut(a)
  \/ \E a \in Att : Finish(a) \/ Ends(a) \/ HungUp(a) \/ IdleTimeout(a) \/ \E n \in 1..2 : Receive(a, n)
  \/ \E i \in Inc : Start(i) \/ Drain(i) \/ Drained(i) \/ Crash(i)

Spec == Init /\ [][Next]_vars

---------------------------------------------------------------------------
\* A call that ends well was carried out by the daemon it was meant for, in its last attempt, and
\* never by another that came to listen at the path (server.ts:477).
AnsweredByItsOwn ==
  \A c \in Call :
    /\ call[c].st = "ok" => att[<<c, call[c].try>>].exec = "done"
    /\ \A a \in Att : a[1] = c /\ Waits(a) /\ att[a].exec \in {"running", "done"} => att[a].inc = call[c].owner

\* Nothing goes on for a connection that the server knows to be closed without having been
\* cancelled, whatever the order of the request, the hang-up and the drain
\* (docs/lifecycle.md:488).
OrphansAreCancelled ==
  \A a \in Att : Active(a) /\ att[a].link \in {"dropped", "closed"} => att[a].cancelled

\* Nobody waits on a connection that is closed, and a call is tried again or given up only
\* because something went wrong: silence while the request runs is no reason (transport.ts:184).
CallsSettle ==
  /\ \A a \in Att : Waits(a) => att[a].link \in {"open", "dropped"}
  /\ \A c \in Call : call[c].try > 1 \/ call[c].st = "unavailable" => faults > 0

CallsAreAnswered == AnsweredByItsOwn /\ OrphansAreCancelled /\ CallsSettle
================================================================================
