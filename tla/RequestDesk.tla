------------------------------- MODULE RequestDesk -------------------------------
(***************************************************************************)
(* The requests of one daemon, from the RPC server (daemon/transport.ts)    *)
(* through SearchDaemon (daemon/server.ts) and its scheduler to the runtime *)
(* of their profile (daemon/profile-manager.ts): admission, cancellation by *)
(* a lost connection, the idle timer and the drain.  Each action is one     *)
(* turn of the event loop.                                                  *)
(***************************************************************************)
EXTENDS Naturals, FiniteSets

CONSTANTS Req, Conn,
          ConnOf,        \* the connection of each request
          IdOf,          \* its cancellation id; several requests may have one
          RuntimeTries   \* bound: attempts to create the runtime

VARIABLES step,        \* "serving", or the step of the drain
          mode,        \* "none", "asked" (a Shutdown was answered), "plain" or "bounded"
          conn,        \* "open", "destroyed" (its close event is to come) or "closed"
          req,         \* of each request: where it is
          told,        \* requests whose work was told to stop
          remembered,  \* cancelled ids, in the scheduler and the profile manager
          runtime,     \* "none", "creating", "open" or "closed", and the attempts so far
          idle,        \* whether the idle timer runs
          marker       \* whether the reaped marker was written

vars == <<step, mode, conn, req, told, remembered, runtime, idle, marker>>

Init ==
  /\ step = "serving" /\ mode = "none" /\ idle = TRUE /\ marker = FALSE
  /\ conn = [k \in Conn |-> "open"]
  /\ req = [r \in Req |-> "unsent"]
  /\ told = {} /\ remembered = {}
  /\ runtime = [is |-> "none", tries |-> 0]

Underway(r) == req[r] \in {"building", "working"}
Active == {r \in Req : Underway(r)}
Managing == step \in {"serving", "relinquishing", "handlers"}    \* the profile manager is not closed

\* armIdleTimer at the end of a request, once those of done are over.
IdleAfter_OnSuccess(done, ok) == idle \/ (ok /\ step = "serving" /\ Active \subseteq done)

IdleAfter(done, ok) == step = "serving" /\ Active \subseteq done

\* An answer reaches its client only on a connection that lives.
Settled(r, answer) == IF conn[ConnOf[r]] = "open" THEN answer ELSE "lost"

-----------------------------------------------------------------------------
\* handleRequest: an id that was ever cancelled is refused; the first request creates the runtime.
Send(r) ==
  /\ req[r] = "unsent" /\ conn[ConnOf[r]] = "open"
  /\ IF IdOf[r] \in remembered
     THEN /\ req' = [req EXCEPT ![r] = "cancelled"]
          /\ idle' = IdleAfter({}, FALSE)
          /\ UNCHANGED runtime
     ELSE /\ idle' = FALSE
          /\ req' = [req EXCEPT ![r] = IF runtime.is = "open" THEN "working" ELSE "building"]
          /\ IF runtime.is = "none"
             THEN runtime.tries < RuntimeTries /\ runtime' = [is |-> "creating", tries |-> runtime.tries + 1]
             ELSE UNCHANGED runtime
  /\ UNCHANGED <<step, mode, conn, told, remembered, marker>>

Building == {r \in Req : req[r] = "building"}

\* The runtime is ready and those that waited for it begin; once the manager is closed it is closed.
Created ==
  /\ runtime.is = "creating"
  /\ runtime' = [runtime EXCEPT !.is = IF Managing THEN "open" ELSE "closed"]
  /\ req' = [r \in Req |->
               IF req[r] /= "building" THEN req[r]
               ELSE IF ~Managing THEN Settled(r, "failed")
               ELSE IF IdOf[r] \in remembered THEN Settled(r, "cancelled") ELSE "working"]
  /\ LET over == {r \in Building : req'[r] /= "working"} IN
     idle' = IF over = {} THEN idle ELSE IdleAfter(over, FALSE)
  /\ UNCHANGED <<step, mode, conn, told, remembered, marker>>

\* The runtime cannot be created; the next request tries again.
CreateFails ==
  /\ runtime.is = "creating"
  /\ runtime' = [runtime EXCEPT !.is = "none"]
  /\ req' = [r \in Req |-> IF req[r] = "building" THEN Settled(r, "failed") ELSE req[r]]
  /\ idle' = IF Building = {} THEN idle ELSE IdleAfter(Building, FALSE)
  /\ UNCHANGED <<step, mode, conn, told, remembered, marker>>

\* The work is done: RequestScheduler.run looks once more at what was cancelled.
Finish(r) ==
  /\ req[r] = "working"
  /\ req' = [req EXCEPT ![r] = Settled(r, IF IdOf[r] \in remembered THEN "cancelled" ELSE "answered")]
  /\ idle' = IdleAfter({r}, TRUE)
  /\ UNCHANGED <<step, mode, conn, told, remembered, runtime, marker>>

\* The work throws, as it will when it was told to stop, or its deadline passes.
Fail(r) ==
  /\ req[r] = "working"
  /\ req' = [req EXCEPT ![r] = Settled(r, IF r \in told THEN "cancelled" ELSE "failed")]
  /\ idle' = IdleAfter({r}, FALSE)
  /\ UNCHANGED <<step, mode, conn, told, remembered, runtime, marker>>

CancelledWith_All(rs) == {IdOf[r] : r \in IF rs = {} THEN {} ELSE Active}

\* cancelRequest, for requests that are under way.
CancelledWith(rs) == {IdOf[r] : r \in rs}

Cancel(rs) ==
  /\ remembered' = remembered \cup CancelledWith(rs)
  /\ told' = told \cup {r \in Req : req[r] = "working" /\ IdOf[r] \in CancelledWith(rs)}

\* The connection is gone, by its client or by the drain: what runs for it is cancelled.
Closed(k) ==
  /\ conn[k] \in {"open", "destroyed"}
  /\ conn' = [conn EXCEPT ![k] = "closed"]
  /\ Cancel({r \in Active : ConnOf[r] = k})
  /\ UNCHANGED <<step, mode, req, runtime, idle, marker>>

\* Shutdown answers, and drains from a timer.
Shutdown ==
  /\ step = "serving" /\ mode = "none" /\ mode' = "asked"
  /\ UNCHANGED <<step, conn, req, told, remembered, runtime, idle, marker>>

\* drain up to its first wait: every socket is destroyed; when superseded all work is cancelled.
Drain(bounded) ==
  /\ step = "serving"
  /\ bounded \/ mode = "asked" \/ idle
  /\ step' = "relinquishing" /\ mode' = (IF bounded THEN "bounded" ELSE "plain") /\ idle' = FALSE
  /\ conn' = [k \in Conn |-> IF conn[k] = "open" THEN "destroyed" ELSE conn[k]]
  /\ IF bounded THEN Cancel(Active) ELSE UNCHANGED <<told, remembered>>
  /\ UNCHANGED <<req, runtime, marker>>

\* server.close returns when every connection has closed; socket file and owner record go.
Relinquished ==
  /\ step = "relinquishing" /\ \A k \in Conn : conn[k] = "closed"
  /\ step' = "handlers"
  /\ UNCHANGED <<mode, conn, req, told, remembered, runtime, idle, marker>>

HandlersOver_AnyTime == TRUE

HandlersOver == Active = {} \/ mode = "bounded"

\* rpcServer.drain, with a deadline when superseded; then the profile manager is closed.
HandlersDrained ==
  /\ step = "handlers" /\ HandlersOver
  /\ step' = "profiles"
  /\ UNCHANGED <<mode, conn, req, told, remembered, runtime, idle, marker>>

\* ProfileManager.close waits for a runtime that is being created and closes what there is; when
\* superseded the wait may end first, and then no marker is written.
ProfilesClosed(inTime) ==
  /\ step = "profiles"
  /\ IF inTime
     THEN runtime.is /= "creating" /\ runtime' = [runtime EXCEPT !.is = IF @ = "open" THEN "closed" ELSE @]
     ELSE mode = "bounded" /\ UNCHANGED runtime
  /\ marker' = (inTime /\ mode = "bounded")
  /\ step' = "done"
  /\ UNCHANGED <<mode, conn, req, told, remembered, idle>>

Next ==
  \/ Created \/ CreateFails \/ Shutdown \/ Relinquished \/ HandlersDrained
  \/ \E b \in BOOLEAN : Drain(b) \/ ProfilesClosed(b)
  \/ \E r \in Req : Send(r) \/ Finish(r) \/ Fail(r)
  \/ \E k \in Conn : Closed(k)

Spec == Init /\ [][Next]_vars

-----------------------------------------------------------------------------
\* In a plain drain no request is under way when the stores close, and after it, or with a marker,
\* no runtime is open, also not one that was being created (server.ts:750, profile-manager.ts:679).
StoresOutliveWork ==
  /\ mode = "plain" /\ ~Managing => Active = {}
  /\ step = "done" /\ (mode = "plain" \/ marker) => runtime.is \in {"none", "closed"}

\* While the daemon serves, its idle timer runs exactly when nothing is under way: it neither stays
\* for ever nor leaves in the middle of a request (server.ts:446, 814).
IdleIsTimed == step = "serving" => (idle <=> Active = {})

\* A request is cancelled only if a connection of its own cancellation id is gone, or the daemon was
\* superseded: the loss of one connection does not touch what others asked for (server.ts:458).
CancelledByItsOwn ==
  \A r \in Req : (r \in told \/ req[r] = "cancelled") =>
     mode = "bounded" \/ \E q \in Req : IdOf[q] = IdOf[r] /\ conn[ConnOf[q]] = "closed"
=================================================================================
