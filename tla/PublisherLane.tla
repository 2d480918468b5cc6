------------------------------ MODULE PublisherLane ------------------------------
(***************************************************************************)
(* The structural lane of one VaultPublisher and the LevelReconciler that  *)
(* drives it (src/daemon/search-store/publisher.ts, level-reconciler.ts).  *)
(*                                                                         *)
(* Callers put intents on structuralIntentQueue and wake the reconciler;   *)
(* its loop reads the head, takes the whole queue and works it off:        *)
(* neighbouring build intents of one kind are built and committed together *)
(* (the last one represents them), the others are barriers.  Callers may   *)
(* enqueue, drain, stop and clear between any two awaits of the loop.      *)
(*                                                                         *)
(* The ledger is its head here; EditionLedger has the commit in full.  An  *)
(* intent's AbortSignal is left out: no caller passes one.  A build always *)
(* ends, since every attempt has a deadline.                               *)
(***************************************************************************)
EXTENDS Naturals, Sequences, FiniteSets, SequencesExt

CONSTANTS
  Intent,      \* the envelopes callers may enqueue
  KindOf,      \* "lexical", "dense", "force", "journal" or "clear"
  Calls,       \* the calls made besides enqueue: "drain", "stop"
  StopOptions, \* the values of stop's option drain
  MaxRetries,  \* COMMIT_WITH_RETRY_MAX_NOT_HEAD_RETRIES
  MaxHead      \* bounds the commits of other publishers of this ledger

Kind == {"lexical", "dense", "force", "journal", "clear"}

ASSUME KindAssumption == KindOf \in [Intent -> Kind]
ASSUME CallsAssumption == Calls \subseteq {"drain", "stop"}
ASSUME OptionsAssumption == StopOptions \subseteq BOOLEAN
ASSUME RetriesAssumption == MaxRetries \in Nat

VARIABLES
  answer,     \* answer[i] of the promise enqueue returned
  queue,      \* structuralIntentQueue
  buffered,   \* the dirty intent pendingDebounceOperations will become
  signals,    \* the reconciler's count of queued wake-ups
  lane,       \* where the reconciler's loop stands
  folded,     \* the intents of this batch that are not acted on yet
  group,      \* those acted on now, the remaining ones of a build group
  base,       \* the head as the lane knows it
  expected,   \* the head sequence number a commit expects
  retries,    \* not-head retries of this group
  head,       \* the head of the ledger, seq 0 when there is none
  current,    \* does the owner record still name this daemon?
  scans,      \* the last scan boundary recorded
  goal,       \* goal[i]: scan boundary or dense target of an intent
  retired,    \* retiredByClear
  stop,       \* progress of a call of stop
  aborted,    \* the lane's abort signal
  drainer,    \* progress of a call of drain
  flushed,    \* flushed[c]: the dirty intent the call c flushed and awaits
  promised    \* what was open or buffered when drain was called

callVars == <<buffered, stop, aborted, drainer, flushed, promised>>
headVars == <<head, current, scans, goal>>
workVars == <<folded, group, base, expected, retries>>
vars == <<answer, queue, signals, lane, retired, callVars, headVars, workVars>>

Head0 == [seq |-> 0, boundary |-> 0, corpus |-> 0, fresh |-> FALSE]

HeadRecord == [seq : Nat, boundary : Nat, corpus : Nat, fresh : BOOLEAN]

Answers == {"none", "open", "covered", "committed", "completed", "not-ready",
            "dropped", "rejected"}

\* Every variable holds a value the code could hold; the retries stay capped.
TypeOK ==
  /\ answer \in [Intent -> Answers]
  /\ queue \in Seq(Intent) /\ folded \in Seq(Intent) /\ group \in Seq(Intent)
  /\ buffered \subseteq Intent
  /\ signals \in Nat
  /\ lane \in {"waiting", "enumerated", "acting", "building", "built",
               "committing", "clearing", "failing", "stopped"}
  /\ base \in HeadRecord /\ head \in HeadRecord
  /\ expected \in Nat /\ scans \in Nat
  /\ retries \in 0..MaxRetries
  /\ goal \in [Intent -> Nat]
  /\ current \in BOOLEAN /\ retired \in BOOLEAN /\ aborted \in BOOLEAN
  /\ stop \in {"no", "flushing", "halting"}
  /\ drainer \in {"none", "flushing", "waiting", "done"}
  /\ flushed \in [{"stop", "drain"} -> SUBSET Intent]
  /\ promised \subseteq Intent

InitWith(answers) ==
  /\ answer = answers
  /\ queue = << >> /\ folded = << >> /\ group = << >>
  /\ buffered = {}
  /\ signals = 0
  /\ lane = "waiting"
  /\ base = Head0 /\ head = Head0
  /\ expected = 0 /\ retries = 0 /\ scans = 0
  /\ goal = [i \in Intent |-> 0]
  /\ current = TRUE
  /\ retired = FALSE /\ aborted = FALSE
  /\ stop = "no"
  /\ drainer = "none"
  /\ flushed = [c \in {"stop", "drain"} |-> {}]
  /\ promised = {}

Init == InitWith([i \in Intent |-> "none"])

Builds(i) == KindOf[i] \in {"lexical", "dense", "force"}
BuildLane(i) == IF KindOf[i] = "lexical" THEN "lexical" ELSE "dense"
IsOpen(i) == answer[i] = "open"
Pending == {i \in Intent : IsOpen(i)}

\* settle*StructuralEnvelope: an answer once given stays.
Told(S, r) == [i \in Intent |-> IF i \in S /\ IsOpen(i) THEN r ELSE answer[i]]

\* What is accepted and not answered, in the order of its work.
OnHand == group \o folded \o queue

Desk == INSTANCE IntentDesk WITH open <- OnHand

Running == lane \notin {"waiting", "stopped"}

-----------------------------------------------------------------------------
(* Callers.                                                                *)

StructuralStopped == retired \/ stop = "halting"

\* enqueue, once the checks have passed.
Push(S) ==
  /\ queue' = queue \o SetToSeq(S)
  /\ signals' = signals + Len(SetToSeq(S))
  /\ answer' = [i \in Intent |-> IF i \in S THEN "open" ELSE answer[i]]

\* publishFreshSnapshot records its scan boundary and enqueues in one
\* synchronous step; a dense intent is for the corpus of the head.
Enqueue(i) ==
  /\ answer[i] = "none" /\ i \notin buffered
  /\ BuildLane(i) = "dense" /\ Builds(i) => head.seq > 0
  /\ \/ /\ ~StructuralStopped
        /\ Push({i})
        /\ scans' = IF KindOf[i] = "lexical" THEN scans + 1 ELSE scans
        /\ goal' = [goal EXCEPT ![i] =
             IF KindOf[i] = "lexical" THEN scans + 1 ELSE head.corpus]
     \/ /\ StructuralStopped
        /\ answer' = [answer EXCEPT ![i] = IF retired THEN "dropped" ELSE "rejected"]
        /\ UNCHANGED <<queue, signals, scans, goal>>
  /\ UNCHANGED <<lane, retired, callVars, head, current, workVars>>

\* enqueueDebouncedDirtyMarks: marks collect until a drain or a stop.
Debounce(i) ==
  /\ ~retired
  /\ answer[i] = "none"
  /\ KindOf[i] = "journal"
  /\ buffered = {}
  /\ buffered' = {i}
  /\ UNCHANGED <<answer, queue, signals, lane, retired, stop, aborted, drainer,
                 flushed, promised, headVars, workVars>>

Flush_Unchecked(caller) ==
  /\ buffered' = {}
  /\ flushed' = [flushed EXCEPT ![caller] = buffered]
  /\ Push(buffered)

\* flushPendingDebounce.
Flush(caller) ==
  /\ buffered' = {}
  /\ flushed' = [flushed EXCEPT ![caller] = buffered]
  /\ \/ ~StructuralStopped /\ Push(buffered)
     \/ /\ StructuralStopped
        /\ answer' = [i \in Intent |-> IF i \in buffered THEN "rejected" ELSE answer[i]]
        /\ UNCHANGED <<queue, signals>>

Flushed(caller) == \A i \in flushed[caller] : ~IsOpen(i)

Drain ==
  /\ "drain" \in Calls
  /\ drainer = "none"
  /\ drainer' = "flushing"
  /\ promised' = Pending \cup buffered
  /\ \/ ~retired /\ Flush("drain")
     \/ retired /\ UNCHANGED <<buffered, flushed, answer, queue, signals>>
  /\ UNCHANGED <<lane, retired, stop, aborted, headVars, workVars>>

Idle_NotAsked == signals = 0

\* LevelReconciler.isIdle.
Idle == signals = 0 /\ ~Running

DrainWaits ==
  /\ drainer = "flushing"
  /\ Flushed("drain")
  /\ drainer' = IF Idle THEN "done" ELSE "waiting"
  /\ UNCHANGED <<answer, queue, signals, lane, retired, buffered, stop, aborted,
                 flushed, promised, headVars, workVars>>

\* stop first flushes the debounced marks, unless told not to drain.
Stop ==
  /\ "stop" \in Calls
  /\ stop = "no"
  /\ TRUE \in StopOptions
  /\ stop' = "flushing"
  /\ \/ ~retired /\ Flush("stop")
     \/ /\ retired
        /\ buffered' = {}
        /\ UNCHANGED <<flushed, answer, queue, signals>>
  /\ UNCHANGED <<lane, retired, aborted, drainer, promised, headVars, workVars>>

Halt ==
  /\ stop = "flushing"
  /\ Flushed("stop")
  /\ stop' = "halting"
  /\ UNCHANGED <<answer, queue, signals, lane, retired, buffered, aborted,
                 drainer, flushed, promised, headVars, workVars>>

StopNow_QueueKept ==
  /\ "stop" \in Calls
  /\ stop = "no"
  /\ FALSE \in StopOptions
  /\ stop' = "halting"
  /\ buffered' = {}
  /\ signals' = 0
  /\ aborted' = TRUE
  /\ UNCHANGED <<answer, queue, lane, retired, drainer, flushed, promised,
                 headVars, workVars>>

\* stop({drain: false}).
StopNow ==
  /\ "stop" \in Calls
  /\ stop = "no"
  /\ FALSE \in StopOptions
  /\ stop' = "halting"
  /\ buffered' = {}
  /\ answer' = Told(ToSet(queue), "rejected")
  /\ queue' = << >>
  /\ signals' = 0
  /\ aborted' = TRUE
  /\ UNCHANGED <<lane, retired, drainer, flushed, promised, headVars, workVars>>

Caller ==
  \/ \E i \in Intent : Enqueue(i) \/ Debounce(i)
  \/ Drain
  \/ Stop
  \/ StopNow

-----------------------------------------------------------------------------
(* LevelReconciler.runLoop.                                                *)

\* The batch is taken off and the world enumerated before the first await.
ReadWorld ==
  /\ lane = "waiting"
  /\ signals > 0
  /\ ~aborted
  /\ signals' = 0
  /\ base' = IF retired THEN Head0 ELSE head
  /\ lane' = "enumerated"
  /\ UNCHANGED <<answer, queue, retired, callVars, headVars, folded, group,
                 expected, retries>>

EnumerateFails_BatchOnly ==
  /\ lane = "waiting"
  /\ signals > 0
  /\ ~aborted /\ ~retired
  /\ signals' = 0
  /\ lane' = "failing"
  /\ UNCHANGED <<answer, queue, retired, callVars, headVars, workVars>>

\* enumerate throws: handleStructuralLaneError takes the whole queue.
EnumerateFails ==
  /\ lane = "waiting"
  /\ signals > 0
  /\ ~aborted /\ ~retired
  /\ signals' = 0
  /\ folded' = queue
  /\ queue' = << >>
  /\ lane' = "failing"
  /\ UNCHANGED <<answer, retired, callVars, headVars, group, base, expected,
                 retries>>

\* fold takes whatever is queued by now, not only the batch.
Fold ==
  /\ lane = "enumerated"
  /\ folded' = queue
  /\ queue' = << >>
  /\ lane' = "acting"
  /\ UNCHANGED <<answer, signals, retired, callVars, headVars, group, base,
                 expected, retries>>

\* The end of a batch, and of its local variables: drain waiters are woken when
\* nothing is queued.
FinishBatch ==
  /\ lane = "acting"
  /\ folded = << >>
  /\ lane' = "waiting"
  /\ drainer' = IF drainer = "waiting" /\ signals = 0 THEN "done" ELSE drainer
  /\ base' = Head0 /\ expected' = 0 /\ retries' = 0
  /\ UNCHANGED <<answer, queue, signals, retired, buffered, stop, aborted,
                 flushed, promised, headVars, folded, group>>

LaneStops ==
  /\ lane = "waiting"
  /\ stop = "halting"
  /\ aborted \/ signals = 0
  /\ lane' = "stopped"
  /\ drainer' = IF drainer = "waiting" THEN "done" ELSE drainer
  /\ UNCHANGED <<answer, queue, signals, retired, buffered, stop, aborted,
                 flushed, promised, headVars, workVars>>

\* handleStructuralLaneError, then the finally clause of actStructuralLane:
\* what failed and everything behind it in the batch is rejected.
RejectBatch ==
  /\ lane = "failing"
  /\ answer' = Told(ToSet(group \o folded), "rejected")
  /\ group' = << >>
  /\ folded' = << >>
  /\ lane' = "acting"
  /\ UNCHANGED <<queue, signals, retired, callVars, headVars, base, expected,
                 retries>>

-----------------------------------------------------------------------------
(* actStructuralLane.                                                      *)

Acting == lane = "acting" /\ folded # << >>

\* After a clear the rest of the batch is dropped.
DropRetired ==
  /\ Acting
  /\ retired
  /\ KindOf[Head(folded)] # "clear"
  /\ answer' = Told({Head(folded)}, "dropped")
  /\ folded' = Tail(folded)
  /\ UNCHANGED <<queue, signals, lane, retired, callVars, headVars, group, base,
                 expected, retries>>

DenseSatisfied(h, i) == h.fresh /\ h.corpus = goal[i]

\* headCoversScanBoundary, denseHeadSatisfiesIntent.
Covers(h, i) ==
  /\ h.seq > 0
  /\ \/ KindOf[i] = "lexical" /\ h.boundary >= goal[i]
     \/ KindOf[i] = "dense" /\ DenseSatisfied(h, i)

\* no-lexical-head, dense-target-superseded.
NotReady(h, i) ==
  /\ BuildLane(i) = "dense"
  /\ h.seq = 0 \/ h.corpus # goal[i]

\* The numbers of N in increasing order.
InOrder(N) ==
  [k \in 1..Cardinality(N) |-> CHOOSE n \in N : Cardinality({m \in N : m <= n}) = k]

\* The sequence s without the members of S.
Without(s, S) ==
  LET left == InOrder({n \in DOMAIN s : s[n] \notin S})
  IN  [k \in DOMAIN left |-> s[left[k]]]

\* unsettledBuildEnvelopes: what is left of g, and what the others are told.
Remaining(h, g) == Without(g, {i \in Intent : Covers(h, i) \/ NotReady(h, i)})

Filtered(h, g) ==
  [i \in Intent |->
     IF i \notin ToSet(g) THEN answer[i]
     ELSE IF Covers(h, i) THEN "covered"
     ELSE IF NotReady(h, i) THEN "not-ready"
     ELSE answer[i]]

\* The intent is built together with the first one of the batch.
InGroup(i) == Builds(i) /\ BuildLane(i) = BuildLane(Head(folded))

\* The longest run of such intents at the front of the batch has length n.
IsGroup(n) ==
  /\ \A m \in 1..n : InGroup(folded[m])
  /\ n < Len(folded) => ~InGroup(folded[n + 1])

TakeGroup_Retired ==
  /\ Acting
  /\ \E n \in 1..Len(folded) :
       LET g == SubSeq(folded, 1, n) IN
       /\ IsGroup(n)
       /\ answer' = Filtered(base, g)
       /\ group' = Remaining(base, g)
       /\ lane' = IF Remaining(base, g) = << >> THEN "acting" ELSE "building"
       /\ folded' = SubSeq(folded, n + 1, Len(folded))
  /\ retries' = 0
  /\ UNCHANGED <<queue, signals, retired, callVars, headVars, base, expected>>

\* actBuildGroup.
TakeGroup == ~retired /\ TakeGroup_Retired

\* dirty-frontier and diagnostic-frontier append to the journal.
ActJournal ==
  /\ Acting
  /\ ~retired
  /\ KindOf[Head(folded)] = "journal"
  /\ folded' = Tail(folded)
  /\ \/ /\ answer' = Told({Head(folded)}, "completed")
        /\ UNCHANGED <<lane, group>>
     \/ /\ group' = <<Head(folded)>>
        /\ lane' = "failing"
        /\ UNCHANGED answer
  /\ UNCHANGED <<queue, signals, retired, callVars, headVars, base, expected,
                 retries>>

\* retireForClear, and the start of the clear effect.
BeginClear ==
  /\ Acting
  /\ KindOf[Head(folded)] = "clear"
  /\ retired' = TRUE
  /\ buffered' = IF retired THEN buffered ELSE {}
  /\ queue' = IF retired THEN queue ELSE << >>
  /\ answer' = IF retired THEN answer ELSE Told(ToSet(queue), "dropped")
  /\ group' = <<Head(folded)>>
  /\ folded' = Tail(folded)
  /\ lane' = "clearing"
  /\ UNCHANGED <<signals, stop, aborted, drainer, flushed, promised, headVars,
                 base, expected, retries>>

\* The effect removes the ledger directories, or throws before or after.
EndClear ==
  /\ lane = "clearing"
  /\ head' \in {head, Head0}
  /\ \/ /\ head' = Head0
        /\ answer' = Told(ToSet(group), "completed")
        /\ base' = Head0
        /\ group' = << >>
        /\ lane' = "acting"
     \/ lane' = "failing" /\ UNCHANGED <<answer, base, group>>
  /\ UNCHANGED <<queue, signals, retired, callVars, current, scans, goal, folded,
                 expected, retries>>

-----------------------------------------------------------------------------
(* commitWithRetry.                                                        *)

\* The group is done, and every intent in it is told r.
EndGroup(r) ==
  /\ answer' = Told(ToSet(group), r)
  /\ group' = << >>
  /\ lane' = "acting"

BuildReady ==
  /\ lane = "building"
  /\ ~aborted
  /\ lane' = "built"
  /\ UNCHANGED <<answer, queue, signals, retired, callVars, headVars, workVars>>

\* The build yields a drop, misses the earliest deadline of the group, or is
\* cancelled under one of its cancellation ids.
BuildDrops ==
  /\ lane = "building"
  /\ ~aborted
  /\ EndGroup("dropped")
  /\ UNCHANGED <<queue, signals, retired, callVars, headVars, folded, base,
                 expected, retries>>

\* The build throws, or the lane is stopped without drain.
BuildThrows ==
  /\ lane = "building"
  /\ lane' = "failing"
  /\ UNCHANGED <<answer, queue, signals, retired, callVars, headVars, workVars>>

\* commitBuildOutput: the token, then the head the commit will expect.
ReadToken ==
  /\ lane = "built"
  /\ \/ /\ current
        /\ expected' = head.seq
        /\ lane' = "committing"
        /\ UNCHANGED <<answer, group>>
     \/ ~current /\ EndGroup("rejected") /\ UNCHANGED expected
  /\ UNCHANGED <<queue, signals, retired, callVars, headVars, folded, base,
                 retries>>

Representative_First == Head(group)

\* The last intent of a group stands for all: scan boundaries only grow.
Representative == Last(group)

Lexical == KindOf[Representative] = "lexical"

\* Where the commit finds the ledger moved on: another head than expected, the
\* number taken, or a dense candidate that is not based on the head.
HeadMoved ==
  \/ head.seq # expected
  \/ ~Lexical /\ base.seq # head.seq
  \/ Lexical /\ head.seq > 0 /\ goal[Representative] = head.boundary

\* A lexical edition names the corpus scanned and has no dense arm yet; a
\* dense edition keeps the corpus, with a fresh or a failed dense arm.
Candidates ==
  IF Lexical
  THEN [seq : {head.seq + 1}, boundary : {goal[Representative]},
        corpus : {head.corpus, head.corpus + 1}, fresh : {FALSE}]
  ELSE {[head EXCEPT !.seq = @ + 1, !.fresh = f] : f \in BOOLEAN}

\* resolveCommittedEnvelopes.
CommitAnswer(h, i) ==
  IF KindOf[i] # "lexical" /\ ~DenseSatisfied(h, i) THEN "not-ready"
  ELSE "committed"

Commit ==
  /\ lane = "committing"
  /\ current
  /\ ~HeadMoved
  /\ Lexical => goal[Representative] > head.boundary
  /\ \E h \in Candidates :
       /\ head' = h
       /\ base' = h
       /\ answer' = [i \in Intent |->
            IF i \in ToSet(group) /\ IsOpen(i) THEN CommitAnswer(h, i)
            ELSE answer[i]]
  /\ group' = << >>
  /\ lane' = "acting"
  /\ UNCHANGED <<queue, signals, retired, callVars, current, scans, goal, folded,
                 expected, retries>>

\* The token went, or the candidate is rejected: its frontier is behind the
\* head's, or it does not cover a dirty operation.
CommitRefused ==
  /\ lane = "committing"
  /\ \/ ~current /\ EndGroup("rejected")
     \/ ~HeadMoved /\ Lexical /\ EndGroup("dropped")
  /\ UNCHANGED <<queue, signals, retired, callVars, headVars, folded, base,
                 expected, retries>>

CommitThrows ==
  /\ lane = "committing"
  /\ lane' = "failing"
  /\ UNCHANGED <<answer, queue, signals, retired, callVars, headVars, workVars>>

CommitNotHead_Uncapped ==
  LET left == Remaining(head, group) IN
  /\ lane = "committing"
  /\ HeadMoved
  /\ base' = head
  /\ retries' = IF left = << >> THEN retries ELSE retries + 1
  /\ \/ /\ left = << >>
        /\ answer' = Filtered(head, group)
        /\ lane' = "acting"
     \/ /\ left # << >>
        /\ head.seq > base.seq \/ Len(left) < Len(group)
        /\ answer' = Filtered(head, group)
        /\ lane' = "building"
  /\ group' = left
  /\ UNCHANGED <<queue, signals, retired, callVars, headVars, folded, expected>>

\* The head is read again; the group goes on with what it does not cover, as
\* long as that is progress and the retries last.
CommitNotHead ==
  LET left == Remaining(head, group)
      progress == head.seq > base.seq \/ Len(left) < Len(group)
  IN
  /\ lane = "committing"
  /\ HeadMoved
  /\ base' = head
  /\ \/ /\ left = << >>
        /\ answer' = Filtered(head, group)
        /\ lane' = "acting"
        /\ group' = << >>
        /\ UNCHANGED retries
     \/ /\ left # << >> /\ progress /\ retries < MaxRetries
        /\ answer' = Filtered(head, group)
        /\ retries' = retries + 1
        /\ group' = left
        /\ lane' = "building"
     \/ /\ left # << >> /\ ~(progress /\ retries < MaxRetries)
        /\ answer' = [i \in Intent |->
             IF i \in ToSet(left) /\ IsOpen(i) THEN "rejected"
             ELSE Filtered(head, group)[i]]
        /\ group' = << >>
        /\ lane' = "acting"
        /\ UNCHANGED retries
  /\ UNCHANGED <<queue, signals, retired, callVars, headVars, folded, expected>>

-----------------------------------------------------------------------------
(* Other publishers and daemons.                                           *)

\* A publisher that overlaps with this one commits to the same ledger.
SiblingCommit ==
  /\ head.seq < MaxHead
  /\ current
  /\ ~retired
  /\ \/ \E b \in head.boundary + 1 .. scans + 1, c \in {head.corpus, head.corpus + 1} :
          head' = [seq |-> head.seq + 1, boundary |-> b, corpus |-> c, fresh |-> FALSE]
     \/ head.seq > 0 /\ head' = [head EXCEPT !.seq = @ + 1, !.fresh = TRUE]
  /\ UNCHANGED <<answer, queue, signals, lane, retired, callVars, current, scans,
                 goal, workVars>>

\* Another daemon takes the owner record over.
Supersede ==
  /\ current
  /\ current' = FALSE
  /\ UNCHANGED <<answer, queue, signals, lane, retired, callVars, head, scans,
                 goal, workVars>>

Loop ==
  \/ ReadWorld
  \/ EnumerateFails
  \/ Fold
  \/ FinishBatch
  \/ LaneStops
  \/ RejectBatch
  \/ DropRetired
  \/ TakeGroup
  \/ ActJournal
  \/ BeginClear
  \/ EndClear
  \/ BuildReady
  \/ BuildDrops
  \/ BuildThrows
  \/ ReadToken
  \/ Commit
  \/ CommitRefused
  \/ CommitThrows
  \/ CommitNotHead

Next ==
  \/ Caller
  \/ DrainWaits
  \/ Halt
  \/ Loop
  \/ SiblingCommit
  \/ Supersede

\* The event loop runs on; callers need not call.
Spec == Init /\ [][Next]_vars /\ WF_vars(Loop) /\ WF_vars(DrainWaits) /\ WF_vars(Halt)

-----------------------------------------------------------------------------

\* The lane is an intent desk: nothing accepted is lost or answered twice,
\* work is reported in turn, and the oldest open intent is answered in the
\* end, whatever is thrown, stopped, cleared or committed elsewhere.
IsDesk == Desk!Spec

\* A caller that is told its save or refresh is published finds it published:
\* the head covers the scan boundary recorded before its intent was enqueued,
\* also when another intent of the group stood for it.
PublishedIsCovered ==
  [][\A i \in Intent :
       /\ KindOf[i] = "lexical"
       /\ IsOpen(i)
       /\ answer'[i] \in {"covered", "committed"}
       => head'.boundary >= goal[i]]_vars

\* Once a clear has begun, the publisher works nothing off but clears: what
\* was queued or folded before it refers to a ledger that is being removed.
QuietAfterClear ==
  [][retired => \A i \in Intent :
       /\ IsOpen(i)
       /\ answer'[i] \in {"covered", "committed", "completed"}
       => KindOf[i] = "clear"]_vars

\* drain() resolves only when everything that was open or debounced when it
\* was called is answered.
DrainKeepsWord ==
  drainer = "done" => \A i \in promised : answer[i] # "none" /\ ~IsOpen(i)

\* stop() and drain() return: neither waits for an answer the lane no longer
\* gives, also when they race with each other or with a clear.
CallsEnd ==
  /\ stop # "no" ~> lane = "stopped"
  /\ drainer # "none" ~> drainer = "done"
=================================================================================
