------------------------------- MODULE SaveQueue -------------------------------
(***************************************************************************)
(* How a profile publishes the saves of one vault (profile-manager.ts):     *)
(* batches of marks are journaled one after the other, a drain publishes    *)
(* what is there, and batches that come while it runs are folded into its   *)
(* embedding work and published by its next round.  Journaling, building    *)
(* and recording a failure all wait their turn in the publisher's lane.     *)
(***************************************************************************)
EXTENDS Naturals, Sequences, FiniteSets, SequencesExt

CONSTANTS Batch,     \* batches of marks, each comes once
          Key(_),    \* the file that a batch is about
          MaxFaults  \* bound on journal appends, builds and records that fail

VARIABLES batch,   \* what became of a batch: its operation in the journal
          early,   \* batches whose marks were taken before they were journaled, history
          marks,   \* pendingMarks, by file
          seqs,    \* pendingJournalSeqs, as batches
          chain,   \* journalChain: batches to journal; the first is in the lane
          folds,   \* foldChain: folds that have not ended
          drain,   \* drainSavePublications: its phase and what it holds
          lane,    \* the publisher's lane
          faults

vars == <<batch, early, marks, seqs, chain, folds, drain, lane, faults>>

None == "none"
File == {Key(b) : b \in Batch}
Rest == [phase |-> "idle", awaits |-> {}, left |-> 0, seqs |-> {}]

Init ==
  /\ batch = [b \in Batch |-> "new"] /\ marks = [f \in File |-> None] /\ seqs = {}
  /\ chain = <<>> /\ folds = 0 /\ drain = Rest /\ lane = <<>> /\ early = {} /\ faults = 0

NoMarks(m) == \A f \in File : m[f] = None

\* A round of the drain first waits for the journal as it stands.
NextRound(c) == [Rest EXCEPT !.phase = "journal", !.awaits = ToSet(c)]

Journal(b) == [kind |-> "journal", of |-> {b}]
Build(covers) == [kind |-> "build", of |-> covers]
Diagnose(from, S) == [kind |-> from, of |-> S]

\* The drain goes on before anything else, as soon as the journal has settled.
DrainReady == drain.phase = "journal" /\ drain.awaits \cap ToSet(chain) = {}

EndRun_NoOther(m, c) == drain' = Rest /\ seqs' = {}

\* The end of a run: another one if marks are left, else the state is dropped.  What its chain
\* still holds is in the lane before anything that comes later, as if the chain went on.
EndRun(m, c) ==
  IF NoMarks(m) THEN drain' = Rest /\ seqs' = {}
  ELSE drain' = NextRound(c) /\ UNCHANGED seqs

-----------------------------------------------------------------------------
\* enqueueSaveSnapshot: the watcher reports a batch.
Enqueue(b) ==
  /\ batch[b] = "new" /\ ~DrainReady
  /\ batch' = [batch EXCEPT ![b] = "waiting"]
  /\ marks' = [marks EXCEPT ![Key(b)] = b]
  /\ chain' = Append(chain, b)
  /\ lane' = IF chain = <<>> THEN Append(lane, Journal(b)) ELSE lane
  /\ IF drain.phase = "idle"
     THEN drain' = NextRound(Append(chain, b)) /\ UNCHANGED folds
     ELSE folds' = folds + 1 /\ UNCHANGED drain
  /\ UNCHANGED <<early, seqs, faults>>

\* The chain goes on to its next batch.
Unchain(l) ==
  /\ chain' = Tail(chain)
  /\ lane' = IF Tail(chain) = <<>> THEN l ELSE Append(l, Journal(chain[2]))

Journaled ==
  /\ Head(lane).kind = "journal"
  /\ batch' = [batch EXCEPT ![Head(chain)] = "pending"]
  /\ seqs' = seqs \cup {Head(chain)}
  /\ Unchain(Tail(lane))
  /\ UNCHANGED <<marks, drain, faults>>

Fault == faults < MaxFaults /\ faults' = faults + 1

\* The append fails: the batch is given up, unless a later one of its file has replaced it, and
\* the failure is recorded before the chain goes on.
JournalFails ==
  /\ Head(lane).kind = "journal" /\ Fault
  /\ batch' = [batch EXCEPT ![Head(chain)] = "refused"]
  /\ marks' = [f \in File |-> IF marks[f] = Head(chain) THEN None ELSE marks[f]]
  /\ lane' = Append(Tail(lane), Diagnose("refusal", {}))
  /\ UNCHANGED <<seqs, chain, drain>>

RefusalRecorded ==
  /\ Head(lane).kind = "refusal"
  /\ Unchain(Tail(lane))
  /\ UNCHANGED <<batch, marks, seqs, drain, faults>>

-----------------------------------------------------------------------------
\* The marks are taken, with the sequence numbers that are known.
DrainTake ==
  /\ DrainReady
  /\ IF NoMarks(marks)
     THEN EndRun(marks, chain) /\ UNCHANGED <<marks, early>>
     ELSE /\ drain' = [Rest EXCEPT !.phase = "fold", !.left = folds, !.seqs = seqs]
          /\ early' = early \cup ToSet(chain)
          /\ marks' = [f \in File |-> None] /\ seqs' = {}
  /\ UNCHANGED <<batch, chain, folds, lane, faults>>

FoldDone ==
  /\ folds > 0 /\ ~DrainReady
  /\ folds' = folds - 1
  /\ drain' = [drain EXCEPT !.left = IF @ = 0 THEN 0 ELSE @ - 1]
  /\ UNCHANGED <<batch, early, marks, seqs, chain, lane, faults>>

\* publishSaveSnapshot: the boundary is what the journal holds when the build is asked for.
StartPublish ==
  /\ drain.phase = "fold" /\ drain.left = 0
  /\ drain' = [drain EXCEPT !.phase = "publish"]
  /\ lane' = Append(lane, Build({b \in Batch : batch[b] \in {"pending", "failed", "unrecorded"}}))
  /\ UNCHANGED <<batch, early, marks, seqs, chain, folds, faults>>

\* The edition is published and acknowledges what it covers; its dense part follows.
Built ==
  /\ Head(lane).kind = "build"
  /\ batch' = [b \in Batch |-> IF b \in Head(lane).of THEN "acked" ELSE batch[b]]
  /\ lane' = Append(Tail(lane), [kind |-> "dense", of |-> {}])
  /\ UNCHANGED <<marks, seqs, chain, drain, faults>>

\* Whether the dense edition fails is not asked.  The next round begins.
DenseEnds ==
  /\ Head(lane).kind = "dense"
  /\ EndRun(marks, chain)
  /\ lane' = Tail(lane)
  /\ UNCHANGED <<batch, marks, chain, faults>>

BuildFails ==
  /\ Head(lane).kind = "build" /\ Fault
  /\ drain' = [drain EXCEPT !.phase = "record"]
  /\ lane' = Append(Tail(lane), Diagnose("failure", drain.seqs))
  /\ UNCHANGED <<batch, marks, seqs, chain>>

\* recordSaveFailure: the operations of this round failed; the run ends with the error.
FailureRecorded ==
  /\ Head(lane).kind = "failure"
  /\ batch' = [b \in Batch |-> IF b \in Head(lane).of THEN "failed" ELSE batch[b]]
  /\ EndRun(marks, chain)
  /\ lane' = Tail(lane)
  /\ UNCHANGED <<marks, chain, faults>>

\* The record cannot be written either: the operations stay pending in the journal.
RecordFails ==
  /\ Head(lane).kind = "failure" /\ Fault
  /\ batch' = [b \in Batch |-> IF b \in Head(lane).of /\ batch[b] = "pending" THEN "unrecorded" ELSE batch[b]]
  /\ EndRun(marks, chain)
  /\ lane' = Tail(lane)
  /\ UNCHANGED <<marks, chain>>

LaneStep ==
  /\ lane # <<>> /\ ~DrainReady
  /\ \/ Journaled \/ JournalFails \/ RefusalRecorded
     \/ Built \/ DenseEnds \/ BuildFails \/ FailureRecorded \/ RecordFails
  /\ UNCHANGED <<early, folds>>

Next == DrainTake \/ LaneStep \/ FoldDone \/ StartPublish \/ \E b \in Batch : Enqueue(b)

Spec == Init /\ [][Next]_vars

-----------------------------------------------------------------------------
\* When the queue is at rest no save is left in between: each one was published, or its failure
\* is on record unless the record failed too.  Only a batch whose marks were taken while it still
\* waited for the journal, or whose file has a later batch that was refused, may be left to the
\* next edition.
SavesAreSettled ==
  drain.phase = "idle" /\ lane = <<>> /\ chain = <<>> =>
    \A b \in Batch :
      \/ batch[b] \in {"new", "acked", "failed", "refused", "unrecorded"}
      \/ b \in early
      \/ \E c \in Batch : Key(c) = Key(b) /\ batch[c] = "refused"
=================================================================================
