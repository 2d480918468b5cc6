--------------------------- MODULE EditionLedgerProofs ---------------------------
(***************************************************************************)
(* What EditionLedger keeps for every set of daemons, publishers, files    *)
(* and contents, and for every bound; and what a request reads (Retrieve).  *)
(***************************************************************************)
EXTENDS EditionLedger, FiniteSetTheorems, TLAPS

-----------------------------------------------------------------------------
(* The journal operators.                                                  *)

\* An empty journal file replays to a journal.
LEMMA EmptyIsJournal == IsJournal(EmptyJournal)
BY DEF IsJournal, EmptyJournal

\* Appending a mark to a journal leaves a journal.
LEMMA RecordOperationIsJournal ==
  ASSUME NEW j, IsJournal(j), NEW s \in Nat, NEW d \in Doc, NEW c \in FileState
  PROVE  IsJournal(RecordOperation(j, s, d, c))
<1> DEFINE r == RecordOperation(j, s, d, c)
<1>1. DOMAIN r = {"ops", "shadowed", "nextJournal", "nextFrontier"}
  BY DEF RecordOperation
<1>2. /\ DOMAIN r.ops \subseteq Nat
      /\ r.ops \in [DOMAIN r.ops -> Operation]
  BY DEF RecordOperation, IsJournal, Operation, OperationState
<1>3. r.shadowed \in SUBSET Nat
  BY DEF RecordOperation, IsJournal
<1>4. r.nextJournal \in Nat \ {0} /\ r.nextFrontier \in Nat \ {0}
  BY DEF RecordOperation, IsJournal, Later
<1>5. QED
  BY <1>1, <1>2, <1>3, <1>4 DEF IsJournal

\* Recording a scan boundary leaves a journal.
LEMMA RecordScanIsJournal ==
  ASSUME NEW j, IsJournal(j), NEW f \in Nat
  PROVE  IsJournal(RecordScan(j, f))
BY DEF IsJournal, RecordScan, Later

\* A state record leaves a journal.
LEMMA ApplyStateIsJournal ==
  ASSUME NEW j, IsJournal(j), NEW s, NEW st \in OperationState
  PROVE  IsJournal(ApplyState(j, s, st))
<1> DEFINE r == ApplyState(j, s, st)
<1>1. DOMAIN r.ops = DOMAIN j.ops
  BY DEF ApplyState, IsJournal
<1>2. r.ops \in [DOMAIN r.ops -> Operation]
  BY DEF ApplyState, IsJournal, Operation
<1>3. QED
  BY <1>1, <1>2 DEF ApplyState, IsJournal

\* Marking the operations of a failed save leaves a journal.
LEMMA FailedIsJournal ==
  ASSUME NEW j, IsJournal(j), NEW seqs
  PROVE  IsJournal(Failed(j, seqs))
<1> DEFINE r == Failed(j, seqs)
<1>1. DOMAIN r.ops = DOMAIN j.ops
  BY DEF Failed, IsJournal
<1>2. r.ops \in [DOMAIN r.ops -> Operation]
  BY DEF Failed, IsJournal, Operation, OperationState
<1>3. QED
  BY <1>1, <1>2 DEF Failed, IsJournal

-----------------------------------------------------------------------------
(* Types.                                                                  *)

\* The job of an idle lane is a job.
LEMMA NoJobIsJob == NoJob \in Job
BY DEF NoJob, Job, NoDense, NoCorpus, Dense, Corpus, FileState

\* A lane that reports success stays well typed.
LEMMA SettlePublishedTypes ==
  ASSUME LaneTypes, NEW p \in Publisher, NEW b \in Nat, SettlePublished(p, b)
  PROVE  LaneTypes'
BY NoJobIsJob DEF LaneTypes, SettlePublished, Later, Phase

\* A lane that reports failure stays well typed.
LEMMA SettleFailedTypes ==
  ASSUME LaneTypes, NEW p \in Publisher, SettleFailed(p)
  PROVE  LaneTypes'
<1>1. job[p].saves \in SUBSET Nat
  BY DEF LaneTypes, Job
<1>2. QED
  BY <1>1, NoJobIsJob DEF LaneTypes, SettleFailed, Phase

\* A lane that folds again stays well typed.
LEMMA NotHeadTypes ==
  ASSUME LaneTypes, NEW p \in Publisher, NotHead(p)
  PROVE  LaneTypes'
BY DEF LaneTypes, NotHead, Phase

\* Journals stay journals when one publisher and the file get new ones.
LEMMA JournalUpdate ==
  ASSUME JournalTypes, NEW p \in Publisher, NEW j, IsJournal(j), NEW k, IsJournal(k),
         disk' = j, mem' = [mem EXCEPT ![p] = k]
  PROVE  JournalTypes'
BY DEF JournalTypes

\* The head is a number, and the editions up to it are editions.
LEMMA HeadIsNat ==
  ASSUME editions \in Seq(Edition)
  PROVE  /\ HeadSeq \in Nat
         /\ \A n \in 1..HeadSeq : editions[n] \in Edition
BY DEF HeadSeq

-----------------------------------------------------------------------------
(* The inductive invariant.                                                *)

\* What a lane remembers of the ledger is a prefix of it, and a fresh dense
\* arm on its way was embedded from the corpus it will be published with.
LaneOf(p) ==
  /\ job[p].base \in 0..HeadSeq
  /\ phase[p] \in {"expecting", "checked", "fenced"} => job[p].head \in 0..HeadSeq
  /\ job[p].kind = "dense" => HeadSeq >= 1
  /\ job[p].kind = "dense" /\ phase[p] = "building" => job[p].base >= 1
  /\ job[p].kind = "lexical" => job[p].dense.state = "unavailable"
  /\ job[p].dense.state = "fresh" /\ phase[p] # "queued" /\ phase[p] # "building"
       => job[p].dense.of = job[p].corpus

LanesFollowLedger == \A p \in Publisher : LaneOf(p)

\* Every step keeps every variable of its type.
LEMMA TypeStep == TypeOK /\ LanesFollowLedger /\ [Next]_vars => TypeOK'
<1> SUFFICES ASSUME TypeOK, LanesFollowLedger, [Next]_vars PROVE TypeOK'
  OBVIOUS
<1> USE PublisherAssumption DEF TypeOK, journalVars, daemonVars
<1>1. ASSUME NEW d \in Daemon, PublishOwner(d) PROVE TypeOK'
  BY <1>1 DEF PublishOwner, JournalTypes, LaneTypes
<1>2. ASSUME NEW d \in Daemon, RemoveOwner(d) PROVE TypeOK'
  BY <1>2 DEF RemoveOwner, JournalTypes, LaneTypes
<1>3. ASSUME NEW d \in Daemon, Crash(d) PROVE TypeOK'
  BY <1>3, NoJobIsJob DEF Crash, Phase, JournalTypes, LaneTypes
<1>4. ASSUME NEW p \in Publisher, Open(p) PROVE TypeOK'
  BY <1>4 DEF Open, Replayed, JournalTypes, LaneTypes
<1>5. ASSUME NEW p \in Publisher, Release(p) PROVE TypeOK'
  BY <1>5 DEF Release, JournalTypes, LaneTypes
<1>6. ASSUME NEW p \in Publisher, Close(p) PROVE TypeOK'
  BY <1>6 DEF Close, JournalTypes, LaneTypes
<1>7. ASSUME NEW p \in Publisher, NEW d \in Doc, NEW c \in FileState,
             MarkDirty(p, d, c)
      PROVE  TypeOK'
  <2> DEFINE s == mem[p].nextJournal
  <2>1. s \in Nat /\ IsJournal(mem[p]) /\ IsJournal(disk)
    BY DEF JournalTypes, IsJournal
  <2>2. /\ IsJournal(RecordOperation(disk, s, d, c))
        /\ IsJournal(RecordOperation(mem[p], s, d, c))
    BY <2>1, RecordOperationIsJournal
  <2>3. JournalTypes'
    BY <1>7, <2>2, JournalUpdate DEF MarkDirty
  <2>4. unsaved' \in [Publisher -> SUBSET Nat]
    BY <1>7, <2>1 DEF MarkDirty
  <2>5. LaneTypes'
    BY <1>7 DEF MarkDirty, LaneTypes
  <2>6. QED
    BY <1>7, <2>3, <2>4, <2>5 DEF MarkDirty
<1>8. ASSUME NEW p \in Publisher, MarkFailed(p) PROVE TypeOK'
  <2>1. ASSUME NEW j, IsJournal(j) PROVE IsJournal(Failed(j, failing[p]))
    BY <2>1, FailedIsJournal
  <2>2. JournalTypes'
    BY <1>8, <2>1, JournalUpdate DEF MarkFailed, JournalTypes
  <2>3. LaneTypes'
    BY <1>8 DEF MarkFailed, LaneTypes
  <2>4. QED
    BY <1>8, <2>2, <2>3 DEF MarkFailed
<1>9. ASSUME NEW p \in Publisher, NEW saves \in SUBSET Nat,
             RequestLexical(p, saves)
      PROVE  TypeOK'
  <2> DEFINE f == mem[p].nextFrontier
  <2>1. f \in Nat /\ IsJournal(mem[p]) /\ IsJournal(disk)
    BY DEF JournalTypes, IsJournal
  <2>2. JournalTypes'
    BY <1>9, <2>1, RecordScanIsJournal, JournalUpdate DEF RequestLexical
  <2>3. ScanBoundary(mem[p]) \in Nat
    BY <2>1 DEF ScanBoundary, IsJournal
  <2>4. [NoJob EXCEPT !.saves = saves, !.frontier = f,
                      !.boundary = ScanBoundary(mem[p])] \in Job
    BY <2>1, <2>3, NoJobIsJob DEF Job
  <2>5. LaneTypes'
    BY <1>9, <2>4 DEF RequestLexical, LaneTypes, Phase
  <2>6. unsaved' \in [Publisher -> SUBSET Nat]
    BY <1>9 DEF RequestLexical
  <2>7. QED
    BY <1>9, <2>2, <2>5, <2>6 DEF RequestLexical
<1>10. ASSUME NEW p \in Publisher, RequestRefresh(p) PROVE TypeOK'
  BY <1>9, <1>10 DEF RequestRefresh
<1>11. ASSUME NEW p \in Publisher, RequestSave(p) PROVE TypeOK'
  BY <1>9, <1>11 DEF RequestSave
<1>12. ASSUME NEW p \in Publisher, NEW n \in 1..HeadSeq, NEW force \in BOOLEAN,
              RequestDense(p, n, force)
       PROVE  TypeOK'
  <2>1. editions[n].corpus \in Corpus
    BY HeadIsNat DEF Edition
  <2>2. [NoJob EXCEPT !.kind = "dense", !.force = force,
                      !.target = editions[n].corpus] \in Job
    BY <2>1, NoJobIsJob DEF Job
  <2>3. LaneTypes'
    BY <1>12, <2>2 DEF RequestDense, LaneTypes, Phase
  <2>4. QED
    BY <1>12, <2>3 DEF RequestDense, JournalTypes
<1>13. ASSUME NEW p \in Publisher, Fold(p) PROVE TypeOK'
  <2>1. job[p].boundary \in Nat /\ HeadSeq \in Nat /\ job[p] \in Job
    BY HeadIsNat DEF LaneTypes, Job
  <2>2. CASE SettlePublished(p, job[p].boundary)
    BY <1>13, <2>1, <2>2, SettlePublishedTypes DEF Fold, JournalTypes
  <2>3. CASE SettlePublished(p, 0)
    BY <1>13, <2>3, SettlePublishedTypes DEF Fold, JournalTypes
  <2>4. CASE SettleFailed(p)
    BY <1>13, <2>4, SettleFailedTypes DEF Fold, JournalTypes
  <2>5. CASE /\ phase' = [phase EXCEPT ![p] = "building"]
             /\ job' = [job EXCEPT ![p].base = HeadSeq]
             /\ UNCHANGED <<failing, settled>>
    <3>1. [job[p] EXCEPT !.base = HeadSeq] \in Job
      BY <2>1 DEF Job
    <3>2. LaneTypes'
      BY <2>5, <3>1 DEF LaneTypes, Phase
    <3>3. QED
      BY <1>13, <3>2 DEF Fold, JournalTypes
  <2>6. QED
    BY <1>13, <2>2, <2>3, <2>4, <2>5 DEF Fold
<1>14. ASSUME NEW p \in Publisher, NEW corpus \in Corpus, BuildSnapshot(p, corpus)
       PROVE  TypeOK'
  <2>1. [job[p] EXCEPT !.corpus = corpus] \in Job
    <3>1. job[p] \in Job
      BY DEF LaneTypes
    <3>2. QED
      BY <3>1 DEF Job
  <2>2. LaneTypes'
    BY <1>14, <2>1 DEF BuildSnapshot, LaneTypes, Phase
  <2>3. QED
    BY <1>14, <2>2 DEF BuildSnapshot, JournalTypes
<1>15. ASSUME NEW p \in Publisher, NEW outcome \in {"fresh", "failed"},
              BuildDense(p, outcome)
       PROVE  TypeOK'
  <2> DEFINE base == editions[job[p].base]
             built == [job[p] EXCEPT !.corpus = base.corpus,
                                     !.frontier = base.frontier,
                                     !.boundary = base.boundary,
                                     !.dense = [state |-> outcome, of |-> base.corpus]]
  <2>1. base \in Edition
    <3>1. LaneOf(p) /\ phase[p] = "building" /\ job[p].kind = "dense"
      BY <1>15 DEF BuildDense, LanesFollowLedger
    <3>2. job[p].base \in 1..HeadSeq
      BY <3>1, HeadIsNat DEF LaneOf
    <3>3. QED
      BY <3>2, HeadIsNat
  <2>2. [state |-> outcome, of |-> base.corpus] \in Dense
    BY <2>1 DEF Edition, Dense
  <2>3. built \in Job
    <3>1. /\ job[p] \in Job
          /\ base.corpus \in Corpus /\ base.frontier \in Nat /\ base.boundary \in Nat
      BY <2>1 DEF LaneTypes, Edition
    <3>2. QED
      BY <2>2, <3>1 DEF Job
  <2>4. job' = [job EXCEPT ![p] = built]
    BY <1>15 DEF BuildDense, LaneTypes
  <2>5. LaneTypes'
    BY <1>15, <2>3, <2>4 DEF BuildDense, LaneTypes, Phase
  <2>6. QED
    BY <1>15, <2>5 DEF BuildDense, JournalTypes
<1>16. ASSUME NEW p \in Publisher, BuildFails(p) PROVE TypeOK'
  BY <1>16, SettleFailedTypes DEF BuildFails, JournalTypes
<1>17. ASSUME NEW p \in Publisher, ReadHead(p) PROVE TypeOK'
  <2>1. CASE SettleFailed(p)
    BY <1>17, <2>1, SettleFailedTypes DEF ReadHead, JournalTypes
  <2>2. CASE /\ job' = [job EXCEPT ![p].head = HeadSeq]
             /\ phase' = [phase EXCEPT ![p] = "expecting"]
             /\ UNCHANGED <<failing, settled>>
    <3>1. [job[p] EXCEPT !.head = HeadSeq] \in Job
      <4>1. job[p] \in Job
        BY DEF LaneTypes
      <4>2. HeadSeq \in Nat
        BY HeadIsNat
      <4>3. QED
        BY <4>1, <4>2 DEF Job
    <3>2. LaneTypes'
      BY <2>2, <3>1 DEF LaneTypes, Phase
    <3>3. QED
      BY <1>17, <3>2 DEF ReadHead, JournalTypes
  <2>3. QED
    BY <1>17, <2>1, <2>2 DEF ReadHead
<1>18. ASSUME NEW p \in Publisher, CheckHead(p) PROVE TypeOK'
  <2>1. CASE NotHead(p)
    BY <1>18, <2>1, NotHeadTypes DEF CheckHead, JournalTypes
  <2>2. CASE /\ phase' = [phase EXCEPT ![p] = "checked"]
             /\ UNCHANGED <<job, failing, settled>>
    BY <1>18, <2>2 DEF CheckHead, JournalTypes, LaneTypes, Phase
  <2>3. QED
    BY <1>18, <2>1, <2>2 DEF CheckHead
<1>19. ASSUME NEW p \in Publisher, CheckFence(p) PROVE TypeOK'
  <2>1. CASE SettleFailed(p)
    BY <1>19, <2>1, SettleFailedTypes DEF CheckFence, JournalTypes
  <2>2. CASE /\ phase' = [phase EXCEPT ![p] = "fenced"]
             /\ UNCHANGED <<job, failing, settled>>
    BY <1>19, <2>2 DEF CheckFence, JournalTypes, LaneTypes, Phase
  <2>3. QED
    BY <1>19, <2>1, <2>2 DEF CheckFence
<1>20. ASSUME NEW p \in Publisher, NEW acks \in SUBSET Nat, Link(p, acks),
              job[p].frontier # 0
       PROVE  /\ editions' \in Seq(Edition)
              /\ unacked' \in [Publisher -> SUBSET Nat]
              /\ LaneTypes'
  <2>1. CASE HeadSeq # job[p].head /\ NotHead(p) /\ UNCHANGED <<editions, unacked>>
    BY <2>1, NotHeadTypes
  <2>2. CASE /\ editions' = Append(editions, Candidate(p))
             /\ phase' = [phase EXCEPT ![p] = "linked"]
             /\ unacked' = [unacked EXCEPT ![p] = acks]
             /\ UNCHANGED <<job, failing, settled>>
    <3>1. /\ job[p] \in Job
          /\ DaemonOf[p] \in Daemon
      BY DEF LaneTypes
    <3>2. Candidate(p) \in Edition
      BY <1>20, <3>1 DEF Candidate, Edition, Job
    <3>3. editions' \in Seq(Edition)
      BY <2>2, <3>2
    <3>4. LaneTypes'
      BY <2>2 DEF LaneTypes, Phase
    <3>5. QED
      BY <2>2, <3>3, <3>4
  <2>3. QED
    BY <1>20, <2>1, <2>2 DEF Link
<1>21. ASSUME NEW p \in Publisher, CommitAdvance(p) PROVE TypeOK'
  <2>1. Dirty(mem[p], job[p].boundary) \in SUBSET Nat
    BY DEF Dirty, JournalTypes, IsJournal
  <2>2. job[p].frontier # 0
    <3>1. job[p] \in Job /\ LaneOf(p) /\ phase[p] = "fenced"
      BY <1>21 DEF LaneTypes, CommitAdvance, LanesFollowLedger
    <3>2. CASE job[p].head = 0
      BY <1>21, <3>1, <3>2 DEF CommitAdvance, AdvancesCorpus, Job
    <3>3. CASE job[p].head # 0
      <4>1. job[p].head \in 1..HeadSeq
        BY <3>1, <3>3, HeadIsNat DEF LaneOf
      <4>2. editions[job[p].head] \in Edition
        BY <4>1, HeadIsNat
      <4>3. job[p].frontier > editions[job[p].head].frontier
        BY <1>21, <3>3 DEF CommitAdvance, AdvancesCorpus
      <4>4. QED
        BY <3>1, <4>2, <4>3 DEF Job, Edition
    <3>4. QED
      BY <3>2, <3>3
  <2>3. CASE Link(p, Dirty(mem[p], job[p].boundary))
    BY <1>21, <1>20, <2>1, <2>2, <2>3 DEF CommitAdvance, JournalTypes
  <2>4. CASE SettleFailed(p) /\ UNCHANGED <<editions, unacked>>
    BY <1>21, <2>4, SettleFailedTypes DEF CommitAdvance, JournalTypes
  <2>5. QED
    BY <1>21, <2>3, <2>4 DEF CommitAdvance
<1>22. ASSUME NEW p \in Publisher, CommitSameFrontier(p) PROVE TypeOK'
  <2>1. job[p].frontier # 0
    <3>1. LaneOf(p) /\ phase[p] = "fenced"
      BY <1>22 DEF CommitSameFrontier, LanesFollowLedger
    <3>2. job[p].head \in 1..HeadSeq
      BY <1>22, <3>1, HeadIsNat DEF CommitSameFrontier, KeepsFrontier, LaneOf
    <3>3. editions[job[p].head] \in Edition
      BY <3>2, HeadIsNat
    <3>4. QED
      BY <1>22, <3>3 DEF CommitSameFrontier, KeepsFrontier, Edition
  <2>2. CASE Link(p, {})
    BY <1>22, <1>20, <2>1, <2>2 DEF CommitSameFrontier, JournalTypes
  <2>3. CASE NotHead(p) /\ UNCHANGED <<editions, unacked>>
    BY <1>22, <2>3, NotHeadTypes DEF CommitSameFrontier, JournalTypes
  <2>4. CASE SettleFailed(p) /\ UNCHANGED <<editions, unacked>>
    BY <1>22, <2>4, SettleFailedTypes DEF CommitSameFrontier, JournalTypes
  <2>5. QED
    BY <1>22, <2>2, <2>3, <2>4 DEF CommitSameFrontier
<1>23. ASSUME NEW p \in Publisher, CommitRejected(p) PROVE TypeOK'
  BY <1>23, SettleFailedTypes DEF CommitRejected, JournalTypes
<1>24. ASSUME NEW p \in Publisher, Ack(p) PROVE TypeOK'
  <2> PICK s \in unacked[p] :
        /\ disk' = ApplyState(disk, s, "acked")
        /\ mem' = [mem EXCEPT ![p] = ApplyState(mem[p], s, "acked")]
        /\ unacked' = [unacked EXCEPT ![p] = unacked[p] \ {s}]
        /\ UNCHANGED <<daemonVars, editions, status, phase, job, unsaved, failing,
                       settled>>
    BY <1>24 DEF Ack
  <2>1. JournalTypes'
    <3>1. IsJournal(disk) /\ IsJournal(mem[p])
      BY DEF JournalTypes
    <3>2. /\ IsJournal(ApplyState(disk, s, "acked"))
          /\ IsJournal(ApplyState(mem[p], s, "acked"))
      BY <3>1, ApplyStateIsJournal DEF OperationState
    <3>3. QED
      BY <3>2, JournalUpdate
  <2>2. LaneTypes'
    BY DEF LaneTypes
  <2>3. QED
    BY <2>1, <2>2
<1>25. ASSUME NEW p \in Publisher, CommitThrows(p) PROVE TypeOK'
  BY <1>25, SettleFailedTypes DEF CommitThrows, JournalTypes
<1>26. ASSUME NEW p \in Publisher, Committed(p) PROVE TypeOK'
  <2> DEFINE b == IF job[p].kind = "lexical" THEN job[p].boundary ELSE 0
  <2>1. b \in Nat
    BY DEF LaneTypes, Job
  <2>2. LaneTypes'
    BY <1>26, <2>1, SettlePublishedTypes DEF Committed
  <2>3. QED
    BY <1>26, <2>2 DEF Committed, JournalTypes
<1>27. CASE UNCHANGED vars
  BY <1>27 DEF vars, JournalTypes, LaneTypes
<1>28. QED
  BY <1>1, <1>2, <1>3, <1>4, <1>5, <1>6, <1>7, <1>8, <1>10, <1>11, <1>12, <1>13,
     <1>14, <1>15, <1>16, <1>17, <1>18, <1>19, <1>21, <1>22, <1>23, <1>24,
     <1>25, <1>26, <1>27 DEF Next

-----------------------------------------------------------------------------
(* Every step publishes one edition in order, or none.                     *)

\* What Link appends continues the log when the validation before it passed.
LEMMA LinkPublishes ==
  ASSUME TypeOK, LanesFollowLedger, NEW p \in Publisher, \E acks : Link(p, acks),
         phase[p] = "fenced",
         AdvancesCorpus(job[p]) \/ (KeepsFrontier(job[p]) /\ SameCorpus(job[p]))
  PROVE  Log!Publish \/ UNCHANGED editions
<1>1. CASE HeadSeq # job[p].head /\ NotHead(p) /\ UNCHANGED <<editions, unacked>>
  BY <1>1
<1>2. CASE HeadSeq = job[p].head /\ editions' = Append(editions, Candidate(p))
  <2> DEFINE e == Candidate(p)
  <2>1. /\ job[p] \in Job /\ LaneOf(p) /\ editions \in Seq(Edition)
        /\ HeadSeq \in Nat
    BY HeadIsNat DEF TypeOK, LaneTypes, LanesFollowLedger
  <2>2. /\ Len(editions') = Len(editions) + 1
        /\ \A i \in 1..Len(editions) : editions'[i] = editions[i]
        /\ editions'[Len(editions')] = e
    BY <1>2, <2>1
  <2>3. editions # << >> => /\ HeadSeq \in 1..HeadSeq
                            /\ editions[HeadSeq] \in Edition
    BY <2>1, HeadIsNat DEF HeadSeq
  <2>4. e.dense.state = "fresh" => e.dense.of = e.corpus
    BY <2>1 DEF Candidate, LaneOf
  <2>5. e.frontier \in Nat \ {0} /\ (Log!NewFrontier(e) \/ Log!SameFrontier(e))
    <3>1. CASE editions = << >>
      BY <1>2, <2>1, <3>1 DEF Candidate, AdvancesCorpus, KeepsFrontier, HeadSeq,
         Log!NewFrontier, Job
    <3>2. CASE editions # << >> /\ AdvancesCorpus(job[p])
      BY <1>2, <2>1, <2>3, <3>2 DEF Candidate, AdvancesCorpus, HeadSeq, Job, Edition,
         Log!NewFrontier
    <3>3. CASE /\ editions # << >>
               /\ KeepsFrontier(job[p]) /\ SameCorpus(job[p])
      BY <1>2, <2>1, <2>3, <3>3 DEF Candidate, KeepsFrontier, SameCorpus, HeadSeq,
         Edition, Log!SameFrontier
    <3>4. QED
      BY <3>1, <3>2, <3>3, <1>2, <2>1 DEF KeepsFrontier, HeadSeq
  <2>6. e.corpus \in Corpus
    BY <2>1 DEF Candidate, Job
  <2>7. QED
    BY <2>2, <2>4, <2>5, <2>6 DEF Log!Publish, Log!IsEdition
<1>3. QED
  BY <1>1, <1>2 DEF Link

\* No other step touches the ledger.
LEMMA StepPublishes ==
  TypeOK /\ LanesFollowLedger /\ [Next]_vars => Log!Publish \/ UNCHANGED editions
<1> SUFFICES ASSUME TypeOK, LanesFollowLedger, [Next]_vars
             PROVE  Log!Publish \/ UNCHANGED editions
  OBVIOUS
<1>1. ASSUME NEW d \in Daemon, PublishOwner(d) \/ RemoveOwner(d) \/ Crash(d)
      PROVE  UNCHANGED editions
  BY <1>1 DEF PublishOwner, RemoveOwner, Crash
<1>2. ASSUME NEW p \in Publisher, CommitAdvance(p)
      PROVE  Log!Publish \/ UNCHANGED editions
  <2>1. CASE UNCHANGED <<editions, unacked>>
    BY <2>1
  <2>2. CASE Link(p, Dirty(mem[p], job[p].boundary))
    <3>1. \E acks : Link(p, acks)
      BY <2>2
    <3>2. phase[p] = "fenced"
      BY <1>2 DEF CommitAdvance
    <3>3. AdvancesCorpus(job[p]) \/ (KeepsFrontier(job[p]) /\ SameCorpus(job[p]))
      BY <1>2 DEF CommitAdvance
    <3>4. QED
      BY <3>1, <3>2, <3>3, LinkPublishes
  <2>3. QED
    BY <1>2, <2>1, <2>2 DEF CommitAdvance
<1>3. ASSUME NEW p \in Publisher, CommitSameFrontier(p)
      PROVE  Log!Publish \/ UNCHANGED editions
  <2>1. CASE UNCHANGED <<editions, unacked>>
    BY <2>1
  <2>2. CASE SameCorpus(job[p]) /\ Link(p, {})
    <3>1. \E acks : Link(p, acks)
      BY <2>2
    <3>2. phase[p] = "fenced"
      BY <1>3 DEF CommitSameFrontier
    <3>3. AdvancesCorpus(job[p]) \/ (KeepsFrontier(job[p]) /\ SameCorpus(job[p]))
      BY <1>3, <2>2 DEF CommitSameFrontier
    <3>4. QED
      BY <3>1, <3>2, <3>3, LinkPublishes
  <2>3. QED
    BY <1>3, <2>1, <2>2 DEF CommitSameFrontier
<1>4. ASSUME NEW p \in Publisher,
             \/ Open(p) \/ Release(p) \/ Close(p) \/ MarkFailed(p)
             \/ RequestRefresh(p) \/ RequestSave(p) \/ Fold(p) \/ BuildFails(p)
      PROVE  UNCHANGED editions
  BY <1>4 DEF Open, Release, Close, MarkFailed, RequestRefresh, RequestSave,
     RequestLexical, Fold, BuildFails
<1>5. ASSUME NEW p \in Publisher,
             \/ ReadHead(p) \/ CheckHead(p) \/ CheckFence(p) \/ CommitRejected(p)
             \/ Ack(p) \/ CommitThrows(p) \/ Committed(p)
      PROVE  UNCHANGED editions
  BY <1>5 DEF ReadHead, CheckHead, CheckFence, CommitRejected, Ack, CommitThrows,
     Committed
<1>6. ASSUME NEW p \in Publisher, NEW d \in Doc, NEW c \in FileState,
             MarkDirty(p, d, c)
      PROVE  UNCHANGED editions
  BY <1>6 DEF MarkDirty
<1>7. ASSUME NEW p \in Publisher, NEW n \in 1..HeadSeq, NEW force \in BOOLEAN,
             RequestDense(p, n, force)
      PROVE  UNCHANGED editions
  BY <1>7 DEF RequestDense
<1>8. ASSUME NEW p \in Publisher, NEW corpus \in Corpus, BuildSnapshot(p, corpus)
      PROVE  UNCHANGED editions
  BY <1>8 DEF BuildSnapshot
<1>9. ASSUME NEW p \in Publisher, NEW outcome \in {"fresh", "failed"},
             BuildDense(p, outcome)
      PROVE  UNCHANGED editions
  BY <1>9 DEF BuildDense
<1>10. CASE UNCHANGED vars
  BY <1>10 DEF vars
<1>11. QED
  BY <1>1, <1>2, <1>3, <1>4, <1>5, <1>6, <1>7, <1>8, <1>9, <1>10 DEF Next

-----------------------------------------------------------------------------
(* What a lane remembers stays true of the growing ledger.                 *)

\* The ledger never shrinks.
LEMMA HeadGrows ==
  ASSUME TypeOK, LanesFollowLedger, [Next]_vars
  PROVE  HeadSeq \in Nat /\ HeadSeq' \in Nat /\ HeadSeq' >= HeadSeq
<1>1. HeadSeq \in Nat
  BY HeadIsNat DEF TypeOK
<1>2. HeadSeq' = HeadSeq \/ HeadSeq' = HeadSeq + 1
  BY StepPublishes DEF HeadSeq, Log!Publish
<1>3. QED
  BY <1>1, <1>2

\* A lane that the step leaves alone, or leaves idle.
LEMMA LaneKept ==
  ASSUME HeadSeq \in Nat, HeadSeq' \in Nat, HeadSeq' >= HeadSeq,
         NEW q, LaneOf(q), phase'[q] = phase[q], job'[q] = job[q]
  PROVE  LaneOf(q)'
BY DEF LaneOf

\* A lane without a job remembers nothing that could be wrong.
LEMMA LaneIdle ==
  ASSUME HeadSeq' \in Nat, NEW q, phase'[q] = "idle", job'[q] = NoJob
  PROVE  LaneOf(q)'
BY DEF LaneOf, NoJob, NoDense

\* The step of one lane is all there is to show: the others are left alone.
LEMMA OneLane ==
  ASSUME TypeOK, LanesFollowLedger, [Next]_vars, NEW p \in Publisher, LaneOf(p)',
         \A q \in Publisher \ {p} : phase'[q] = phase[q] /\ job'[q] = job[q]
  PROVE  LanesFollowLedger'
<1>1. ASSUME NEW q \in Publisher \ {p} PROVE LaneOf(q)'
  BY <1>1, HeadGrows, LaneKept DEF LanesFollowLedger
<1>2. QED
  BY <1>1 DEF LanesFollowLedger

\* A lane that settles its intent is idle.
LEMMA SettledLane ==
  ASSUME TypeOK, LanesFollowLedger, [Next]_vars, NEW p \in Publisher,
         \/ SettleFailed(p)
         \/ \E b \in Nat : SettlePublished(p, b)
  PROVE  LanesFollowLedger'
<1>1. /\ phase' = [phase EXCEPT ![p] = "idle"]
      /\ job' = [job EXCEPT ![p] = NoJob]
  BY DEF SettleFailed, SettlePublished
<1>2. phase'[p] = "idle" /\ job'[p] = NoJob
  BY <1>1 DEF TypeOK, LaneTypes
<1>3. LaneOf(p)'
  BY <1>2, HeadGrows, LaneIdle
<1>4. QED
  BY <1>1, <1>3, OneLane DEF TypeOK, LaneTypes

\* A lane whose commit found another head keeps its job.
LEMMA QueuedLane ==
  ASSUME TypeOK, LanesFollowLedger, [Next]_vars, NEW p \in Publisher, NotHead(p)
  PROVE  LanesFollowLedger'
<1>1. /\ phase'[p] = "queued" /\ job' = job
      /\ \A q \in Publisher \ {p} : phase'[q] = phase[q]
  BY DEF NotHead, TypeOK, LaneTypes
<1>2. LaneOf(p) /\ job[p] \in Job
  BY DEF LanesFollowLedger, TypeOK, LaneTypes
<1>3. LaneOf(p)'
  BY <1>1, <1>2, HeadGrows DEF LaneOf
<1>4. QED
  BY <1>1, <1>3, OneLane

\* Every step keeps what each lane remembers of the ledger true.
LEMMA LaneStep == TypeOK /\ LanesFollowLedger /\ [Next]_vars => LanesFollowLedger'
<1> SUFFICES ASSUME TypeOK, LanesFollowLedger, [Next]_vars PROVE LanesFollowLedger'
  OBVIOUS
<1>0. /\ \A p \in Publisher : LaneOf(p) /\ job[p] \in Job
      /\ job \in [Publisher -> Job] /\ phase \in [Publisher -> Phase]
      /\ HeadSeq \in Nat /\ HeadSeq' \in Nat /\ HeadSeq' >= HeadSeq
  BY HeadGrows DEF LanesFollowLedger, TypeOK, LaneTypes
<1>1. CASE UNCHANGED <<phase, job>>
  BY <1>0, <1>1, LaneKept DEF LanesFollowLedger
<1>2. ASSUME NEW d \in Daemon, PublishOwner(d) \/ RemoveOwner(d)
      PROVE  LanesFollowLedger'
  BY <1>1, <1>2 DEF PublishOwner, RemoveOwner
<1>3. ASSUME NEW d \in Daemon, Crash(d) PROVE LanesFollowLedger'
  <2>1. ASSUME NEW q \in Publisher PROVE LaneOf(q)'
    <3>1. CASE DaemonOf[q] = d
      BY <1>0, <1>3, <3>1, LaneIdle DEF Crash
    <3>2. CASE DaemonOf[q] # d
      BY <1>0, <1>3, <3>2, LaneKept DEF Crash
    <3>3. QED
      BY <3>1, <3>2
  <2>2. QED
    BY <2>1 DEF LanesFollowLedger
<1>4. ASSUME NEW p \in Publisher,
             Open(p) \/ Release(p) \/ Close(p) \/ MarkFailed(p) \/ Ack(p)
      PROVE  LanesFollowLedger'
  BY <1>1, <1>4 DEF Open, Release, Close, MarkFailed, Ack
<1>5. ASSUME NEW p \in Publisher, NEW d \in Doc, NEW c \in FileState,
             MarkDirty(p, d, c)
      PROVE  LanesFollowLedger'
  BY <1>1, <1>5 DEF MarkDirty
<1>6. ASSUME NEW p \in Publisher, NEW saves, RequestLexical(p, saves)
      PROVE  LanesFollowLedger'
  <2>1. /\ job'[p].base = 0 /\ job'[p].kind = "lexical"
        /\ job'[p].dense.state = "unavailable" /\ phase'[p] = "queued"
        /\ \A q \in Publisher \ {p} : phase'[q] = phase[q] /\ job'[q] = job[q]
    BY <1>0, <1>6 DEF RequestLexical, NoJob, NoDense
  <2>2. LaneOf(p)'
    BY <1>0, <2>1 DEF LaneOf
  <2>3. QED
    BY <2>1, <2>2, OneLane
<1>7. ASSUME NEW p \in Publisher, RequestRefresh(p) \/ RequestSave(p)
      PROVE  LanesFollowLedger'
  BY <1>6, <1>7 DEF RequestRefresh, RequestSave
<1>8. ASSUME NEW p \in Publisher, NEW n \in 1..HeadSeq, NEW force \in BOOLEAN,
             RequestDense(p, n, force)
      PROVE  LanesFollowLedger'
  <2>1. /\ job'[p].base = 0 /\ job'[p].kind = "dense"
        /\ job'[p].dense.state = "unavailable" /\ phase'[p] = "queued"
        /\ \A q \in Publisher \ {p} : phase'[q] = phase[q] /\ job'[q] = job[q]
    BY <1>0, <1>8 DEF RequestDense, NoJob, NoDense
  <2>2. LaneOf(p)'
    BY <1>0, <2>1 DEF LaneOf
  <2>3. QED
    BY <2>1, <2>2, OneLane
<1>9. ASSUME NEW p \in Publisher, Fold(p) PROVE LanesFollowLedger'
  <2>1. CASE SettlePublished(p, job[p].boundary)
    BY <1>0, <2>1, SettledLane DEF Job
  <2>2. CASE SettlePublished(p, 0)
    BY <2>2, SettledLane
  <2>3. CASE SettleFailed(p)
    BY <2>3, SettledLane
  <2>4. CASE /\ phase' = [phase EXCEPT ![p] = "building"]
             /\ job' = [job EXCEPT ![p].base = HeadSeq]
    <3>1. /\ phase'[p] = "building" /\ job'[p] = [job[p] EXCEPT !.base = HeadSeq]
          /\ \A q \in Publisher \ {p} : phase'[q] = phase[q] /\ job'[q] = job[q]
      BY <1>0, <2>4
    <3>2. /\ job'[p].base = HeadSeq /\ job'[p].kind = job[p].kind
          /\ job'[p].dense = job[p].dense
      BY <1>0, <3>1 DEF Job
    <3>3. LaneOf(p)'
      BY <1>0, <3>1, <3>2 DEF LaneOf
    <3>4. QED
      BY <3>1, <3>3, OneLane
  <2>5. QED
    BY <1>9, <2>1, <2>2, <2>3, <2>4 DEF Fold
<1>10. ASSUME NEW p \in Publisher, NEW corpus \in Corpus, BuildSnapshot(p, corpus)
       PROVE  LanesFollowLedger'
  <2>1. /\ phase'[p] = "built" /\ job'[p] = [job[p] EXCEPT !.corpus = corpus]
        /\ \A q \in Publisher \ {p} : phase'[q] = phase[q] /\ job'[q] = job[q]
    BY <1>0, <1>10 DEF BuildSnapshot
  <2>2. /\ job'[p].base = job[p].base /\ job'[p].kind = "lexical"
        /\ job'[p].dense = job[p].dense /\ job[p].kind = "lexical"
    BY <1>0, <1>10, <2>1 DEF BuildSnapshot, Job
  <2>3. LaneOf(p)'
    BY <1>0, <2>1, <2>2 DEF LaneOf
  <2>4. QED
    BY <2>1, <2>3, OneLane
<1>11. ASSUME NEW p \in Publisher, NEW outcome \in {"fresh", "failed"},
              BuildDense(p, outcome)
       PROVE  LanesFollowLedger'
  <2> DEFINE base == editions[job[p].base]
  <2>1. /\ phase'[p] = "built" /\ job[p].kind = "dense" /\ phase[p] = "building"
        /\ job'[p] = [job[p] EXCEPT
             !.corpus = base.corpus, !.frontier = base.frontier,
             !.boundary = base.boundary,
             !.dense = [state |-> outcome, of |-> base.corpus]]
        /\ \A q \in Publisher \ {p} : phase'[q] = phase[q] /\ job'[q] = job[q]
    BY <1>0, <1>11 DEF BuildDense
  <2>2. /\ job'[p].base = job[p].base /\ job'[p].kind = job[p].kind
        /\ job'[p].corpus = base.corpus /\ job'[p].dense.of = base.corpus
    BY <1>0, <2>1 DEF Job
  <2>3. LaneOf(p)'
    BY <1>0, <2>1, <2>2 DEF LaneOf
  <2>4. QED
    BY <2>1, <2>3, OneLane
<1>12. ASSUME NEW p \in Publisher,
              BuildFails(p) \/ CommitRejected(p) \/ CommitThrows(p)
       PROVE  LanesFollowLedger'
  BY <1>12, SettledLane DEF BuildFails, CommitRejected, CommitThrows
<1>13. ASSUME NEW p \in Publisher, ReadHead(p) PROVE LanesFollowLedger'
  <2>1. CASE SettleFailed(p)
    BY <2>1, SettledLane
  <2>2. CASE /\ job' = [job EXCEPT ![p].head = HeadSeq]
             /\ phase' = [phase EXCEPT ![p] = "expecting"]
    <3>1. /\ phase'[p] = "expecting" /\ job'[p] = [job[p] EXCEPT !.head = HeadSeq]
          /\ phase[p] = "built"
          /\ \A q \in Publisher \ {p} : phase'[q] = phase[q] /\ job'[q] = job[q]
      BY <1>0, <1>13, <2>2 DEF ReadHead
    <3>2. /\ job'[p].base = job[p].base /\ job'[p].kind = job[p].kind
          /\ job'[p].dense = job[p].dense /\ job'[p].corpus = job[p].corpus
          /\ job'[p].head = HeadSeq
      BY <1>0, <3>1 DEF Job
    <3>3. LaneOf(p)'
      BY <1>0, <3>1, <3>2 DEF LaneOf
    <3>4. QED
      BY <3>1, <3>3, OneLane
  <2>3. QED
    BY <1>13, <2>1, <2>2 DEF ReadHead
<1>14. ASSUME NEW p \in Publisher, phase[p] \in {"expecting", "checked", "fenced"},
              \/ phase' = [phase EXCEPT ![p] = "checked"]
              \/ phase' = [phase EXCEPT ![p] = "fenced"]
              \/ phase' = [phase EXCEPT ![p] = "linked"],
              job' = job
       PROVE  LanesFollowLedger'
  <2>1. /\ phase'[p] \in {"checked", "fenced", "linked"}
        /\ \A q \in Publisher \ {p} : phase'[q] = phase[q] /\ job'[q] = job[q]
    BY <1>0, <1>14
  <2>2. LaneOf(p)'
    BY <1>0, <1>14, <2>1 DEF LaneOf
  <2>3. QED
    BY <2>1, <2>2, OneLane
<1>15. ASSUME NEW p \in Publisher, CheckHead(p) PROVE LanesFollowLedger'
  BY <1>14, <1>15, QueuedLane DEF CheckHead
<1>16. ASSUME NEW p \in Publisher, CheckFence(p) PROVE LanesFollowLedger'
  BY <1>14, <1>16, SettledLane DEF CheckFence
<1>17. ASSUME NEW p \in Publisher, NEW acks \in SUBSET Nat, phase[p] = "fenced",
              Link(p, acks)
       PROVE  LanesFollowLedger'
  BY <1>14, <1>17, QueuedLane DEF Link
<1>18. ASSUME NEW p \in Publisher, CommitAdvance(p) PROVE LanesFollowLedger'
  <2>1. Dirty(mem[p], job[p].boundary) \in SUBSET Nat
    BY DEF Dirty, TypeOK, JournalTypes, IsJournal
  <2>2. QED
    BY <1>17, <1>18, <2>1, SettledLane DEF CommitAdvance
<1>19. ASSUME NEW p \in Publisher, CommitSameFrontier(p) PROVE LanesFollowLedger'
  BY <1>17, <1>19, SettledLane, QueuedLane DEF CommitSameFrontier
<1>20. ASSUME NEW p \in Publisher, Committed(p) PROVE LanesFollowLedger'
  <2>1. (IF job[p].kind = "lexical" THEN job[p].boundary ELSE 0) \in Nat
    BY <1>0 DEF Job
  <2>2. QED
    BY <1>20, <2>1, SettledLane DEF Committed
<1>21. CASE UNCHANGED vars
  BY <1>1, <1>21 DEF vars
<1>22. QED
  BY <1>2, <1>3, <1>4, <1>5, <1>7, <1>8, <1>9, <1>10, <1>11, <1>12, <1>13, <1>15,
     <1>16, <1>18, <1>19, <1>20, <1>21 DEF Next

-----------------------------------------------------------------------------
(* The theorems.                                                           *)

Inv == TypeOK /\ LanesFollowLedger /\ FrontierDecidesCorpus

\* The empty ledger with idle lanes satisfies the invariant.
LEMMA InitInv == Init => Inv
<1> SUFFICES ASSUME Init PROVE Inv
  OBVIOUS
<1>1. TypeOK
  BY EmptyIsJournal, NoJobIsJob DEF Init, TypeOK, JournalTypes, LaneTypes, Phase
<1>2. LanesFollowLedger
  BY DEF Init, LanesFollowLedger, LaneOf, HeadSeq, NoJob, NoDense
<1>3. FrontierDecidesCorpus
  BY DEF Init, FrontierDecidesCorpus
<1>4. QED
  BY <1>1, <1>2, <1>3 DEF Inv

\* Appending in order keeps the frontiers in order.
LEMMA FrontierStep ==
  ASSUME editions \in Seq(Edition), FrontierDecidesCorpus,
         Log!Publish \/ UNCHANGED editions
  PROVE  FrontierDecidesCorpus'
<1>1. CASE UNCHANGED editions
  BY <1>1 DEF FrontierDecidesCorpus
<1>2. CASE Log!Publish
  <2> DEFINE n == Len(editions)
             e == editions'[Len(editions')]
  <2>1. /\ n \in Nat /\ Len(editions') = n + 1
        /\ \A i \in 1..n : editions'[i] = editions[i] /\ editions[i] \in Edition
        /\ e.frontier \in Nat
        /\ n # 0 => \/ e.frontier > editions[n].frontier
                    \/ /\ e.frontier = editions[n].frontier
                       /\ e.corpus = editions[n].corpus
    BY <1>2 DEF Log!Publish, Log!IsEdition, Log!NewFrontier, Log!SameFrontier
  <2> SUFFICES ASSUME NEW i \in 1..(n + 1), NEW j \in 1..(n + 1), i < j
               PROVE  /\ editions'[i].frontier <= editions'[j].frontier
                      /\ editions'[i].frontier = editions'[j].frontier
                           => editions'[i].corpus = editions'[j].corpus
    BY <2>1 DEF FrontierDecidesCorpus
  <2>2. CASE j <= n
    BY <2>1, <2>2 DEF FrontierDecidesCorpus
  <2>3. CASE j = n + 1
    <3>1. i \in 1..n /\ n \in 1..n
      BY <2>1, <2>3
    <3>2. /\ editions[i].frontier <= editions[n].frontier
          /\ editions[i].frontier = editions[n].frontier
               => editions[i].corpus = editions[n].corpus
      <4>1. CASE i = n
        BY <2>1, <3>1, <4>1 DEF Edition
      <4>2. CASE i < n
        BY <2>1, <3>1, <4>2 DEF FrontierDecidesCorpus
      <4>3. QED
        BY <2>1, <3>1, <4>1, <4>2
    <3>3. editions[i].frontier \in Nat /\ editions[n].frontier \in Nat
      BY <2>1, <3>1 DEF Edition
    <3>4. QED
      BY <2>1, <2>3, <3>1, <3>2, <3>3
  <2>4. QED
    BY <2>1, <2>2, <2>3
<1>3. QED
  BY <1>1, <1>2

\* The invariant is inductive.
LEMMA StepInv == Inv /\ [Next]_vars => Inv'
<1> SUFFICES ASSUME Inv, [Next]_vars PROVE Inv'
  OBVIOUS
<1>1. TypeOK'
  BY TypeStep DEF Inv
<1>2. LanesFollowLedger'
  BY LaneStep DEF Inv
<1>3. FrontierDecidesCorpus'
  BY StepPublishes, FrontierStep DEF Inv, TypeOK
<1>4. QED
  BY <1>1, <1>2, <1>3 DEF Inv

\* The inductive invariant holds in every reachable state.
LEMMA InvHolds == Spec => []Inv
<1>1. QED
  BY InitInv, StepInv, PTL DEF Spec

\* Whatever processes run, overlap or crash, every variable keeps its type.
THEOREM TypeCorrect == Spec => []TypeOK
<1>1. Inv => TypeOK
  BY DEF Inv
<1>2. QED
  BY <1>1, InvHolds, PTL

\* However many daemons and publishers append to one ledger directory, one
\* corpus frontier never names two corpora.
THEOREM FrontierCorrect == Spec => []FrontierDecidesCorpus
<1>1. Inv => FrontierDecidesCorpus
  BY DEF Inv
<1>2. QED
  BY <1>1, InvHolds, PTL

\* The ledger that publishers and daemons share implements the publication log
\* that readers rely on.
THEOREM LedgerImplementsLog == Spec => PublishesInOrder
<1>1. Init => Log!Init
  BY DEF Init, Log!Init
<1>2. Inv /\ [Next]_vars => [Log!Publish]_editions
  BY StepPublishes DEF Inv
<1>3. QED
  BY <1>1, <1>2, InvHolds, PTL DEF Spec, PublishesInOrder, Log!Spec

-----------------------------------------------------------------------------
(***************************************************************************)
(* What the journal and the ledger owe each other as long as a publisher   *)
(* opens only when no other one lives (Overlap = FALSE): for every set of  *)
(* daemons, files and contents, for every bound, through crashes, failed   *)
(* saves, half-logged acknowledgements and takeovers of the owner record.  *)
(***************************************************************************)

-----------------------------------------------------------------------------
(* Growing journals.                                                       *)

\* Journal k has every mark of journal j.
KeepsMarks(j, k) ==
  \A s \in DOMAIN j.ops :
    /\ s \in DOMAIN k.ops
    /\ k.ops[s].doc = j.ops[s].doc
    /\ k.ops[s].content = j.ops[s].content

\* Journal k continues j: its new marks are pending and numbered from j's next.
Continues(j, k) ==
  /\ KeepsMarks(j, k)
  /\ k.shadowed = j.shadowed
  /\ k.nextJournal >= j.nextJournal
  /\ k.nextFrontier >= j.nextFrontier
  /\ \A s \in DOMAIN k.ops \ DOMAIN j.ops :
       s >= j.nextJournal /\ s < k.nextJournal /\ k.ops[s].state = "pending"

\* Only the marks of S are newly acknowledged in k.
AcksOnly(j, k, S) ==
  \A s \in DOMAIN j.ops :
    k.ops[s].state = "acked" => j.ops[s].state = "acked" \/ s \in S

\* The numbers a journal has given out are below its next one.
NumberedBelow(j) == \A s \in DOMAIN j.ops : s >= 1 /\ s < j.nextJournal

\* A journal continues itself.
LEMMA SameContinues ==
  ASSUME NEW j, IsJournal(j)
  PROVE  Continues(j, j) /\ AcksOnly(j, j, {})
BY DEF IsJournal, Continues, KeepsMarks, AcksOnly

\* A mark that is given the next number continues the journal.
LEMMA RecordOperationContinues ==
  ASSUME NEW j, IsJournal(j), NumberedBelow(j), NEW d \in Doc, NEW c \in FileState
  PROVE  /\ Continues(j, RecordOperation(j, j.nextJournal, d, c))
         /\ AcksOnly(j, RecordOperation(j, j.nextJournal, d, c), {})
<1> DEFINE s == j.nextJournal
           r == RecordOperation(j, s, d, c)
<1>1. s \in Nat /\ j.nextFrontier \in Nat /\ s \notin DOMAIN j.ops
  BY DEF IsJournal, NumberedBelow
<1>2. /\ DOMAIN r.ops = DOMAIN j.ops \cup {s}
      /\ r.ops[s].state = "pending"
      /\ \A t \in DOMAIN j.ops : r.ops[t] = j.ops[t]
  BY <1>1 DEF RecordOperation
<1>3. /\ r.shadowed = j.shadowed
      /\ r.nextJournal = s + 1
      /\ r.nextFrontier = j.nextFrontier
  BY <1>1 DEF RecordOperation, Later
<1>4. KeepsMarks(j, r)
  BY <1>2 DEF KeepsMarks
<1>5. AcksOnly(j, r, {})
  BY <1>2 DEF AcksOnly
<1>6. QED
  BY <1>1, <1>2, <1>3, <1>4, <1>5 DEF Continues

\* A recorded scan boundary continues the journal.
LEMMA RecordScanContinues ==
  ASSUME NEW j, IsJournal(j)
  PROVE  /\ Continues(j, RecordScan(j, j.nextFrontier))
         /\ AcksOnly(j, RecordScan(j, j.nextFrontier), {})
         /\ RecordScan(j, j.nextFrontier).nextFrontier = j.nextFrontier + 1
<1> DEFINE r == RecordScan(j, j.nextFrontier)
<1>1. /\ r.ops = j.ops /\ r.shadowed = j.shadowed /\ r.nextJournal = j.nextJournal
      /\ r.nextFrontier = j.nextFrontier + 1
      /\ j.nextFrontier \in Nat /\ j.nextJournal \in Nat
  BY DEF IsJournal, RecordScan, Later
<1>2. QED
  BY <1>1 DEF Continues, KeepsMarks, AcksOnly

\* An acknowledgement continues the journal and acknowledges that mark only.
LEMMA AckContinues ==
  ASSUME NEW j, IsJournal(j), NEW s
  PROVE  /\ Continues(j, ApplyState(j, s, "acked"))
         /\ AcksOnly(j, ApplyState(j, s, "acked"), {s})
<1> DEFINE r == ApplyState(j, s, "acked")
<1>1. /\ DOMAIN r.ops = DOMAIN j.ops /\ r.shadowed = j.shadowed
      /\ r.nextJournal = j.nextJournal /\ r.nextFrontier = j.nextFrontier
      /\ j.nextFrontier \in Nat /\ j.nextJournal \in Nat
  BY DEF IsJournal, ApplyState
<1>2. \A t \in DOMAIN j.ops :
        /\ r.ops[t].doc = j.ops[t].doc
        /\ r.ops[t].content = j.ops[t].content
        /\ t # s => r.ops[t].state = j.ops[t].state
  BY DEF IsJournal, ApplyState, Operation
<1>3. QED
  BY <1>1, <1>2 DEF Continues, KeepsMarks, AcksOnly

\* The failure of a save continues the journal and acknowledges nothing.
LEMMA FailedContinues ==
  ASSUME NEW j, IsJournal(j), NEW seqs
  PROVE  Continues(j, Failed(j, seqs)) /\ AcksOnly(j, Failed(j, seqs), {})
<1> DEFINE r == Failed(j, seqs)
<1>1. /\ DOMAIN r.ops = DOMAIN j.ops /\ r.shadowed = j.shadowed
      /\ r.nextJournal = j.nextJournal /\ r.nextFrontier = j.nextFrontier
      /\ j.nextFrontier \in Nat /\ j.nextJournal \in Nat
  BY DEF IsJournal, Failed
<1>2. \A t \in DOMAIN j.ops :
        /\ r.ops[t].doc = j.ops[t].doc
        /\ r.ops[t].content = j.ops[t].content
        /\ r.ops[t].state \in {"failed", j.ops[t].state}
  BY DEF IsJournal, Failed, Operation
<1>3. QED
  BY <1>1, <1>2 DEF Continues, KeepsMarks, AcksOnly

-----------------------------------------------------------------------------
(* Being accounted for lasts.                                              *)

\* Accounted, for a list of editions that need not be the ledger's.
AccountedIn(eds, j, s) ==
  \E i \in 1..Len(eds) : Covers(j, eds[i].corpus, eds[i].boundary, s)

\* A mark stays accounted for when editions are added and the journal goes on.
LEMMA StaysAccounted ==
  ASSUME NEW eds, NEW eds2, NEW j, NEW k, NEW s \in DOMAIN j.ops,
         Len(eds) \in Nat, Len(eds2) \in Nat, Len(eds) <= Len(eds2),
         \A i \in 1..Len(eds) : eds2[i] = eds[i],
         KeepsMarks(j, k), AccountedIn(eds, j, s)
  PROVE  AccountedIn(eds2, k, s)
<1>1. PICK i \in 1..Len(eds) : Covers(j, eds[i].corpus, eds[i].boundary, s)
  BY DEF AccountedIn
<1>2. Covers(k, eds[i].corpus, eds[i].boundary, s)
  BY <1>1 DEF Covers, KeepsMarks, DirectlyCovers
<1>3. i \in 1..Len(eds2) /\ eds2[i] = eds[i]
  OBVIOUS
<1>4. QED
  BY <1>2, <1>3 DEF AccountedIn

-----------------------------------------------------------------------------
(* One publisher at a time.                                                *)

OnePublisher == \A p, q \in Publisher : Lives(p) /\ Lives(q) => p = q

\* Its copy of the journal is the journal.
CopyIsFile == \A p \in Publisher : Lives(p) => mem[p] = disk

\* A publisher that does not live has nothing under way.
RestIdle ==
  \A p \in Publisher :
    /\ ~Lives(p) => phase[p] = "idle"
    /\ phase[p] # "linked" => unacked[p] = {}
    /\ status[p] = "new" => settled[p] = 0

Alone == OnePublisher /\ CopyIsFile /\ RestIdle

\* One publisher at a time, each with the journal as its copy, stays so.
LEMMA AloneStep ==
  ASSUME ~Overlap, TypeOK, Alone, [Next]_vars
  PROVE  Alone'
<1> USE DEF journalVars, daemonVars
<1>0. /\ phase \in [Publisher -> Phase] /\ DOMAIN mem = Publisher
      /\ settled \in [Publisher -> Nat] /\ unacked \in [Publisher -> SUBSET Nat]
      /\ status \in [Publisher -> {"new", "open", "closing", "closed"}]
  BY DEF TypeOK, LaneTypes, JournalTypes
<1>1. CASE UNCHANGED <<disk, mem, status, phase, unacked, settled>>
  BY <1>1 DEF Alone, OnePublisher, CopyIsFile, RestIdle, Lives
<1>2. ASSUME NEW d \in Daemon, PublishOwner(d) \/ RemoveOwner(d) PROVE Alone'
  BY <1>1, <1>2 DEF PublishOwner, RemoveOwner
<1>3. ASSUME NEW d \in Daemon, Crash(d) PROVE Alone'
  BY <1>0, <1>3 DEF Crash, Alone, OnePublisher, CopyIsFile, RestIdle, Lives
<1>4. ASSUME NEW p \in Publisher, Open(p) PROVE Alone'
  <2>1. \A q \in Publisher : ~Lives(q)
    BY <1>4 DEF Open
  <2>2. /\ status' = [status EXCEPT ![p] = "open"] /\ mem' = [mem EXCEPT ![p] = disk]
        /\ UNCHANGED <<disk, phase, unacked, settled>>
    BY <1>4 DEF Open, Replayed
  <2>3. QED
    BY <1>0, <2>1, <2>2 DEF Alone, OnePublisher, CopyIsFile, RestIdle, Lives
<1>5. ASSUME NEW p \in Publisher, Release(p) \/ Close(p) PROVE Alone'
  BY <1>0, <1>5 DEF Release, Close, Runs, Alone, OnePublisher, CopyIsFile, RestIdle, Lives
<1>6. ASSUME NEW p \in Publisher, Lives(p), NEW k, disk' = k, mem' = [mem EXCEPT ![p] = k],
             UNCHANGED <<status, settled>>,
             \A q \in Publisher \ {p} : phase'[q] = phase[q] /\ unacked'[q] = unacked[q],
             phase'[p] # "linked" => unacked'[p] = {}
      PROVE  Alone'
  <2>1. \A q \in Publisher : Lives(q)' <=> q = p
    BY <1>6 DEF Alone, OnePublisher, Lives
  <2>2. OnePublisher' /\ CopyIsFile'
    BY <1>0, <1>6, <2>1 DEF OnePublisher, CopyIsFile
  <2>3. RestIdle'
    BY <1>6, <2>1 DEF Alone, RestIdle, Lives
  <2>4. QED
    BY <2>2, <2>3 DEF Alone
<1>7. ASSUME NEW p \in Publisher, NEW d \in Doc, NEW c \in FileState, MarkDirty(p, d, c)
      PROVE  Alone'
  <2>1. Lives(p) /\ mem[p] = disk
    BY <1>7 DEF MarkDirty, Runs, Alone, CopyIsFile
  <2>2. QED
    BY <1>6, <1>7, <2>1 DEF MarkDirty, Alone, RestIdle
<1>8. ASSUME NEW p \in Publisher, MarkFailed(p) PROVE Alone'
  <2>1. Lives(p) /\ mem[p] = disk
    BY <1>8 DEF MarkFailed, Runs, Alone, CopyIsFile
  <2>2. QED
    BY <1>6, <1>8, <2>1 DEF MarkFailed, Alone, RestIdle
<1>9. ASSUME NEW p \in Publisher, NEW saves, RequestLexical(p, saves) PROVE Alone'
  <2>1. Lives(p) /\ mem[p] = disk
    BY <1>9 DEF RequestLexical, Runs, Alone, CopyIsFile
  <2>2. phase[p] = "idle" /\ phase' = [phase EXCEPT ![p] = "queued"]
    BY <1>9 DEF RequestLexical
  <2>3. QED
    BY <1>0, <1>6, <1>9, <2>1, <2>2 DEF RequestLexical, Alone, RestIdle
<1>10. ASSUME NEW p \in Publisher, Ack(p) PROVE Alone'
  <2>1. Lives(p) /\ mem[p] = disk
    BY <1>10 DEF Ack, Runs, Alone, CopyIsFile
  <2>2. QED
    BY <1>0, <1>6, <1>10, <2>1 DEF Ack
<1>11. ASSUME NEW p \in Publisher, Lives(p), UNCHANGED <<disk, mem, status>>,
              \A q \in Publisher \ {p} :
                phase'[q] = phase[q] /\ unacked'[q] = unacked[q] /\ settled'[q] = settled[q],
              phase'[p] # "linked" => unacked'[p] = {}
       PROVE  Alone'
  BY <1>11 DEF Alone, OnePublisher, CopyIsFile, RestIdle, Lives
<1>12. ASSUME NEW p \in Publisher, NEW n \in 1..HeadSeq, NEW force \in BOOLEAN,
              RequestDense(p, n, force)
       PROVE  Alone'
  BY <1>0, <1>11, <1>12 DEF RequestDense, Runs, Alone, RestIdle
<1>13. ASSUME NEW p \in Publisher, Fold(p) PROVE Alone'
  <2>1. Lives(p) /\ phase[p] = "queued" /\ UNCHANGED <<disk, mem, status, unacked>>
    BY <1>13 DEF Fold, Runs
  <2>2. /\ \/ phase' = [phase EXCEPT ![p] = "idle"]
           \/ phase' = [phase EXCEPT ![p] = "building"]
        /\ \/ UNCHANGED settled
           \/ \E b : settled' = [settled EXCEPT ![p] = b]
    BY <1>13 DEF Fold, SettlePublished, SettleFailed
  <2>3. QED
    BY <1>0, <1>11, <2>1, <2>2 DEF Alone, RestIdle
<1>14. ASSUME NEW p \in Publisher, NEW corpus, BuildSnapshot(p, corpus) PROVE Alone'
  BY <1>0, <1>11, <1>14 DEF BuildSnapshot, Runs, Alone, RestIdle
<1>15. ASSUME NEW p \in Publisher, NEW outcome, BuildDense(p, outcome) PROVE Alone'
  BY <1>0, <1>11, <1>15 DEF BuildDense, Runs, Alone, RestIdle
<1>16. ASSUME NEW p \in Publisher,
              BuildFails(p) \/ ReadHead(p) \/ CheckHead(p) \/ CheckFence(p) \/ CommitRejected(p)
       PROVE  Alone'
  <2>1. /\ Lives(p) /\ UNCHANGED <<disk, mem, status, unacked, settled>>
        /\ phase[p] \in {"building", "built", "expecting", "checked", "fenced"}
    BY <1>16 DEF BuildFails, ReadHead, CheckHead, CheckFence, CommitRejected, SettleFailed,
       NotHead, Runs
  <2>2. \E x \in {"idle", "queued", "expecting", "checked", "fenced"} :
          phase' = [phase EXCEPT ![p] = x]
    BY <1>16 DEF BuildFails, ReadHead, CheckHead, CheckFence, CommitRejected, SettleFailed,
       NotHead
  <2>3. QED
    BY <1>0, <1>11, <2>1, <2>2 DEF Alone, RestIdle
<1>17. ASSUME NEW p \in Publisher, CommitAdvance(p) \/ CommitSameFrontier(p) PROVE Alone'
  <2>1. /\ Lives(p) /\ UNCHANGED <<disk, mem, status, settled>> /\ phase[p] = "fenced"
    BY <1>17 DEF CommitAdvance, CommitSameFrontier, Link, SettleFailed, NotHead, Runs
  <2>2. \/ /\ \E x \in {"idle", "queued"} : phase' = [phase EXCEPT ![p] = x]
           /\ UNCHANGED unacked
        \/ /\ phase' = [phase EXCEPT ![p] = "linked"]
           /\ \E acks : unacked' = [unacked EXCEPT ![p] = acks]
    BY <1>17 DEF CommitAdvance, CommitSameFrontier, Link, SettleFailed, NotHead
  <2>3. QED
    BY <1>0, <1>11, <2>1, <2>2 DEF Alone, RestIdle
<1>18. ASSUME NEW p \in Publisher, CommitThrows(p) PROVE Alone'
  BY <1>0, <1>11, <1>18 DEF CommitThrows, SettleFailed, Runs
<1>19. ASSUME NEW p \in Publisher, Committed(p) PROVE Alone'
  BY <1>0, <1>11, <1>19 DEF Committed, SettlePublished, Runs
<1>20. CASE UNCHANGED vars
  BY <1>1, <1>20 DEF vars
<1>21. QED
  BY <1>2, <1>3, <1>4, <1>5, <1>7, <1>8, <1>9, <1>10, <1>12, <1>13, <1>14, <1>15, <1>16,
     <1>17, <1>18, <1>19, <1>20 DEF Next, RequestRefresh, RequestSave

\* The journal goes on, and only marks that were due are acknowledged.
LEMMA DiskStep ==
  ASSUME TypeOK, Alone, NumberedBelow(disk), [Next]_vars
  PROVE  /\ Continues(disk, disk')
         /\ AcksOnly(disk, disk', UNION {unacked[p] : p \in Publisher})
<1> USE DEF journalVars, daemonVars
<1> DEFINE Due == UNION {unacked[p] : p \in Publisher}
<1>0. IsJournal(disk)
  BY DEF TypeOK, JournalTypes
<1>1. ASSUME AcksOnly(disk, disk', {}) PROVE AcksOnly(disk, disk', Due)
  BY <1>1 DEF AcksOnly
<1>2. CASE UNCHANGED disk
  <2>1. disk' = disk
    BY <1>2
  <2>2. Continues(disk, disk') /\ AcksOnly(disk, disk', {})
    BY <1>0, <2>1, SameContinues
  <2>3. QED
    BY <1>1, <2>2
<1>3. ASSUME NEW p \in Publisher, NEW d \in Doc, NEW c \in FileState, MarkDirty(p, d, c)
      PROVE  Continues(disk, disk') /\ AcksOnly(disk, disk', Due)
  <2>1. mem[p] = disk
    BY <1>3 DEF MarkDirty, Runs, Alone, CopyIsFile
  <2>2. disk' = RecordOperation(disk, disk.nextJournal, d, c)
    BY <1>3, <2>1 DEF MarkDirty
  <2>3. Continues(disk, disk') /\ AcksOnly(disk, disk', {})
    BY <1>0, <2>2, RecordOperationContinues
  <2>4. QED
    BY <1>1, <2>3
<1>4. ASSUME NEW p \in Publisher, MarkFailed(p)
      PROVE  Continues(disk, disk') /\ AcksOnly(disk, disk', Due)
  <2>1. disk' = Failed(disk, failing[p])
    BY <1>4 DEF MarkFailed
  <2>2. Continues(disk, disk') /\ AcksOnly(disk, disk', {})
    BY <1>0, <2>1, FailedContinues
  <2>3. QED
    BY <1>1, <2>2
<1>5. ASSUME NEW p \in Publisher, NEW saves, RequestLexical(p, saves)
      PROVE  Continues(disk, disk') /\ AcksOnly(disk, disk', Due)
  <2>1. mem[p] = disk
    BY <1>5 DEF RequestLexical, Runs, Alone, CopyIsFile
  <2>2. disk' = RecordScan(disk, disk.nextFrontier)
    BY <1>5, <2>1 DEF RequestLexical
  <2>3. Continues(disk, disk') /\ AcksOnly(disk, disk', {})
    BY <1>0, <2>2, RecordScanContinues
  <2>4. QED
    BY <1>1, <2>3
<1>6. ASSUME NEW p \in Publisher, Ack(p)
      PROVE  Continues(disk, disk') /\ AcksOnly(disk, disk', Due)
  <2>1. PICK s \in unacked[p] : disk' = ApplyState(disk, s, "acked")
    BY <1>6 DEF Ack
  <2>2. Continues(disk, disk') /\ AcksOnly(disk, disk', {s})
    BY <1>0, <2>1, AckContinues
  <2>3. s \in Due
    BY <2>1
  <2>4. AcksOnly(disk, disk', Due)
    BY <2>2, <2>3 DEF AcksOnly
  <2>5. QED
    BY <2>2, <2>4
<1>7. ASSUME NEW d \in Daemon, PublishOwner(d) \/ RemoveOwner(d) \/ Crash(d)
      PROVE  UNCHANGED disk
  BY <1>7 DEF PublishOwner, RemoveOwner, Crash
<1>8. ASSUME NEW p \in Publisher,
             \/ Open(p) \/ Release(p) \/ Close(p) \/ Fold(p) \/ BuildFails(p) \/ ReadHead(p)
             \/ CheckHead(p) \/ CheckFence(p)
      PROVE  UNCHANGED disk
  BY <1>8 DEF Open, Release, Close, Fold, BuildFails, ReadHead, CheckHead, CheckFence
<1>9. ASSUME NEW p \in Publisher,
             \/ CommitAdvance(p) \/ CommitSameFrontier(p) \/ CommitRejected(p)
             \/ CommitThrows(p) \/ Committed(p)
      PROVE  UNCHANGED disk
  BY <1>9 DEF CommitAdvance, CommitSameFrontier, CommitRejected, CommitThrows, Committed
<1>10. ASSUME NEW p \in Publisher, NEW n, NEW force, RequestDense(p, n, force)
       PROVE  UNCHANGED disk
  BY <1>10 DEF RequestDense
<1>11. ASSUME NEW p \in Publisher, NEW x, BuildSnapshot(p, x) \/ BuildDense(p, x)
       PROVE  UNCHANGED disk
  BY <1>11 DEF BuildSnapshot, BuildDense
<1>12. CASE UNCHANGED vars
  BY <1>2, <1>12 DEF vars
<1>13. QED
  BY <1>2, <1>3, <1>4, <1>5, <1>6, <1>7, <1>8, <1>9, <1>10, <1>11, <1>12
     DEF Next, RequestRefresh, RequestSave

\* The copy of a publisher: the journal while it lives, and left behind then.
LEMMA MemStep ==
  ASSUME ~Overlap, TypeOK, Alone, [Next]_vars, NEW q \in Publisher
  PROVE  /\ Lives(q) => mem'[q] = disk'
         /\ ~Lives(q) => \/ mem'[q] = mem[q]
                         \/ status[q] = "new" /\ mem'[q] = disk' /\ settled'[q] = settled[q]
<1> USE DEF journalVars, daemonVars
<1>0. DOMAIN mem = Publisher /\ (Lives(q) => mem[q] = disk)
  BY DEF TypeOK, JournalTypes, Alone, CopyIsFile
<1>1. CASE UNCHANGED <<disk, mem>>
  BY <1>0, <1>1
<1>2. ASSUME NEW p \in Publisher, Open(p)
      PROVE  \/ ~Lives(q) /\ mem'[q] = mem[q]
             \/ q = p /\ status[q] = "new" /\ mem'[q] = disk' /\ settled'[q] = settled[q]
                      /\ ~Lives(q)
  <2>1. ~Lives(q)
    BY <1>2 DEF Open
  <2>2. status[p] = "new" /\ mem' = [mem EXCEPT ![p] = disk] /\ UNCHANGED <<disk, settled>>
    BY <1>2 DEF Open, Replayed
  <2>3. QED
    BY <1>0, <2>1, <2>2
<1>3. ASSUME NEW p \in Publisher, Lives(p), NEW k, disk' = k, mem' = [mem EXCEPT ![p] = k]
      PROVE  IF Lives(q) THEN mem'[q] = disk' ELSE mem'[q] = mem[q]
  BY <1>0, <1>3 DEF Alone, OnePublisher
<1>4. ASSUME NEW p \in Publisher, NEW d \in Doc, NEW c \in FileState, MarkDirty(p, d, c)
      PROVE  IF Lives(q) THEN mem'[q] = disk' ELSE mem'[q] = mem[q]
  <2>1. Lives(p) /\ mem[p] = disk
    BY <1>4 DEF MarkDirty, Runs, Alone, CopyIsFile
  <2>2. QED
    BY <1>3, <1>4, <2>1 DEF MarkDirty
<1>5. ASSUME NEW p \in Publisher, MarkFailed(p)
      PROVE  IF Lives(q) THEN mem'[q] = disk' ELSE mem'[q] = mem[q]
  <2>1. Lives(p) /\ mem[p] = disk
    BY <1>5 DEF MarkFailed, Runs, Alone, CopyIsFile
  <2>2. QED
    BY <1>3, <1>5, <2>1 DEF MarkFailed
<1>6. ASSUME NEW p \in Publisher, NEW saves, RequestLexical(p, saves)
      PROVE  IF Lives(q) THEN mem'[q] = disk' ELSE mem'[q] = mem[q]
  <2>1. Lives(p) /\ mem[p] = disk
    BY <1>6 DEF RequestLexical, Runs, Alone, CopyIsFile
  <2>2. QED
    BY <1>3, <1>6, <2>1 DEF RequestLexical
<1>7. ASSUME NEW p \in Publisher, Ack(p)
      PROVE  IF Lives(q) THEN mem'[q] = disk' ELSE mem'[q] = mem[q]
  <2>1. Lives(p) /\ mem[p] = disk
    BY <1>7 DEF Ack, Runs, Alone, CopyIsFile
  <2>2. PICK s : disk' = ApplyState(disk, s, "acked")
                 /\ mem' = [mem EXCEPT ![p] = ApplyState(mem[p], s, "acked")]
    BY <1>7 DEF Ack
  <2>3. QED
    BY <1>3, <2>1, <2>2
<1>8. ASSUME NEW d \in Daemon, PublishOwner(d) \/ RemoveOwner(d) \/ Crash(d)
      PROVE  UNCHANGED <<disk, mem>>
  BY <1>8 DEF PublishOwner, RemoveOwner, Crash
<1>9. ASSUME NEW p \in Publisher,
             \/ Release(p) \/ Close(p) \/ Fold(p) \/ BuildFails(p) \/ ReadHead(p)
             \/ CheckHead(p) \/ CheckFence(p)
      PROVE  UNCHANGED <<disk, mem>>
  BY <1>9 DEF Release, Close, Fold, BuildFails, ReadHead, CheckHead, CheckFence
<1>10. ASSUME NEW p \in Publisher,
              \/ CommitAdvance(p) \/ CommitSameFrontier(p) \/ CommitRejected(p)
              \/ CommitThrows(p) \/ Committed(p)
       PROVE  UNCHANGED <<disk, mem>>
  BY <1>10 DEF CommitAdvance, CommitSameFrontier, CommitRejected, CommitThrows, Committed
<1>11. ASSUME NEW p \in Publisher, NEW n, NEW force, RequestDense(p, n, force)
       PROVE  UNCHANGED <<disk, mem>>
  BY <1>11 DEF RequestDense
<1>12. ASSUME NEW p \in Publisher, NEW x, BuildSnapshot(p, x) \/ BuildDense(p, x)
       PROVE  UNCHANGED <<disk, mem>>
  BY <1>12 DEF BuildSnapshot, BuildDense
<1>13. CASE UNCHANGED vars
  BY <1>1, <1>13 DEF vars
<1>14. QED
  BY <1>1, <1>2, <1>4, <1>5, <1>6, <1>7, <1>8, <1>9, <1>10, <1>11, <1>12, <1>13
     DEF Next, RequestRefresh, RequestSave

-----------------------------------------------------------------------------
(* Publication and acknowledgement.                                        *)

\* The step in which publisher p links its edition.
Publishes(p) ==
  /\ Lives(p)
  /\ phase[p] = "fenced"
  /\ HeadSeq = job[p].head
  /\ editions' = Append(editions, Candidate(p))
  /\ phase' = [phase EXCEPT ![p] = "linked"]
  /\ UNCHANGED <<disk, mem, job, settled, status>>
  /\ \/ /\ AdvancesCorpus(job[p])
        /\ Covered(p)
        /\ unacked' = [unacked EXCEPT ![p] = Dirty(mem[p], job[p].boundary)]
     \/ /\ KeepsFrontier(job[p])
        /\ job[p].base = job[p].head
        /\ unacked' = [unacked EXCEPT ![p] = {}]

\* Every other step leaves the ledger alone and owes no new acknowledgement.
LEMMA PublishStep ==
  ASSUME TypeOK, [Next]_vars
  PROVE  \/ UNCHANGED editions /\ \A q \in Publisher : unacked'[q] \subseteq unacked[q]
         \/ \E p \in Publisher : Publishes(p)
<1> USE DEF journalVars, daemonVars
<1>0. unacked \in [Publisher -> SUBSET Nat]
  BY DEF TypeOK
<1>1. CASE UNCHANGED <<editions, unacked>>
  BY <1>1
<1>2. ASSUME NEW d \in Daemon, PublishOwner(d) \/ RemoveOwner(d)
      PROVE  UNCHANGED <<editions, unacked>>
  BY <1>2 DEF PublishOwner, RemoveOwner
<1>3. ASSUME NEW d \in Daemon, Crash(d)
      PROVE  UNCHANGED editions /\ \A q \in Publisher : unacked'[q] \subseteq unacked[q]
  BY <1>0, <1>3 DEF Crash
<1>4. ASSUME NEW p \in Publisher,
             \/ Open(p) \/ Release(p) \/ Close(p) \/ Fold(p) \/ BuildFails(p) \/ ReadHead(p)
             \/ CheckHead(p) \/ CheckFence(p) \/ MarkFailed(p) \/ CommitRejected(p)
             \/ Committed(p)
      PROVE  UNCHANGED <<editions, unacked>>
  BY <1>4 DEF Open, Release, Close, Fold, BuildFails, ReadHead, CheckHead, CheckFence,
     MarkFailed, CommitRejected, Committed
<1>5. ASSUME NEW p \in Publisher, Ack(p) \/ CommitThrows(p)
      PROVE  UNCHANGED editions /\ \A q \in Publisher : unacked'[q] \subseteq unacked[q]
  <2>1. \E s : unacked' = [unacked EXCEPT ![p] = @ \ {s}] \/ unacked' = [unacked EXCEPT ![p] = {}]
    BY <1>5 DEF Ack, CommitThrows
  <2>2. UNCHANGED editions
    BY <1>5 DEF Ack, CommitThrows
  <2>3. QED
    BY <1>0, <2>1, <2>2
<1>6. ASSUME NEW p \in Publisher, CommitAdvance(p)
      PROVE  UNCHANGED <<editions, unacked>> \/ Publishes(p)
  BY <1>6 DEF CommitAdvance, Link, Publishes, Runs
<1>7. ASSUME NEW p \in Publisher, CommitSameFrontier(p)
      PROVE  UNCHANGED <<editions, unacked>> \/ Publishes(p)
  BY <1>7 DEF CommitSameFrontier, Link, Publishes, Runs
<1>8. ASSUME NEW p \in Publisher, NEW d \in Doc, NEW c \in FileState, MarkDirty(p, d, c)
      PROVE  UNCHANGED <<editions, unacked>>
  BY <1>8 DEF MarkDirty
<1>9. ASSUME NEW p \in Publisher, NEW saves, RequestLexical(p, saves)
      PROVE  UNCHANGED <<editions, unacked>>
  BY <1>9 DEF RequestLexical
<1>10. ASSUME NEW p \in Publisher, NEW n, NEW force, RequestDense(p, n, force)
       PROVE  UNCHANGED <<editions, unacked>>
  BY <1>10 DEF RequestDense
<1>11. ASSUME NEW p \in Publisher, NEW x, BuildSnapshot(p, x) \/ BuildDense(p, x)
       PROVE  UNCHANGED <<editions, unacked>>
  BY <1>11 DEF BuildSnapshot, BuildDense
<1>12. CASE UNCHANGED vars
  BY <1>1, <1>12 DEF vars
<1>13. QED
  BY <1>1, <1>2, <1>3, <1>4, <1>5, <1>6, <1>7, <1>8, <1>9, <1>10, <1>11, <1>12
     DEF Next, RequestRefresh, RequestSave

\* A caller is told of a boundary by a lane that is done with it: linked, or
\* covered by the head.
LEMMA SettleStep ==
  ASSUME TypeOK, [Next]_vars, NEW q \in Publisher
  PROVE  \/ settled'[q] = settled[q]
         \/ /\ Lives(q) /\ phase[q] # "idle"
            /\ UNCHANGED <<disk, editions>>
            /\ \/ settled'[q] = Later(settled[q], 0)
               \/ /\ settled'[q] = Later(settled[q], job[q].boundary)
                  /\ job[q].kind = "lexical"
                  /\ phase[q] = "linked" \/ HeadCoversBoundary(job[q])
<1> USE DEF journalVars, daemonVars
<1>0. settled \in [Publisher -> Nat]
  BY DEF TypeOK, LaneTypes
<1>1. CASE UNCHANGED settled
  BY <1>1
<1>2. ASSUME NEW p \in Publisher, Fold(p)
      PROVE  \/ UNCHANGED settled
             \/ /\ Lives(p) /\ phase[p] # "idle" /\ UNCHANGED <<disk, editions>>
                /\ \/ settled' = [settled EXCEPT ![p] = Later(@, 0)]
                   \/ /\ settled' = [settled EXCEPT ![p] = Later(@, job[p].boundary)]
                      /\ job[p].kind = "lexical"
                      /\ HeadCoversBoundary(job[p])
  BY <1>2 DEF Fold, Runs, SettlePublished, SettleFailed
<1>3. ASSUME NEW p \in Publisher, Committed(p)
      PROVE  /\ Lives(p) /\ phase[p] = "linked" /\ UNCHANGED <<disk, editions>>
             /\ \/ settled' = [settled EXCEPT ![p] = Later(@, 0)]
                \/ /\ settled' = [settled EXCEPT ![p] = Later(@, job[p].boundary)]
                   /\ job[p].kind = "lexical"
  BY <1>3 DEF Committed, Runs, SettlePublished
<1>4. ASSUME NEW d \in Daemon, PublishOwner(d) \/ RemoveOwner(d) \/ Crash(d)
      PROVE  UNCHANGED settled
  BY <1>4 DEF PublishOwner, RemoveOwner, Crash
<1>5. ASSUME NEW p \in Publisher,
             \/ Open(p) \/ Release(p) \/ Close(p) \/ BuildFails(p) \/ ReadHead(p)
             \/ CheckHead(p) \/ CheckFence(p) \/ MarkFailed(p)
      PROVE  UNCHANGED settled
  BY <1>5 DEF Open, Release, Close, BuildFails, ReadHead, CheckHead, CheckFence, MarkFailed,
     SettleFailed, NotHead
<1>6. ASSUME NEW p \in Publisher,
             \/ CommitAdvance(p) \/ CommitSameFrontier(p) \/ CommitRejected(p) \/ Ack(p)
             \/ CommitThrows(p)
      PROVE  UNCHANGED settled
  BY <1>6 DEF CommitAdvance, CommitSameFrontier, CommitRejected, Ack, CommitThrows, Link,
     SettleFailed, NotHead
<1>7. ASSUME NEW p \in Publisher, NEW d \in Doc, NEW c \in FileState, MarkDirty(p, d, c)
      PROVE  UNCHANGED settled
  BY <1>7 DEF MarkDirty
<1>8. ASSUME NEW p \in Publisher, NEW saves, RequestLexical(p, saves)
      PROVE  UNCHANGED settled
  BY <1>8 DEF RequestLexical
<1>9. ASSUME NEW p \in Publisher, NEW n, NEW force, RequestDense(p, n, force)
      PROVE  UNCHANGED settled
  BY <1>9 DEF RequestDense
<1>10. ASSUME NEW p \in Publisher, NEW x, BuildSnapshot(p, x) \/ BuildDense(p, x)
       PROVE  UNCHANGED settled
  BY <1>10 DEF BuildSnapshot, BuildDense
<1>11. CASE UNCHANGED vars
  BY <1>11 DEF vars
<1>12. ASSUME NEW p \in Publisher, Fold(p) \/ Committed(p)
       PROVE  \/ settled'[q] = settled[q]
              \/ /\ Lives(q) /\ phase[q] # "idle"
                 /\ UNCHANGED <<disk, editions>>
                 /\ \/ settled'[q] = Later(settled[q], 0)
                    \/ /\ settled'[q] = Later(settled[q], job[q].boundary)
                       /\ job[q].kind = "lexical"
                       /\ phase[q] = "linked" \/ HeadCoversBoundary(job[q])
  <2>1. CASE q = p
    BY <1>0, <1>2, <1>3, <1>12, <2>1
  <2>2. CASE q # p
    BY <1>0, <1>2, <1>3, <1>12, <2>2
  <2>3. QED
    BY <2>1, <2>2
<1>13. QED
  BY <1>1, <1>4, <1>5, <1>6, <1>7, <1>8, <1>9, <1>10, <1>11, <1>12
     DEF Next, RequestRefresh, RequestSave

-----------------------------------------------------------------------------
(* The numbers in use are below the next ones.                             *)

EditionsNumbered ==
  \A n \in 1..HeadSeq :
    editions[n].frontier < disk.nextFrontier /\ editions[n].boundary < disk.nextJournal

SettledNumbered == \A p \in Publisher : settled[p] < disk.nextJournal

Numbered ==
  /\ disk.shadowed = {}
  /\ NumberedBelow(disk)
  /\ EditionsNumbered
  /\ SettledNumbered

\* A lexical intent is ahead of every edition in frontier, until its own is
\* linked, and not behind any in boundary.
LexicalOnWay(p) ==
  /\ job[p].frontier < disk.nextFrontier
  /\ job[p].boundary < disk.nextJournal
  /\ \A n \in 1..HeadSeq : editions[n].boundary <= job[p].boundary
  /\ phase[p] # "linked" => \A n \in 1..HeadSeq : editions[n].frontier < job[p].frontier
  /\ phase[p] = "linked" => \E n \in 1..HeadSeq : editions[n].boundary = job[p].boundary

\* A dense intent that was built stays at the frontier of its base.
DenseOnWay(p) ==
  phase[p] \in {"built", "expecting", "checked", "fenced"} =>
    /\ job[p].base \in 1..HeadSeq
    /\ job[p].boundary = editions[job[p].base].boundary
    /\ job[p].frontier = editions[job[p].base].frontier

OnWayOf(p) ==
  phase[p] # "idle" => IF job[p].kind = "lexical" THEN LexicalOnWay(p) ELSE DenseOnWay(p)

OnWay == \A p \in Publisher : OnWayOf(p)

\* An edition that is linked advances the frontier with a lexical candidate,
\* or repeats that of its base with a dense one.
LEMMA PublishesKind ==
  ASSUME Inv, OnWay, NEW p \in Publisher, Publishes(p)
  PROVE  /\ Len(editions') = HeadSeq + 1
         /\ \A i \in 1..HeadSeq : editions'[i] = editions[i]
         /\ editions'[HeadSeq + 1] = Candidate(p)
         /\ HeadSeq \in Nat
         /\ \/ /\ job[p].kind = "lexical" /\ LexicalOnWay(p) /\ Covered(p)
               /\ unacked' = [unacked EXCEPT ![p] = Dirty(mem[p], job[p].boundary)]
            \/ /\ job[p].kind = "dense"
               /\ job[p].base = HeadSeq /\ HeadSeq \in 1..HeadSeq
               /\ job[p].boundary = editions[HeadSeq].boundary
               /\ job[p].frontier = editions[HeadSeq].frontier
               /\ unacked' = [unacked EXCEPT ![p] = {}]
<1>1. /\ job[p] \in Job /\ LaneOf(p) /\ OnWayOf(p) /\ editions \in Seq(Edition)
      /\ HeadSeq \in Nat /\ FrontierDecidesCorpus
      /\ \A n \in 1..HeadSeq : editions[n] \in Edition
  BY HeadIsNat DEF Inv, TypeOK, LaneTypes, LanesFollowLedger, OnWay
<1>2. /\ Len(editions') = HeadSeq + 1
      /\ \A i \in 1..HeadSeq : editions'[i] = editions[i]
      /\ editions'[HeadSeq + 1] = Candidate(p)
  BY <1>1 DEF Publishes, HeadSeq
<1>3. phase[p] = "fenced" /\ HeadSeq = job[p].head
  BY DEF Publishes
<1>4. CASE job[p].kind = "lexical"
  <2>1. LexicalOnWay(p)
    BY <1>1, <1>3, <1>4 DEF OnWayOf
  <2>2. ~KeepsFrontier(job[p])
    <3>1. SUFFICES ASSUME KeepsFrontier(job[p]) PROVE FALSE
      OBVIOUS
    <3>2. HeadSeq \in 1..HeadSeq /\ job[p].frontier = editions[HeadSeq].frontier
      BY <1>1, <1>3, <3>1 DEF KeepsFrontier
    <3>3. editions[HeadSeq].frontier < job[p].frontier
      BY <1>3, <2>1, <3>2 DEF LexicalOnWay
    <3>4. editions[HeadSeq].frontier \in Nat
      BY <1>1, <3>2 DEF Edition
    <3>5. QED
      BY <3>2, <3>3, <3>4
  <2>3. QED
    BY <1>1, <1>2, <1>4, <2>1, <2>2 DEF Publishes
<1>5. CASE job[p].kind = "dense"
  <2>1. /\ job[p].base \in 1..HeadSeq
        /\ job[p].boundary = editions[job[p].base].boundary
        /\ job[p].frontier = editions[job[p].base].frontier
    BY <1>1, <1>3, <1>5 DEF OnWayOf, DenseOnWay
  <2>2. ~AdvancesCorpus(job[p])
    <3>1. SUFFICES ASSUME AdvancesCorpus(job[p]) PROVE FALSE
      OBVIOUS
    <3>2. HeadSeq \in 1..HeadSeq /\ HeadSeq # 0
      BY <1>1, <2>1
    <3>3. job[p].frontier > editions[HeadSeq].frontier
      BY <1>3, <3>1, <3>2 DEF AdvancesCorpus
    <3>4. job[p].frontier <= editions[HeadSeq].frontier
      <4>1. CASE job[p].base = HeadSeq
        BY <1>1, <2>1, <3>2, <4>1 DEF Edition
      <4>2. CASE job[p].base < HeadSeq
        BY <1>1, <2>1, <3>2, <4>2 DEF FrontierDecidesCorpus, HeadSeq
      <4>3. QED
        BY <1>1, <2>1, <4>1, <4>2
    <3>5. editions[HeadSeq].frontier \in Nat /\ job[p].frontier \in Nat
      BY <1>1, <3>2 DEF Edition, Job
    <3>6. QED
      BY <3>3, <3>4, <3>5
  <2>3. QED
    BY <1>1, <1>2, <1>3, <1>5, <2>1, <2>2 DEF Publishes
<1>6. QED
  BY <1>1, <1>4, <1>5 DEF Job

\* Numbers stay below the next ones.
LEMMA NumberedStep ==
  ASSUME ~Overlap, Inv, Alone, Numbered, OnWay, [Next]_vars
  PROVE  Numbered'
<1>0. TypeOK /\ NumberedBelow(disk) /\ IsJournal(disk)
  BY DEF Inv, Numbered, TypeOK, JournalTypes
<1>1. Continues(disk, disk')
  BY <1>0, DiskStep
<1>2. IsJournal(disk')
  BY StepInv DEF Inv, TypeOK, JournalTypes
<1>3. /\ disk.nextJournal \in Nat /\ disk'.nextJournal \in Nat
      /\ disk.nextFrontier \in Nat /\ disk'.nextFrontier \in Nat
      /\ disk.nextJournal >= 1
      /\ disk'.nextJournal >= disk.nextJournal /\ disk'.nextFrontier >= disk.nextFrontier
      /\ DOMAIN disk'.ops \subseteq Nat
  BY <1>0, <1>1, <1>2 DEF IsJournal, Continues
<1>4. disk'.shadowed = {}
  BY <1>1 DEF Continues, Numbered
<1>5. NumberedBelow(disk')
  <2> SUFFICES ASSUME NEW s \in DOMAIN disk'.ops PROVE s >= 1 /\ s < disk'.nextJournal
    BY DEF NumberedBelow
  <2>1. CASE s \in DOMAIN disk.ops
    BY <1>0, <1>3, <2>1 DEF NumberedBelow
  <2>2. CASE s \notin DOMAIN disk.ops
    BY <1>1, <1>3, <2>2 DEF Continues
  <2>3. QED
    BY <2>1, <2>2
<1>6. EditionsNumbered'
  <2>1. \A n \in 1..HeadSeq : editions[n] \in Edition
    BY <1>0, HeadIsNat DEF TypeOK
  <2>2. CASE UNCHANGED editions
    <3> SUFFICES ASSUME NEW n \in 1..HeadSeq
                 PROVE  /\ editions[n].frontier < disk'.nextFrontier
                        /\ editions[n].boundary < disk'.nextJournal
      BY <2>2 DEF EditionsNumbered, HeadSeq
    <3>1. editions[n].frontier \in Nat /\ editions[n].boundary \in Nat
      BY <2>1 DEF Edition
    <3>2. editions[n].frontier < disk.nextFrontier /\ editions[n].boundary < disk.nextJournal
      BY DEF Numbered, EditionsNumbered
    <3>3. QED
      BY <1>3, <3>1, <3>2
  <2>3. ASSUME NEW p \in Publisher, Publishes(p) PROVE EditionsNumbered'
    <3>1. disk' = disk /\ HeadSeq' = HeadSeq + 1 /\ HeadSeq \in Nat
      BY <2>3, PublishesKind DEF Publishes, HeadSeq
    <3>2. job[p].frontier < disk.nextFrontier /\ job[p].boundary < disk.nextJournal
      BY <2>3, PublishesKind DEF LexicalOnWay, Numbered, EditionsNumbered
    <3>3. /\ editions'[HeadSeq + 1].frontier = job[p].frontier
          /\ editions'[HeadSeq + 1].boundary = job[p].boundary
      <4>1. editions'[HeadSeq + 1] = Candidate(p)
        BY <2>3, PublishesKind
      <4>2. QED
        BY <4>1 DEF Candidate
    <3>4. \A i \in 1..HeadSeq : editions'[i] = editions[i]
      BY <2>3, PublishesKind
    <3>5. QED
      BY <3>1, <3>2, <3>3, <3>4 DEF Numbered, EditionsNumbered
  <2>4. QED
    BY <1>0, <2>2, <2>3, PublishStep
<1>7. SettledNumbered'
  <2> SUFFICES ASSUME NEW q \in Publisher PROVE settled'[q] < disk'.nextJournal
    BY DEF SettledNumbered
  <2>1. settled[q] \in Nat /\ settled[q] < disk.nextJournal
    BY <1>0 DEF TypeOK, LaneTypes, Numbered, SettledNumbered
  <2>2. CASE settled'[q] = settled[q]
    BY <1>3, <2>1, <2>2
  <2>3. CASE settled'[q] = Later(settled[q], 0)
    BY <1>3, <2>1, <2>3 DEF Later
  <2>4. CASE /\ settled'[q] = Later(settled[q], job[q].boundary)
             /\ job[q].kind = "lexical" /\ phase[q] # "idle"
    <3>1. job[q].boundary < disk.nextJournal /\ job[q].boundary \in Nat
      BY <1>0, <2>4 DEF OnWay, OnWayOf, LexicalOnWay, TypeOK, LaneTypes, Job
    <3>2. QED
      BY <1>3, <2>1, <2>4, <3>1 DEF Later
  <2>5. QED
    BY <1>0, <2>2, <2>3, <2>4, SettleStep
<1>8. QED
  BY <1>4, <1>5, <1>6, <1>7 DEF Numbered

\* A lane that keeps what it is about, in an unchanged ledger, stays on its way.
LEMMA WayKept ==
  ASSUME TypeOK, NEW q \in Publisher, OnWayOf(q), phase[q] # "idle",
         UNCHANGED editions, IsJournal(disk'),
         disk'.nextJournal >= disk.nextJournal, disk'.nextFrontier >= disk.nextFrontier,
         job'[q].kind = job[q].kind,
         job'[q].frontier = job[q].frontier, job'[q].boundary = job[q].boundary,
         phase'[q] = "linked" <=> phase[q] = "linked",
         job'[q].kind # "lexical" => DenseOnWay(q)'
  PROVE  OnWayOf(q)'
<1>1. /\ disk.nextJournal \in Nat /\ disk'.nextJournal \in Nat
      /\ disk.nextFrontier \in Nat /\ disk'.nextFrontier \in Nat
      /\ job[q].frontier \in Nat /\ job[q].boundary \in Nat
  BY DEF TypeOK, JournalTypes, IsJournal, LaneTypes, Job
<1>2. CASE job[q].kind = "lexical"
  <2>1. LexicalOnWay(q)
    BY <1>2 DEF OnWayOf
  <2>2. LexicalOnWay(q)'
    BY <1>1, <2>1 DEF LexicalOnWay, HeadSeq
  <2>3. QED
    BY <1>2, <2>2 DEF OnWayOf
<1>3. CASE job[q].kind # "lexical"
  BY <1>3 DEF OnWayOf
<1>4. QED
  BY <1>2, <1>3

\* A dense intent that moves on through its commit stays on its way.
LEMMA DenseKept ==
  ASSUME NEW q \in Publisher, DenseOnWay(q), UNCHANGED editions,
         phase'[q] \in {"expecting", "checked", "fenced"}
           => phase[q] \in {"built", "expecting", "checked", "fenced"},
         phase'[q] # "built" \/ phase[q] = "built",
         job'[q].base = job[q].base,
         job'[q].frontier = job[q].frontier, job'[q].boundary = job[q].boundary
  PROVE  DenseOnWay(q)'
BY DEF DenseOnWay, HeadSeq

\* Only the lane of the publisher that lives is under way.
LEMMA OneOnWay ==
  ASSUME Alone, NEW p \in Publisher, Lives(p), OnWayOf(p)',
         \A q \in Publisher \ {p} : phase'[q] = phase[q]
  PROVE  OnWay'
<1>1. ASSUME NEW q \in Publisher \ {p} PROVE phase'[q] = "idle"
  BY <1>1 DEF Alone, OnePublisher, RestIdle
<1>2. QED
  BY <1>1 DEF OnWay, OnWayOf

\* Every step keeps the lanes on their way.
LEMMA OnWayStep ==
  ASSUME ~Overlap, Inv, Alone, Numbered, OnWay, [Next]_vars
  PROVE  OnWay'
<1> USE DEF journalVars, daemonVars
<1>0. /\ TypeOK /\ TypeOK' /\ IsJournal(disk) /\ IsJournal(disk')
      /\ phase \in [Publisher -> Phase] /\ job \in [Publisher -> Job]
      /\ \A q \in Publisher : LaneOf(q) /\ OnWayOf(q) /\ job[q] \in Job
  BY StepInv DEF Inv, TypeOK, JournalTypes, LaneTypes, LanesFollowLedger, OnWay
<1>a. disk'.nextJournal >= disk.nextJournal /\ disk'.nextFrontier >= disk.nextFrontier
  BY <1>0, DiskStep DEF Continues, Numbered
<1>b. HeadSeq \in Nat /\ \A n \in 1..HeadSeq : editions[n] \in Edition
  BY <1>0, HeadIsNat DEF TypeOK
<1>1. ASSUME UNCHANGED editions, NEW q \in Publisher, phase'[q] = phase[q], job'[q] = job[q]
      PROVE  OnWayOf(q)'
  <2>1. CASE phase[q] = "idle"
    BY <1>1, <2>1 DEF OnWayOf
  <2>2. CASE phase[q] # "idle"
    <3>1. job[q].kind # "lexical" => DenseOnWay(q)'
      <4> SUFFICES ASSUME job[q].kind # "lexical" PROVE DenseOnWay(q)'
        OBVIOUS
      <4>1. DenseOnWay(q)
        BY <1>0, <2>2 DEF OnWayOf
      <4>2. QED
        BY <1>1, <4>1, DenseKept
    <3>2. QED
      BY <1>0, <1>a, <1>1, <2>2, <3>1, WayKept
  <2>3. QED
    BY <2>1, <2>2
<1>2. CASE UNCHANGED <<editions, phase, job>>
  BY <1>1, <1>2 DEF OnWay
<1>3. ASSUME NEW d \in Daemon, PublishOwner(d) \/ RemoveOwner(d)
      PROVE  UNCHANGED <<editions, phase, job>>
  BY <1>3 DEF PublishOwner, RemoveOwner
<1>4. ASSUME NEW d \in Daemon, Crash(d) PROVE OnWay'
  <2>1. UNCHANGED editions
    BY <1>4 DEF Crash
  <2>2. ASSUME NEW q \in Publisher PROVE OnWayOf(q)'
    <3>1. CASE DaemonOf[q] = d
      BY <1>4, <3>1 DEF Crash, OnWayOf
    <3>2. CASE DaemonOf[q] # d
      BY <1>1, <1>4, <2>1, <3>2 DEF Crash
    <3>3. QED
      BY <3>1, <3>2
  <2>3. QED
    BY <2>2 DEF OnWay
<1>5. ASSUME NEW p \in Publisher, Open(p) \/ Release(p) \/ Close(p) \/ MarkFailed(p) \/ Ack(p)
      PROVE  UNCHANGED <<editions, phase, job>>
  BY <1>5 DEF Open, Release, Close, MarkFailed, Ack
<1>6. ASSUME NEW p \in Publisher, NEW d \in Doc, NEW c \in FileState, MarkDirty(p, d, c)
      PROVE  UNCHANGED <<editions, phase, job>>
  BY <1>6 DEF MarkDirty
<1>7. ASSUME NEW p \in Publisher, NEW saves, RequestLexical(p, saves) PROVE OnWay'
  <2>1. Lives(p) /\ mem[p] = disk
    BY <1>7 DEF RequestLexical, Runs, Alone, CopyIsFile
  <2>2. /\ phase' = [phase EXCEPT ![p] = "queued"] /\ UNCHANGED editions
        /\ job' = [job EXCEPT ![p] = [NoJob EXCEPT !.saves = saves,
                     !.frontier = disk.nextFrontier, !.boundary = disk.nextJournal - 1]]
        /\ disk' = RecordScan(disk, disk.nextFrontier)
    BY <1>7, <2>1 DEF RequestLexical, ScanBoundary
  <2>3. /\ phase'[p] = "queued"
        /\ job'[p].kind = "lexical"
        /\ job'[p].frontier = disk.nextFrontier
        /\ job'[p].boundary = disk.nextJournal - 1
        /\ HeadSeq' = HeadSeq
        /\ \A q \in Publisher \ {p} : phase'[q] = phase[q]
    BY <1>0, <2>2 DEF NoJob, HeadSeq
  <2>4. /\ disk'.nextFrontier = disk.nextFrontier + 1
        /\ disk'.nextJournal >= disk.nextJournal
        /\ disk.nextFrontier \in Nat /\ disk.nextJournal \in Nat /\ disk'.nextJournal \in Nat
    BY <1>0, <1>a, <2>2, RecordScanContinues DEF IsJournal
  <2>5. ASSUME NEW n \in 1..HeadSeq
        PROVE  /\ editions[n].boundary <= disk.nextJournal - 1
               /\ editions[n].frontier < disk.nextFrontier
    <3>1. editions[n].boundary \in Nat /\ editions[n].frontier \in Nat
      BY <1>b, <2>5 DEF Edition
    <3>2. editions[n].boundary < disk.nextJournal /\ editions[n].frontier < disk.nextFrontier
      BY <2>5 DEF Numbered, EditionsNumbered
    <3>3. QED
      BY <2>4, <3>1, <3>2
  <2>6. LexicalOnWay(p)'
    <3>1. disk.nextFrontier < disk'.nextFrontier /\ disk.nextJournal - 1 < disk'.nextJournal
      BY <2>4
    <3>2. QED
      BY <2>2, <2>3, <2>5, <3>1 DEF LexicalOnWay
  <2>7. QED
    BY <2>1, <2>3, <2>6, OneOnWay DEF OnWayOf
<1>8. ASSUME NEW p \in Publisher, NEW n \in 1..HeadSeq, NEW force \in BOOLEAN,
             RequestDense(p, n, force)
      PROVE  OnWay'
  <2>1. /\ Lives(p) /\ phase'[p] = "queued" /\ job'[p].kind = "dense"
        /\ \A q \in Publisher \ {p} : phase'[q] = phase[q]
    BY <1>0, <1>8 DEF RequestDense, Runs, NoJob
  <2>2. QED
    BY <2>1, OneOnWay DEF OnWayOf, DenseOnWay
<1>9. ASSUME NEW p \in Publisher, Lives(p), phase' = [phase EXCEPT ![p] = "idle"]
      PROVE  OnWay'
  BY <1>0, <1>9, OneOnWay DEF OnWayOf
<1>10. ASSUME NEW p \in Publisher, Lives(p), UNCHANGED editions,
              phase[p] \notin {"idle", "linked"},
              NEW x \in Phase \ {"idle", "linked"}, phase' = [phase EXCEPT ![p] = x],
              job'[p].kind = job[p].kind,
              job'[p].frontier = job[p].frontier, job'[p].boundary = job[p].boundary,
              x \in {"queued", "building"} \/ job[p].kind = "lexical"
                \/ (/\ x \in {"expecting", "checked", "fenced"}
                    /\ phase[p] \in {"built", "expecting", "checked", "fenced"}
                    /\ job'[p].base = job[p].base)
       PROVE  OnWay'
  <2>1. phase'[p] = x /\ \A q \in Publisher \ {p} : phase'[q] = phase[q]
    BY <1>0, <1>10
  <2>2. job'[p].kind # "lexical" => DenseOnWay(p)'
    <3> SUFFICES ASSUME job[p].kind # "lexical" PROVE DenseOnWay(p)'
      BY <1>10
    <3>1. CASE x \in {"queued", "building"}
      BY <2>1, <3>1 DEF DenseOnWay
    <3>2. CASE /\ x \in {"expecting", "checked", "fenced"}
               /\ phase[p] \in {"built", "expecting", "checked", "fenced"}
               /\ job'[p].base = job[p].base
      <4>1. DenseOnWay(p)
        BY <1>0, <1>10 DEF OnWayOf
      <4>2. QED
        BY <1>10, <2>1, <3>2, <4>1, DenseKept
    <3>3. QED
      BY <1>10, <3>1, <3>2
  <2>3. OnWayOf(p)'
    BY <1>0, <1>a, <1>10, <2>1, <2>2, WayKept
  <2>4. QED
    BY <1>10, <2>1, <2>3, OneOnWay
<1>11. ASSUME NEW p \in Publisher, Fold(p) PROVE OnWay'
  <2>1. Lives(p) /\ phase[p] = "queued" /\ UNCHANGED editions
    BY <1>11 DEF Fold, Runs
  <2>2. CASE phase' = [phase EXCEPT ![p] = "idle"]
    BY <1>9, <2>1, <2>2
  <2>3. CASE /\ phase' = [phase EXCEPT ![p] = "building"]
             /\ job' = [job EXCEPT ![p].base = HeadSeq]
    <3>1. /\ job'[p].kind = job[p].kind /\ job'[p].frontier = job[p].frontier
          /\ job'[p].boundary = job[p].boundary
      BY <1>0, <2>3 DEF Job
    <3>2. QED
      BY <1>10, <2>1, <2>3, <3>1 DEF Phase
  <2>4. QED
    BY <1>11, <2>2, <2>3 DEF Fold, SettlePublished, SettleFailed
<1>12. ASSUME NEW p \in Publisher, NEW corpus \in Corpus, BuildSnapshot(p, corpus)
       PROVE  OnWay'
  <2>1. /\ Lives(p) /\ phase[p] = "building" /\ UNCHANGED editions
        /\ phase' = [phase EXCEPT ![p] = "built"] /\ job[p].kind = "lexical"
        /\ job' = [job EXCEPT ![p].corpus = corpus]
    BY <1>12 DEF BuildSnapshot, Runs
  <2>2. /\ job'[p].kind = job[p].kind /\ job'[p].frontier = job[p].frontier
        /\ job'[p].boundary = job[p].boundary
    BY <1>0, <2>1 DEF Job
  <2>3. QED
    BY <1>10, <2>1, <2>2 DEF Phase
<1>13. ASSUME NEW p \in Publisher, NEW outcome \in {"fresh", "failed"},
              BuildDense(p, outcome)
       PROVE  OnWay'
  <2> DEFINE base == editions[job[p].base]
  <2>1. /\ Lives(p) /\ phase[p] = "building" /\ UNCHANGED editions
        /\ phase' = [phase EXCEPT ![p] = "built"] /\ job[p].kind = "dense"
        /\ job'[p] = [job[p] EXCEPT
             !.corpus = base.corpus, !.frontier = base.frontier,
             !.boundary = base.boundary,
             !.dense = [state |-> outcome, of |-> base.corpus]]
    BY <1>0, <1>13 DEF BuildDense, Runs
  <2>2. /\ job'[p].kind = "dense" /\ job'[p].frontier = base.frontier
        /\ job'[p].boundary = base.boundary /\ job'[p].base = job[p].base
        /\ \A q \in Publisher \ {p} : phase'[q] = phase[q]
        /\ HeadSeq' = HeadSeq
    BY <1>0, <2>1 DEF Job, HeadSeq
  <2>3. job[p].base \in 1..HeadSeq
    BY <1>0, <1>b, <2>1 DEF LaneOf
  <2>4. DenseOnWay(p)'
    BY <2>1, <2>2, <2>3 DEF DenseOnWay
  <2>5. QED
    BY <2>1, <2>2, <2>4, OneOnWay DEF OnWayOf
<1>14. ASSUME NEW p \in Publisher,
              BuildFails(p) \/ CommitRejected(p) \/ CommitThrows(p) \/ Committed(p)
       PROVE  OnWay'
  <2>1. Lives(p) /\ phase' = [phase EXCEPT ![p] = "idle"]
    BY <1>14 DEF BuildFails, CommitRejected, CommitThrows, Committed, Runs, SettleFailed,
       SettlePublished
  <2>2. QED
    BY <1>9, <2>1
<1>15. ASSUME NEW p \in Publisher, ReadHead(p) PROVE OnWay'
  <2>1. Lives(p) /\ phase[p] = "built" /\ UNCHANGED editions
    BY <1>15 DEF ReadHead, Runs
  <2>2. CASE phase' = [phase EXCEPT ![p] = "idle"]
    BY <1>9, <2>1, <2>2
  <2>3. CASE /\ phase' = [phase EXCEPT ![p] = "expecting"]
             /\ job' = [job EXCEPT ![p].head = HeadSeq]
    <3>1. /\ job'[p].kind = job[p].kind /\ job'[p].frontier = job[p].frontier
          /\ job'[p].boundary = job[p].boundary /\ job'[p].base = job[p].base
      BY <1>0, <2>3 DEF Job
    <3>2. QED
      BY <1>10, <2>1, <2>3, <3>1 DEF Phase
  <2>4. QED
    BY <1>15, <2>2, <2>3 DEF ReadHead, SettleFailed
<1>16. ASSUME NEW p \in Publisher, Lives(p), UNCHANGED <<editions, job>>,
              phase[p] \in {"expecting", "checked", "fenced"},
              \/ phase' = [phase EXCEPT ![p] = "queued"]
              \/ phase' = [phase EXCEPT ![p] = "checked"]
              \/ phase' = [phase EXCEPT ![p] = "fenced"]
       PROVE  OnWay'
  BY <1>10, <1>16 DEF Phase
<1>17. ASSUME NEW p \in Publisher, CheckHead(p) PROVE OnWay'
  BY <1>16, <1>17 DEF CheckHead, NotHead, Runs
<1>18. ASSUME NEW p \in Publisher, CheckFence(p) PROVE OnWay'
  <2>1. CASE SettleFailed(p)
    BY <1>9, <1>18, <2>1 DEF CheckFence, SettleFailed, Runs
  <2>2. CASE ~SettleFailed(p)
    BY <1>16, <1>18, <2>2 DEF CheckFence, Runs
  <2>3. QED
    BY <2>1, <2>2
<1>19. ASSUME NEW p \in Publisher, Publishes(p) PROVE OnWay'
  <2>1. /\ Lives(p) /\ phase'[p] = "linked" /\ job' = job /\ disk' = disk
        /\ \A q \in Publisher \ {p} : phase'[q] = phase[q]
    BY <1>0, <1>19 DEF Publishes
  <2>2. CASE job[p].kind = "lexical"
    <3>1. /\ Len(editions') = HeadSeq + 1
          /\ \A i \in 1..HeadSeq : editions'[i] = editions[i]
          /\ editions'[HeadSeq + 1] = Candidate(p)
          /\ LexicalOnWay(p)
      BY <1>19, <2>2, PublishesKind
    <3>2. editions'[HeadSeq + 1].boundary = job[p].boundary /\ job[p].boundary \in Nat
      BY <1>0, <3>1 DEF Candidate, Job
    <3>3. \A n \in 1..Len(editions') : editions'[n].boundary <= job[p].boundary
      BY <1>b, <3>1, <3>2 DEF LexicalOnWay
    <3>4. \E n \in 1..Len(editions') : editions'[n].boundary = job[p].boundary
      BY <1>b, <3>1, <3>2
    <3>5. LexicalOnWay(p)'
      BY <2>1, <3>1, <3>3, <3>4 DEF LexicalOnWay, HeadSeq
    <3>6. QED
      BY <2>1, <2>2, <3>5, OneOnWay DEF OnWayOf
  <2>3. CASE job[p].kind # "lexical"
    BY <2>1, <2>3, OneOnWay DEF OnWayOf, DenseOnWay
  <2>4. QED
    BY <2>2, <2>3
<1>20. ASSUME NEW p \in Publisher, CommitAdvance(p) \/ CommitSameFrontier(p) PROVE OnWay'
  <2>1. Lives(p) /\ phase[p] = "fenced"
    BY <1>20 DEF CommitAdvance, CommitSameFrontier, Runs
  <2>2. \/ Publishes(p)
        \/ SettleFailed(p)
        \/ NotHead(p) /\ UNCHANGED editions
    BY <1>20 DEF CommitAdvance, CommitSameFrontier, Link, Publishes, Runs
  <2>3. CASE SettleFailed(p)
    BY <1>9, <2>1, <2>3 DEF SettleFailed
  <2>4. CASE NotHead(p) /\ UNCHANGED editions
    BY <1>16, <2>1, <2>4 DEF NotHead
  <2>5. QED
    BY <1>19, <2>2, <2>3, <2>4
<1>21. CASE UNCHANGED vars
  BY <1>2, <1>21 DEF vars
<1>22. QED
  BY <1>2, <1>3, <1>4, <1>5, <1>6, <1>7, <1>8, <1>11, <1>12, <1>13, <1>14, <1>15, <1>17,
     <1>18, <1>20, <1>21 DEF Next, RequestRefresh, RequestSave

-----------------------------------------------------------------------------
(* What is acknowledged, claimed or awaited is accounted for.              *)

\* An acknowledgement that is due is of a mark an edition accounts for.
DueCovered ==
  \A p \in Publisher : \A s \in unacked[p] : s \in DOMAIN disk.ops /\ Accounted(disk, s)

\* An edition accounts, or an earlier one did, for every mark below its boundary.
BoundaryCovered ==
  \A n \in 1..HeadSeq : \A s \in DOMAIN disk.ops :
    s <= editions[n].boundary => Accounted(disk, s)

\* A mark that is accounted for stays so, in every later state.
LEMMA AccountedStep ==
  ASSUME Inv, Alone, NumberedBelow(disk), [Next]_vars,
         NEW s \in DOMAIN disk.ops, Accounted(disk, s)
  PROVE  s \in DOMAIN disk'.ops /\ Accounted(disk, s)'
<1>1. KeepsMarks(disk, disk')
  BY DiskStep DEF Inv, Continues
<1>2. /\ Len(editions) \in Nat /\ Len(editions') \in Nat /\ Len(editions) <= Len(editions')
      /\ \A i \in 1..Len(editions) : editions'[i] = editions[i]
  <2>1. editions \in Seq(Edition)
    BY DEF Inv, TypeOK
  <2>2. CASE UNCHANGED editions
    BY <2>1, <2>2
  <2>3. CASE \E p \in Publisher : Publishes(p)
    BY <2>1, <2>3 DEF Publishes
  <2>4. QED
    BY <2>2, <2>3, PublishStep DEF Inv
<1>3. AccountedIn(editions, disk, s)
  BY DEF Accounted, AccountedIn
<1>4. AccountedIn(editions', disk', s)
  BY <1>1, <1>2, <1>3, StaysAccounted
<1>5. QED
  BY <1>1, <1>4 DEF Accounted, AccountedIn, KeepsMarks

\* What the lane's commit validated: the linked edition accounts for every mark
\* up to its boundary that was still to be acknowledged.
LEMMA CandidateCovers ==
  ASSUME Inv, Alone, Numbered, OnWay, NEW p \in Publisher, Publishes(p),
         job[p].kind = "lexical", NEW s \in Dirty(disk, job[p].boundary)
  PROVE  s \in DOMAIN disk'.ops /\ Accounted(disk, s)'
<1>1. /\ Len(editions') = HeadSeq + 1 /\ HeadSeq \in Nat
      /\ editions'[HeadSeq + 1] = Candidate(p)
      /\ Covered(p)
  BY PublishesKind
<1>2. mem[p] = disk /\ disk' = disk
  BY DEF Publishes, Alone, CopyIsFile
<1>3. Covers(disk, job[p].corpus, job[p].boundary, s)
  BY <1>1, <1>2 DEF Covered
<1>4. /\ editions'[HeadSeq + 1].corpus = job[p].corpus
      /\ editions'[HeadSeq + 1].boundary = job[p].boundary
  BY <1>1 DEF Candidate
<1>5. Covers(disk', editions'[HeadSeq + 1].corpus, editions'[HeadSeq + 1].boundary, s)
  BY <1>2, <1>3, <1>4
<1>6. HeadSeq + 1 \in 1..Len(editions')
  BY <1>1
<1>7. QED
  BY <1>2, <1>5, <1>6 DEF Accounted, Dirty

\* No step acknowledges a mark that is not accounted for.
LEMMA AckedStep ==
  ASSUME Inv, Alone, Numbered, AckedCovered, DueCovered, [Next]_vars
  PROVE  AckedCovered'
<1> SUFFICES ASSUME NEW s \in DOMAIN disk'.ops, disk'.ops[s].state = "acked"
             PROVE  Accounted(disk, s)'
  BY DEF AckedCovered
<1>1. /\ Continues(disk, disk')
      /\ AcksOnly(disk, disk', UNION {unacked[p] : p \in Publisher})
  BY DiskStep DEF Inv, Numbered
<1>2. s \in DOMAIN disk.ops
  BY <1>1 DEF Continues
<1>3. Accounted(disk, s)
  <2>1. CASE disk.ops[s].state = "acked"
    BY <1>2, <2>1 DEF AckedCovered
  <2>2. CASE \E p \in Publisher : s \in unacked[p]
    BY <2>2 DEF DueCovered
  <2>3. QED
    BY <1>1, <1>2, <2>1, <2>2 DEF AcksOnly
<1>4. QED
  BY <1>2, <1>3, AccountedStep DEF Numbered

\* Every acknowledgement that becomes due was validated by the commit.
LEMMA DueStep ==
  ASSUME Inv, Alone, Numbered, OnWay, DueCovered, [Next]_vars
  PROVE  DueCovered'
<1> SUFFICES ASSUME NEW q \in Publisher, NEW s \in unacked'[q]
             PROVE  s \in DOMAIN disk'.ops /\ Accounted(disk, s)'
  BY DEF DueCovered
<1>0. unacked \in [Publisher -> SUBSET Nat]
  BY DEF Inv, TypeOK
<1>1. CASE s \in unacked[q]
  BY <1>1, AccountedStep DEF DueCovered, Numbered
<1>2. ASSUME NEW p \in Publisher, Publishes(p), s \notin unacked[q]
      PROVE  s \in DOMAIN disk'.ops /\ Accounted(disk, s)'
  <2>1. CASE job[p].kind = "lexical"
    <3>1. unacked' = [unacked EXCEPT ![p] = Dirty(mem[p], job[p].boundary)]
      BY <1>2, <2>1, PublishesKind
    <3>2. mem[p] = disk
      BY <1>2 DEF Publishes, Alone, CopyIsFile
    <3>3. s \in Dirty(disk, job[p].boundary)
      BY <1>0, <1>2, <3>1, <3>2
    <3>4. QED
      BY <1>2, <2>1, <3>3, CandidateCovers
  <2>2. CASE job[p].kind # "lexical"
    <3>1. unacked' = [unacked EXCEPT ![p] = {}]
      BY <1>2, <2>2, PublishesKind
    <3>2. QED
      BY <1>0, <1>2, <3>1
  <2>3. QED
    BY <2>1, <2>2
<1>3. QED
  BY <1>1, <1>2, PublishStep DEF Inv

\* Every edition claims a boundary below which all is accounted for.
LEMMA BoundaryCoveredStep ==
  ASSUME ~Overlap, Inv, Alone, Numbered, OnWay, AckedCovered, BoundaryCovered, [Next]_vars
  PROVE  BoundaryCovered'
<1>1. Continues(disk, disk') /\ IsJournal(disk')
  BY DiskStep, StepInv DEF Inv, Numbered, TypeOK, JournalTypes
<1>2. \A n \in 1..HeadSeq : editions[n] \in Edition
  BY HeadIsNat DEF Inv, TypeOK
<1>3. disk.nextJournal \in Nat
  BY DEF Inv, TypeOK, JournalTypes, IsJournal
<1>4. ASSUME NEW n \in 1..HeadSeq, NEW s \in DOMAIN disk'.ops, s <= editions[n].boundary
      PROVE  Accounted(disk, s)'
  <2>1. s \in DOMAIN disk.ops
    <3>1. editions[n].boundary < disk.nextJournal /\ editions[n].boundary \in Nat
      BY <1>2 DEF Numbered, EditionsNumbered, Edition
    <3>2. s \in Nat /\ ~(s >= disk.nextJournal)
      BY <1>1, <1>3, <1>4, <3>1 DEF IsJournal
    <3>3. QED
      BY <1>1, <3>2 DEF Continues
  <2>2. Accounted(disk, s)
    BY <1>4, <2>1 DEF BoundaryCovered
  <2>3. QED
    BY <2>1, <2>2, AccountedStep DEF Numbered
<1>5. CASE UNCHANGED editions
  BY <1>4, <1>5 DEF BoundaryCovered, HeadSeq
<1>6. ASSUME NEW p \in Publisher, Publishes(p) PROVE BoundaryCovered'
  <2>1. /\ HeadSeq' = HeadSeq + 1 /\ HeadSeq \in Nat
        /\ \A i \in 1..HeadSeq : editions'[i] = editions[i]
        /\ disk' = disk
    BY <1>6, PublishesKind DEF Publishes, HeadSeq
  <2>2. editions'[HeadSeq + 1].boundary = job[p].boundary
    <3>1. editions'[HeadSeq + 1] = Candidate(p)
      BY <1>6, PublishesKind
    <3>2. QED
      BY <3>1 DEF Candidate
  <2>3. ASSUME NEW s \in DOMAIN disk'.ops, s <= job[p].boundary
        PROVE  Accounted(disk, s)'
    <3>1. CASE job[p].kind = "lexical"
      <4>1. CASE disk.ops[s].state = "acked"
        BY <2>1, <2>3, <4>1, AccountedStep DEF AckedCovered, Numbered
      <4>2. CASE disk.ops[s].state # "acked"
        <5>1. s \in Dirty(disk, job[p].boundary)
          BY <2>1, <2>3, <4>2 DEF Dirty
        <5>2. QED
          BY <1>6, <3>1, <5>1, CandidateCovers
      <4>3. QED
        BY <4>1, <4>2
    <3>2. CASE job[p].kind # "lexical"
      <4>1. HeadSeq \in 1..HeadSeq /\ job[p].boundary = editions[HeadSeq].boundary
        BY <1>6, <3>2, PublishesKind
      <4>2. QED
        BY <1>4, <2>3, <4>1
    <3>3. QED
      BY <3>1, <3>2
  <2>4. QED
    BY <1>4, <2>1, <2>2, <2>3 DEF BoundaryCovered
<1>7. QED
  BY <1>5, <1>6, PublishStep DEF Inv

\* Every edition that is linked claims at least the boundary of those before.
LEMMA BoundaryStep ==
  ASSUME Inv, OnWay, BoundaryMonotone, [Next]_vars
  PROVE  BoundaryMonotone'
<1>1. CASE UNCHANGED editions
  BY <1>1 DEF BoundaryMonotone
<1>2. ASSUME NEW p \in Publisher, Publishes(p) PROVE BoundaryMonotone'
  <2>1. /\ Len(editions') = HeadSeq + 1 /\ HeadSeq \in Nat /\ HeadSeq = Len(editions)
        /\ \A i \in 1..HeadSeq : editions'[i] = editions[i]
    BY <1>2, PublishesKind DEF HeadSeq
  <2>2. editions'[HeadSeq + 1].boundary = job[p].boundary
    <3>1. editions'[HeadSeq + 1] = Candidate(p)
      BY <1>2, PublishesKind
    <3>2. QED
      BY <3>1 DEF Candidate
  <2>3. \A n \in 1..HeadSeq : editions[n] \in Edition
    BY HeadIsNat DEF Inv, TypeOK
  <2>4. ASSUME NEW n \in 1..HeadSeq PROVE editions[n].boundary <= job[p].boundary
    <3>1. CASE job[p].kind = "lexical"
      BY <1>2, <2>4, <3>1, PublishesKind DEF LexicalOnWay
    <3>2. CASE job[p].kind # "lexical"
      <4>1. HeadSeq \in 1..HeadSeq /\ job[p].boundary = editions[HeadSeq].boundary
        BY <1>2, <3>2, PublishesKind
      <4>2. CASE n = HeadSeq
        BY <2>3, <4>1, <4>2 DEF Edition
      <4>3. CASE n < HeadSeq
        BY <2>1, <4>1, <4>3 DEF BoundaryMonotone
      <4>4. QED
        BY <2>1, <4>2, <4>3
    <3>3. QED
      BY <3>1, <3>2
  <2>5. QED
    BY <2>1, <2>2, <2>4 DEF BoundaryMonotone
<1>3. QED
  BY <1>1, <1>2, PublishStep DEF Inv

\* A caller is told of no boundary below which something is left out.
LEMMA PublishedStep ==
  ASSUME ~Overlap, Inv, Alone, Numbered, OnWay, BoundaryCovered, PublishedCovered,
         [Next]_vars
  PROVE  PublishedCovered'
<1> SUFFICES ASSUME NEW q \in Publisher, NEW s \in DOMAIN mem'[q].ops, s <= settled'[q]
             PROVE  AccountedIn(editions', mem'[q], s)
  BY DEF PublishedCovered, Accounted, AccountedIn
<1>0. /\ settled \in [Publisher -> Nat] /\ IsJournal(disk) /\ IsJournal(disk')
      /\ IsJournal(mem'[q]) /\ job[q] \in Job /\ OnWayOf(q) /\ IsJournal(mem[q])
      /\ Continues(disk, disk') /\ TypeOK /\ settled[q] < disk.nextJournal
  BY StepInv, DiskStep DEF Inv, TypeOK, LaneTypes, JournalTypes, Numbered, OnWay,
     SettledNumbered
<1>1. /\ Len(editions) \in Nat /\ Len(editions') \in Nat /\ Len(editions) <= Len(editions')
      /\ \A i \in 1..Len(editions) : editions'[i] = editions[i]
  <2>1. editions \in Seq(Edition)
    BY DEF Inv, TypeOK
  <2>2. CASE UNCHANGED editions
    BY <2>1, <2>2
  <2>3. CASE \E p \in Publisher : Publishes(p)
    BY <2>1, <2>3 DEF Publishes
  <2>4. QED
    BY <1>0, <2>2, <2>3, PublishStep
<1>2. s \in Nat /\ s >= 0
  BY <1>0 DEF IsJournal
<1>3. CASE Lives(q)
  <2>1. mem'[q] = disk' /\ mem[q] = disk
    BY <1>0, <1>3, MemStep DEF Alone, CopyIsFile
  <2>2. CASE s <= settled[q]
    <3>1. s \in DOMAIN disk.ops
      <4>1. ~(s >= disk.nextJournal)
        BY <1>0, <1>2, <2>2 DEF IsJournal
      <4>2. QED
        BY <1>0, <2>1, <4>1 DEF Continues
    <3>2. Accounted(disk, s)
      BY <2>1, <2>2, <3>1 DEF PublishedCovered
    <3>3. QED
      BY <2>1, <3>1, <3>2, AccountedStep DEF Accounted, AccountedIn, Numbered
  <2>3. CASE /\ UNCHANGED <<disk, editions>>
             /\ s <= job[q].boundary
             /\ job[q].kind = "lexical" /\ phase[q] # "idle"
             /\ phase[q] = "linked" \/ HeadCoversBoundary(job[q])
    <3>1. PICK n \in 1..HeadSeq : editions[n].boundary >= job[q].boundary
      <4>1. CASE phase[q] = "linked"
        <5>1. PICK n \in 1..HeadSeq : editions[n].boundary = job[q].boundary
          BY <1>0, <2>3, <4>1 DEF OnWayOf, LexicalOnWay
        <5>2. QED
          BY <1>0, <5>1 DEF Job
      <4>2. CASE HeadCoversBoundary(job[q])
        BY <1>1, <4>2 DEF HeadCoversBoundary, HeadSeq
      <4>3. QED
        BY <2>3, <4>1, <4>2
    <3>2. editions[n].boundary \in Nat /\ job[q].boundary \in Nat
      BY <1>0, HeadIsNat DEF TypeOK, Edition, Job
    <3>3. s <= editions[n].boundary
      BY <1>2, <2>3, <3>1, <3>2
    <3>4. Accounted(disk, s)
      BY <2>1, <2>3, <3>3 DEF BoundaryCovered
    <3>5. QED
      BY <2>1, <2>3, <3>4 DEF Accounted, AccountedIn
  <2>4. QED
    <3>1. settled[q] \in Nat /\ job[q].boundary \in Nat
      BY <1>0 DEF Job
    <3>2. \/ settled'[q] = settled[q]
          \/ settled'[q] = Later(settled[q], 0)
          \/ /\ settled'[q] = Later(settled[q], job[q].boundary)
             /\ UNCHANGED <<disk, editions>>
             /\ job[q].kind = "lexical" /\ phase[q] # "idle"
             /\ phase[q] = "linked" \/ HeadCoversBoundary(job[q])
      BY <1>0, SettleStep
    <3>3. CASE settled'[q] = settled[q] \/ settled'[q] = Later(settled[q], 0)
      BY <2>2, <3>1, <3>3 DEF Later
    <3>4. CASE /\ settled'[q] = Later(settled[q], job[q].boundary)
               /\ UNCHANGED <<disk, editions>>
               /\ job[q].kind = "lexical" /\ phase[q] # "idle"
               /\ phase[q] = "linked" \/ HeadCoversBoundary(job[q])
      <4>1. s <= settled[q] \/ s <= job[q].boundary
        BY <3>1, <3>4 DEF Later
      <4>2. QED
        BY <2>2, <2>3, <3>4, <4>1
    <3>5. QED
      BY <3>2, <3>3, <3>4
<1>4. CASE ~Lives(q)
  <2>0. settled'[q] = settled[q]
    BY <1>0, <1>4, SettleStep
  <2>1. CASE mem'[q] = mem[q]
    <3>1. AccountedIn(editions, mem[q], s)
      BY <2>0, <2>1 DEF PublishedCovered, Accounted, AccountedIn
    <3>2. KeepsMarks(mem[q], mem'[q])
      BY <2>1 DEF KeepsMarks
    <3>3. QED
      BY <1>1, <2>1, <3>1, <3>2, StaysAccounted
  <2>2. CASE status[q] = "new" /\ mem'[q] = disk'
    <3>1. settled'[q] = 0
      BY <2>0, <2>2 DEF Alone, RestIdle
    <3>2. NumberedBelow(disk')
      BY NumberedStep DEF Numbered
    <3>3. s >= 1
      BY <2>2, <3>2 DEF NumberedBelow
    <3>4. QED
      BY <1>2, <3>1, <3>3
  <2>3. QED
    BY <1>0, <1>4, <2>1, <2>2, MemStep
<1>5. QED
  BY <1>3, <1>4

-----------------------------------------------------------------------------
(* The theorems.                                                           *)

AloneInv ==
  /\ Inv
  /\ Alone
  /\ Numbered
  /\ OnWay
  /\ AckedCovered
  /\ DueCovered
  /\ BoundaryCovered
  /\ BoundaryMonotone
  /\ PublishedCovered

\* The invariant holds in every reachable state, when publishers do not overlap.
LEMMA AloneInvHolds == ASSUME ~Overlap PROVE Spec => []AloneInv
<1>1. Init => AloneInv
  <2> SUFFICES ASSUME Init PROVE AloneInv
    OBVIOUS
  <2>1. Inv
    BY InitInv
  <2>2. Alone
    BY DEF Init, Alone, OnePublisher, CopyIsFile, RestIdle, Lives
  <2>3. Numbered
    BY DEF Init, Numbered, NumberedBelow, EditionsNumbered, SettledNumbered, EmptyJournal,
       HeadSeq
  <2>4. OnWay
    BY DEF Init, OnWay, OnWayOf
  <2>5. AckedCovered /\ DueCovered /\ BoundaryCovered
    BY DEF Init, AckedCovered, DueCovered, BoundaryCovered, EmptyJournal
  <2>6. BoundaryMonotone
    BY DEF Init, BoundaryMonotone
  <2>7. PublishedCovered
    BY DEF Init, PublishedCovered, EmptyJournal
  <2>8. QED
    BY <2>1, <2>2, <2>3, <2>4, <2>5, <2>6, <2>7 DEF AloneInv
<1>2. AloneInv /\ [Next]_vars => AloneInv'
  <2> SUFFICES ASSUME AloneInv, [Next]_vars PROVE AloneInv'
    OBVIOUS
  <2>1. Inv' /\ Alone'
    BY StepInv, AloneStep DEF AloneInv, Inv
  <2>2. Numbered' /\ OnWay'
    BY NumberedStep, OnWayStep DEF AloneInv
  <2>3. AckedCovered' /\ DueCovered'
    BY AckedStep, DueStep DEF AloneInv
  <2>4. BoundaryCovered' /\ BoundaryMonotone'
    BY BoundaryCoveredStep, BoundaryStep DEF AloneInv
  <2>5. PublishedCovered'
    BY PublishedStep DEF AloneInv
  <2>6. QED
    BY <2>1, <2>2, <2>3, <2>4, <2>5 DEF AloneInv
<1>3. QED
  BY <1>1, <1>2, PTL DEF Spec

\* With one publisher of a ledger at a time, no mark that was journaled is
\* acknowledged, and so forgotten, before an edition accounts for it: not after
\* crashes between link and acknowledgement, failed saves, half-logged
\* acknowledgements, or commits from a superseded daemon.
THEOREM NothingForgotten == ASSUME ~Overlap PROVE Spec => []AckedCovered
<1>1. AloneInv => AckedCovered
  BY DEF AloneInv
<1>2. QED
  BY <1>1, AloneInvHolds, PTL

\* With one publisher at a time, who is told that everything up to a boundary
\* is published finds every mark up to there in an edition.
THEOREM ToldIsPublished == ASSUME ~Overlap PROVE Spec => []PublishedCovered
<1>1. AloneInv => PublishedCovered
  BY DEF AloneInv
<1>2. QED
  BY <1>1, AloneInvHolds, PTL

\* With one publisher at a time, a later edition never accounts for fewer marks
\* than an earlier one claimed.
THEOREM BoundariesGrow == ASSUME ~Overlap PROVE Spec => []BoundaryMonotone
<1>1. AloneInv => BoundaryMonotone
  BY DEF AloneInv
<1>2. QED
  BY <1>1, AloneInvHolds, PTL

-----------------------------------------------------------------------------
(* Retrieve.                                                                *)

CONSTANTS Note, Source, Right, Matching, Linked, Paths, Tagged, Versions, Limit, MaxEvents
VARIABLES head, gen, dirs, pins, request, events

Reading == INSTANCE Retrieve

\* An origin names notes, a filter lets notes through, and an answer has room for a match.
ReadingMakesSense ==
  /\ Source \in Note /\ Right \in Note /\ Limit \in Nat \ {0}
  /\ \A p \in Paths \cup Tagged : p \subseteq Note

Known    == Versions \cup {0, 1}
Contents == [Note -> Known]
Gens     == [id : Nat, of : Contents, sameSpace : BOOLEAN]
Matches  == [note : Note, version : Known, vector : Known]
Steps    == {"start", "chosen", "pinned", "search", "context", "found", "retained", "attached", "encoding", "searching",
             "analyze", "execute", "ready", "not ready", "failed"}
Reads    ==
  [pc : Steps, origin : Reading!Origins, sourced : BOOLEAN, mode : Reading!Modes, path : Paths,
   tagged : Tagged, words : {"some", "blank", "none"}, floor : BOOLEAN, docs : Contents, found : Gens, dense : Gens,
   query : Known, hits : SUBSET Note, matches : SUBSET Matches]

\* What a request holds, by how far it is.
Unpinned == {"start", "chosen", "ready", "not ready", "failed"}
Own(r)   == IF r.dense.id = 0 THEN {} ELSE {r.dense.id}
Holds(r) == [lexical    |-> IF r.pc \in Unpinned THEN 0 ELSE 1,
             generation |-> IF r.pc = "retained" THEN {r.found.id} ELSE Own(r),
             lease      |-> Own(r)]

\* Vectors are attached between the attachment and the end.
DenseFits(r) == r.dense.id # 0 => r.pc \in {"attached", "encoding", "searching", "analyze", "execute"}

\* The stages that a search does not have.
Attaching == {"pinned", "context", "found", "retained", "attached"}

OfText(r) == r.origin \in {"text", "search"}

\* A note is searched for with the stored vector of its pinned content.
QueryFits(r) ==
  /\ r.pc \in {"searching", "analyze", "execute", "ready"} /\ ~OfText(r) => r.query = r.docs[Source]
  /\ r.pc = "search" => r.origin = "search"
  /\ r.pc = "encoding" => r.origin = "text"
  /\ r.pc \in Attaching => r.origin # "search"

\* A match is a note of the pinned snapshot, scored with the vector of its content or with none.
MatchFits(r, m) ==
  /\ m \in Matches /\ m.version # 0 /\ m.vector \in {0, m.version}
  /\ r.origin = "note" => m.note # Source

AnswerFits(r) ==
  r.pc = "ready" =>
    /\ \A m \in r.matches : MatchFits(r, m)
    /\ OfText(r) /\ r.words = "some" /\ r.matches = {} /\ ~r.floor =>
         \A n \in Matching : n \in r.tagged \cap r.path => r.docs[n] = 0

ReadFits(r) ==
  /\ r \in Reads /\ DenseFits(r) /\ QueryFits(r) /\ AnswerFits(r)
  /\ r.pc = "retained" => r.found.id # 0

ReadInv ==
  /\ head \in Contents /\ gen \in Gens /\ dirs \subseteq Nat \ {0}
  /\ ReadFits(request)
  /\ pins = Holds(request) /\ Holds(request).generation \subseteq dirs

\* Before the request.
LEMMA ReadStarts == ASSUME ReadingMakesSense, Reading!Init PROVE ReadInv
<1>1. head \in Contents /\ Reading!NoGen \in Gens
  BY DEF Reading!Init, Reading!First, Reading!NoGen, Contents, Known, Gens
<1>2. gen \in Gens /\ dirs \subseteq Nat \ {0}
  BY <1>1 DEF Reading!Init, Gens
<1>3. PICK o \in Reading!Origins, s \in BOOLEAN, m \in Reading!Modes, p \in Paths, t \in Tagged,
           w \in {"some", "blank", "none"}, f \in BOOLEAN :
        request = [pc |-> "start", origin |-> o, sourced |-> s, mode |-> m, path |-> p, tagged |-> t, words |-> w,
                   floor |-> f, docs |-> Reading!NoGen.of, found |-> Reading!NoGen, dense |-> Reading!NoGen,
                   query |-> 0, hits |-> {}, matches |-> {}]
  BY DEF Reading!Init, Reading!Requests
<1>4. request \in Reads
  <2>1. Reading!NoGen.of \in Contents /\ 0 \in Known
    BY <1>1 DEF Gens, Known
  <2> QED BY <1>1, <1>3, <2>1 DEF Reads, Steps
<1>5. request.pc = "start" /\ request.dense.id = 0
  BY <1>3 DEF Reading!NoGen
<1>6. pins = Holds(request)
  BY <1>5 DEF Reading!Init, Reading!NoPins, Holds, Own, Unpinned
<1> QED BY <1>1, <1>2, <1>4, <1>5, <1>6 DEF ReadInv, ReadFits, DenseFits, QueryFits, Attaching, AnswerFits, Holds, Own

\* The vault moves on: the request and what it holds stay as they are.
LEMMA VaultMoves ==
  ASSUME ReadInv,
         (\E n \in Note, v \in Versions : Reading!Edit(n, v)) \/ Reading!DenseEdition \/ (\E g \in dirs : Reading!Sweep(g))
  PROVE  ReadInv'
<1>1. request' = request /\ pins' = pins
  BY DEF Reading!Edit, Reading!DenseEdition, Reading!Sweep
<1>2. head' \in Contents
  BY DEF ReadInv, Reading!Edit, Reading!DenseEdition, Reading!Sweep, Contents, Known
<1>3. gen' \in Gens /\ dirs' \subseteq Nat \ {0}
  <2>1. CASE Reading!DenseEdition
    <3>1. gen.id + 1 \in Nat \ {0} /\ head \in Contents /\ dirs \subseteq Nat \ {0}
      BY DEF ReadInv, Gens
    <3> QED BY <2>1, <3>1 DEF Reading!DenseEdition, Gens
  <2>2. CASE \E n \in Note, v \in Versions : Reading!Edit(n, v)
    BY <2>2 DEF ReadInv, Reading!Edit
  <2>3. CASE \E g \in dirs : Reading!Sweep(g)
    BY <2>3 DEF ReadInv, Reading!Sweep
  <2> QED BY <2>1, <2>2, <2>3
<1>4. Holds(request).generation \subseteq dirs'
  BY DEF ReadInv, Reading!Edit, Reading!DenseEdition, Reading!Sweep
<1> QED BY <1>1, <1>2, <1>3, <1>4 DEF ReadInv

\* A step of the request.
LEMMA RequestMoves ==
  ASSUME ReadInv, NEW r, request' = r, Reading!World, ReadFits(r), pins' = Holds(r), Holds(r).generation \subseteq dirs
  PROVE  ReadInv'
BY DEF ReadInv, Reading!World

\* A step that neither ends the request nor changes what it holds.
LEMMA RequestGoes ==
  ASSUME ReadInv, NEW r, Reading!Goes(r), UNCHANGED pins, ReadFits(r), Holds(r) = Holds(request)
  PROVE  ReadInv'
<1>1. request' = r /\ Reading!World
  BY DEF Reading!Goes
<1>2. pins' = Holds(r) /\ Holds(r).generation \subseteq dirs
  BY DEF ReadInv
<1> QED BY <1>1, <1>2, RequestMoves

\* What is given back is all that is held.
LEMMA GivesBack ==
  ASSUME ReadInv, request.pc \notin Unpinned, request.pc # "retained"
  PROVE  Reading!Released = [lexical |-> 0, generation |-> {}, lease |-> {}]
<1>1. pins.lexical = 1 /\ pins.generation = Own(request) /\ pins.lease = Own(request)
  BY DEF ReadInv, Holds
<1>2. Own(request) \ {request.dense.id} = {}
  BY DEF Own
<1>3. pins.lexical - 1 = 0
  BY <1>1
<1> QED BY <1>1, <1>2, <1>3 DEF Reading!Released

\* The request ends, and gives back what it holds.
LEMMA RequestEnds ==
  ASSUME ReadInv, NEW r, Reading!Ends(r), r \in Reads, r.pc \in {"ready", "not ready", "failed"},
         QueryFits(r), AnswerFits(r), r.dense = request.dense, request.pc \notin Unpinned, request.pc # "retained"
  PROVE  ReadInv'
<1>1. PICK n : n = [r EXCEPT !.found = Reading!NoGen, !.dense = Reading!NoGen, !.hits = {}]
  OBVIOUS
<1>2. Reading!NoGen \in Gens /\ Reading!NoGen.id = 0
  BY DEF Reading!NoGen, Gens, Contents, Known
<1>3. /\ n \in Reads /\ n.pc = r.pc /\ n.origin = r.origin /\ n.query = r.query /\ n.docs = r.docs /\ n.words = r.words
      /\ n.matches = r.matches /\ n.floor = r.floor /\ n.tagged = r.tagged /\ n.path = r.path /\ n.dense = Reading!NoGen
  BY <1>1, <1>2 DEF Reads
<1>4. ReadFits(n)
  BY <1>2, <1>3 DEF ReadFits, DenseFits, QueryFits, AnswerFits, MatchFits, OfText
<1>5. Reading!Released = [lexical |-> 0, generation |-> {}, lease |-> {}]
  BY GivesBack
<1>6. Holds(n) = [lexical |-> 0, generation |-> {}, lease |-> {}]
  BY <1>2, <1>3 DEF Holds, Own, Unpinned
<1>7. request' = n /\ Reading!World /\ pins' = Holds(n) /\ Holds(n).generation \subseteq dirs
  <2>1. request' = n /\ Reading!World /\ pins' = Reading!Released
    BY <1>1 DEF Reading!Ends
  <2>2. Holds(n).generation = {}
    BY <1>2, <1>3 DEF Holds, Own
  <2> QED BY <1>5, <1>6, <2>1, <2>2
<1> QED BY <1>4, <1>7, RequestMoves

\* The request chooses its snapshot and pins it.
LEMMA PinningStep ==
  ASSUME ReadInv, Reading!Choose \/ Reading!Pin \/ Reading!NoSnapshot \/ Reading!Context \/ Reading!ContextFails
  PROVE  ReadInv'
<1>0. request \in Reads /\ ReadFits(request) /\ pins = Holds(request)
  BY DEF ReadInv, ReadFits
<1>1. CASE Reading!Choose
  <2>1. PICK docs \in Contents : Reading!Goes([request EXCEPT !.pc = "chosen", !.docs = docs])
    BY <1>1 DEF Reading!Choose, ReadInv, Reading!First, Contents, Known
  <2>2. PICK r : r = [request EXCEPT !.pc = "chosen", !.docs = docs]
    OBVIOUS
  <2>3. r \in Reads /\ r.pc = "chosen" /\ r.dense = request.dense /\ request.pc = "start"
    BY <1>0, <1>1, <2>2 DEF Reads, Steps, Reading!Choose
  <2>4. ReadFits(r) /\ Holds(r) = Holds(request)
    BY <1>0, <2>3 DEF ReadFits, DenseFits, QueryFits, Attaching, AnswerFits, Holds, Own, Unpinned
  <2> QED BY <1>1, <2>1, <2>2, <2>4, RequestGoes DEF Reading!Choose
<1>2. CASE Reading!Pin
  <2>1. PICK r : r = [request EXCEPT !.pc = IF request.origin = "search" THEN "search" ELSE "pinned"]
    OBVIOUS
  <2>2. /\ r \in Reads /\ r.dense = request.dense /\ request.pc = "chosen" /\ r.found = request.found
        /\ r.pc \in {"search", "pinned"} /\ (r.pc = "search" <=> r.origin = "search")
    BY <1>0, <1>2, <2>1 DEF Reads, Steps, Reading!Pin
  <2>3. ReadFits(r)
    BY <1>0, <2>2 DEF ReadFits, DenseFits, QueryFits, Attaching, AnswerFits
  <2>4. r.dense.id = 0
    BY <1>0, <2>2 DEF ReadFits, DenseFits
  <2>5. Holds(r) = [lexical |-> 1, generation |-> {}, lease |-> {}]
    BY <2>2, <2>4 DEF Holds, Own, Unpinned
  <2>6. pins = [lexical |-> 0, generation |-> {}, lease |-> {}]
    BY <1>0, <2>2, <2>4 DEF Holds, Own, Unpinned
  <2>7. pins' = Holds(r) /\ request' = r /\ Reading!World
    BY <1>2, <2>1, <2>5, <2>6 DEF Reading!Pin, Reading!Goes
  <2> QED BY <2>3, <2>5, <2>7, RequestMoves
<1>3. CASE Reading!NoSnapshot \/ Reading!Context
  <2>1. PICK pc \in {"failed", "not ready", "context"} :
          /\ Reading!Goes([request EXCEPT !.pc = pc]) /\ UNCHANGED pins
          /\ pc = "context" <=> request.pc = "pinned"
          /\ request.pc \in {"start", "chosen", "pinned"}
    BY <1>3 DEF Reading!NoSnapshot, Reading!Context
  <2>2. PICK r : r = [request EXCEPT !.pc = pc]
    OBVIOUS
  <2>3. r \in Reads /\ r.pc = pc /\ r.dense = request.dense /\ r.origin = request.origin
    BY <1>0, <2>1, <2>2 DEF Reads, Steps
  <2>4. ReadFits(r) /\ Holds(r) = Holds(request)
    BY <1>0, <2>1, <2>3 DEF ReadFits, DenseFits, QueryFits, Attaching, AnswerFits, Holds, Own, Unpinned
  <2> QED BY <2>1, <2>2, <2>4, RequestGoes
<1>4. CASE Reading!ContextFails
  <2>1. PICK r : r = [request EXCEPT !.pc = "not ready"]
    OBVIOUS
  <2>2. r \in Reads /\ r.dense = request.dense /\ request.pc = "pinned" /\ r.pc = "not ready"
    BY <1>0, <1>4, <2>1 DEF Reads, Steps, Reading!ContextFails
  <2>3. ReadFits(r)
    BY <1>0, <2>2 DEF ReadFits, DenseFits, QueryFits, Attaching, AnswerFits
  <2>4. r.dense.id = 0
    BY <1>0, <2>2 DEF ReadFits, DenseFits
  <2>5. Holds(r) = [lexical |-> 0, generation |-> {}, lease |-> {}]
    BY <2>2, <2>4 DEF Holds, Own, Unpinned
  <2>6. pins = [lexical |-> 1, generation |-> {}, lease |-> {}]
    BY <1>0, <2>2, <2>4 DEF Holds, Own, Unpinned
  <2>7. pins' = [pins EXCEPT !.lexical = 0]
    <3>1. pins.lexical - 1 = 0
      BY <2>6
    <3> QED BY <1>4, <3>1 DEF Reading!ContextFails
  <2>8. pins' = Holds(r) /\ request' = r /\ Reading!World
    BY <1>4, <2>1, <2>5, <2>6, <2>7 DEF Reading!ContextFails, Reading!Goes
  <2> QED BY <2>3, <2>5, <2>8, RequestMoves
<1> QED BY <1>1, <1>2, <1>3, <1>4

\* The vectors of the last dense edition are attached, or not.
LEMMA AttachingStep ==
  ASSUME ReadInv, \/ Reading!FindEdition \/ Reading!Retain \/ Reading!NoDense
                  \/ Reading!Attach \/ Reading!Unreadable \/ Reading!OpenThrows
  PROVE  ReadInv'
<1>0. /\ request \in Reads /\ ReadFits(request) /\ pins = Holds(request)
      /\ gen \in Gens /\ Reading!NoGen \in Gens /\ Reading!NoGen.id = 0
      /\ dirs \subseteq Nat \ {0} /\ Holds(request).generation \subseteq dirs
  BY DEF ReadInv, ReadFits, Gens, Reading!NoGen, Contents, Known
<1>1. request.pc \in {"context", "found", "retained"} /\ request.dense.id = 0
  BY <1>0 DEF Reading!FindEdition, Reading!Retain, Reading!NoDense, Reading!Attach, Reading!Unreadable,
              Reading!OpenThrows, ReadFits, DenseFits
<1>2. CASE Reading!FindEdition \/ Reading!NoDense
  <2>1. PICK pc \in {"found", "attached"}, g \in Gens :
          Reading!Goes([request EXCEPT !.pc = pc, !.found = g]) /\ UNCHANGED pins /\ request.pc # "retained"
    BY <1>0, <1>2 DEF Reading!FindEdition, Reading!NoDense
  <2>2. PICK r : r = [request EXCEPT !.pc = pc, !.found = g]
    OBVIOUS
  <2>3. r \in Reads /\ r.pc = pc /\ r.dense = request.dense /\ r.origin = request.origin
    BY <1>0, <2>1, <2>2 DEF Reads, Steps
  <2>4. ReadFits(r) /\ Holds(r) = Holds(request)
    BY <1>0, <1>1, <2>1, <2>3 DEF ReadFits, DenseFits, QueryFits, Attaching, AnswerFits, Holds, Own, Unpinned
  <2> QED BY <2>1, <2>2, <2>4, RequestGoes
<1>3. CASE Reading!Retain
  <2>1. PICK r : r = [request EXCEPT !.pc = "retained"]
    OBVIOUS
  <2>2. /\ r \in Reads /\ r.pc = "retained" /\ r.dense = request.dense /\ r.found = request.found
        /\ r.origin = request.origin /\ request.pc = "found" /\ request.found.id \in dirs
    BY <1>0, <1>3, <2>1 DEF Reads, Steps, Reading!Retain, Reading!Attachable
  <2>3. ReadFits(r)
    BY <1>0, <1>1, <2>2 DEF ReadFits, DenseFits, QueryFits, Attaching, AnswerFits
  <2>4. Holds(r) = [lexical |-> 1, generation |-> {request.found.id}, lease |-> {}]
    BY <1>1, <2>2 DEF Holds, Own, Unpinned
  <2>5. pins = [lexical |-> 1, generation |-> {}, lease |-> {}]
    BY <1>0, <1>1, <2>2 DEF Holds, Own, Unpinned
  <2>6. pins' = Holds(r) /\ request' = r /\ Reading!World /\ Holds(r).generation \subseteq dirs
    BY <1>3, <2>1, <2>2, <2>4, <2>5 DEF Reading!Retain, Reading!Goes
  <2> QED BY <2>3, <2>6, RequestMoves
<1>4. CASE Reading!Attach \/ Reading!Unreadable \/ Reading!OpenThrows
  <2>1. /\ request.pc = "retained" /\ request.found \in Gens /\ request.found.id # 0 /\ request.found.id \in dirs
        /\ pins = [lexical |-> 1, generation |-> {request.found.id}, lease |-> {}]
    BY <1>0, <1>1, <1>4 DEF Reading!Attach, Reading!Unreadable, Reading!OpenThrows, ReadFits, Reads, Holds, Own, Unpinned
  <2>2. PICK pc \in {"attached", "failed"}, g \in Gens :
          /\ request' = [request EXCEPT !.pc = pc, !.dense = g, !.found = Reading!NoGen] /\ Reading!World
          /\ g = request.found \/ g.id = 0
          /\ pc = "failed" => g.id = 0
          /\ pins' = [lexical |-> IF pc = "failed" THEN 0 ELSE 1,
                      generation |-> IF g.id = 0 THEN {} ELSE {g.id}, lease |-> IF g.id = 0 THEN {} ELSE {g.id}]
    <3>1. CASE Reading!Attach
      <4>1. /\ request' = [request EXCEPT !.pc = "attached", !.dense = request.found, !.found = Reading!NoGen]
            /\ Reading!World
        BY <3>1 DEF Reading!Attach, Reading!Goes
      <4>2. pins' = [lexical |-> 1, generation |-> {request.found.id}, lease |-> {request.found.id}]
        BY <2>1, <3>1 DEF Reading!Attach
      <4> QED BY <2>1, <4>1, <4>2
    <3>2. CASE Reading!Unreadable
      <4>1. [request EXCEPT !.pc = "attached", !.found = Reading!NoGen]
              = [request EXCEPT !.pc = "attached", !.dense = request.dense, !.found = Reading!NoGen]
        BY <1>0 DEF Reads
      <4>2. request.dense \in Gens
        BY <1>0 DEF Reads
      <4> QED BY <1>1, <2>1, <3>2, <4>1, <4>2 DEF Reading!Unreadable, Reading!Goes
    <3>3. CASE Reading!OpenThrows
      <4>1. [request EXCEPT !.pc = "failed", !.found = Reading!NoGen]
              = [request EXCEPT !.pc = "failed", !.dense = request.dense, !.found = Reading!NoGen]
        BY <1>0 DEF Reads
      <4>2. request.dense \in Gens
        BY <1>0 DEF Reads
      <4>3. pins' = [lexical |-> 0, generation |-> {}, lease |-> {}]
        <5>1. pins.lexical - 1 = 0 /\ pins.generation \ {request.found.id} = {}
          BY <2>1
        <5> QED BY <2>1, <3>3, <5>1 DEF Reading!OpenThrows
      <4> QED BY <1>1, <3>3, <4>1, <4>2, <4>3 DEF Reading!OpenThrows
    <3> QED BY <1>4, <3>1, <3>2, <3>3
  <2>3. PICK r : r = [request EXCEPT !.pc = pc, !.dense = g, !.found = Reading!NoGen]
    OBVIOUS
  <2>4. r \in Reads /\ r.pc = pc /\ r.dense = g /\ r.origin = request.origin
    BY <1>0, <2>2, <2>3 DEF Reads, Steps
  <2>5. ReadFits(r)
    BY <1>0, <2>1, <2>2, <2>4 DEF ReadFits, DenseFits, QueryFits, Attaching, AnswerFits
  <2>6. pins' = Holds(r)
    BY <2>2, <2>4 DEF Holds, Own, Unpinned
  <2>7. Holds(r).generation \subseteq dirs
    BY <2>1, <2>2, <2>4 DEF Holds, Own
  <2> QED BY <2>2, <2>3, <2>5, <2>6, <2>7, RequestMoves
<1> QED BY <1>2, <1>3, <1>4

\* The vector of the origin is found, encoded or missed.
LEMMA OriginStep ==
  ASSUME ReadingMakesSense, ReadInv,
         \/ Reading!TakeStored \/ Reading!StartEncode \/ Reading!TextOnly \/ Reading!Encoded \/ Reading!EncodeLate
         \/ Reading!VectorSearchFails \/ Reading!WordSearch \/ Reading!Analyze
  PROVE  ReadInv'
<1>0. request \in Reads /\ ReadFits(request) /\ UNCHANGED pins
  BY DEF ReadInv, ReadFits, Reading!TakeStored, Reading!StartEncode, Reading!TextOnly, Reading!Encoded,
         Reading!EncodeLate, Reading!VectorSearchFails, Reading!WordSearch, Reading!Analyze
<1>1. CASE Reading!TakeStored
  <2>1. /\ request.pc = "attached" /\ request.dense.of[Source] = request.docs[Source]
        /\ Reading!Goes([request EXCEPT !.pc = "searching", !.query = request.dense.of[Source]])
    <3>1. request.origin \in {"note", "pair", "global"}
      BY <1>0, <1>1 DEF Reading!TakeStored, Reads, Reading!Origins, ReadFits, QueryFits, Attaching
    <3>2. Reading!StoredVector
      BY <1>1 DEF Reading!TakeStored
    <3>3. Reading!Usable(Source)
      BY <3>1, <3>2 DEF Reading!StoredVector
    <3> QED BY <1>1, <3>3 DEF Reading!TakeStored, Reading!Usable
  <2>2. request.dense.of[Source] \in Known
    BY <1>0 DEF Reads, Gens, Contents, ReadingMakesSense
  <2>3. PICK r : r = [request EXCEPT !.pc = "searching", !.query = request.dense.of[Source]]
    OBVIOUS
  <2>4. /\ r \in Reads /\ r.pc = "searching" /\ r.dense = request.dense /\ r.query = request.docs[Source]
        /\ r.docs = request.docs
    BY <1>0, <2>1, <2>2, <2>3 DEF Reads, Steps
  <2>5. ReadFits(r) /\ Holds(r) = Holds(request)
    BY <2>1, <2>4 DEF ReadFits, DenseFits, QueryFits, Attaching, AnswerFits, Holds, Own, Unpinned
  <2> QED BY <1>0, <2>1, <2>3, <2>5, RequestGoes
<1>2. CASE ~Reading!TakeStored
  <2>1. PICK pc \in {"encoding", "searching", "analyze", "execute"} :
          /\ Reading!Goes([request EXCEPT !.pc = pc])
          /\ request.pc \in {"attached", "encoding", "searching", "search", "analyze"}
          /\ pc = "encoding" => request.origin = "text"
          /\ ~OfText(request) => request.query = request.docs[Source]
    <3>1. /\ request.pc \in {"searching", "analyze"} /\ ~OfText(request) => request.query = request.docs[Source]
          /\ request.pc = "search" => OfText(request)
          /\ request.pc = "encoding" => OfText(request)
      BY <1>0 DEF ReadFits, QueryFits, OfText
    <3> QED BY <1>2, <3>1 DEF Reading!StartEncode, Reading!TextOnly, Reading!Encoded, Reading!EncodeLate,
                              Reading!VectorSearchFails, Reading!WordSearch, Reading!Analyze, OfText
  <2>2. PICK r : r = [request EXCEPT !.pc = pc]
    OBVIOUS
  <2>3. /\ r \in Reads /\ r.pc = pc /\ r.dense = request.dense /\ r.query = request.query
        /\ r.docs = request.docs /\ r.origin = request.origin
    BY <1>0, <2>1, <2>2 DEF Reads, Steps
  <2>4. ReadFits(r) /\ Holds(r) = Holds(request)
    BY <2>1, <2>3 DEF ReadFits, DenseFits, QueryFits, Attaching, AnswerFits, OfText, Holds, Own, Unpinned
  <2> QED BY <1>0, <2>1, <2>2, <2>4, RequestGoes
<1> QED BY <1>1, <1>2

\* The request ends without an answer.
LEMMA NoAnswerStep ==
  ASSUME ReadInv, \/ Reading!Refuse \/ Reading!OtherModel \/ Reading!VectorMissing \/ Reading!EncodeFails
                  \/ Reading!SearchFails
  PROVE  ReadInv'
<1>0. request \in Reads
  BY DEF ReadInv, ReadFits
<1>1. PICK pc \in {"failed", "not ready"} : Reading!Ends([request EXCEPT !.pc = pc])
  BY DEF Reading!Refuse, Reading!OtherModel, Reading!VectorMissing, Reading!EncodeFails, Reading!SearchFails,
         Reading!Fails, Reading!NotReady
<1>2. request.pc \in {"context", "attached", "encoding", "search", "analyze", "execute"}
  BY DEF Reading!Refuse, Reading!OtherModel, Reading!VectorMissing, Reading!EncodeFails, Reading!SearchFails
<1>3. PICK r : r = [request EXCEPT !.pc = pc]
  OBVIOUS
<1>4. r \in Reads /\ r.pc = pc /\ r.dense = request.dense
  BY <1>0, <1>3 DEF Reads, Steps
<1>5. QueryFits(r) /\ AnswerFits(r)
  BY <1>4 DEF QueryFits, Attaching, AnswerFits
<1> QED BY <1>1, <1>2, <1>3, <1>4, <1>5, RequestEnds DEF Unpinned

LEMMA ReadingCounts == \A S : Reading!Cardinality(S) = Cardinality(S)
  BY DEF Reading!Cardinality, Cardinality

\* The best of something is something.
LEMMA BestIsSome ==
  ASSUME ReadingMakesSense, NEW notes, NEW best \in Reading!Best(notes, Limit)
  PROVE  best \subseteq notes /\ (best = {} => notes = {})
<1>1. best \subseteq notes /\ (Cardinality(best) = Limit \/ best = notes)
  BY ReadingCounts DEF Reading!Best
<1>2. Cardinality({}) # Limit
  BY FS_EmptySet DEF ReadingMakesSense
<1> QED BY <1>1, <1>2

\* A candidate is a note of the pinned snapshot, and what it is scored with is of its content.
LEMMA CandidatesFit ==
  ASSUME ReadingMakesSense, ReadInv, NEW n \in Reading!Candidates, NEW d, d => Reading!Usable(n)
  PROVE  MatchFits(request, Reading!Match(n, d))
<1>0. request \in Reads
  BY DEF ReadInv, ReadFits
<1>1. n \in Note
  <2>1. Reading!Scope \subseteq Note
    BY <1>0 DEF Reading!Scope, Reads, ReadingMakesSense
  <2> QED BY <2>1 DEF Reading!Candidates
<1>2. request.docs[n] \in Known /\ request.docs[n] # 0 /\ 0 \in Known
  BY <1>0, <1>1 DEF Reads, Contents, Reading!Candidates, Reading!Live, Known
<1>3. request.origin = "note" => n # Source
  BY DEF Reading!Candidates, Reading!Excluded
<1>4. PICK v : v = IF d THEN request.dense.of[n] ELSE 0
  OBVIOUS
<1>5. v \in {0, request.docs[n]}
  BY <1>4 DEF Reading!Usable
<1>6. Reading!Match(n, d) = [note |-> n, version |-> request.docs[n], vector |-> v]
  BY <1>4 DEF Reading!Match
<1> QED BY <1>1, <1>2, <1>3, <1>5, <1>6 DEF MatchFits, Matches

\* The request ends with an answer.
LEMMA AnswerEnds ==
  ASSUME ReadInv, NEW ms, Reading!Ends([request EXCEPT !.pc = "ready", !.matches = ms]),
         request.pc \in {"searching", "search", "execute"},
         \A m \in ms : MatchFits(request, m),
         OfText(request) /\ request.words = "some" /\ ms = {} /\ ~request.floor =>
           \A n \in Matching : n \in request.tagged \cap request.path => request.docs[n] = 0
  PROVE  ReadInv'
<1>0. request \in Reads /\ QueryFits(request)
  BY DEF ReadInv, ReadFits
<1>1. PICK r : r = [request EXCEPT !.pc = "ready", !.matches = ms]
  OBVIOUS
<1>2. ms \subseteq Matches
  BY DEF MatchFits
<1>3. /\ r \in Reads /\ r.pc = "ready" /\ r.dense = request.dense /\ r.query = request.query /\ r.docs = request.docs
      /\ r.origin = request.origin /\ r.words = request.words /\ r.floor = request.floor /\ r.tagged = request.tagged
      /\ r.path = request.path /\ r.matches = ms
  BY <1>0, <1>1, <1>2 DEF Reads, Steps
<1>4. QueryFits(r)
  BY <1>0, <1>3 DEF QueryFits, Attaching, OfText
<1>5. AnswerFits(r)
  <2>1. \A m \in ms : MatchFits(r, m)
    BY <1>3 DEF MatchFits
  <2> QED BY <1>3, <2>1 DEF AnswerFits, OfText
<1> QED BY <1>1, <1>3, <1>4, <1>5, RequestEnds DEF Unpinned

\* The searches.
LEMMA SearchStep ==
  ASSUME ReadingMakesSense, ReadInv, Reading!VectorSearch \/ Reading!MetadataSearch \/ Reading!Execute
  PROVE  ReadInv'
<1>0. request \in Reads /\ ReadFits(request)
  BY DEF ReadInv, ReadFits
<1>1. ASSUME NEW hits PROVE Reading!Contributes(hits) \subseteq {n \in Reading!Candidates : Reading!Usable(n)}
  BY DEF Reading!Contributes
<1>2. ASSUME Reading!VectorSearch PROVE ReadInv'
  <2>1. PICK hits \in Reading!Nearest :
          IF request.mode = "vector" /\ Reading!Contributes(hits) # {}
          THEN \E ms \in Reading!VectorMatches(hits) : Reading!Ends([request EXCEPT !.pc = "ready", !.matches = ms])
          ELSE /\ Reading!Goes([request EXCEPT !.pc = "analyze",
                                               !.hits = IF Reading!Contributes(hits) # {} THEN hits ELSE {}])
               /\ UNCHANGED pins
    BY <1>2 DEF Reading!VectorSearch
  <2>2. request.pc = "searching"
    BY <1>2 DEF Reading!VectorSearch
  <2>3. CASE request.mode = "vector" /\ Reading!Contributes(hits) # {}
    <3>1. PICK ms \in Reading!VectorMatches(hits) : Reading!Ends([request EXCEPT !.pc = "ready", !.matches = ms])
      BY <2>1, <2>3
    <3>2. PICK best \in Reading!Best(Reading!Contributes(hits), Limit) : ms = {Reading!Match(n, TRUE) : n \in best}
      BY <3>1 DEF Reading!VectorMatches
    <3>3. best \subseteq Reading!Contributes(hits) /\ best # {}
      BY <2>3, <3>2, BestIsSome
    <3>4. \A m \in ms : MatchFits(request, m)
      <4>1. ASSUME NEW n \in best PROVE MatchFits(request, Reading!Match(n, TRUE))
        BY <1>1, <3>3, CandidatesFit
      <4> QED BY <3>2, <4>1
    <3>5. ms # {}
      BY <3>2, <3>3
    <3> QED BY <2>2, <3>1, <3>4, <3>5, AnswerEnds
  <2>4. CASE ~(request.mode = "vector" /\ Reading!Contributes(hits) # {})
    <3>1. hits \subseteq Note
      BY DEF Reading!Nearest, Reading!Best
    <3>2. PICK h \in SUBSET Note : Reading!Goes([request EXCEPT !.pc = "analyze", !.hits = h]) /\ UNCHANGED pins
      BY <2>1, <2>4, <3>1
    <3>3. PICK r : r = [request EXCEPT !.pc = "analyze", !.hits = h]
      OBVIOUS
    <3>4. /\ r \in Reads /\ r.pc = "analyze" /\ r.dense = request.dense /\ r.query = request.query
          /\ r.docs = request.docs /\ r.origin = request.origin
      BY <1>0, <3>2, <3>3 DEF Reads, Steps
    <3>5. ReadFits(r) /\ Holds(r) = Holds(request)
      BY <1>0, <2>2, <3>4 DEF ReadFits, DenseFits, QueryFits, Attaching, AnswerFits, OfText, Holds, Own, Unpinned
    <3> QED BY <3>2, <3>3, <3>5, RequestGoes
  <2> QED BY <2>3, <2>4
<1>3. ASSUME Reading!MetadataSearch PROVE ReadInv'
  <2>1. PICK best \in Reading!Best(Reading!Candidates, Limit) :
          Reading!Ends([request EXCEPT !.pc = "ready", !.matches = {Reading!Match(n, FALSE) : n \in best}])
    BY <1>3 DEF Reading!MetadataSearch
  <2>2. request.pc = "search" /\ request.words # "some"
    BY <1>3 DEF Reading!MetadataSearch
  <2>3. ASSUME NEW n \in best PROVE MatchFits(request, Reading!Match(n, FALSE))
    BY <2>1, BestIsSome, CandidatesFit
  <2>4. \A m \in {Reading!Match(n, FALSE) : n \in best} : MatchFits(request, m)
    BY <2>3
  <2> QED BY <2>1, <2>2, <2>4, AnswerEnds
<1>4. ASSUME Reading!Execute PROVE ReadInv'
  <2>0. PICK best \in Reading!Best(Reading!Found, Limit) :
          \E kept \in IF request.floor THEN SUBSET best ELSE {best} :
            Reading!Ends([request EXCEPT !.pc = "ready",
               !.matches = {Reading!Match(n, n \in Reading!Contributes(request.hits)) : n \in kept}])
    BY <1>4 DEF Reading!Execute
  <2>1. PICK kept \in IF request.floor THEN SUBSET best ELSE {best} :
          Reading!Ends([request EXCEPT !.pc = "ready",
               !.matches = {Reading!Match(n, n \in Reading!Contributes(request.hits)) : n \in kept}])
    BY <2>0
  <2>2. best \subseteq Reading!Found /\ (best = {} => Reading!Found = {}) /\ Reading!Found \subseteq Reading!Candidates
    BY <2>0, BestIsSome DEF Reading!Found
  <2>3. PICK ms : ms = {Reading!Match(n, n \in Reading!Contributes(request.hits)) : n \in kept}
    OBVIOUS
  <2>4. ASSUME NEW n \in kept PROVE MatchFits(request, Reading!Match(n, n \in Reading!Contributes(request.hits)))
    BY <1>1, <2>1, <2>2, CandidatesFit
  <2>5. \A m \in ms : MatchFits(request, m)
    BY <2>3, <2>4
  <2>6. ASSUME OfText(request), request.words = "some", ms = {}, ~request.floor,
               NEW n \in Matching, n \in request.tagged \cap request.path
        PROVE  request.docs[n] = 0
    <3>1. Reading!Found = {}
      BY <2>1, <2>2, <2>3, <2>6
    <3>2. n \notin Reading!Candidates
      BY <2>6, <3>1 DEF Reading!Found
    <3> QED BY <2>6, <3>2 DEF Reading!Candidates, Reading!Scope, Reading!Excluded, Reading!Live, OfText
  <2>7. request.pc = "execute"
    BY <1>4 DEF Reading!Execute
  <2> QED BY <2>1, <2>3, <2>5, <2>6, <2>7, AnswerEnds
<1> QED BY <1>2, <1>3, <1>4

LEMMA ReadSteps == ASSUME ReadingMakesSense, ReadInv, [Reading!Next]_Reading!vars PROVE ReadInv'
<1>1. CASE UNCHANGED Reading!vars
  BY <1>1 DEF ReadInv, Reading!vars
<1>2. CASE Reading!Next
  BY <1>1, <1>2, VaultMoves, PinningStep, AttachingStep, OriginStep, NoAnswerStep, SearchStep
     DEF Reading!Next, Reading!Done
<1> QED BY <1>1, <1>2

\* Whatever the vault does meanwhile, and for every vault, filter and bound: an answer is made of the
\* pinned snapshot and of no vector of another content, a text is not left without the
\* matches that its words have, and what a request holds it gives back.
THEOREM RetrievalStaysSound ==
  ASSUME ReadingMakesSense
  PROVE  Reading!Spec => [](Reading!NoStaleVectors /\ Reading!HoldsWhatItUses /\ Reading!TextFallsBack)
<1>1. ReadInv => Reading!NoStaleVectors
  BY DEF ReadInv, ReadFits, QueryFits, AnswerFits, MatchFits, OfText, Reading!NoStaleVectors
<1>2. ReadInv => Reading!HoldsWhatItUses
  <2>1. SUFFICES ASSUME ReadInv PROVE Reading!HoldsWhatItUses
    OBVIOUS
  <2>2. request \in Reads /\ DenseFits(request) /\ pins = Holds(request) /\ Holds(request).generation \subseteq dirs
    BY <2>1 DEF ReadInv, ReadFits
  <2>3. ~Reading!Running => pins = Reading!NoPins
    BY <2>2 DEF Reading!Running, Reading!NoPins, Holds, DenseFits, Own, Unpinned
  <2>4. Reading!Attached =>
               /\ pins.lexical = 1 /\ request.dense.id \in dirs
               /\ pins.lease = {request.dense.id} /\ pins.generation = pins.lease
    BY <2>2 DEF Reading!Attached, Holds, DenseFits, Own, Unpinned
  <2> QED BY <2>3, <2>4 DEF Reading!HoldsWhatItUses
<1>3. ReadInv => Reading!TextFallsBack
  BY DEF ReadInv, ReadFits, AnswerFits, OfText, Reading!TextFallsBack, Reading!Scope, Reading!Live
<1>4. Reading!Init => ReadInv
  BY ReadStarts
<1>5. ReadInv /\ [Reading!Next]_(Reading!vars) => ReadInv'
  BY ReadSteps
<1> QED BY <1>1, <1>2, <1>3, <1>4, <1>5, PTL DEF Reading!Spec
==================================================================================
