------------------------------ MODULE EditionLedger ------------------------------
(***************************************************************************)
(* Publication of editions: VaultPublisher objects, each with its own      *)
(* in-memory copy of the frontier journal, commit to one edition ledger    *)
(* directory (src/daemon/search-store/publisher.ts).                       *)
(*                                                                         *)
(* A publisher lives in a daemon process.  The daemon whose incarnation    *)
(* the owner record names may commit; the record changes hands at any      *)
(* time, daemons crash at any time, and two publishers of one ledger may   *)
(* live together: in one process while a released publisher drains, in two *)
(* while a superseded daemon drains.  The code of one process runs to      *)
(* completion between two awaits, but other processes interleave at every  *)
(* file operation, so a commit is one action per file operation.           *)
(*                                                                         *)
(* The vault itself is not a variable: it is edited at any moment by other *)
(* programs, so what a build scans, and what a dirty mark read some time   *)
(* before it is journaled, is any corpus and any file state.  Clearing the *)
(* index, which removes the ledger directory, is not modelled here.        *)
(***************************************************************************)
EXTENDS Integers, Sequences, FiniteSets

CONSTANTS
  Doc,          \* subjects: the markdown files of one vault
  Content,      \* content hashes
  Absent,       \* the content of a file that is not in the vault
  Daemon,       \* daemon incarnations; a restarted daemon is another one
  Publisher,    \* VaultPublisher objects of this ledger directory
  DaemonOf,     \* the process each publisher lives in
  NoDaemon,     \* no owner record
  Overlap,      \* may a publisher open while another one still lives?
  Requests,     \* the requests publishers are sent: refresh, save, dense
  MaxOperation, \* bounds the sequence numbers a publisher gives out
  MaxFrontier,  \* bounds the scan boundaries recorded
  MaxEdition    \* bounds the ledger

ASSUME AbsentAssumption == Absent \notin Content
ASSUME DaemonAssumption == NoDaemon \notin Daemon
ASSUME PublisherAssumption == DaemonOf \in [Publisher -> Daemon]
ASSUME OverlapAssumption == Overlap \in BOOLEAN
ASSUME RequestsAssumption == Requests \subseteq {"refresh", "save", "dense"}

-----------------------------------------------------------------------------
(* The value a frontier journal denotes, and what its records do to it     *)
(* (src/core/lifecycle/frontier-journal.ts).                               *)
(*                                                                         *)
(* frontier-journal.jsonl is a log of operation, state and scan records.   *)
(* FrontierJournal.replay folds the log from the left, so the file is      *)
(* modelled by the value that fold yields: appending a record applies one  *)
(* of the operators below.  The same operators change the in-memory copy   *)
(* that every FrontierJournal object keeps of the file.                    *)
(*                                                                         *)
(* A subject (docId, path) is one Doc: docId is the hash of the path.  An  *)
(* upsert carries the content hash the file had; a delete is the content   *)
(* Absent.                                                                 *)

FileState == Content \cup {Absent}

\* What a scan of the vault sees, and what an edition publishes.
Corpus == [Doc -> FileState]

OperationState == {"pending", "covered", "acked", "failed"}

Operation == [doc : Doc, content : FileState, state : OperationState]

\* operationsBySeq is ops; orderedOperations holds, besides the operations of
\* ops, the objects a later record with the same sequence number replaced in
\* the map: their states never change again, and shadowed names the sequence
\* numbers for which such an object is left in a state other than acked.
IsJournal(j) ==
  /\ DOMAIN j = {"ops", "shadowed", "nextJournal", "nextFrontier"}
  /\ DOMAIN j.ops \subseteq Nat
  /\ j.ops \in [DOMAIN j.ops -> Operation]
  /\ j.shadowed \in SUBSET Nat
  /\ j.nextJournal \in Nat \ {0}
  /\ j.nextFrontier \in Nat \ {0}

EmptyJournal ==
  [ops |-> [s \in {} |-> Absent], shadowed |-> {},
   nextJournal |-> 1, nextFrontier |-> 1]

Later(a, b) == IF a >= b THEN a ELSE b

\* An operation record with sequence number s, in memory and in replay.
RecordOperation(j, s, d, c) ==
  [ops |-> [t \in DOMAIN j.ops \cup {s} |->
              IF t = s THEN [doc |-> d, content |-> c, state |-> "pending"]
                       ELSE j.ops[t]],
   shadowed |-> IF s \in DOMAIN j.ops /\ j.ops[s].state # "acked"
                THEN j.shadowed \cup {s} ELSE j.shadowed,
   nextJournal |-> Later(j.nextJournal, s + 1),
   nextFrontier |-> j.nextFrontier]

\* A scan record with frontier f.
RecordScan(j, f) == [j EXCEPT !.nextFrontier = Later(j.nextFrontier, f + 1)]

\* A state record.  Replay throws when s names no operation.
ApplyState(j, s, st) ==
  [j EXCEPT !.ops = [t \in DOMAIN j.ops |->
                       IF t = s THEN [j.ops[t] EXCEPT !.state = st]
                                ELSE j.ops[t]]]

\* The failure of a save: a state record for each of its sequence numbers.
Failed(j, seqs) ==
  [j EXCEPT !.ops = [t \in DOMAIN j.ops |->
                       IF t \in seqs THEN [j.ops[t] EXCEPT !.state = "failed"]
                                     ELSE j.ops[t]]]

-----------------------------------------------------------------------------
(* Coverage: does a corpus scanned up to journal sequence b account for the *)
(* operation at s?                                                          *)

\* An upsert is covered by its own content; a delete by a tombstone, which the
\* candidate carries for the deletes up to b whose file the corpus lacks.
DirectlyCovers(corpus, op) == corpus[op.doc] = op.content

\* ... or by a later operation on the same subject that is covered itself.
Covers(j, corpus, b, s) ==
  \E t \in DOMAIN j.ops :
    /\ s <= t /\ t <= b
    /\ j.ops[t].doc = j.ops[s].doc
    /\ DirectlyCovers(corpus, j.ops[t])

Dirty_PendingOnly(j, b) ==
  {s \in DOMAIN j.ops : s <= b /\ j.ops[s].state = "pending"}

\* The operations an edition scanned up to b has to account for.
Dirty(j, b) ==
  {s \in DOMAIN j.ops : s <= b /\ (j.ops[s].state # "acked" \/ s \in j.shadowed)}

-----------------------------------------------------------------------------

VARIABLES
  daemon,    \* daemon[d]: has it published its owner record, is it alive?
  owner,     \* the incarnation the owner record names
  disk,      \* what replaying frontier-journal.jsonl would yield
  editions,  \* editions[n] is the record of publications/<n>
  status,    \* status[p] of a publisher object
  mem,       \* mem[p]: the journal copy of publisher p
  phase,     \* phase[p]: where the structural lane of p stands
  job,       \* job[p]: the build intent the lane works on
  unacked,   \* unacked[p]: committed operations whose ack is not yet logged
  unsaved,   \* unsaved[p]: journaled marks no save request has picked up
  failing,   \* failing[p]: operations of failed saves, not yet marked failed
  settled    \* settled[p]: the boundaries p's callers were told are published

vars == <<daemon, owner, disk, editions, status, mem, phase, job, unacked,
          unsaved, failing, settled>>

journalVars == <<disk, mem>>
daemonVars == <<daemon, owner>>

HeadSeq == Len(editions)

Dense == [state : {"unavailable", "fresh", "failed"}, of : Corpus]

Edition == [frontier : Nat \ {0}, boundary : Nat, base : Nat, corpus : Corpus,
            dense : Dense, by : Daemon]

Job == [kind : {"lexical", "dense"},
        saves : SUBSET Nat,    \* the save's journal sequence numbers
        force : BOOLEAN,       \* a dense intent that rebuilds a fresh head
        frontier : Nat, boundary : Nat,
        target : Corpus,       \* the corpus a dense intent is for
        base : Nat,            \* the head the lane handed to the build
        corpus : Corpus, dense : Dense,
        head : Nat]            \* the head the commit read

NoCorpus == [d \in Doc |-> Absent]
NoDense == [state |-> "unavailable", of |-> NoCorpus]
NoJob == [kind |-> "lexical", saves |-> {}, force |-> FALSE, frontier |-> 0,
          boundary |-> 0, target |-> NoCorpus, base |-> 0, corpus |-> NoCorpus,
          dense |-> NoDense, head |-> 0]

Phase == {"idle", "queued", "building", "built", "expecting", "checked",
          "fenced", "linked"}

JournalTypes ==
  /\ IsJournal(disk)
  /\ DOMAIN mem = Publisher
  /\ \A p \in Publisher : IsJournal(mem[p])

LaneTypes ==
  /\ phase \in [Publisher -> Phase]
  /\ job \in [Publisher -> Job]
  /\ failing \in [Publisher -> SUBSET Nat]
  /\ settled \in [Publisher -> Nat]

\* Every variable holds a value the code could hold.
TypeOK ==
  /\ daemon \in [Daemon -> {"new", "up", "down"}]
  /\ owner \in Daemon \cup {NoDaemon}
  /\ editions \in Seq(Edition)
  /\ status \in [Publisher -> {"new", "open", "closing", "closed"}]
  /\ unacked \in [Publisher -> SUBSET Nat]
  /\ unsaved \in [Publisher -> SUBSET Nat]
  /\ JournalTypes
  /\ LaneTypes

Init ==
  /\ daemon = [d \in Daemon |-> "new"]
  /\ owner = NoDaemon
  /\ disk = EmptyJournal
  /\ editions = << >>
  /\ status = [p \in Publisher |-> "new"]
  /\ mem = [p \in Publisher |-> EmptyJournal]
  /\ phase = [p \in Publisher |-> "idle"]
  /\ job = [p \in Publisher |-> NoJob]
  /\ unacked = [p \in Publisher |-> {}]
  /\ unsaved = [p \in Publisher |-> {}]
  /\ failing = [p \in Publisher |-> {}]
  /\ settled = [p \in Publisher |-> 0]

-----------------------------------------------------------------------------
(* Daemons: owner publication, drain, crash.                               *)

\* publishOwnerAndInitialPulse: last writer wins.
PublishOwner(d) ==
  /\ daemon[d] = "new"
  /\ daemon' = [daemon EXCEPT ![d] = "up"]
  /\ owner' = d
  /\ UNCHANGED <<journalVars, editions, status, phase, job, unacked, unsaved,
                 failing, settled>>

\* drain removes the owner record if it is still its own; the publishers of
\* the daemon go on until their lanes are empty.
RemoveOwner(d) ==
  /\ daemon[d] = "up"
  /\ owner = d
  /\ owner' = NoDaemon
  /\ UNCHANGED <<daemon, journalVars, editions, status, phase, job, unacked,
                 unsaved, failing, settled>>

Crash(d) ==
  LET Lost(p, now, then) == IF DaemonOf[p] = d THEN then ELSE now
  IN
  /\ daemon[d] = "up"
  /\ daemon' = [daemon EXCEPT ![d] = "down"]
  /\ status' = [p \in Publisher |-> Lost(p, status[p], "closed")]
  /\ phase' = [p \in Publisher |-> Lost(p, phase[p], "idle")]
  /\ job' = [p \in Publisher |-> Lost(p, job[p], NoJob)]
  /\ unacked' = [p \in Publisher |-> Lost(p, unacked[p], {})]
  /\ unsaved' = [p \in Publisher |-> Lost(p, unsaved[p], {})]
  /\ failing' = [p \in Publisher |-> Lost(p, failing[p], {})]
  /\ UNCHANGED <<owner, journalVars, editions, settled>>

-----------------------------------------------------------------------------
(* A publisher object: construction, dirty marks, teardown.                *)

Lives(p) == status[p] \in {"open", "closing"}

\* From the link of an edition to its last ack the process runs nothing else.
Runs(p) ==
  /\ Lives(p)
  /\ \A q \in Publisher \ {p} :
       DaemonOf[q] = DaemonOf[p] => phase[q] # "linked"

\* The lane runs intents one after the other; barrier intents run when no
\* build intent is being worked on.
LaneFree(p) == phase[p] \in {"idle", "queued"}

Replayed_NotRead == EmptyJournal

\* What the constructor of FrontierJournal reads.
Replayed == disk

\* VaultPublisherRegistry.acquire: a new object unless the process has one
\* that is not closing.
Open(p) ==
  /\ daemon[DaemonOf[p]] = "up"
  /\ status[p] = "new"
  /\ \A q \in Publisher :
       /\ Lives(q) => Overlap
       /\ DaemonOf[q] = DaemonOf[p] => status[q] # "open" /\ phase[q] # "linked"
  /\ status' = [status EXCEPT ![p] = "open"]
  /\ mem' = [mem EXCEPT ![p] = Replayed]
  /\ UNCHANGED <<daemonVars, disk, editions, phase, job, unacked, unsaved,
                 failing, settled>>

\* The last lease is released: marks still in the debounce buffer are flushed
\* through the lane and its queue drains, but new requests are turned away.
Release(p) ==
  /\ Runs(p)
  /\ status[p] = "open"
  /\ status' = [status EXCEPT ![p] = "closing"]
  /\ UNCHANGED <<daemonVars, journalVars, editions, phase, job, unacked,
                 unsaved, failing, settled>>

Close(p) ==
  /\ Runs(p)
  /\ status[p] = "closing"
  /\ phase[p] = "idle"
  /\ status' = [status EXCEPT ![p] = "closed"]
  /\ unsaved' = [unsaved EXCEPT ![p] = {}]
  /\ failing' = [failing EXCEPT ![p] = {}]
  /\ UNCHANGED <<daemonVars, journalVars, editions, phase, job, unacked,
                 settled>>

\* A dirty-frontier intent reaches the lane and is journaled.
MarkDirty(p, d, c) ==
  LET s == mem[p].nextJournal
  IN
  /\ Runs(p)
  /\ LaneFree(p)
  /\ s <= MaxOperation
  /\ disk' = RecordOperation(disk, s, d, c)
  /\ mem' = [mem EXCEPT ![p] = RecordOperation(mem[p], s, d, c)]
  /\ unsaved' = [unsaved EXCEPT ![p] = @ \cup {s}]
  /\ UNCHANGED <<daemonVars, editions, status, phase, job, unacked, failing,
                 settled>>

\* A diagnostic-frontier intent marks the operations of a failed save, in
\* whatever state they are by now.
MarkFailed(p) ==
  /\ Runs(p)
  /\ LaneFree(p)
  /\ failing[p] # {}
  /\ disk' = Failed(disk, failing[p])
  /\ mem' = [mem EXCEPT ![p] = Failed(@, failing[p])]
  /\ failing' = [failing EXCEPT ![p] = {}]
  /\ UNCHANGED <<daemonVars, editions, status, phase, job, unacked, unsaved,
                 settled>>

-----------------------------------------------------------------------------
(* Build intents.                                                          *)

ScanBoundary_OffByOne(j) == j.nextJournal - 2

ScanBoundary(j) == j.nextJournal - 1

\* publishFreshSnapshot: the boundary is recorded and the intent enqueued in
\* one synchronous step.  A save takes along the marks journaled so far.
RequestLexical(p, saves) ==
  LET f == mem[p].nextFrontier
  IN
  /\ Runs(p)
  /\ status[p] = "open"
  /\ phase[p] = "idle"
  /\ f <= MaxFrontier
  /\ disk' = RecordScan(disk, f)
  /\ mem' = [mem EXCEPT ![p] = RecordScan(@, f)]
  /\ job' = [job EXCEPT ![p] = [NoJob EXCEPT !.saves = saves, !.frontier = f,
                                            !.boundary = ScanBoundary(mem[p])]]
  /\ unsaved' = [unsaved EXCEPT ![p] = @ \ saves]
  /\ phase' = [phase EXCEPT ![p] = "queued"]
  /\ UNCHANGED <<daemonVars, editions, status, unacked, failing, settled>>

\* LoadVault, Refresh and Rebuild, and the watcher's saves.
RequestRefresh(p) == "refresh" \in Requests /\ RequestLexical(p, {})

RequestSave(p) ==
  /\ "save" \in Requests
  /\ unsaved[p] # {}
  /\ RequestLexical(p, unsaved[p])

\* enqueueDensePublication for edition n, which may not be the head any more.
RequestDense(p, n, force) ==
  /\ "dense" \in Requests
  /\ Runs(p)
  /\ status[p] = "open"
  /\ phase[p] = "idle"
  /\ job' = [job EXCEPT ![p] =
       [NoJob EXCEPT !.kind = "dense", !.force = force,
                     !.target = editions[n].corpus]]
  /\ phase' = [phase EXCEPT ![p] = "queued"]
  /\ UNCHANGED <<daemonVars, journalVars, editions, status, unacked, unsaved,
                 failing, settled>>

\* The caller hears that everything up to boundary b is published.
SettlePublished(p, b) ==
  /\ phase' = [phase EXCEPT ![p] = "idle"]
  /\ job' = [job EXCEPT ![p] = NoJob]
  /\ settled' = [settled EXCEPT ![p] = Later(@, b)]
  /\ UNCHANGED failing

\* The caller hears that the intent was dropped or rejected; a save then
\* persists a failure diagnostic for its operations.
SettleFailed(p) ==
  /\ phase' = [phase EXCEPT ![p] = "idle"]
  /\ job' = [job EXCEPT ![p] = NoJob]
  /\ failing' = [failing EXCEPT ![p] = @ \cup job[p].saves]
  /\ UNCHANGED settled

HeadCoversBoundary(j) ==
  /\ HeadSeq > 0
  /\ editions[HeadSeq].frontier >= j.frontier
  /\ editions[HeadSeq].boundary >= j.boundary

DenseSatisfied(j) ==
  /\ ~j.force
  /\ editions[HeadSeq].dense.state = "fresh"
  /\ editions[HeadSeq].corpus = j.target

\* unsettledBuildEnvelopes: the head the lane reads may already cover the
\* intent, or have moved past the corpus a dense intent is for.
Fold(p) ==
  LET j == job[p] IN
  /\ Runs(p)
  /\ phase[p] = "queued"
  /\ \/ /\ j.kind = "lexical"
        /\ HeadCoversBoundary(j)
        /\ SettlePublished(p, j.boundary)
     \/ /\ j.kind = "dense"
        /\ DenseSatisfied(j)
        /\ SettlePublished(p, 0)
     \/ /\ j.kind = "dense"
        /\ ~DenseSatisfied(j)
        /\ editions[HeadSeq].corpus # j.target
        /\ SettleFailed(p)
     \/ /\ IF j.kind = "lexical" THEN ~HeadCoversBoundary(j)
           ELSE ~DenseSatisfied(j) /\ editions[HeadSeq].corpus = j.target
        /\ phase' = [phase EXCEPT ![p] = "building"]
        /\ job' = [job EXCEPT ![p].base = HeadSeq]
        /\ UNCHANGED <<failing, settled>>
  /\ UNCHANGED <<daemonVars, journalVars, editions, status, unacked, unsaved>>

\* buildSnapshot scans the vault and names the corpus it found.
BuildSnapshot(p, corpus) ==
  /\ Runs(p)
  /\ phase[p] = "building"
  /\ job[p].kind = "lexical"
  /\ job' = [job EXCEPT ![p].corpus = corpus]
  /\ phase' = [phase EXCEPT ![p] = "built"]
  /\ UNCHANGED <<daemonVars, journalVars, editions, status, unacked, unsaved,
                 failing, settled>>

\* buildDense embeds the corpus of the head the lane handed it, and stays at
\* its frontier; an embedding failure is published as a failed dense arm.
BuildDense(p, outcome) ==
  LET base == editions[job[p].base] IN
  /\ Runs(p)
  /\ phase[p] = "building"
  /\ job[p].kind = "dense"
  /\ job' = [job EXCEPT ![p].corpus = base.corpus,
                        ![p].frontier = base.frontier,
                        ![p].boundary = base.boundary,
                        ![p].dense = [state |-> outcome, of |-> base.corpus]]
  /\ phase' = [phase EXCEPT ![p] = "built"]
  /\ UNCHANGED <<daemonVars, journalVars, editions, status, unacked, unsaved,
                 failing, settled>>

\* The build throws, times out, is cancelled, or yields a drop.
BuildFails(p) ==
  /\ Runs(p)
  /\ phase[p] = "building"
  /\ SettleFailed(p)
  /\ UNCHANGED <<daemonVars, journalVars, editions, status, unacked, unsaved>>

-----------------------------------------------------------------------------
(* commitBuildOutput and EditionLedger.commit.                             *)

CurrentWriter(p) == owner = DaemonOf[p]

\* The token is read first, then the head the commit will expect.
ReadHead(p) ==
  /\ Runs(p)
  /\ phase[p] = "built"
  /\ \/ /\ CurrentWriter(p)
        /\ job' = [job EXCEPT ![p].head = HeadSeq]
        /\ phase' = [phase EXCEPT ![p] = "expecting"]
        /\ UNCHANGED <<failing, settled>>
     \/ ~CurrentWriter(p) /\ SettleFailed(p)
  /\ UNCHANGED <<daemonVars, journalVars, editions, status, unacked, unsaved>>

\* not-head: the head moved past the one the build was based on (nothing here
\* removes editions), so the lane folds again.
NotHead(p) ==
  /\ phase' = [phase EXCEPT ![p] = "queued"]
  /\ UNCHANGED <<job, failing, settled>>

CheckHead(p) ==
  /\ Runs(p)
  /\ phase[p] = "expecting"
  /\ \/ /\ HeadSeq = job[p].head
        /\ phase' = [phase EXCEPT ![p] = "checked"]
        /\ UNCHANGED <<job, failing, settled>>
     \/ HeadSeq # job[p].head /\ NotHead(p)
  /\ UNCHANGED <<daemonVars, journalVars, editions, status, unacked, unsaved>>

\* The fence: the owner record still names this daemon's incarnation.
CheckFence(p) ==
  /\ Runs(p)
  /\ phase[p] = "checked"
  /\ \/ /\ CurrentWriter(p)
        /\ phase' = [phase EXCEPT ![p] = "fenced"]
        /\ UNCHANGED <<job, failing, settled>>
     \/ ~CurrentWriter(p) /\ SettleFailed(p)
  /\ UNCHANGED <<daemonVars, journalVars, editions, status, unacked, unsaved>>

\* validateCandidate against the head that was checked.
AdvancesCorpus(j) ==
  IF j.head = 0 THEN j.base = 0 /\ j.frontier >= 1
                ELSE j.frontier > editions[j.head].frontier

KeepsFrontier(j) == j.head > 0 /\ j.frontier = editions[j.head].frontier

SameCorpus(j) == j.corpus = editions[j.head].corpus

Covered_PendingOnly(p) ==
  \A s \in Dirty(mem[p], job[p].boundary) :
    mem[p].ops[s].state = "pending"
      => Covers(mem[p], job[p].corpus, job[p].boundary, s)

Covered(p) ==
  \A s \in Dirty(mem[p], job[p].boundary) :
    Covers(mem[p], job[p].corpus, job[p].boundary, s)

Candidate(p) ==
  [frontier |-> job[p].frontier, boundary |-> job[p].boundary,
   base |-> job[p].base, corpus |-> job[p].corpus, dense |-> job[p].dense,
   by |-> DaemonOf[p]]

Link_Overwriting(p, acks) ==
  /\ job[p].head < MaxEdition
  /\ editions' = [n \in 1..Later(HeadSeq, job[p].head + 1) |->
                    IF n = job[p].head + 1 THEN Candidate(p) ELSE editions[n]]
  /\ phase' = [phase EXCEPT ![p] = "linked"]
  /\ unacked' = [unacked EXCEPT ![p] = acks]
  /\ UNCHANGED <<job, failing, settled>>

Link_AtEnd(p, acks) ==
  /\ HeadSeq < MaxEdition
  /\ editions' = Append(editions, Candidate(p))
  /\ phase' = [phase EXCEPT ![p] = "linked"]
  /\ unacked' = [unacked EXCEPT ![p] = acks]
  /\ UNCHANGED <<job, failing, settled>>

\* publications/<head + 1> is linked into place exclusively.
Link(p, acks) ==
  \/ /\ HeadSeq = job[p].head
     /\ HeadSeq < MaxEdition
     /\ editions' = Append(editions, Candidate(p))
     /\ phase' = [phase EXCEPT ![p] = "linked"]
     /\ unacked' = [unacked EXCEPT ![p] = acks]
     /\ UNCHANGED <<job, failing, settled>>
  \/ HeadSeq # job[p].head /\ NotHead(p) /\ UNCHANGED <<editions, unacked>>

CommitAdvance(p) ==
  /\ Runs(p)
  /\ phase[p] = "fenced"
  /\ AdvancesCorpus(job[p])
  /\ \/ Covered(p) /\ Link(p, Dirty(mem[p], job[p].boundary))
     \/ ~Covered(p) /\ SettleFailed(p) /\ UNCHANGED <<editions, unacked>>
  /\ UNCHANGED <<daemonVars, journalVars, status, unsaved>>

CommitSameFrontier(p) ==
  LET j == job[p] IN
  /\ Runs(p)
  /\ phase[p] = "fenced"
  /\ KeepsFrontier(j)
  /\ \/ j.base # j.head /\ NotHead(p) /\ UNCHANGED <<editions, unacked>>
     \/ /\ j.base = j.head
        /\ ~SameCorpus(j)
        /\ SettleFailed(p)
        /\ UNCHANGED <<editions, unacked>>
     \/ j.base = j.head /\ SameCorpus(j) /\ Link(p, {})
  /\ UNCHANGED <<daemonVars, journalVars, status, unsaved>>

CommitRejected(p) ==
  /\ Runs(p)
  /\ phase[p] = "fenced"
  /\ ~AdvancesCorpus(job[p])
  /\ ~KeepsFrontier(job[p])
  /\ SettleFailed(p)
  /\ UNCHANGED <<daemonVars, journalVars, editions, status, unacked, unsaved>>

\* markCovered and ack of one committed operation: two state records, the
\* second of which is what replay sees.
Ack(p) ==
  \E s \in unacked[p] :
    /\ Runs(p)
    /\ phase[p] = "linked"
    /\ \A t \in unacked[p] : s <= t
    /\ disk' = ApplyState(disk, s, "acked")
    /\ mem' = [mem EXCEPT ![p] = ApplyState(@, s, "acked")]
    /\ unacked' = [unacked EXCEPT ![p] = @ \ {s}]
    /\ UNCHANGED <<daemonVars, editions, status, phase, job, unsaved, failing,
                   settled>>

\* The link, or the log write of an ack, fails: what was acked stays acked,
\* the edition stays if it was linked, and the caller hears of the failure.
CommitThrows(p) ==
  /\ Runs(p)
  /\ \/ phase[p] = "fenced"
     \/ phase[p] = "linked" /\ unacked[p] # {}
  /\ unacked' = [unacked EXCEPT ![p] = {}]
  /\ SettleFailed(p)
  /\ UNCHANGED <<daemonVars, journalVars, editions, status, unsaved>>

Committed(p) ==
  /\ Runs(p)
  /\ phase[p] = "linked"
  /\ unacked[p] = {}
  /\ SettlePublished(p, IF job[p].kind = "lexical" THEN job[p].boundary ELSE 0)
  /\ UNCHANGED <<daemonVars, journalVars, editions, status, unacked, unsaved>>

-----------------------------------------------------------------------------

Next ==
  \/ \E d \in Daemon : PublishOwner(d) \/ RemoveOwner(d) \/ Crash(d)
  \/ \E p \in Publisher :
       \/ Open(p)
       \/ Release(p)
       \/ Close(p)
       \/ \E d \in Doc, c \in FileState : MarkDirty(p, d, c)
       \/ MarkFailed(p)
       \/ RequestRefresh(p)
       \/ RequestSave(p)
       \/ \E n \in 1..HeadSeq, force \in BOOLEAN : RequestDense(p, n, force)
       \/ Fold(p)
       \/ \E corpus \in Corpus : BuildSnapshot(p, corpus)
       \/ \E outcome \in {"fresh", "failed"} : BuildDense(p, outcome)
       \/ BuildFails(p)
       \/ ReadHead(p)
       \/ CheckHead(p)
       \/ CheckFence(p)
       \/ CommitAdvance(p)
       \/ CommitSameFrontier(p)
       \/ CommitRejected(p)
       \/ Ack(p)
       \/ CommitThrows(p)
       \/ Committed(p)

Spec == Init /\ [][Next]_vars

-----------------------------------------------------------------------------
(* What the ledger and the journal owe the readers and the callers.        *)

\* Editions never go back to an older corpus frontier, and two editions of one
\* frontier publish one corpus, whoever committed them: what the exclusive
\* link and the three validations of EditionLedger.commit are for.
FrontierDecidesCorpus ==
  \A i, j \in 1..Len(editions) :
    i < j => /\ editions[i].frontier <= editions[j].frontier
             /\ editions[i].frontier = editions[j].frontier
                  => editions[i].corpus = editions[j].corpus

\* The publication log is all that readers see, whatever the daemons do.
Log == INSTANCE PublicationLog WITH Corpora <- Corpus

PublishesInOrder == Log!Spec

\* An edition accounts for operation s of journal j.
Accounted(j, s) ==
  \E i \in 1..Len(editions) :
    Covers(j, editions[i].corpus, editions[i].boundary, s)

\* As long as publishers do not overlap, no journaled mark is acknowledged, and
\* so forgotten by every later validation, before an edition accounts for it:
\* not after crashes, failed saves or half-logged acknowledgements.
AckedCovered ==
  \A s \in DOMAIN disk.ops : disk.ops[s].state = "acked" => Accounted(disk, s)

\* When a caller is told that everything up to its boundary is published, an
\* edition accounts for every mark its publisher journaled up to there, as long
\* as publishers do not overlap.
PublishedCovered ==
  \A p \in Publisher : \A s \in DOMAIN mem[p].ops :
    s <= settled[p] => Accounted(mem[p], s)

\* As long as publishers do not overlap, a later edition never accounts for
\* fewer marks than an earlier one claimed.
BoundaryMonotone ==
  \A i, j \in 1..Len(editions) :
    i < j => editions[i].boundary <= editions[j].boundary

\* Write fencing: no edition appears from an incarnation once the owner record
\* names another one.
NoCommitAfterTakeover ==
  [][Len(editions') > Len(editions)
       => owner \in {NoDaemon, editions'[Len(editions')].by}]_vars
=============================================================================
