------------------------------- MODULE EmbedQueue -------------------------------
(***************************************************************************)
(* The embedding set builder of one profile                                 *)
(* (daemon/search-store/snapshot-store.ts) and its callers: dense builds    *)
(* encode the documents of a corpus window by window, while the save loop   *)
(* (daemon/profile-manager.ts) folds newer texts into their work sets.  All *)
(* vaults of a profile share the builder, and a document id is the hash of  *)
(* a path, so two vaults can have the same id.  The publisher of a vault    *)
(* does one build at a time (PublisherLane).  Each action is one turn of    *)
(* the event loop.                                                          *)
(***************************************************************************)
EXTENDS Naturals, Sequences, SequencesExt

CONSTANTS Vault,
          DocsOf,      \* the document ids of each vault, in the order of its corpus
          Batch,       \* how many documents one window takes
          Rebuilding,  \* the vaults that a user rebuilds, once each
          MaxEdits     \* bound

VARIABLES file,     \* the version of each file
          corpus,   \* the versions in the published corpus of each vault
          save,     \* the save loop of each vault and its chain of folds
          rebuild,  \* how far the rebuild of each vault is
          target,   \* the corpus that each dense publication is for
          work,     \* the active work set of each lane
          next,     \* documents for the next build of each lane
          set       \* the last embedding set of each vault, and whether it is that of the head

vars == <<file, corpus, save, rebuild, target, work, next, set>>

Lane == {"save", "rebuild"}
Ids(v) == ToSet(DocsOf[v])
Doc(v, i, n) == [id |-> i, vault |-> v, version |-> n]     \* its content hash is <<vault, version>>
DocsAt(v, versions) == FoldLeft(LAMBDA s, i : Append(s, Doc(v, i, versions[i])), << >>, DocsOf[v])
Idle == [active |-> FALSE]

Init ==
  /\ file = [v \in Vault |-> [i \in Ids(v) |-> 1]]
  /\ corpus = file
  /\ save = [v \in Vault |-> [at |-> "idle", dirty |-> {}, pending |-> {}, folds |-> << >>, read |-> FALSE]]
  /\ rebuild = [v \in Vault |-> IF v \in Rebuilding THEN "none" ELSE "over"]
  /\ target = [v \in Vault |-> [l \in Lane |-> corpus[v]]]
  /\ work = [l \in Lane |-> Idle]
  /\ next = [l \in Lane |-> << >>]
  /\ set = [v \in Vault |-> [fresh |-> TRUE, docs |-> ToSet(DocsAt(v, corpus[v]))]]

-----------------------------------------------------------------------------
Has(docs, i) == \E d \in ToSet(docs) : d.id = i

\* The documents with one text replaced in place.
Replaced(docs, doc) == FoldLeft(LAMBDA s, d : Append(s, IF d.id = doc.id THEN doc ELSE d), << >>, docs)

Upserted(docs, doc) == IF Has(docs, doc.id) THEN Replaced(docs, doc) ELSE Append(docs, doc)

\* mergeEmbeddingDocuments: a text that waited replaces that of the corpus, whichever is newer.
Merged(base, waiting) == FoldLeft(Replaced, base, waiting)

\* takeCandidateWindow
TakenWindow(w) ==
  LET n == IF Len(w.queued) < Batch THEN Len(w.queued) ELSE Batch IN
  [w EXCEPT !.window = SubSeq(w.queued, 1, n), !.queued = SubSeq(w.queued, n + 1, Len(w.queued))]

\* The documents of the window at some positions, in the order of the request.
Rows(w, at) ==
  FoldLeft(LAMBDA s, k : IF k \in at THEN Append(s, w.window[k]) ELSE s, << >>, [k \in 1..Len(w.window) |-> k])

\* completeCandidateWindow: what was not consumed goes back to the front of the queue.
Completed_Forgets(w, at) == [w EXCEPT !.rows = @ \o Rows(w, at), !.window = << >>]

Completed(w, at) ==
  [w EXCEPT !.rows = @ \o Rows(w, at),
            !.window = << >>,
            !.queued = Rows(w, (1..Len(w.window)) \ at) \o @]

\* stateFor: where a work set has a document.
StateFor(w, i) ==
  IF ~w.active THEN "not-active"
  ELSE IF Has(w.queued, i) THEN "queued"
  ELSE IF Has(w.window, i) THEN "in-flight"
  ELSE IF Has(w.rows, i) THEN "embedded" ELSE "not-active"

-----------------------------------------------------------------------------
Edits == FoldLeft(LAMBDA n, v : n + FoldLeft(LAMBDA m, i : m + file[v][i] - 1, 0, DocsOf[v]), 0, SetToSeq(Vault))

Edit(v, i) ==
  /\ Edits < MaxEdits
  /\ file' = [file EXCEPT ![v][i] = @ + 1]
  /\ save' = [save EXCEPT ![v].dirty = @ \union {i}]
  /\ UNCHANGED <<corpus, rebuild, target, work, next, set>>

\* enqueueActiveSaveFold: a fold for each mark.
FoldsOf(v) == FoldLeft(LAMBDA s, i : Append(s, Doc(v, i, file[v][i])), << >>, SetToSeq(save[v].dirty))

\* enqueueSaveSnapshot: the marks of the watcher start the save loop, or are folded while it runs.
Marked(v) ==
  /\ save[v].dirty /= {}
  /\ save' = [save EXCEPT ![v] =
       [@ EXCEPT !.dirty = {}, !.pending = @ \union save[v].dirty,
                 !.at = IF @ = "idle" THEN "waiting" ELSE @,
                 !.folds = IF save[v].at = "idle" THEN @ ELSE @ \o FoldsOf(v)]]
  /\ UNCHANGED <<file, corpus, rebuild, target, work, next, set>>

\* foldSaveDirtyMarks scans the vault; a mark whose file has changed again is skipped.
Scan(v) ==
  /\ save[v].folds /= << >> /\ ~save[v].read
  /\ LET doc == Head(save[v].folds) IN
     save' = IF file[v][doc.id] = doc.version
             THEN [save EXCEPT ![v].read = TRUE]
             ELSE [save EXCEPT ![v].folds = Tail(@)]
  /\ UNCHANGED <<file, corpus, rebuild, target, work, next, set>>

Knowing(doc) == {l \in Lane : StateFor(work[l], doc.id) /= "not-active"}

\* foldQueuedDocument: the first lane that has the document decides.  Its queue takes the text, and
\* otherwise the text waits for the next build of the save lane.
Fold(v) ==
  /\ save[v].read
  /\ save' = [save EXCEPT ![v].read = FALSE, ![v].folds = Tail(@)]
  /\ LET doc == Head(save[v].folds)
         first == IF "save" \in Knowing(doc) THEN "save" ELSE "rebuild" IN
     IF StateFor(work[first], doc.id) = "queued"
     THEN /\ work' = [work EXCEPT ![first] = [@ EXCEPT !.queued = Upserted(@, doc), !.folded = Append(@, doc)]]
          /\ UNCHANGED next
     ELSE /\ next' = [next EXCEPT !["save"] = Upserted(@, doc)]
          /\ UNCHANGED work
  /\ UNCHANGED <<file, corpus, rebuild, target, set>>

-----------------------------------------------------------------------------
Drained_Unwaited(v) ==
  /\ save[v].at = "waiting"
  /\ save' = [save EXCEPT ![v].at = "publishing", ![v].pending = {}]
  /\ UNCHANGED <<file, corpus, rebuild, target, work, next, set>>

\* drainSavePublications takes the marks, and waits for the folds that there are.
Drained(v) ==
  /\ save[v].at = "waiting" /\ save[v].folds = << >>
  /\ save' = [save EXCEPT ![v].at = "publishing", ![v].pending = {}]
  /\ UNCHANGED <<file, corpus, rebuild, target, work, next, set>>

AtStage(v, l) == IF l = "save" THEN save[v].at ELSE rebuild[v]

\* The save loop goes round while there are marks.
MovedTo(v, l, stage) ==
  IF l = "save"
  THEN /\ save' = [save EXCEPT ![v].at = IF stage /= "over" THEN stage
                                         ELSE IF save[v].pending = {} THEN "idle" ELSE "waiting"]
       /\ UNCHANGED rebuild
  ELSE rebuild' = [rebuild EXCEPT ![v] = stage] /\ UNCHANGED save

PublisherIsFree(v) == save[v].at /= "building" /\ rebuild[v] /= "building"

\* publishFreshSnapshot: an edition of the vault as it is now, without a set, then a dense publication.
Publish(v, l) ==
  /\ PublisherIsFree(v)
  /\ AtStage(v, l) = (IF l = "save" THEN "publishing" ELSE "none")
  /\ corpus' = [corpus EXCEPT ![v] = file[v]]
  /\ target' = [target EXCEPT ![v][l] = file[v]]
  /\ set' = [set EXCEPT ![v].fresh = FALSE]
  /\ MovedTo(v, l, "dense")
  /\ UNCHANGED <<file, work, next>>

\* buildRetrievalSnapshotPublication takes what waits for its lane and starts the build.  A head that
\* has its set is covered, a corpus that is not the head's any more superseded; and a lane that is
\* busy, with the build of another vault, refuses: what the build took for it is gone.
Start_Overwrites(v, l) ==
  /\ PublisherIsFree(v) /\ AtStage(v, l) = "dense"
  /\ IF target[v][l] /= corpus[v] \/ set[v].fresh
     THEN MovedTo(v, l, "over") /\ UNCHANGED <<work, next>>
     ELSE /\ next' = [next EXCEPT ![l] = << >>]
          /\ MovedTo(v, l, "building")
          /\ work' = [work EXCEPT ![l] = TakenWindow(
               [active |-> TRUE, vault |-> v, rows |-> << >>, window |-> << >>,
                queued |-> Merged(DocsAt(v, corpus[v]), next[l]), given |-> Merged(DocsAt(v, corpus[v]), next[l]),
                folded |-> << >>])]
  /\ UNCHANGED <<file, corpus, target, set>>

Start(v, l) ==
  /\ PublisherIsFree(v) /\ AtStage(v, l) = "dense"
  /\ IF target[v][l] /= corpus[v] \/ set[v].fresh
     THEN MovedTo(v, l, "over") /\ UNCHANGED <<work, next>>
     ELSE /\ next' = [next EXCEPT ![l] = << >>]
          /\ IF work[l].active
             THEN MovedTo(v, l, "over") /\ UNCHANGED work
             ELSE /\ MovedTo(v, l, "building")
                  /\ LET docs == Merged(DocsAt(v, corpus[v]), next[l]) IN
                     work' = [work EXCEPT ![l] = TakenWindow(
                       [active |-> TRUE, vault |-> v, rows |-> << >>, window |-> << >>, queued |-> docs,
                        given |-> docs, folded |-> << >>])]
  /\ UNCHANGED <<file, corpus, target, set>>

\* buildEmbeddingSetFromVectors: the records of a set, one for each row.
EmbeddingSet(w) == ToSet(w.rows)

\* What a build publishes: its set, for the head, which stayed as it was.
Publication(w) == [fresh |-> TRUE, docs |-> EmbeddingSet(w)]

\* The token budget of the worker took some rows; the next window follows, or the set is committed.
Encoded(l, at) ==
  /\ work[l].active
  /\ at /= {} /\ at \subseteq 1..Len(work[l].window)
  /\ LET w == Completed(work[l], at) IN
     IF w.queued /= << >>
     THEN /\ work' = [work EXCEPT ![l] = TakenWindow(w)]
          /\ UNCHANGED <<save, rebuild, set>>
     ELSE /\ work' = [work EXCEPT ![l] = Idle]
          /\ set' = [set EXCEPT ![w.vault] = Publication(w)]
          /\ MovedTo(w.vault, l, "over")
  /\ UNCHANGED <<file, corpus, target, next>>

\* The encode fails or is cancelled: the build ends without a set.
EncodeFails(l) ==
  /\ work[l].active
  /\ work' = [work EXCEPT ![l] = Idle]
  /\ MovedTo(work[l].vault, l, "over")
  /\ UNCHANGED <<file, corpus, target, next, set>>

Next ==
  \/ \E v \in Vault :
       \/ \E i \in Ids(v) : Edit(v, i)
       \/ Marked(v) \/ Scan(v) \/ Fold(v) \/ Drained(v)
       \/ \E l \in Lane : Publish(v, l) \/ Start(v, l)
  \/ \E l \in Lane : EncodeFails(l) \/ \E at \in SUBSET (1..Batch) : Encoded(l, at)

-----------------------------------------------------------------------------
\* A build has every document it was given once, in its queue, its window or its rows, and with the
\* last text that was in the queue for it, however the worker consumes the windows and whatever is
\* folded meanwhile (completeCandidateWindow, foldQueuedDocument).
WorkIsKept ==
  \A l \in Lane : work[l].active =>
    LET w == work[l]
        all == w.rows \o w.window \o w.queued IN
    /\ Len(all) = Len(w.given)
    /\ ToSet(all) = ToSet(Merged(w.given, w.folded))

\* The publisher of a vault whose build runs is building: the work set of a lane is its own, and it
\* is let go when the build ends (createWorkerEmbeddingSetBuilder).
BuildsHaveTheirLane ==
  \A v \in Vault : \A l \in Lane :
    AtStage(v, l) = "building" <=> work[l].active /\ work[l].vault = v

\* The save loops have nothing left to do, and no rebuild runs.
AtRest ==
  \A v \in Vault : /\ save[v].at = "idle" /\ save[v].dirty = {} /\ save[v].folds = << >>
                   /\ rebuild[v] \in {"none", "over"}

\* The dense edition that a save commits is for that exact lexical revision (docs/lifecycle.md:610):
\* once no save is left to do, the fresh set of the head was made of the texts of its corpus.  It
\* holds for one vault without rebuilds.  Otherwise what waited for the lane may replace the text of
\* the corpus though it is older, or the text of another vault.
RestingSetIsOfItsCorpus ==
  AtRest => \A v \in Vault : set[v].fresh => set[v].docs = ToSet(DocsAt(v, corpus[v]))
=============================================================================
