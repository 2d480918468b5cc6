----------------------------- MODULE ShardedSearch ----------------------------
(***************************************************************************)
(* One ranked search over a pinned snapshot: the planner splits it into one *)
(* task per segment (query-planner.ts), the workers rank their segments     *)
(* (search-execution.ts) and the answers are merged (result-aggregator.ts,  *)
(* result-hydrator.ts).  The unsharded execution of the same search, which  *)
(* the workers still offer as job "search", is the reference: Whole.        *)
(*                                                                          *)
(* Documents are numbered by path.  A query has one term per channel, so a  *)
(* posting is a (channel, field) pair, its frequency is one and every match *)
(* is a phrase and a window of width one.  BM25 is any score that falls     *)
(* with the document frequency; all scores are scaled to integers.          *)
(***************************************************************************)
EXTENDS Naturals, FiniteSets, Sequences, SequencesExt, FiniteSetsExt

CONSTANTS Docs, Segments,
          Layouts,      \* ways to spread the documents over the segments
          Postings,     \* the sets of postings a document may have
          Channels, Fields,
          Edges,        \* links between documents
          DenseResults,      \* dense results: document -> agreement, 0 when not returned or stale
          Scopes,       \* [excluded, path]: the source left out, the documents the filters admit
          Limit

VARIABLES corpus,   \* the snapshot
          query,    \* the request
          plan,     \* the tasks, their channels and the bound they are given
          shards,   \* answers of the shards so far
          answer

vars == <<corpus, query, plan, shards, answer>>

\* rrfK may be configured; one makes 12 a common denominator for three ranks.
RrfK == 1
PhraseLambda == 1
DenseLambda  == 4
LinkLambda   == 3

NoAnswer == [matches |-> << >>, scored |-> 0, trace |-> {}]

\* Source 0: no note is the origin of the request.
Init ==
  /\ \E seg \in Layouts, posts \in [Docs -> Postings], exact \in {{}, {2}} :
       corpus = [seg |-> seg, posts |-> posts, exact |-> exact]
  /\ \E hangul \in BOOLEAN, fields \in {Fields, {"title"}}, dense \in BOOLEAN, v \in DenseResults,
        source \in {0, 1}, scope \in Scopes :
       query = [hangul |-> hangul, fields |-> fields, dense |-> dense, vector |-> v, source |-> source,
                excluded |-> scope.excluded, path |-> scope.path]
  /\ query.dense \/ query.vector = CHOOSE v \in DenseResults : TRUE
  /\ plan = [pc |-> "new", tasks |-> {}]
  /\ shards = << >> /\ answer = NoAnswer

DocsOf(segments) == {d \in Docs : corpus.seg[d] \in segments}

-----------------------------------------------------------------------------
(* Scores.  The statistics are those of the whole snapshot: the plan hands  *)
(* them to every shard.                                                     *)

\* bm25Stats of the handle.
StatsDocs(docs) == Docs

Idf(stats, p) == 1 + Cardinality({d \in stats : p \notin corpus.posts[d]})

Weight(p) == (IF p[1] = "morph" THEN 2 ELSE 1) * (IF p[2] = "title" THEN 2 ELSE 1)

Matched(d, channels) == {p \in corpus.posts[d] : p[1] \in channels /\ p[2] \in query.fields}

LexicalScore(d, channels, stats) ==
  MapThenSumSet(LAMBDA p : Weight(p) * Idf(stats, p), Matched(d, channels))

Proximity(d, channels) == Cardinality(Matched(d, channels))

\* Identity needs no posting: the projection's keys are compared.
Identity(d) == IF d \in corpus.exact /\ "title" \in query.fields THEN 1 ELSE 0

\* The best score of one term in one channel and field.
TermBound(p, docs) == IF \E d \in docs : p \in corpus.posts[d] THEN Idf(Docs, p) ELSE 0

\* Mutant: the bound leaves the proximity out.
ExactBound_LexicalOnly(docs) ==
  MapThenSumSet(LAMBDA p : Weight(p) * TermBound(p, docs), Channels \X query.fields)

\* What the lexical part of a score can reach at most, plus epsilon.
ExactBound(docs) ==
  MapThenSumSet(LAMBDA p : Weight(p) * TermBound(p, docs), Channels \X query.fields)
  + PhraseLambda * Cardinality(Channels \X query.fields) + 1

-----------------------------------------------------------------------------
(* Retrieval: three ranked lists, fused by reciprocal rank.                 *)

Ordered(docs, Score(_)) ==
  SetToSortSeq(docs, LAMBDA a, b : Score(a) > Score(b) \/ (Score(a) = Score(b) /\ a < b))

Lexical(docs, channels) == {d \in docs : Matched(d, channels) # {}}

LexicalList(docs, channels, stats) ==
  Ordered(Lexical(docs, channels), LAMBDA d : LexicalScore(d, channels, stats))

Dense(docs) == {d \in docs : query.dense /\ query.vector[d] > 0 /\ d \notin query.excluded}

DenseList(docs) == Ordered(Dense(docs), LAMBDA d : query.vector[d])

Neighbours(source) == {d \in Docs : <<source, d>> \in Edges \/ <<d, source>> \in Edges}

\* The source need not be in the segments that are searched.
Linked(docs) == IF query.source = 0 THEN {} ELSE (Neighbours(query.source) \cap docs) \ {query.source}

LinkList(docs) == Ordered(Linked(docs), LAMBDA d : 1)

Contribution(list, d) ==
  LET rank == SelectInSeq(list, LAMBDA e : e = d) IN IF rank = 0 THEN 0 ELSE 12 \div (RrfK + rank)

\* A single list is taken as it is.
Fused(lexical, others) ==
  IF others = << >> THEN lexical
  ELSE LET lists == <<lexical>> \o others
       IN  Ordered(UNION {ToSet(lists[k]) : k \in DOMAIN lists},
                   LAMBDA d : MapThenSumSet(LAMBDA k : Contribution(lists[k], d), DOMAIN lists))

CandidateSet(docs, channels, stats) ==
  Fused(LexicalList(docs, channels, stats),
        (IF ~query.dense THEN << >> ELSE <<DenseList(docs)>>)
        \o (IF query.source = 0 THEN << >> ELSE <<LinkList(docs)>>))

\* Exclusion, path and tags filter the candidates; their order is the base rank.
Hits(candidates) == SelectSeq(candidates, LAMBDA d : d \notin query.excluded /\ d \in query.path)

Signals(d, docs, channels, stats) ==
  [lexical |-> LexicalScore(d, channels, stats), proximity |-> Proximity(d, channels),
   identity |-> Identity(d), dense |-> IF d \in Dense(docs) THEN query.vector[d] ELSE 0,
   link |-> IF d \in Linked(docs) THEN 1 ELSE 0]

Score(signals, bound) ==
  signals.lexical + PhraseLambda * signals.proximity + bound * signals.identity
  + DenseLambda * signals.dense + LinkLambda * signals.link

Ranked(hits, docs, channels, stats, bound) ==
  {[doc |-> hits[k], score |-> Score(Signals(hits[k], docs, channels, stats), bound), base |-> k] :
     k \in DOMAIN hits}

\* Every hit of the segments with its score and base rank; none is cut off.
Finalists(docs, channels, stats, bound) ==
  Ranked(Hits(CandidateSet(docs, channels, stats)), docs, channels, stats, bound)

ByScore(finalists) ==
  SetToSortSeq(finalists, LAMBDA a, b : a.score > b.score \/ (a.score = b.score /\ a.doc < b.doc))

ByBaseRank(finalists) ==
  SetToSortSeq(finalists, LAMBDA a, b : a.base < b.base \/ (a.base = b.base /\ a.doc < b.doc))

-----------------------------------------------------------------------------
(* The unsharded search.                                                    *)

\* The retriever tries the n-grams of a Hangul query alone and falls back when they find nothing.
WholeChannels ==
  IF query.hangul
  THEN IF Lexical(Docs, {"ngram"}) # {} THEN {"ngram"} ELSE Channels
  ELSE Channels

Matches(ranked) == [k \in 1..(IF Len(ranked) < Limit THEN Len(ranked) ELSE Limit) |->
                      [doc |-> ranked[k].doc, score |-> ranked[k].score]]

Whole ==
  LET finalists == Finalists(Docs, WholeChannels, Docs, ExactBound(Docs))
  IN  [matches |-> Matches(ByScore(finalists)), scored |-> Cardinality(finalists)]

-----------------------------------------------------------------------------
(* The sharded search.                                                      *)

WorkEstimate(segments, channels) ==
  MapThenSumSet(LAMBDA d : Cardinality(Matched(d, channels)), DocsOf(segments))

\* Mutant: each segment decides its own fan-out.
FanoutChannels_PerSegment(segments) ==
  IF query.hangul
  THEN IF WorkEstimate(segments, {"ngram"}) > 0 THEN {"ngram"} ELSE Channels \ {"ngram"}
  ELSE Channels

\* The fan-out is decided once, over all segments.
FanoutChannels(segments) ==
  IF query.hangul
  THEN IF WorkEstimate(Segments, {"ngram"}) > 0 THEN {"ngram"} ELSE Channels \ {"ngram"}
  ELSE Channels

NeedsFanout == query.dense \/ query.source # 0

\* Segments outside the path filter, or without work, get no task.
Tasks ==
  {s \in Segments : /\ DocsOf({s}) \cap query.path # {}
                    /\ WorkEstimate({s}, FanoutChannels({s})) > 0 \/ NeedsFanout}

BoundFor(segments) == ExactBound(Docs)

PlanQuery ==
  /\ plan.pc = "new"
  /\ plan' = [pc |-> "run", tasks |-> Tasks]
  /\ UNCHANGED <<corpus, query, shards, answer>>

\* A worker ranks one segment with the channels, the statistics and the bound of its task.
RunShard(s) ==
  /\ plan.pc = "run" /\ s \in plan.tasks \ DOMAIN shards
  /\ LET docs == DocsOf({s})
     IN  shards' = [t \in DOMAIN shards \cup {s} |->
                      IF t = s THEN Finalists(docs, FanoutChannels({s}), StatsDocs(docs), BoundFor({s}))
                      ELSE shards[t]]
  /\ UNCHANGED <<corpus, query, plan, answer>>

\* Mutant: the trace keeps the ranks of the shards.
TraceRank_OfShard(finalists, f) == f.base

\* normalizeTraceBaseRanks: the ranks of a trace are places in the merged list.
TraceRank(finalists, f) == SelectInSeq(ByBaseRank(finalists), LAMBDA g : g.doc = f.doc)

Traced(finalists) == {[doc |-> f.doc, base |-> TraceRank(finalists, f)] : f \in finalists}

\* A shard past the deadline of the request fails, and the search with it.
Late(s) ==
  /\ plan.pc = "run" /\ s \in plan.tasks \ DOMAIN shards
  /\ plan' = [plan EXCEPT !.pc = "late"]
  /\ UNCHANGED <<corpus, query, shards, answer>>

Merge ==
  /\ plan.pc = "run" /\ DOMAIN shards = plan.tasks
  /\ plan' = [plan EXCEPT !.pc = "done"]
  /\ LET all == UNION {shards[s] : s \in plan.tasks}
     IN  answer' = [matches |-> Matches(ByScore(all)), scored |-> Cardinality(all),
                    trace |-> Traced(all)]
  /\ UNCHANGED <<corpus, query, shards>>

Next == PlanQuery \/ (\E s \in Segments : RunShard(s) \/ Late(s)) \/ Merge

Spec == Init /\ [][Next]_vars

-----------------------------------------------------------------------------

\* However the documents are spread over segments, a search returns what the unsharded one does.
ShardedIsWhole ==
  plan.pc = "done" => [matches |-> answer.matches, scored |-> answer.scored] = Whole

\* exactDominanceLambda: without vectors and links, an exact title comes before anything else.
ExactFirst ==
  plan.pc = "done" /\ ~query.dense /\ query.source = 0 /\ "title" \in query.fields =>
    \A k \in DOMAIN answer.matches :
      answer.matches[k].doc \in corpus.exact => \A j \in 1..(k - 1) : answer.matches[j].doc \in corpus.exact

\* The trace of a merged search ranks its candidates 1, 2, ... although each shard counts from one.
TraceRanksAreARanking ==
  plan.pc = "done" => {t.base : t \in answer.trace} = 1..answer.scored
===============================================================================
