------------------------------- MODULE IndexBuild -------------------------------
(***************************************************************************)
(* The build of a search snapshot (search-store/builder.ts, and its spread  *)
(* over workers in pools.ts): the vault is scanned, files are read again    *)
(* and analysed one by one while others edit them, their contributions are  *)
(* folded into one segment per partition.  A build upon a base analyses     *)
(* only what changed, keeps whole segments where nothing changed, and takes *)
(* contributions out of the segments of the base where something did.  When *)
(* such a build fails for whatever reason, a full one follows.              *)
(***************************************************************************)
EXTENDS Naturals, FiniteSetsExt, SequencesExt

CONSTANTS File,       \* paths, their order is that of their document ids
          Partition,  \* the partition of each file
          Dir, Name,  \* folder ("" for the root) and basename of each file
          Content,    \* contents of a note
          Text,       \* the tokens of each content
          Link        \* the name that each content links to

VARIABLES vault,    \* each file: a content, "binary" or "gone"
          base,     \* the last snapshot published
          torn,     \* partitions whose segment file is damaged
          mode,     \* "full", or "base" for a build upon the base
          phase,    \* "idle", "again", "parsing", "published", "failed"
          scan,     \* files seen, and the contents of the readable ones
          todo,     \* files still to be analysed
          parsed,   \* contents of the files analysed
          touched   \* files edited since the scan, history

vars == <<vault, base, torn, mode, phase, scan, todo, parsed, touched>>

Nothing == [f \in {} |-> ""]

-----------------------------------------------------------------------------
\* What a document adds to its segment.
Contribution(f, c) ==
  [id |-> f, hash |-> c, length |-> Len(Text[c]),
   postings |-> {[term |-> t, at |-> {i \in DOMAIN Text[c] : Text[c][i] = t}] : t \in ToSet(Text[c])}]

\* In how many documents of a segment each term is.
Frequencies(s) ==
  [t \in {p.term : p \in UNION {s[i].postings : i \in DOMAIN s}} |->
     Cardinality({i \in DOMAIN s : \E p \in s[i].postings : p.term = t})]

\* Local document ids count the documents of the segment in the order of their ids.
Fold(contributions) ==
  LET s == SetToSortSeq(contributions, LAMBDA x, y : x.id < y.id)
  IN [docs     |-> [i \in DOMAIN s |-> [id |-> s[i].id, hash |-> s[i].hash]],
      postings |-> UNION {{[term |-> p.term, doc |-> i, at |-> p.at] : p \in s[i].postings} : i \in DOMAIN s},
      lengths  |-> [i \in DOMAIN s |-> s[i].length],
      df       |-> Frequencies(s)]

\* The checks of a segment that is taken apart: its statistics are those of its postings.
Sound(seg) ==
  /\ DOMAIN seg.lengths = DOMAIN seg.docs
  /\ \A i, k \in DOMAIN seg.docs : seg.docs[i].id = seg.docs[k].id => i = k
  /\ seg.df = [t \in {p.term : p \in seg.postings} |-> Cardinality({p.doc : p \in {q \in seg.postings : q.term = t}})]

\* A base segment is taken apart again, each posting by its local document id.
Extract(seg) ==
  {[id |-> seg.docs[i].id, hash |-> seg.docs[i].hash, length |-> seg.lengths[i],
    postings |-> {[term |-> p.term, at |-> p.at] : p \in {q \in seg.postings : q.doc = i}}] : i \in DOMAIN seg.docs}

\* Statistics of the corpus are sums over the statistics of the segments.
GlobalStats(segs) ==
  LET terms == UNION {DOMAIN segs[p].df : p \in DOMAIN segs}
  IN [documents |-> FoldSet(LAMBDA p, n : n + Len(segs[p].docs), 0, DOMAIN segs),
      length    |-> FoldSet(LAMBDA p, n : n + FoldSeq(LAMBDA k, m : k + m, 0, segs[p].lengths), 0, DOMAIN segs),
      df        |-> [t \in terms |-> FoldSet(LAMBDA p, n : n + (IF t \in DOMAIN segs[p].df THEN segs[p].df[t] ELSE 0),
                                             0, DOMAIN segs)]]

\* A name is looked up beside its source, at the root, then anywhere if it is unique.
Resolve(source, name, files) ==
  LET named == {f \in files : Name[f] = name}
      beside == {f \in named : Dir[f] = Dir[source]}
      atRoot == {f \in named : Dir[f] = ""}
  IN IF beside # {} THEN beside ELSE IF atRoot # {} THEN atRoot
     ELSE IF Cardinality(named) = 1 THEN named ELSE {}

Edges(links, files) == UNION {{<<f, g>> : g \in Resolve(f, links[f], files)} : f \in DOMAIN links}

\* The snapshot of documents with given contents, links and segments.
Snapshot(docs, links, files, segs) ==
  {[docs |-> docs, segs |-> segs, stats |-> GlobalStats(segs), edges |-> Edges(links, files)]}

Segments(docs) ==
  [p \in {Partition[f] : f \in DOMAIN docs} |->
     Fold({Contribution(f, docs[f]) : f \in {g \in DOMAIN docs : Partition[g] = p}})]

-----------------------------------------------------------------------------
\* scanBuildDocuments is one synchronous step; a file that is no text is seen but no document.
Scanned(v) ==
  [files |-> {f \in File : v[f] # "gone"},
   docs  |-> [f \in {g \in File : v[g] \in Content} |-> v[f]]]

Affected_NoDeletions(b, s) ==
  {Partition[f] : f \in {g \in DOMAIN s.docs : g \notin DOMAIN b.docs \/ b.docs[g] # s.docs[g]}}

\* Partitions with a document that is new, changed or gone, or that the base has not.
Affected(b, s) ==
  {Partition[f] : f \in {g \in DOMAIN s.docs : g \notin DOMAIN b.docs \/ b.docs[g] # s.docs[g]}}
    \cup {Partition[f] : f \in DOMAIN b.docs \ DOMAIN s.docs}
    \cup {Partition[f] : f \in {g \in DOMAIN s.docs : Partition[g] \notin DOMAIN b.segs}}

CanReuse_SamePath(b, s, f) == f \in DOMAIN b.docs /\ Partition[f] \in DOMAIN b.segs

CanReuse(b, s, f) == f \in DOMAIN b.docs /\ b.docs[f] = s.docs[f] /\ Partition[f] \in DOMAIN b.segs

Reused(b, s) == {Partition[f] : f \in DOMAIN s.docs} \ Affected(b, s)

\* Documents of affected partitions that are kept, and those that are read again.
Kept(b, s) == {f \in DOMAIN s.docs : Partition[f] \in Affected(b, s) /\ CanReuse(b, s, f)}
Fresh(b, s) == {f \in DOMAIN s.docs : Partition[f] \in Affected(b, s) /\ ~CanReuse(b, s, f)}

RetainedPartitions(b, s) == Reused(b, s) \cup {Partition[f] : f \in Kept(b, s)}

\* Segments of the base that a build reads before it analyses anything.
Unreadable(b, s) == RetainedPartitions(b, s) \cap torn # {}

\* One segment of kept and fresh documents.
Refold(b, s, fresh, p) ==
  LET kept == {f \in Kept(b, s) : Partition[f] = p}
  IN Fold((IF kept = {} THEN {} ELSE {c \in Extract(b.segs[p]) : c.id \in kept})
            \cup {Contribution(f, fresh[f]) : f \in {g \in DOMAIN fresh : Partition[g] = p}})

\* Whole segments of the base, and those that are planned.
SegmentsUpon(b, s, fresh) ==
  [p \in Reused(b, s) \cup {Partition[f] : f \in Kept(b, s) \cup Fresh(b, s)} |->
     IF p \in Reused(b, s) THEN b.segs[p] ELSE Refold(b, s, fresh, p)]

DocsUpon(b, s, fresh) ==
  [f \in DOMAIN fresh \cup Kept(b, s) \cup {g \in DOMAIN s.docs : Partition[g] \in Reused(b, s)} |->
     IF f \in DOMAIN fresh THEN fresh[f] ELSE b.docs[f]]

\* Links are those of the scan, and of the analysis for a file that the scan could not read.
LinksOf(docs, s) == [f \in DOMAIN docs |-> Link[IF f \in DOMAIN s.docs THEN s.docs[f] ELSE docs[f]]]

-----------------------------------------------------------------------------
\* A snapshot of an earlier vault that differs in two files at most, or none.
Init ==
  /\ vault \in {v \in [File -> Content \cup {"binary", "gone"}] : \A f \in File : v[f] = "binary" => Dir[f] = ""}
  /\ \/ base = {} /\ torn = {}
     \/ \E v \in UNION {[S -> Content] : S \in SUBSET File} :
          /\ Cardinality({f \in File : IF f \in DOMAIN v THEN v[f] # vault[f] ELSE vault[f] # "gone"}) <= 2
          /\ base = Snapshot(v, LinksOf(v, [docs |-> v]), DOMAIN v, Segments(v))
          /\ torn \in {{}, {Partition[1]}}
  /\ mode = "full" /\ phase = "idle" /\ scan = Scanned([f \in File |-> "gone"])
  /\ todo = {} /\ parsed = Nothing /\ touched = {}

\* A full build without a base, or after a failed one.
ScanAll ==
  /\ phase = "again" \/ (phase = "idle" /\ base = {})
  /\ mode' = "full" /\ scan' = Scanned(vault) /\ todo' = scan'.files
  /\ parsed' = Nothing /\ touched' = {} /\ phase' = "parsing"
  /\ UNCHANGED <<vault, base, torn>>

\* A build upon a base reads the segments it keeps before it analyses anything.
ScanUpon(b) ==
  /\ phase = "idle" /\ b \in base
  /\ LET s == Scanned(vault)
     IN IF Unreadable(b, s)
        THEN phase' = "again" /\ UNCHANGED <<mode, scan, todo, parsed, touched>>
        ELSE /\ mode' = "base" /\ scan' = s /\ todo' = Fresh(b, s)
             /\ parsed' = Nothing /\ touched' = {} /\ phase' = "parsing"
  /\ UNCHANGED <<vault, base, torn>>

\* In order upon a base, in batches on workers otherwise.
Turn(f) == mode = "base" => \A g \in todo : f <= g

\* One file is read again and analysed.
Parse(f) ==
  /\ phase = "parsing" /\ f \in todo
  /\ Turn(f)
  /\ todo' = todo \ {f}
  /\ parsed' = IF vault[f] \in Content THEN [g \in DOMAIN parsed \cup {f} |-> IF g = f THEN vault[f] ELSE parsed[g]] ELSE parsed
  /\ UNCHANGED <<vault, base, torn, mode, phase, scan, touched>>

\* A worker, a deadline or a cancellation ends the build: upon a base, a full one follows.
Abort ==
  /\ phase = "parsing"
  /\ phase' = IF mode = "base" THEN "again" ELSE "failed"
  /\ mode' = "full" /\ scan' = Scanned([f \in File |-> "gone"])
  /\ todo' = {} /\ parsed' = Nothing /\ touched' = {}
  /\ UNCHANGED <<vault, base, torn>>

\* Segments are folded, the snapshot is published; a damaged segment file is written anew.
Finish ==
  /\ phase = "parsing" /\ todo = {}
  /\ mode = "base" => \A b \in base : \A f \in Kept(b, scan) : Sound(b.segs[Partition[f]])
  /\ LET docs(b) == IF mode = "base" THEN DocsUpon(b, scan, parsed) ELSE parsed
         segs(b) == IF mode = "base" THEN SegmentsUpon(b, scan, parsed) ELSE Segments(parsed)
         b == IF base = {} THEN {} ELSE CHOOSE x \in base : TRUE
     IN /\ base' = Snapshot(docs(b), LinksOf(docs(b), scan), scan.files, segs(b))
        /\ torn' = torn \ DOMAIN segs(b)
  /\ phase' = "published" /\ parsed' = Nothing
  /\ UNCHANGED <<vault, mode, scan, todo, touched>>

\* Others edit the vault while files are still to be analysed, once in a build (the bound).
Edit(f, c) ==
  /\ phase = "parsing" /\ todo # {} /\ touched = {} /\ c # vault[f]
  /\ vault' = [vault EXCEPT ![f] = c] /\ touched' = {f}
  /\ UNCHANGED <<base, torn, mode, phase, scan, todo, parsed>>

\* The next build of a snapshot that was built while the vault was edited.
Again ==
  /\ phase = "published" /\ touched # {}
  /\ phase' = "idle" /\ touched' = {}
  /\ scan' = Scanned([f \in File |-> "gone"]) /\ mode' = "full"
  /\ UNCHANGED <<vault, base, torn, todo, parsed>>

Next ==
  \/ ScanAll \/ Abort \/ Finish \/ Again
  \/ \E b \in base : ScanUpon(b)
  \/ \E f \in File : Parse(f) \/ \E c \in Content \cup {"gone"} : Edit(f, c)

Spec == Init /\ [][Next]_vars

-----------------------------------------------------------------------------
\* Whatever was edited meanwhile and whatever the base was, segments and statistics are
\* those that the snapshot's own documents yield when each is analysed anew.  (A partition
\* whose only new document vanished before its analysis gets a segment without documents.)
SegmentsAreTheirDocuments ==
  \A b \in base :
    LET terms == UNION {ToSet(Text[b.docs[f]]) : f \in DOMAIN b.docs}
        full == {p \in DOMAIN b.segs : b.segs[p].docs # <<>>}
    IN /\ \A p \in DOMAIN b.segs : Sound(b.segs[p])
       /\ [p \in full |-> b.segs[p]] = Segments(b.docs)
       /\ b.stats = [documents |-> Cardinality(DOMAIN b.docs),
                     length |-> FoldSet(LAMBDA f, n : n + Len(Text[b.docs[f]]), 0, DOMAIN b.docs),
                     df |-> [t \in terms |-> Cardinality({f \in DOMAIN b.docs : t \in ToSet(Text[b.docs[f]])})]]

\* A build during which nothing was edited is the full build of the vault, links included, also
\* upon a base that was itself torn by edits or whose files are damaged.
QuietBuildIsTheVault ==
  phase = "published" /\ touched = {} =>
    LET v == Scanned(vault) IN base = Snapshot(v.docs, LinksOf(v.docs, v), v.files, Segments(v.docs))
=================================================================================
