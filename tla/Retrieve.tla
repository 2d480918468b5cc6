-------------------------------- MODULE Retrieve --------------------------------
(***************************************************************************)
(* One Search or Retrieve request of the daemon: search-store/service.ts    *)
(* and the read context of snapshot-store.ts.  It chooses a corpus snapshot *)
(* and pins it; a search goes on with its text, or with its filters alone.  *)
(* A retrieve then tries to attach the vectors of the last dense edition,   *)
(* resolves the text and the vector of its origin, searches, and gives      *)
(* everything back.                                                         *)
(* At each of its awaits the vault moves on: a new snapshot is published, a *)
(* dense edition comes out, the sweep removes an old generation.  The       *)
(* vectors may be older or newer than the pinned corpus.                    *)
(*                                                                          *)
(* A version stands for the content hash of a note; 0 is no note.           *)
(***************************************************************************)
EXTENDS Naturals, FiniteSets

CONSTANTS Note,
          Source,     \* the note, or the left note, of an origin
          Right,      \* the right note of a pair
          Matching,   \* notes whose text matches the query text
          Linked,     \* notes that are linked with the source
          Paths,      \* bound: the notes that the path filter of a request lets through
          Tagged,     \* bound: the notes that its tag filter lets through
          Versions,   \* bound: versions of a note, 0 for none
          Limit,      \* bound: matches of an answer
          MaxEvents   \* bound: edits and dense editions

VARIABLES head,     \* the active snapshot: the version of each note
          gen,      \* the generation of the latest fresh edition: vectors, space, number
          dirs,     \* numbers of the generations on disk
          pins,     \* what requests hold: lexical pins, generation pins, leases
          request,  \* the request
          events

vars == <<head, gen, dirs, pins, request, events>>

NoGen  == [id |-> 0, of |-> [n \in Note |-> 0], sameSpace |-> TRUE]
NoPins == [lexical |-> 0, generation |-> {}, lease |-> {}]

Modes   == {"lexical", "vector", "hybrid"}
Origins == {"text", "note", "pair", "global", "search"}

\* words: whether the text has terms, or the search has no text at all; floor: there is
\* a least score; docs: the chosen snapshot; found: the generation that the edition names;
\* dense: the attached one; query: the version of the source whose stored vector is
\* searched for, 0 for an encoded text.
Requests ==
  {[pc |-> "start", origin |-> o, sourced |-> s, mode |-> m, path |-> p, tagged |-> t, words |-> w, floor |-> f,
    docs |-> NoGen.of, found |-> NoGen, dense |-> NoGen, query |-> 0, hits |-> {}, matches |-> {}] :
     o \in Origins, s \in BOOLEAN, m \in Modes, p \in Paths, t \in Tagged,
     w \in {"some", "blank", "none"}, f \in BOOLEAN}

\* A method Search is lexical; only a retrieve has a least score, and it has a text.
Possible(r) ==
  /\ r.origin # "global" => r.sourced
  /\ r.origin = "search" => r.mode = "lexical" /\ ~r.floor
  /\ r.words = "none" => r.origin = "search"
  /\ r.origin = "pair" => r.path = {Right}

First == [n \in Note |-> 1]

Init ==
  /\ head = First
  /\ gen \in {NoGen} \cup {[id |-> 1, of |-> head, sameSpace |-> b] : b \in BOOLEAN}
  /\ dirs = {gen.id} \ {0}
  /\ pins = NoPins /\ events = 0
  /\ request \in {r \in Requests : Possible(r)}

-----------------------------------------------------------------------------
(* The vault moves on.                                                      *)

Running == request.pc \notin {"ready", "not ready", "failed"}

Edit(n, v) ==
  /\ Running /\ events < MaxEvents /\ v # head[n]
  /\ head' = [head EXCEPT ![n] = v]
  /\ events' = events + 1
  /\ UNCHANGED <<gen, dirs, pins, request>>

\* The lane publishes a dense edition of the active snapshot.
DenseEdition ==
  /\ Running /\ events < MaxEvents
  /\ gen' = [id |-> gen.id + 1, of |-> head, sameSpace |-> TRUE]
  /\ dirs' = dirs \cup {gen.id + 1}
  /\ events' = events + 1
  /\ UNCHANGED <<head, pins, request>>

\* The sweep removes a generation that no fresh edition and no pin names.
Sweep(g) ==
  /\ Running /\ g \in dirs /\ g # gen.id /\ g \notin pins.generation
  /\ dirs' = dirs \ {g}
  /\ UNCHANGED <<head, gen, pins, request, events>>

World == UNCHANGED <<head, gen, dirs, events>>

-----------------------------------------------------------------------------
(* The read context.                                                        *)

\* releaseReadContext: the lease and the generation pin, then the lexical pin.
Released ==
  [lexical    |-> pins.lexical - 1,
   generation |-> pins.generation \ {request.dense.id},
   lease      |-> pins.lease \ {request.dense.id}]

Ends(answer) ==
  /\ request' = [answer EXCEPT !.found = NoGen, !.dense = NoGen, !.hits = {}]
  /\ pins' = Released
  /\ World

Fails == Ends([request EXCEPT !.pc = "failed"])

NotReady == Ends([request EXCEPT !.pc = "not ready"])

Goes(r) == request' = r /\ World

\* ensureActiveSnapshot: the active snapshot, brought up to date; a search may name another.
Choose ==
  /\ request.pc = "start"
  /\ \E docs \in {head} \cup (IF request.origin = "search" THEN {First} ELSE {}) :
       Goes([request EXCEPT !.pc = "chosen", !.docs = docs])
  /\ UNCHANGED pins

\* It has been read into memory and is pinned, whatever is the active one by now.
Pin ==
  /\ request.pc = "chosen"
  /\ pins' = [pins EXCEPT !.lexical = @ + 1]
  /\ Goes([request EXCEPT !.pc = IF request.origin = "search" THEN "search" ELSE "pinned"])

\* No snapshot can be built or loaded; no pin was taken.
NoSnapshot ==
  /\ request.pc \in {"start", "chosen"}
  /\ Goes([request EXCEPT !.pc = IF request.origin = "search" THEN "failed" ELSE "not ready"])
  /\ UNCHANGED pins

\* pinLexicalReadContext: the content of every note of the snapshot.
Context ==
  /\ request.pc = "pinned"
  /\ Goes([request EXCEPT !.pc = "context"])
  /\ UNCHANGED pins

\* What follows the pin throws: the pin is given back.
ContextFails ==
  /\ request.pc = "pinned"
  /\ pins' = [pins EXCEPT !.lexical = @ - 1]
  /\ Goes([request EXCEPT !.pc = "not ready"])

Live(n) == request.docs[n] # 0

\* The notes that the origin names are in the pinned snapshot.
OriginKnown ==
  CASE request.origin \in {"text", "search"} -> TRUE
    [] request.origin = "note"   -> Live(Source)
    [] request.origin = "pair"   -> Live(Source) /\ Live(Right)
    [] request.origin = "global" -> request.sourced => Live(Source)

\* A global request that names no note has no text to search for.
MissingSource == request.origin = "global" /\ ~request.sourced

\* A note that the snapshot does not have, or a request that makes no sense.
Refuse == request.pc = "context" /\ Fails

\* resolveDenseRetrievalEnvelope: the edition and its records, before the
\* corpus of the edition is loaded.
FindEdition ==
  /\ request.pc = "context" /\ OriginKnown
  /\ Goes([request EXCEPT !.pc = "found", !.found = gen])
  /\ UNCHANGED pins

\* resolveDenseVectorGeneration: its metadata is on disk and of the wanted
\* space, and the generation is pinned; else the request goes on without.
Attachable == request.found.id \in dirs /\ request.found.sameSpace

Retain ==
  /\ request.pc = "found" /\ Attachable
  /\ pins' = [pins EXCEPT !.generation = @ \cup {request.found.id}]
  /\ Goes([request EXCEPT !.pc = "retained"])

\* No fresh edition, or one whose corpus, metadata or space does not fit.
NoDense ==
  /\ request.pc = "found"
  /\ Goes([request EXCEPT !.pc = "attached", !.found = NoGen])
  /\ UNCHANGED pins

Attach ==
  /\ request.pc = "retained"
  /\ pins' = [pins EXCEPT !.lease = @ \cup {request.found.id}]
  /\ Goes([request EXCEPT !.pc = "attached", !.dense = request.found, !.found = NoGen])

\* The database does not open: the generation pin is given back.
Unreadable ==
  /\ request.pc = "retained"
  /\ pins' = [pins EXCEPT !.generation = @ \ {request.found.id}]
  /\ Goes([request EXCEPT !.pc = "attached", !.found = NoGen])

OpenThrows_PinKept ==
  /\ request.pc = "retained"
  /\ request' = [request EXCEPT !.pc = "failed", !.found = NoGen]
  /\ pins' = [pins EXCEPT !.lexical = @ - 1]
  /\ World

\* The pool is closed meanwhile, and the open throws.
OpenThrows ==
  /\ request.pc = "retained"
  /\ request' = [request EXCEPT !.pc = "failed", !.found = NoGen]
  /\ pins' = [pins EXCEPT !.generation = @ \ {request.found.id}, !.lexical = @ - 1]
  /\ World

-----------------------------------------------------------------------------
(* The vector of the origin.                                                *)

Attached   == request.dense.id # 0
Comparable == Attached /\ (MissingSource \/ request.mode # "lexical")

Usable_AnyContent(n) == request.dense.of[n] # 0

\* The stored vector of a note is that of the note's pinned content.
Usable(n) == request.dense.of[n] # 0 /\ request.dense.of[n] = request.docs[n]

\* The model that the request names is not the one of the vectors.
OtherModel == request.pc = "attached" /\ Attached /\ Fails

StoredVector ==
  CASE request.origin = "note"   -> Usable(Source)
    [] request.origin = "pair"   -> Usable(Source) /\ Usable(Right)
    [] request.origin = "global" -> request.sourced /\ Usable(Source)

VectorMissing ==
  /\ request.pc = "attached" /\ request.origin # "text"
  /\ ~Comparable \/ ~StoredVector
  /\ NotReady

TakeStored ==
  /\ request.pc = "attached" /\ request.origin # "text" /\ Comparable /\ StoredVector
  /\ Goes([request EXCEPT !.pc = "searching", !.query = request.dense.of[Source]])
  /\ UNCHANGED pins

StartEncode ==
  /\ request.pc = "attached" /\ request.origin = "text" /\ Comparable
  /\ Goes([request EXCEPT !.pc = "encoding"])
  /\ UNCHANGED pins

TextOnly ==
  /\ request.pc = "attached" /\ request.origin = "text" /\ ~Comparable
  /\ Goes([request EXCEPT !.pc = "analyze"])
  /\ UNCHANGED pins

Encoded ==
  /\ request.pc = "encoding"
  /\ Goes([request EXCEPT !.pc = "searching"])
  /\ UNCHANGED pins

\* The deadline is too close or passes: a warning, and no query vector.
EncodeLate ==
  /\ request.pc = "encoding"
  /\ Goes([request EXCEPT !.pc = "analyze"])
  /\ UNCHANGED pins

EncodeFails == request.pc = "encoding" /\ Fails

-----------------------------------------------------------------------------
(* The searches.                                                            *)

\* What the filters let through; a pair looks at the path of its right note.
Scope == request.tagged \cap (IF request.origin = "pair" THEN {Right} ELSE request.path)

\* A note is not among its own matches.
Excluded == IF request.origin = "note" THEN {Source} ELSE {}

Candidates == {n \in Scope \ Excluded : Live(n)}

\* denseSearchResultUsableForRetrieval
Contributes(hits) == {n \in hits : n \in Candidates /\ Usable(n)}

Match(n, isDense) == [note |-> n, version |-> request.docs[n],
                      vector |-> IF isDense THEN request.dense.of[n] ELSE 0]

\* The best of some notes, in whatever order they rank.
Best(notes, limit) ==
  {s \in SUBSET notes : Cardinality(s) = limit \/ (Cardinality(s) < limit /\ s = notes)}

\* vectorOnlyRetrieveResult: the best usable hits.
VectorMatches(hits) == {{Match(n, TRUE) : n \in best} : best \in Best(Contributes(hits), Limit)}

\* searchAttachedDenseGeneration: the nearest vectors of the whole generation.
Nearest == Best({n \in Note : request.dense.of[n] # 0}, 4 * Limit)

VectorSearch_NoFallback ==
  /\ request.pc = "searching"
  /\ \E hits \in Nearest :
       IF request.mode = "vector"
       THEN \E ms \in VectorMatches(hits) :
              Ends([request EXCEPT !.pc = "ready", !.matches = ms])
       ELSE /\ Goes([request EXCEPT !.pc = "analyze",
                                    !.hits = IF Contributes(hits) # {} THEN hits ELSE {}])
            /\ UNCHANGED pins

VectorSearch ==
  /\ request.pc = "searching"
  /\ \E hits \in Nearest :
       IF request.mode = "vector" /\ Contributes(hits) # {}
       THEN \E ms \in VectorMatches(hits) :
              Ends([request EXCEPT !.pc = "ready", !.matches = ms])
       ELSE /\ Goes([request EXCEPT !.pc = "analyze",
                                    !.hits = IF Contributes(hits) # {} THEN hits ELSE {}])
            /\ UNCHANGED pins

\* A vector search that fails is a warning.
VectorSearchFails ==
  /\ request.pc = "searching"
  /\ Goes([request EXCEPT !.pc = "analyze"])
  /\ UNCHANGED pins

\* A search without a text: the notes that its filters let through.
MetadataSearch ==
  /\ request.pc = "search" /\ request.words = "none"
  /\ \E best \in Best(Candidates, Limit) :
       Ends([request EXCEPT !.pc = "ready", !.matches = {Match(n, FALSE) : n \in best}])

WordSearch ==
  /\ request.pc = "search" /\ request.words # "none"
  /\ Goes([request EXCEPT !.pc = "analyze"])
  /\ UNCHANGED pins

\* queryAnalysis: the analysis is cached, or comes from the analyzer.
Analyze ==
  /\ request.pc = "analyze"
  /\ Goes([request EXCEPT !.pc = "execute"])
  /\ UNCHANGED pins

\* The request makes no sense, analyzer or scheduler fail, or the deadline passes.
SearchFails == request.pc \in {"search", "analyze", "execute"} /\ Fails

\* The candidates of the text, those that are linked with the source, and the dense hits
\* that the mask of live hashes leaves; a text without terms finds nothing, in any way.
Found ==
  LET linked == IF request.origin \in {"text", "search"} THEN {} ELSE Linked
  IN  IF request.words = "blank" THEN {} ELSE Candidates \cap (Matching \cup linked \cup Contributes(request.hits))

\* executeSearchWithPin: the best that was found, limited after all are fused, and of a
\* retrieve those that have the least score.
Execute ==
  /\ request.pc = "execute"
  /\ \E best \in Best(Found, Limit) :
       \E kept \in IF request.floor THEN SUBSET best ELSE {best} :
         Ends([request EXCEPT !.pc = "ready",
                              !.matches = {Match(n, n \in Contributes(request.hits)) : n \in kept}])

-----------------------------------------------------------------------------
Done == ~Running /\ UNCHANGED vars

Next ==
  \/ \E n \in Note, v \in Versions : Edit(n, v)
  \/ DenseEdition
  \/ \E g \in dirs : Sweep(g)
  \/ Choose \/ Pin \/ NoSnapshot \/ Context \/ ContextFails
  \/ Refuse \/ FindEdition \/ Retain \/ NoDense
  \/ Attach \/ Unreadable \/ OpenThrows \/ OtherModel
  \/ VectorMissing \/ TakeStored \/ StartEncode \/ TextOnly
  \/ Encoded \/ EncodeLate \/ EncodeFails
  \/ VectorSearch \/ VectorSearchFails
  \/ MetadataSearch \/ WordSearch \/ Analyze \/ SearchFails \/ Execute
  \/ Done

Spec == Init /\ [][Next]_vars

-----------------------------------------------------------------------------
(* Properties.                                                              *)

\* Whatever was published while the request ran: its matches are notes of the
\* snapshot that it pinned, no dense score comes from a vector of another content,
\* a stored query vector is that of the source as pinned, and a note is not its own
\* match (docs/lifecycle.md:441-474).
NoStaleVectors ==
  request.pc = "ready" =>
    /\ \A m \in request.matches : m.version # 0 /\ m.vector \in {0, m.version}
    /\ request.origin \notin {"text", "search"} => request.query = request.docs[Source]
    /\ request.origin = "note" => \A m \in request.matches : m.note # Source

\* A request that has ended, on any path, holds nothing; one that has a generation
\* attached holds its lease and the pin that keeps it from the sweep.
HoldsWhatItUses ==
  /\ ~Running => pins = NoPins
  /\ Attached => /\ pins.lexical = 1 /\ request.dense.id \in dirs
                 /\ pins.lease = {request.dense.id} /\ pins.generation = pins.lease

\* docs/ARCHITECTURE.md:140: a text request is not answered with an empty result
\* because dense cannot contribute, in any mode: it is empty only if no note of the pinned
\* snapshot that its filters let through matches, or none has its least score.
TextFallsBack ==
  /\ request.pc = "ready" /\ request.origin \in {"text", "search"} /\ request.words = "some"
  /\ request.matches = {} /\ ~request.floor
  => Matching \cap {n \in Scope : Live(n)} = {}
=============================================================================
