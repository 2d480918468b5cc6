------------------------------ MODULE SegmentCodec ------------------------------
(***************************************************************************)
(* The file of an index segment (core/search/segments/canonical.ts) and its *)
(* two readers: the whole decoder, which loads and checks every section,    *)
(* and the readers that a query uses, which look up a term or a note in the *)
(* bytes where they lie (segment-postings-reader.ts, ProjectionReader).     *)
(*                                                                          *)
(* A file is a sequence of cells.  A number is one cell, whatever its       *)
(* width in bytes; a string is a cell with its length and a cell for each   *)
(* byte.  The magic and the schema numbers, which are constant, are left    *)
(* out, as are the sections of documents' hashes and of term frequencies,   *)
(* which are read only whole.                                               *)
(***************************************************************************)
EXTENDS Naturals, Integers, Sequences, FiniteSets, SequencesExt, FiniteSetsExt

CONSTANTS Segments,   \* what a builder hands over: postings, ids, texts, lengths
          Terms,      \* terms that a query looks up
          Title, Tags \* fields whose text the projection indexes

VARIABLES segment, \* what is encoded
          file,    \* the cells of the file
          damage   \* "none", or what happened to the file

vars == <<segment, file, damage>>

-----------------------------------------------------------------------------
(* The canonical order.                                                     *)

\* compareBytes
Before(s, t) ==
  \E k \in 0..Len(s) :
    /\ k < Len(t) /\ SubSeq(s, 1, k) = SubSeq(t, 1, k)
    /\ k = Len(s) \/ s[k + 1] < t[k + 1]

Less(a, b) == a < b
Sorted(s) == SetToSortSeq(s, Before)

RowBefore(r, q) ==
  \/ Before(r.term, q.term)
  \/ r.term = q.term /\ (r.field < q.field \/ (r.field = q.field /\ r.doc < q.doc))

\* normalizePostings: one row for a term, field and note; no empty row or term.
Rows(postings) ==
  LET all  == {postings[k] : k \in DOMAIN postings}
      Of(p) == {q \in all : q.term = p.term /\ q.field = p.field /\ q.doc = p.doc}
      row(p) == [p EXCEPT !.at = UNION {q.at : q \in Of(p)}]
  IN  SetToSortSeq({r \in {row(p) : p \in all} : r.term # <<>> /\ r.at # {}}, RowBefore)

\* documents by id, texts and lengths by note and field
ByKey(r, q) == r.doc < q.doc \/ (r.doc = q.doc /\ r.field < q.field)
Normal(s) == [postings |-> Rows(s.postings), docs |-> Sorted(s.docs),
              texts |-> SetToSortSeq(s.texts, ByKey), lengths |-> s.lengths]

-----------------------------------------------------------------------------
(* Writing.                                                                 *)

Text(s) == <<Len(s)>> \o s

Each(s, Op(_)) == [k \in DOMAIN s |-> Op(s[k])]

\* Where each chunk starts when they are laid one after the other.
Starts(chunks) == [k \in DOMAIN chunks |-> Len(FlattenSeq(SubSeq(chunks, 1, k - 1)))]

\* A table of offsets, then the chunks.
Offsets(chunks) == <<Len(chunks)>> \o Starts(chunks) \o FlattenSeq(chunks)

\* A table of rows of one width.
Fixed(rows) == <<Len(rows)>> \o FlattenSeq(rows)

PostingCells(r) ==
  Text(r.term) \o <<r.field, r.doc, Cardinality(r.at)>> \o SetToSortSeq(r.at, Less)

PostingsSection(rows) == Fixed(Each(rows, PostingCells))

Entry_UpToLastRow(rows, t) ==
  LET mine == {k \in DOMAIN rows : rows[k].term = t}
      at(k) == 1 + Len(FlattenSeq(Each(SubSeq(rows, 1, k - 1), PostingCells)))
  IN  Text(t) \o <<at(Min(mine)), at(Min(mine) + 1) - at(Min(mine)), Cardinality(mine)>>

\* encodePostingsSectionWithDictionary: where the rows of a term lie.
Entry(rows, t) ==
  LET mine == {k \in DOMAIN rows : rows[k].term = t}
      at(k) == 1 + Len(FlattenSeq(Each(SubSeq(rows, 1, k - 1), PostingCells)))
  IN  Text(t) \o <<at(Min(mine)), at(Max(mine) + 1) - at(Min(mine)), Cardinality(mine)>>

DictionarySection(rows) ==
  LET terms == Sorted({rows[k].term : k \in DOMAIN rows})
  IN  Offsets([k \in DOMAIN terms |-> Entry(rows, terms[k])])

TextCells(r) == <<r.doc, r.field>> \o Text(r.text)
TextsSection(texts) == Fixed(Each(texts, TextCells))

\* The texts of a field of note i.
TextsOf(s, i, f) == {r.text : r \in {q \in ToSet(s.texts) : q.doc = i /\ q.field = f}} \ {<<>>}

\* encodeDocProjectionSection: the strings once, and for each note a row with
\* the spans of its title keys, tags, field lengths and text offsets.
ProjectionSection(s) ==
  LET notes == DOMAIN s.docs
      strings == Sorted(ToSet(s.docs) \cup UNION {TextsOf(s, i, Title) \cup TextsOf(s, i, Tags) : i \in notes})
      Ref(x) == CHOOSE k \in DOMAIN strings : strings[k] = x
      tags == Sorted(UNION {TextsOf(s, i, Tags) : i \in notes})
      TagId(x) == (CHOOSE k \in DOMAIN tags : tags[k] = x) - 1
      lens(i) == SetToSortSeq({r \in s.lengths : r.doc = i}, ByKey)
      starts == Starts(Each(s.texts, TextCells))
      where(r) == {k \in DOMAIN s.texts : s.texts[k].doc = r.doc /\ s.texts[k].field = r.field}
      place(r) == IF where(r) = {} THEN <<r.field, 0, 0>>
                  ELSE LET k == Min(where(r)) IN <<r.field, 1 + starts[k], Len(TextCells(s.texts[k]))>>
      titles(i) == Each(Sorted(TextsOf(s, i, Title)), LAMBDA x : <<Ref(x) - 1>>)
      tagged(i) == Each(Sorted(TextsOf(s, i, Tags)), LAMBDA x : <<TagId(x)>>)
      lengths(i) == Each(lens(i), LAMBDA r : <<r.field, r.length>>)
      places(i) == Each(lens(i), place)
      spans(Of(_)) == Starts([i \in notes |-> Of(i)])
      rows == [i \in notes |->
                 <<i, Ref(s.docs[i]) - 1, spans(titles)[i], Len(titles(i)), spans(tagged)[i],
                   Len(tagged(i)), spans(lengths)[i], Len(lengths(i)), spans(places)[i], Len(places(i))>>]
      all(Of(_)) == Fixed(FlattenSeq([i \in notes |-> Of(i)]))
      tables == <<Offsets(Each(strings, Text)), Fixed(Each(tags, LAMBDA x : <<Ref(x) - 1>>)),
                  Fixed(rows), all(titles), all(tagged), all(lengths), all(places)>>
  IN  <<Len(s.docs)>> \o [k \in 1..8 |-> 9 + Len(FlattenSeq(SubSeq(tables, 1, k - 1)))]
        \o FlattenSeq(tables)

\* encodeCanonicalSegment: the table of sections and the sections.
Encode(given) ==
  LET s == Normal(given)
      sections == <<PostingsSection(s.postings), TextsSection(s.texts),
                    ProjectionSection(s), DictionarySection(s.postings)>>
      at == Starts(sections)
  IN  Fixed([k \in 1..4 |-> <<k, at[k], Len(sections[k])>>]) \o FlattenSeq(sections)

-----------------------------------------------------------------------------
(* Reading.  An end of -1 is a thrown error.                                *)

Bad(v) == [end |-> -1, val |-> v]
Fits(b, o, n) == o >= 0 /\ o + n <= Len(b)
Cell(b, o) == b[o + 1]
Slice(b, o, n) == SubSeq(b, o + 1, o + n)

ReadText(b, o) ==
  IF Fits(b, o, 1) /\ Fits(b, o + 1, Cell(b, o))
  THEN [end |-> o + 1 + Cell(b, o), val |-> Slice(b, o + 1, Cell(b, o))] ELSE Bad(<<>>)

\* n items one after the other, up to the first error.
Walk(b, o, n, Read(_, _)) ==
  LET walk[k \in 0..n] ==
        IF k = 0 THEN [end |-> o, val |-> <<>>]
        ELSE LET w == walk[k - 1]
             IN  IF w.end < 0 THEN w
                 ELSE LET r == Read(b, w.end) IN [end |-> r.end, val |-> Append(w.val, r.val)]
  IN  walk[n]

Ascending(s) == \A k \in 1..Len(s) - 1 : s[k] < s[k + 1]

\* readCanonicalPostingRow
ReadPosting(b, o) ==
  LET t == ReadText(b, o)
      n == Cell(b, t.end + 2)
      at == Slice(b, t.end + 3, n)
  IN  IF t.end >= 0 /\ Fits(b, t.end, 3) /\ Fits(b, t.end + 3, n) /\ Ascending(at)
      THEN [end |-> t.end + 3 + n,
            val |-> [term |-> t.val, field |-> Cell(b, t.end), doc |-> Cell(b, t.end + 1), at |-> ToSet(at)]]
      ELSE Bad(<<>>)

ReadTextRow(b, o) ==
  LET t == ReadText(b, o + 2)
  IN  IF Fits(b, o, 2) /\ t.end >= 0
      THEN [end |-> t.end, val |-> [doc |-> Cell(b, o), field |-> Cell(b, o + 1), text |-> t.val]]
      ELSE Bad(<<>>)

\* A counted section that ends where its last row ends.
ReadAll(b, Read(_, _)) ==
  IF b = <<>> THEN Bad(<<>>)
  ELSE LET w == Walk(b, 1, Cell(b, 0), Read) IN IF w.end = Len(b) THEN w ELSE Bad(<<>>)

Sections_OpenEnd(b) ==
  LET n == Cell(b, 0)
      id(k) == Cell(b, 3 * k - 2)
      at(k) == Cell(b, 3 * k - 1)
      len(k) == Cell(b, 3 * k)
      end == 3 * n + 1
  IN  IF /\ Fits(b, 0, 1) /\ Fits(b, 1, 3 * n) /\ n > 0
         /\ \A k \in 1..n : at(k) = IF k = 1 THEN 0 ELSE at(k - 1) + len(k - 1)
         /\ \A k \in 2..n : id(k - 1) < id(k)
         /\ end + at(n) + len(n) <= Len(b)
      THEN [i \in {id(k) : k \in 1..n} |->
              LET k == CHOOSE j \in 1..n : id(j) = i IN Slice(b, end + at(k), len(k))]
      ELSE <<>>

\* parseCanonicalSegmentHeader and canonicalSegmentSectionBytes: the sections, by
\* id, or none when they do not fill the file one after the other.
Sections(b) ==
  LET n == Cell(b, 0)
      id(k) == Cell(b, 3 * k - 2)
      at(k) == Cell(b, 3 * k - 1)
      len(k) == Cell(b, 3 * k)
      end == 3 * n + 1
  IN  IF /\ Fits(b, 0, 1) /\ Fits(b, 1, 3 * n) /\ n > 0
         /\ \A k \in 1..n : at(k) = IF k = 1 THEN 0 ELSE at(k - 1) + len(k - 1)
         /\ \A k \in 2..n : id(k - 1) < id(k)
         /\ end + at(n) + len(n) = Len(b)
      THEN [i \in {id(k) : k \in 1..n} |->
              LET k == CHOOSE j \in 1..n : id(j) = i IN Slice(b, end + at(k), len(k))]
      ELSE <<>>

\* decodeCanonicalTermDictionarySection: entries in ascending order, each one
\* from its offset to the next.
ReadEntry(b, o) ==
  LET t == ReadText(b, o)
  IN  IF t.end >= 0 /\ Fits(b, t.end, 3)
      THEN [end |-> t.end + 3, val |-> <<t.val>> \o Slice(b, t.end, 3)] ELSE Bad(<<>>)

ReadDictionary(b) ==
  LET n == Cell(b, 0)
      off(k) == IF k > n THEN Len(b) ELSE 1 + n + Cell(b, k)
      entry(k) == ReadEntry(b, off(k))
  IN  IF /\ Fits(b, 0, 1) /\ Fits(b, 1, n)
         /\ \A k \in 1..n : off(k) < off(k + 1) /\ entry(k).end = off(k + 1)
                            /\ entry(k).val[3] > 0 /\ entry(k).val[4] > 0
         /\ \A k \in 2..n : Before(entry(k - 1).val[1], entry(k).val[1])
      THEN [end |-> Len(b), val |-> [k \in 1..n |-> entry(k).val]] ELSE Bad(<<>>)

\* termDictionaryEntriesFromPostings: a new entry wherever the term changes.
EntriesIn(b) ==
  LET n == Cell(b, 0)
      at(k) == Walk(b, 1, k - 1, ReadPosting).end
      term(k) == ReadPosting(b, at(k)).val.term
      first == {k \in 1..n : k = 1 \/ term(k - 1) # term(k)}
      order == SetToSortSeq(first, Less)
      last(j) == IF j = Len(order) THEN n + 1 ELSE order[j + 1]
  IN  [j \in DOMAIN order |-> <<term(order[j]), at(order[j]), at(last(j)) - at(order[j]), last(j) - order[j]>>]

DictionaryMatches_SameTerms(dict, postings) ==
  dict.end >= 0 /\ Each(dict.val, LAMBDA e : <<e[1], e[4]>>) = Each(EntriesIn(postings), LAMBDA e : <<e[1], e[4]>>)

DictionaryMatches(dict, postings) == dict.end >= 0 /\ dict.val = EntriesIn(postings)

-----------------------------------------------------------------------------
(* The projection in place.                                                 *)

\* Where a table starts and ends; stated by the header.
From(b, t) == Cell(b, t)
Row(b, t, words, k) == Slice(b, From(b, t) + 1 + (k - 1) * words, words)
Count(b, t) == Cell(b, From(b, t))

\* The string of a reference fills the bytes up to the next one.
StringAt(b, ref) ==
  LET n == Count(b, 1)
      start(k) == IF k = n THEN From(b, 2) ELSE From(b, 1) + 1 + n + Cell(b, From(b, 1) + 1 + k)
      t == ReadText(b, start(ref))
  IN  IF ref < n /\ t.end = start(ref + 1) THEN t ELSE Bad(<<>>)

\* A span of a table of rows, when it lies in the table.
Span(b, t, words, off, n) ==
  IF off + n <= Count(b, t) /\ From(b, t) + 1 + (off + n) * words <= From(b, t + 1)
  THEN [end |-> 0, val |-> [k \in 1..n |-> Row(b, t, words, off + k)]] ELSE Bad(<<>>)

NoteRow(b, i) == Row(b, 3, 10, i)

DocId(b, i)   == StringAt(b, NoteRow(b, i)[2])
TitlesOf(b, i) == {StringAt(b, r[1]).val : r \in ToSet(Span(b, 4, 1, NoteRow(b, i)[3], NoteRow(b, i)[4]).val)}
TagsOf(b, i)  == {StringAt(b, Row(b, 2, 1, r[1] + 1)[1]).val :
                    r \in ToSet(Span(b, 5, 1, NoteRow(b, i)[5], NoteRow(b, i)[6]).val)}
LengthsOf(b, i) == Span(b, 6, 2, NoteRow(b, i)[7], NoteRow(b, i)[8])
PlacesOf(b, i)  == Span(b, 7, 3, NoteRow(b, i)[9], NoteRow(b, i)[10])

\* validateProjectionOffsets, the tables and validateProjectionReader
ProjectionFits(b, documents) ==
  /\ Fits(b, 0, 9) /\ Cell(b, 0) = documents
  /\ From(b, 1) >= 9 /\ \A t \in 1..7 : From(b, t) < From(b, t + 1)
  /\ From(b, 8) = Len(b)
  /\ Count(b, 3) = documents /\ From(b, 3) + 1 + 10 * documents <= Len(b)
  /\ From(b, 2) + 1 + Count(b, 2) = From(b, 3)
  /\ From(b, 1) + 1 + Count(b, 1) <= From(b, 2)
  /\ \A k \in 1..Count(b, 1) - 1 : Before(StringAt(b, k - 1).val, StringAt(b, k).val)
  /\ \A i \in 1..documents :
       /\ NoteRow(b, i)[1] = i /\ DocId(b, i).end >= 0
       /\ \A s \in {Span(b, 5, 1, NoteRow(b, i)[5], NoteRow(b, i)[6]), LengthsOf(b, i), PlacesOf(b, i)} :
            s.end = 0 /\ \A k \in 1..Len(s.val) - 1 : s.val[k][1] < s.val[k + 1][1]

-----------------------------------------------------------------------------
(* The readers.                                                             *)

\* decodeCanonicalSegment: postings, texts and the checks, or an error.
Decode(b, documents) ==
  LET s == Sections(b)
      postings == ReadAll(s[1], ReadPosting)
      texts == ReadAll(s[2], ReadTextRow)
  IN  IF /\ DOMAIN s = 1..4 /\ postings.end >= 0 /\ texts.end >= 0
         /\ ProjectionFits(s[3], documents)
         /\ DictionaryMatches(ReadDictionary(s[4]), s[1])
      THEN [ok |-> TRUE, postings |-> Rows(postings.val), texts |-> texts.val]
      ELSE [ok |-> FALSE, postings |-> <<>>, texts |-> <<>>]

\* lookupCanonicalTermDictionaryEntry: bisection over the offsets.
LookUp(b, t) ==
  LET n == Cell(b, 0)
      entry(k) == ReadEntry(b, 1 + n + Cell(b, k)).val
      find[lo \in 1..n + 1, hi \in 0..n] ==
        IF lo > hi THEN <<>>
        ELSE LET mid == (lo + hi) \div 2
             IN  IF entry(mid)[1] = t THEN entry(mid)
                 ELSE IF Before(t, entry(mid)[1]) THEN find[lo, mid - 1] ELSE find[mid + 1, hi]
  IN  find[1, n]

\* postingsForTerm: the rows of the range, all of the term and filling it.
PostingsFor(b, t) ==
  LET s == Sections(b)
      e == LookUp(s[4], t)
      w == Walk(Slice(s[1], e[2], e[3]), 0, e[4], ReadPosting)
  IN  IF e = <<>> THEN [end |-> 0, val |-> <<>>]
      ELSE IF /\ Fits(s[1], e[2], e[3]) /\ w.end = e[3]
              /\ \A k \in DOMAIN w.val : w.val[k].term = t
           THEN w ELSE Bad(<<>>)

\* fieldScopedPostingCount: the planner skips from row to row of a term and
\* counts those of the wanted fields.
RowsInFields(b, t, fields) ==
  LET postings == Sections(b)[1]
      e == LookUp(Sections(b)[4], t)
      Skip(c, o) == LET field == o + 1 + Cell(c, o)
                    IN  [end |-> field + 3 + Cell(c, field + 2), val |-> Cell(c, field)]
      w == Walk(Slice(postings, e[2], e[3]), 0, e[4], Skip)
  IN  IF e = <<>> THEN 0 ELSE Cardinality({k \in DOMAIN w.val : w.val[k] \in fields})

-----------------------------------------------------------------------------
Init ==
  /\ segment \in Segments
  /\ file = <<>> /\ damage = "unwritten"

Write ==
  /\ damage = "unwritten"
  /\ file' = Encode(segment) /\ damage' = "none"
  /\ UNCHANGED segment

\* A write that the machine cut off, or a file with more at its end.
Cut ==
  /\ damage = "none"
  /\ \E n \in 0..Len(file) - 1 : file' = SubSeq(file, 1, n)
  /\ damage' = "torn" /\ UNCHANGED segment

Grow ==
  /\ damage = "none"
  /\ \E c \in 0..2 : file' = Append(file, c)
  /\ damage' = "torn" /\ UNCHANGED segment

\* One cell is another number.
Flip ==
  /\ damage = "none"
  /\ \E k \in DOMAIN file, c \in 0..3 :
       c # file[k] /\ file' = [file EXCEPT ![k] = c]
  /\ damage' = "flipped" /\ UNCHANGED segment

Next == Write \/ Cut \/ Grow \/ Flip \/ (damage \in {"torn", "flipped"} /\ UNCHANGED vars)

Spec == Init /\ [][Next]_vars

-----------------------------------------------------------------------------
(* Properties.                                                              *)

Given == Normal(segment)
OfTerm(rows, t) == {rows[k] : k \in {j \in DOMAIN rows : rows[j].term = t}}

\* What a query finds in the bytes of a written file is what the builder put
\* there: the rows of each term, no row of another one, and of each note its id,
\* title keys, tags and lengths, and its text where the projection says it lies.
FoundInPlace ==
  damage = "none" =>
    LET p == Sections(file)[3]
        texts == Sections(file)[2]
        mine(i) == {r \in segment.lengths : r.doc = i}
    IN  /\ \A t \in Terms : PostingsFor(file, t).end >= 0
                            /\ ToSet(PostingsFor(file, t).val) = OfTerm(Given.postings, t)
                            /\ \A f \in {Title, Tags} : RowsInFields(file, t, {f}) =
                                 Cardinality({r \in OfTerm(Given.postings, t) : r.field = f})
        /\ \A i \in DOMAIN Given.docs :
             /\ DocId(p, i).val = Given.docs[i]
             /\ TitlesOf(p, i) = TextsOf(Given, i, Title) /\ TagsOf(p, i) = TextsOf(Given, i, Tags)
             /\ ToSet(LengthsOf(p, i).val) = {<<r.field, r.length>> : r \in mine(i)}
             /\ \A w \in ToSet(PlacesOf(p, i).val) : w[3] > 0 =>
                  ReadTextRow(texts, w[2]).val \in {r \in segment.texts : r.doc = i /\ r.field = w[1]}

\* The decoder gives back the segment in its canonical order, and rejects a file
\* that was cut or has grown.
DecodesOrRejects ==
  LET d == Decode(file, Len(Given.docs))
  IN  /\ damage = "none" => d = [ok |-> TRUE, postings |-> Given.postings, texts |-> Given.texts]
      /\ damage = "torn" => ~d.ok

\* A file that the decoder accepts, damaged or not, answers each term in place
\* with the postings that the decoder found for it.
AcceptedFilesAnswer ==
  LET d == Decode(file, Len(Given.docs))
      spread(rows) == UNION {{<<r.field, r.doc, n>> : n \in r.at} : r \in rows}
  IN  d.ok => \A t \in Terms :
                /\ PostingsFor(file, t).end >= 0
                /\ spread(ToSet(PostingsFor(file, t).val)) = spread(OfTerm(d.postings, t))
=============================================================================
