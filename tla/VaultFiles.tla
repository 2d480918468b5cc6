------------------------------ MODULE VaultFiles ------------------------------
(***************************************************************************)
(* The commands that change notes (core/apply-patch.ts, edit.ts, write.ts,  *)
(* copy.ts, frontmatter.ts): each reads, decides, and writes whole files by *)
(* a rename, with no lock against other commands or against the editor that *)
(* has the vault open.  A patch applies its hunks one by one and remembers  *)
(* what it has done to each path; a dry run only remembers.  Directories,   *)
(* links and other spellings of a path are left out.                        *)
(***************************************************************************)
EXTENDS Integers, Sequences, SequencesExt, FiniteSets

CONSTANTS Path, Actor, Texts,   \* paths, commands that run at once, and what notes say
          Commands,             \* what may be asked, as parsePatch and the argument parsers give it
          MaxOps, MaxSaves      \* bounds

VARIABLES files,   \* the notes
          op,      \* the commands that run
          spent    \* how many commands and saves there were

vars == <<files, op, spent>>

-----------------------------------------------------------------------------
(* What the chunks of a patch and the selectors of an edit do to a text, and *)
(* what they should do.  A text is what splitting it at the line breaks      *)
(* gives: one that ends with a line break has an empty last line.            *)

Blank == ""

\* What comes before the last line break.
Lines(text) == IF Last(text) = Blank THEN Front(text) ELSE text

MatchesAt(lines, pattern, k) ==
  k + Len(pattern) - 1 <= Len(lines) /\ \A o \in DOMAIN pattern : lines[k + o - 1] = pattern[o]

\* seekSequence: the first match from a line on, or 0.
Earliest(at) == IF at = {} THEN 0 ELSE CHOOSE k \in at : \A l \in at : k <= l

SeekSequence(lines, pattern, from, eof) ==
  IF pattern = << >> THEN from
  ELSE Earliest({k \in from..Len(lines) : MatchesAt(lines, pattern, k) /\ (eof => k + Len(pattern) - 1 = Len(lines))})

TrimBlank(s) == IF s # << >> /\ Last(s) = Blank THEN Front(s) ELSE s

Placed(r, line, start, length, new) ==
  [r EXCEPT !.line = line, !.edits = Append(@, [start |-> start, length |-> length, new |-> new])]

\* The lines of a chunk, or the same without the empty line at their end.
PlaceOld(r, chunk, whole, trimmed) ==
  IF whole # 0 THEN Placed(r, whole + Len(chunk.old), whole, Len(chunk.old), chunk.new)
  ELSE IF trimmed # 0 /\ Last(chunk.old) = Blank
  THEN Placed(r, trimmed + Len(chunk.old) - 1, trimmed, Len(chunk.old) - 1, TrimBlank(chunk.new))
  ELSE [r EXCEPT !.ok = FALSE]

\* From this line on; a context that is nowhere leaves the search at the first.
PlaceFrom(lines, r, chunk, line) ==
  IF ~r.ok \/ (chunk.context # << >> /\ line = 1) THEN [r EXCEPT !.ok = FALSE]
  ELSE IF chunk.old = << >> THEN Placed(r, line, Len(lines) + 1, 0, chunk.new)
  ELSE PlaceOld(r, chunk, SeekSequence(lines, chunk.old, line, chunk.eof),
                SeekSequence(lines, TrimBlank(chunk.old), line, chunk.eof))

\* One chunk: where it goes, after the chunks before it.
Place(lines, r, chunk) ==
  PlaceFrom(lines, r, chunk,
            IF chunk.context = << >> THEN r.line ELSE SeekSequence(lines, chunk.context, r.line, FALSE) + 1)

Splice(lines, e) ==
  SubSeq(lines, 1, e.start - 1) \o e.new \o SubSeq(lines, e.start + e.length, Len(lines))

\* The chunks are placed in order, and put in from the last to the first.
InOrder(edits) == SetToSortSeq(DOMAIN edits, LAMBDA i, j :
  edits[i].start > edits[j].start \/ (edits[i].start = edits[j].start /\ i < j))

\* A version that splices as it goes, with the places of the unchanged text.
Spliced_Forwards(lines, edits) ==
  FoldLeft(LAMBDA t, k : Splice(t, edits[k]), lines, SetToSortSeq(DOMAIN edits, <))

Spliced(lines, edits) ==
  FoldLeft(LAMBDA t, k : Splice(t, edits[k]), lines, InOrder(edits))

Closed(lines) == IF lines # << >> /\ Last(lines) = Blank THEN lines ELSE Append(lines, Blank)

Applied(text, r) ==
  [ok |-> r.ok, text |-> IF r.ok THEN Closed(Spliced(Lines(text), r.edits)) ELSE text]

ApplyChunks(text, chunks) ==
  Applied(text, FoldLeft(LAMBDA s, c : Place(Lines(text), s, c), [ok |-> TRUE, line |-> 1, edits |-> << >>], chunks))

\* occurrences counts what does not overlap; without `all` there must be one, which is replaced.
Occurrences(text, needle) ==
  LET Step(r, k) == IF k >= r.next /\ MatchesAt(text, needle, k)
                    THEN [next |-> k + Len(needle), at |-> Append(r.at, k)] ELSE r
  IN FoldLeft(Step, [next |-> 1, at |-> << >>], [k \in 1..Len(text) |-> k]).at

ApplyReplace_First(text, needle, new, all) ==
  LET at == Occurrences(text, needle) IN
  IF at = << >> THEN [ok |-> FALSE, text |-> text]
  ELSE [ok |-> TRUE, text |-> Splice(text, [start |-> Head(at), length |-> Len(needle), new |-> new])]

ApplyReplace(text, needle, new, all) ==
  LET at == Occurrences(text, needle) IN
  IF at = << >> \/ (Len(at) > 1 /\ ~all) THEN [ok |-> FALSE, text |-> text]
  ELSE [ok |-> TRUE,
        text |-> FoldRight(LAMBDA k, t : Splice(t, [start |-> k, length |-> Len(needle), new |-> new]), at, text)]

\* A line or a range of lines, which must be there.
ApplyRange(text, from, to, new) ==
  IF to > Len(Lines(text)) THEN [ok |-> FALSE, text |-> text]
  ELSE [ok |-> TRUE, text |-> Splice(text, [start |-> from, length |-> to - from + 1, new |-> new])]

-----------------------------------------------------------------------------
(* What is asked of them                                                    *)

Bare(chunks) == SelectSeq(chunks, LAMBDA c : c.old = << >>)

\* The text with the chunks at these places, put together from its beginning.
Woven(lines, chunks, place) ==
  LET Step(r, k) ==
        IF chunks[k].old = << >> THEN r
        ELSE [next |-> place[k] + Len(chunks[k].old),
              text |-> r.text \o SubSeq(lines, r.next, place[k] - 1) \o chunks[k].new]
      r == FoldLeft(Step, [next |-> 1, text |-> << >>], [k \in 1..Len(chunks) |-> k])
  IN r.text \o SubSeq(lines, r.next, Len(lines))
     \o FoldLeft(LAMBDA t, c : t \o c.new, << >>, Bare(chunks))

\* The text is the unchanged one with the chunks at some places in their order.
TextIsOneOf(text, lines, chunks) ==
  \E place \in [DOMAIN chunks -> 1..(Len(lines) + 1)] :
    /\ \A k \in DOMAIN chunks : chunks[k].old # << >> =>
         /\ MatchesAt(lines, chunks[k].old, place[k])
         /\ \A l \in 1..(k - 1) : chunks[l].old # << >> => place[l] + Len(chunks[l].old) <= place[k]
    /\ text = Closed(Woven(lines, chunks, place))

\* Each chunk replaces its lines once, in the order of the patch, and every other line stays: but the
\* bare insertions of one file come out in reverse, and an empty line at the very end is lost.
ChunksDoAsTheySay(text, chunks) ==
  /\ ApplyChunks(text, chunks).ok
  /\ Len(Bare(chunks)) < 2
  /\ \A k \in DOMAIN chunks : chunks[k].old # << >> => Last(chunks[k].old) # Blank
  => TextIsOneOf(ApplyChunks(text, chunks).text, Lines(text), chunks)

\* What is replaced without `all` stands in one place only, unless the needle overlaps itself.
ReplaceIsUnambiguous(text, needle, new) ==
  LET at == {k \in 1..Len(text) : MatchesAt(text, needle, k)} IN
  ApplyReplace(text, needle, new, FALSE).ok =>
    \A k, l \in at : k # l => (IF k < l THEN l - k ELSE k - l) < Len(needle)

-----------------------------------------------------------------------------
(* The commands.                                                             *)


NoKey == [kind |-> "absent", items |-> << >>]
Absent == [text |-> << >>, key |-> NoKey]
Idle == [cmd |-> [do |-> "none"], step |-> "idle", at |-> 0, touched |-> {}, over |-> [p \in Path |-> Absent],
         next |-> Absent, alone |-> TRUE]

Init ==
  /\ files \in [Path -> {Absent} \union {[text |-> t, key |-> NoKey] : t \in Texts}]
  /\ op = [a \in Actor |-> Idle]
  /\ spent = [ops |-> 0, saves |-> 0]

\* Another's change of a file: whoever runs is no longer alone.
Disturb(o, a) == [b \in Actor |-> IF b # a /\ o[b].step # "idle" THEN [o[b] EXCEPT !.alone = FALSE] ELSE o[b]]

\* A command whose arguments do not parse is refused before it reads anything.
Start(a, c) ==
  /\ op[a].step = "idle" /\ spent.ops < MaxOps
  /\ spent' = [spent EXCEPT !.ops = @ + 1]
  /\ op' = [op EXCEPT ![a] = [Idle EXCEPT !.cmd = c, !.step = "read", !.at = 1]]
  /\ UNCHANGED files

\* A command that is refused, or has nothing to do, ends; what it has written stays.
Stop(a) == op' = [op EXCEPT ![a] = Idle]

-----------------------------------------------------------------------------
(* apply_patch                                                              *)

Result(ok, set, gone, file) == [ok |-> ok, set |-> set, gone |-> gone, file |-> file]

\* What a hunk does to a file that says old, and of which its chunks make new.
HunkDoes(h, there, old, free, new) ==
  CASE h.kind = "add" -> Result(old = Absent, {h.path}, {}, [text |-> h.text, key |-> NoKey])
    [] h.kind = "delete" -> Result(there, {}, {h.path}, Absent)
    [] h.kind = "update" \/ (h.kind = "move" /\ h.to = h.path) ->
         Result(there /\ new.ok, {h.path}, {}, [old EXCEPT !.text = new.text])
    [] OTHER -> Result(there /\ new.ok /\ free, {h.to}, {h.path}, [old EXCEPT !.text = new.text])

HunkOnSeen(disk, h, old, free) ==
  HunkDoes(h, disk[h.path] # Absent /\ old # Absent, old, free,
           IF h.kind \in {"update", "move"} /\ old # Absent THEN ApplyChunks(old.text, h.chunks)
           ELSE [ok |-> FALSE, text |-> << >>])

\* A hunk on these files: whether it is refused, and what it makes of which paths.  That a path
\* exists is asked of the disk, and what it holds of the hunks before.
HunkOn(disk, touched, over, h) ==
  LET Seen(p) == IF p \in touched THEN over[p] ELSE disk[p] IN
  HunkOnSeen(disk, h, Seen(h.path), h.kind = "move" /\ Seen(h.to) = Absent)

Hunk(a) == op[a].cmd.hunks[op[a].at]
OnDisk(a) == HunkOn(files, op[a].touched, op[a].over, Hunk(a))

Overlay_Target(o, r) ==
  [o EXCEPT !.touched = @ \union r.set,
            !.over = [p \in Path |-> IF p \in r.set THEN r.file ELSE @[p]]]

Overlay(o, r) ==
  [o EXCEPT !.touched = @ \union r.set \union r.gone,
            !.over = [p \in Path |-> IF p \in r.set THEN r.file ELSE IF p \in r.gone THEN Absent ELSE @[p]]]

NextHunk(o) == IF o.at = Len(o.cmd.hunks) THEN Idle
               ELSE [o EXCEPT !.at = @ + 1, !.step = "read"]

Done(o, r) ==
  IF o.cmd.dry THEN NextHunk(Overlay(o, r))
  ELSE [Overlay(o, r) EXCEPT !.next = r.file, !.step = IF r.set # {} THEN "write" ELSE "unlink"]

AfterRead(o, r) == IF r.ok THEN Done(o, r) ELSE Idle

\* applyHunk reads and decides; a dry run goes on with the next hunk at once.
ReadHunk(a) ==
  /\ op[a].cmd.do = "patch" /\ op[a].step = "read"
  /\ IF op[a].at > Len(op[a].cmd.hunks) THEN Stop(a) ELSE op' = [op EXCEPT ![a] = AfterRead(@, OnDisk(a))]
  /\ UNCHANGED <<files, spent>>

Target(a) == IF Hunk(a).kind = "move" THEN Hunk(a).to ELSE Hunk(a).path
Moves(a) == Hunk(a).kind = "move" /\ Hunk(a).to # Hunk(a).path

\* A move writes the new file before it unlinks the old one.
WriteHunk_UnlinksFirst(a) ==
  /\ op[a].cmd.do = "patch" /\ op[a].step = "write"
  /\ files' = IF Moves(a) THEN [files EXCEPT ![Hunk(a).path] = Absent] ELSE [files EXCEPT ![Target(a)] = op[a].next]
  /\ op' = [Disturb(op, a) EXCEPT ![a] = IF Moves(a) THEN [@ EXCEPT !.step = "unlink"] ELSE NextHunk(@)]
  /\ UNCHANGED spent

WriteHunk(a) ==
  /\ op[a].cmd.do = "patch" /\ op[a].step = "write"
  /\ files' = [files EXCEPT ![Target(a)] = op[a].next]
  /\ op' = [Disturb(op, a) EXCEPT ![a] = IF Moves(a) THEN [@ EXCEPT !.step = "unlink"] ELSE NextHunk(@)]
  /\ UNCHANGED spent

UnlinkHunk(a) ==
  /\ op[a].cmd.do = "patch" /\ op[a].step = "unlink"
  /\ IF files[Hunk(a).path] = Absent
     THEN Stop(a) /\ UNCHANGED files
     ELSE /\ files' = [files EXCEPT ![Hunk(a).path] = Absent]
          /\ op' = [Disturb(op, a) EXCEPT ![a] = NextHunk(@)]
  /\ UNCHANGED spent

-----------------------------------------------------------------------------
(* The commands on one file                                                 *)

IndexOf(s, x) == IF \E k \in DOMAIN s : s[k] = x THEN CHOOSE k \in DOMAIN s : s[k] = x /\ \A l \in 1..(k - 1) : s[l] # x ELSE 0
Changed(f, g) == IF f = g THEN [outcome |-> "same", file |-> f] ELSE [outcome |-> "ok", file |-> g]
Refused(f) == [outcome |-> "refused", file |-> f]

\* set, delete, add and remove of a front-matter key.
Mutate_Again(f, c) ==
  IF f.key.kind = "list" /\ c.do = "add"
  THEN [outcome |-> "ok", file |-> [f EXCEPT !.key.items = Append(@, c.tag)]]
  ELSE IF f.key.kind = "absent" /\ c.do = "add"
  THEN [outcome |-> "ok", file |-> [f EXCEPT !.key = [kind |-> "list", items |-> <<c.tag>>]]]
  ELSE Refused(f)

Mutate(f, c) ==
  LET k == IndexOf(f.key.items, c.tag)
      list == [kind |-> "list", items |-> Append(f.key.items, c.tag)]
  IN CASE c.do = "set" -> Changed(f, [f EXCEPT !.key = [kind |-> "scalar", items |-> <<c.tag>>]])
       [] c.do = "delete" -> IF f.key = NoKey THEN Refused(f) ELSE Changed(f, [f EXCEPT !.key = NoKey])
       [] c.do = "add" -> IF f.key.kind = "scalar" THEN Refused(f)
                          ELSE Changed(f, IF k > 0 THEN f ELSE [f EXCEPT !.key = list])
       [] OTHER -> IF f.key.kind # "list" \/ k = 0 THEN Refused(f)
                   ELSE Changed(f, [f EXCEPT !.key.items = RemoveAt(@, k)])

\* An edit that changes nothing is refused.
Edit(f, c) ==
  LET r == IF c.by = "text" THEN ApplyReplace(f.text, c.needle, c.new, c.all) ELSE ApplyRange(f.text, c.from, c.to, c.new)
  IN IF f = Absent \/ ~r.ok \/ r.text = f.text THEN Refused(f) ELSE [outcome |-> "ok", file |-> [f EXCEPT !.text = r.text]]

WriteNew(f, c) ==
  IF f # Absent /\ ~c.overwrite THEN Refused(f) ELSE [outcome |-> "ok", file |-> [text |-> c.text, key |-> NoKey]]

Copied(f, c) ==
  IF f = Absent \/ (files[c.to] # Absent /\ ~c.overwrite) THEN Refused(f) ELSE [outcome |-> "ok", file |-> f]

\* What a command makes of its file, or, for copy, of the file it copies.
Made(c) ==
  LET f == files[c.path] IN
  CASE c.do = "write" -> WriteNew(f, c)
    [] c.do = "copy" -> Copied(f, c)
    [] c.do = "edit" -> Edit(f, c)
    [] OTHER -> IF f = Absent THEN Refused(f) ELSE Mutate(f, c)

ReadFile(a) ==
  LET c == op[a].cmd
      r == Made(c)
  IN /\ c.do \notin {"none", "patch"} /\ op[a].step = "read"
     /\ IF r.outcome # "ok" \/ c.dry THEN Stop(a)
        ELSE op' = [op EXCEPT ![a] = [@ EXCEPT !.step = "write", !.next = r.file]]
     /\ UNCHANGED <<files, spent>>

\* The rename; the copy looks once more whether its target exists.
WriteFile(a) ==
  LET c == op[a].cmd
      p == IF c.do = "copy" THEN c.to ELSE c.path
  IN /\ c.do \notin {"none", "patch"} /\ op[a].step = "write"
     /\ IF c.do = "copy" /\ ~c.overwrite /\ files[p] # Absent
        THEN Stop(a) /\ UNCHANGED files
        ELSE /\ files' = [files EXCEPT ![p] = IF c.do = "copy" THEN files[c.path] ELSE op[a].next]
             /\ op' = [Disturb(op, a) EXCEPT ![a] = Idle]
     /\ UNCHANGED spent

-----------------------------------------------------------------------------
(* The others                                                               *)

\* The editor saves a note, makes one or removes it.
Save(p, f) ==
  /\ spent.saves < MaxSaves /\ f # files[p]
  /\ spent' = [spent EXCEPT !.saves = @ + 1]
  /\ files' = [files EXCEPT ![p] = f]
  /\ op' = [a \in Actor |-> IF op[a].step = "idle" THEN op[a] ELSE [op[a] EXCEPT !.alone = FALSE]]

Next ==
  \/ \E a \in Actor : (\E c \in Commands : Start(a, c)) \/ ReadHunk(a) \/ WriteHunk(a) \/ UnlinkHunk(a) \/ ReadFile(a) \/ WriteFile(a)
  \/ \E p \in Path, f \in {Absent} \union {[text |-> t, key |-> NoKey] : t \in Texts} : Save(p, f)

Spec == Init /\ [][Next]_vars

-----------------------------------------------------------------------------
(* The properties                                                           *)

Onto(disk, r) == [p \in Path |-> IF p \in r.set THEN r.file ELSE IF p \in r.gone THEN Absent ELSE disk[p]]

\* A patch as one step, from files that nobody else changes.
Run(hunks, dry) ==
  LET After(r, s) == IF ~s.ok THEN [r EXCEPT !.ok = FALSE]
                     ELSE [ok |-> TRUE, o |-> Overlay(r.o, s), disk |-> IF dry THEN r.disk ELSE Onto(r.disk, s)]
      Step(r, h) == IF r.ok THEN After(r, HunkOn(r.disk, r.o.touched, r.o.over, h)) ELSE r
  IN FoldLeft(Step, [ok |-> hunks # << >>, o |-> Idle, disk |-> files], hunks)

Makes(h) == IF h.kind = "add" THEN {h.path} ELSE IF h.kind = "move" THEN {h.to} ELSE {}

DryRunTellsOf(hunks, dry, real) ==
  /\ dry.ok => real.ok /\ \A p \in dry.o.touched : real.disk[p] = dry.o.over[p]
  /\ real.ok /\ ~dry.ok =>
       \E i, j \in DOMAIN hunks : i < j /\ hunks[j].kind # "add" /\ hunks[j].path \in Makes(hunks[i])

\* What a dry run accepts succeeds, with the same result; and what it refuses is refused, except that
\* it cannot see on the disk a file that the patch itself makes (docs/development.md:170).
DryRunTells ==
  \A c \in {d \in Commands : d.do = "patch"} : DryRunTellsOf(c.hunks, Run(c.hunks, TRUE), Run(c.hunks, FALSE))

\* A patch that nobody disturbs knows what it has written, also where it stops at a hunk that fails.
OverlayIsDisk ==
  \A a \in Actor : op[a].step = "read" /\ op[a].cmd.do = "patch" /\ op[a].alone /\ ~op[a].cmd.dry =>
    \A p \in op[a].touched : files[p] = op[a].over[p]

\* At no moment, that of a crash included, a moved note is neither in the old place nor in the new one.
MoveKeepsText ==
  \A a \in Actor : op[a].cmd.do = "patch" /\ op[a].alone /\ op[a].step \in {"write", "unlink"} /\ Moves(a) =>
    IF op[a].step = "write" THEN files[Hunk(a).path] # Absent ELSE files[Hunk(a).to] = op[a].next

\* No list holds a value twice, however often and by however many an add is repeated.
ListIsASet == \A p \in Path : \A i, j \in DOMAIN files[p].key.items : i # j => files[p].key.items[i] # files[p].key.items[j]

\* What every patch and every replacement asked for would do to the notes as they are.
TextsAreTrue ==
  \A p \in Path : files[p] # Absent =>
    \A c \in Commands :
      /\ c.do = "patch" => \A h \in Range(c.hunks) :
           h.kind \in {"update", "move"} => ChunksDoAsTheySay(files[p].text, h.chunks)
      /\ c.do = "edit" /\ c.by = "text" => ReplaceIsUnambiguous(files[p].text, c.needle, c.new)

FilesAreSound == DryRunTells /\ OverlayIsDisk /\ MoveKeepsText /\ ListIsASet /\ TextsAreTrue
====
