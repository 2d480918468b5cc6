------------------------------ MODULE SaveWatcher ------------------------------
(***************************************************************************)
(* The producer of dirty marks (vector-store/watcher.ts): it watches the    *)
(* directories of a vault, reconciles what changed with the content hashes  *)
(* that it knows, and after a pause reports each changed file as a mark.    *)
(* Other programs edit the vault at any time, also between the listing of   *)
(* a directory, the opening of its watchers and the scan of its files.      *)
(***************************************************************************)
EXTENDS Naturals, Sequences, FiniteSets

CONSTANTS Doc,       \* the Markdown files of the vault
          Folder,    \* the directories below the root
          Home(_),   \* the directory of a file: "root" or a folder
          Content,   \* readable contents
          MaxEdits   \* bound on the edits and on the failures of a watcher

VARIABLES disk,    \* the files' contents and the folders that exist
          watch,   \* the watchers by directory, the mode and the timers
          events,  \* notifications on their way, each from the watcher of a directory
          known,   \* knownContentHashes
          pending, \* files to report after the pause
          told,    \* what was reported last, history
          scan,    \* the directory that is being reconciled, and how far
          late,    \* folders that appeared while their parent was reconciled, history
          edits

vars == <<disk, watch, events, known, pending, told, scan, late, edits>>

Dir == Folder \cup {"root"}
Idle == [of |-> "none", dirs |-> {}, phase |-> <<>>]

\* A file that is absent, or that cannot be read, has no content hash.
Hash(d) == [f \in Doc |-> IF d.file[f] \in Content THEN d.file[f] ELSE "absent"]

IsThere(d, x) == x = "root" \/ x \in d.folders
Under(x) == IF x = "root" THEN Dir ELSE {x}
DocsUnder(x) == {f \in Doc : Home(f) \in Under(x)}

Init ==
  /\ disk \in [file : [Doc -> Content \cup {"absent"}], folders : SUBSET Folder]
  /\ \A f \in Doc : disk.file[f] # "absent" => IsThere(disk, Home(f))
  /\ watch = [on |-> [x \in Dir |-> "none"], mode |-> "new", poll |-> FALSE, armed |-> FALSE]
  /\ events = {} /\ pending = {} /\ scan = Idle /\ late = {} /\ edits = 0
  /\ known = [f \in Doc |-> "absent"]
  /\ told = Hash(disk)

-----------------------------------------------------------------------------
(* The vault changes.                                                       *)

\* A change is notified by the watcher of the directory, if it is still on that directory.
Notify(w, S) == events' = events \cup {e \in S : w.on[e[1]] = "live"}

Edit == edits < MaxEdits /\ edits' = edits + 1 /\ UNCHANGED <<known, pending, told, scan>>

\* A file is written, removed, or made unreadable.
Write(f, c) ==
  /\ IsThere(disk, Home(f)) /\ disk.file[f] # c
  /\ c = "locked" => disk.file[f] # "absent"
  /\ disk' = [disk EXCEPT !.file[f] = c]
  /\ Notify(watch, {<<Home(f), f>>})
  /\ Edit /\ UNCHANGED <<watch, late>>

\* A folder appears with files in it.
Appear(x, c) ==
  /\ x \in Folder \ disk.folders
  /\ disk' = [file |-> [f \in Doc |-> IF Home(f) = x THEN c ELSE disk.file[f]],
              folders |-> disk.folders \cup {x}]
  /\ Notify(watch, {<<"root", x>>})
  /\ late' = IF scan = Idle THEN late ELSE late \cup {x}
  /\ Edit /\ UNCHANGED watch

\* A folder goes with all its files; its watcher stays, and hears nothing more.
Vanish(x) ==
  /\ x \in disk.folders
  /\ disk' = [file |-> [f \in Doc |-> IF Home(f) = x THEN "absent" ELSE disk.file[f]],
              folders |-> disk.folders \ {x}]
  /\ Notify(watch, {<<"root", x>>} \cup {<<x, f>> : f \in {g \in Doc : Home(g) = x}})
  /\ watch' = [watch EXCEPT !.on[x] = IF @ = "live" THEN "deaf" ELSE @]
  /\ late' = late \ {x}
  /\ Edit

-----------------------------------------------------------------------------
(* Reconciliation.                                                          *)

\* Closing a watcher discards what it had still to say.
Closed(S) ==
  /\ watch' = [watch EXCEPT !.on = [x \in Dir |-> IF x \in S THEN "none" ELSE @[x]]]
  /\ events' = {e \in events : e[1] \notin S}

\* queueResolvedMarkdownPath: every file that is queued starts the pause again.
Queue(S, w) == pending' = pending \cup S /\ watch' = [w EXCEPT !.armed = @ \/ S # {}]

\* startFallbackScan: no watchers any more, a periodic scan instead, for good.
FallBack(w) ==
  [w EXCEPT !.on = [x \in Dir |-> "none"], !.mode = "fallback", !.poll = TRUE]

Order_ScanFirst == <<"scan", "open">>

\* reconcileExistingDirectory: watch first, then look.
Order == <<"open", "scan">>

\* The folders are listed, with the directory itself.
List(x) == scan' = [of |-> x, dirs |-> {y \in Under(x) : IsThere(disk, y)}, phase |-> Order]

\* start: the files as they are now are the baseline.
Start ==
  /\ watch.mode = "new"
  /\ known' = Hash(disk) /\ told' = Hash(disk)
  /\ watch' = [watch EXCEPT !.mode = "watching", !.poll = TRUE]
  /\ List("root")
  /\ UNCHANGED <<disk, events, pending, late, edits>>

\* Every watcher of the directory is opened anew and those of folders that are gone are closed;
\* a folder that is gone since it was listed, or a watcher too many, is an error.
Open ==
  /\ scan # Idle /\ Head(scan.phase) = "open"
  /\ \/ /\ \A y \in scan.dirs : IsThere(disk, y)
        /\ watch' = IF watch.mode = "fallback" THEN watch
                    ELSE [watch EXCEPT !.on = [y \in Dir |-> IF y \in scan.dirs THEN "live"
                                                             ELSE IF y \in Under(scan.of) THEN "none" ELSE @[y]]]
        /\ events' = {e \in events : e[1] \notin Under(scan.of)}
        /\ scan' = IF Len(scan.phase) = 1 THEN Idle ELSE [scan EXCEPT !.phase = Tail(@)]
        /\ late' = late \ scan.dirs
        /\ UNCHANGED edits
     \/ /\ IF \A y \in scan.dirs : IsThere(disk, y) THEN edits < MaxEdits /\ edits' = edits + 1
           ELSE UNCHANGED edits
        /\ watch.mode = "watching" \/ (\E y \in scan.dirs : ~IsThere(disk, y))
        /\ watch' = FallBack(watch) /\ events' = {} /\ scan' = Idle
        /\ UNCHANGED late
  /\ UNCHANGED <<disk, known, pending, told>>

\* The files below the directory are compared with what is known of them.
Scan ==
  LET now     == Hash(disk)
      changed == {f \in DocsUnder(scan.of) : known[f] # now[f]} IN
  /\ scan # Idle /\ Head(scan.phase) = "scan"
  /\ known' = [f \in Doc |-> IF f \in changed THEN now[f] ELSE known[f]]
  /\ Queue(changed, watch)
  /\ scan' = IF Len(scan.phase) = 1 THEN Idle ELSE [scan EXCEPT !.phase = Tail(@)]
  /\ UNCHANGED <<disk, events, told, late, edits>>

\* handleWatchEvent: the file or the folder that changed is reconciled.
Handle(e) ==
  LET rest == events \ {e} IN
  /\ e \in events /\ scan = Idle /\ watch.mode = "watching"
  /\ IF e[2] \in Doc
     THEN LET now == Hash(disk)[e[2]]
              isNew == known[e[2]] # now \/ disk.file[e[2]] = "locked" IN
          /\ known' = [known EXCEPT ![e[2]] = now]
          /\ Queue(IF isNew THEN {e[2]} ELSE {}, watch)
          /\ events' = rest /\ UNCHANGED <<scan, late>>
     ELSE IF IsThere(disk, e[2])
     THEN List(e[2]) /\ events' = rest /\ UNCHANGED <<watch, known, pending, late>>
     ELSE LET gone == {f \in DocsUnder(e[2]) : known[f] # "absent"} IN
          /\ known' = [f \in Doc |-> IF f \in gone THEN "absent" ELSE known[f]]
          /\ Queue(gone, [watch EXCEPT !.on[e[2]] = "none"])
          /\ events' = {r \in rest : r[1] # e[2]}
          /\ UNCHANGED <<scan, late>>
  /\ UNCHANGED <<disk, told, edits>>

\* A watcher reports an error.
WatchError ==
  /\ watch.mode = "watching" /\ scan = Idle /\ edits < MaxEdits /\ edits' = edits + 1
  /\ watch' = FallBack(watch) /\ events' = {}
  /\ UNCHANGED <<disk, known, pending, told, scan, late>>

\* The periodic scan: everything in fallback, else only the watchers of folders that are gone.
Poll ==
  /\ watch.poll /\ scan = Idle
  /\ IF watch.mode = "fallback"
     THEN List("root") /\ UNCHANGED <<watch, events>>
     ELSE Closed({x \in Folder : watch.on[x] # "none" /\ ~IsThere(disk, x)}) /\ UNCHANGED scan
  /\ UNCHANGED <<disk, known, pending, told, late, edits>>

\* flushPending, after the pause: each file is read again, and what is reported is what it
\* holds now.
Flush ==
  /\ watch.armed /\ scan = Idle
  /\ watch' = [watch EXCEPT !.armed = FALSE]
  /\ told' = [f \in Doc |-> IF f \in pending THEN Hash(disk)[f] ELSE told[f]]
  /\ known' = [f \in Doc |-> IF f \in pending THEN Hash(disk)[f] ELSE known[f]]
  /\ pending' = {}
  /\ UNCHANGED <<disk, events, scan, late, edits>>

\* close, when the profile or the vault is given up: what is pending is dropped.
Close ==
  /\ watch.mode \in {"watching", "fallback"} /\ scan = Idle
  /\ watch' = [on |-> [x \in Dir |-> "none"], mode |-> "closed", poll |-> FALSE, armed |-> FALSE]
  /\ events' = {} /\ pending' = {}
  /\ UNCHANGED <<disk, known, told, scan, late, edits>>

Next ==
  \/ \E f \in Doc, c \in Content \cup {"absent", "locked"} : Write(f, c)
  \/ \E x \in Folder, c \in Content \cup {"absent"} : Appear(x, c)
  \/ \E x \in Folder : Vanish(x)
  \/ Start \/ Open \/ Scan \/ WatchError \/ Poll \/ Flush \/ Close
  \/ \E e \in events : Handle(e)

Spec == Init /\ [][Next]_vars

-----------------------------------------------------------------------------
\* No edit goes unnoticed: a file whose content is not what was reported last is waiting for
\* the pause to end, or a notification of it is on its way, or the periodic scan will find it.
\* Only a folder that appeared while its parent was being listed may stay unwatched.
EditsAreSeen ==
  watch.mode \in {"watching", "fallback"} /\ scan = Idle =>
    \A f \in Doc : told[f] # Hash(disk)[f] =>
      \/ f \in pending /\ watch.armed
      \/ watch.mode = "fallback" /\ watch.poll
      \/ \E e \in events : e[2] \in {f, Home(f)}
      \/ Home(f) \in late
=================================================================================
