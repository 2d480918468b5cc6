----------------------------- MODULE PluginInstall -----------------------------
(***************************************************************************)
(* plugin:install of a custom plugin (cli/commands/plugin.ts): the files of *)
(* a release, a clone or a directory are staged beside the installed        *)
(* plugin, its settings are copied over, and the two are swapped by         *)
(* renames; then the list of enabled plugins is written.  Nothing keeps     *)
(* Obsidian from saving the settings or the list meanwhile, nor another     *)
(* install from running, and every call on the file system can fail.        *)
(***************************************************************************)
EXTENDS Naturals, FiniteSets

CONSTANTS Installer,                   \* commands for the same plugin
          Requests,                    \* what may be asked for: [type, dir, enable]
          Released, Cloned, Local,     \* what a release, a clone and a directory hold
          Installed,                   \* what is installed at first
          MaxTrouble                   \* bound on failing calls, crashes and saves of Obsidian

VARIABLES target, temp, backup,   \* the plugin's directory, and those of each command
          list,                   \* community-plugins.json
          op,                     \* the commands
          wanted,                 \* history: the last settings and list of Obsidian, the plugin last reported
          mishap,                 \* history: what has gone wrong that the swap cannot mend
          spent

vars == <<target, temp, backup, list, op, wanted, mishap, spent>>

File == {"manifest", "main", "styles", "data"}
NoDir == [f \in File |-> "no"]     \* an empty directory counts as none
Code(dir) == [f \in File \ {"data"} |-> dir[f]]

NoOp == [step |-> "idle", source |-> NoDir, enable |-> FALSE, had |-> FALSE, moved |-> FALSE, next |-> {}]

Init ==
  /\ target \in Installed
  /\ temp = [a \in Installer |-> NoDir] /\ backup = [a \in Installer |-> NoDir]
  /\ list = [torn |-> FALSE, ids |-> {"other"}]
  /\ op = [a \in Installer |-> NoOp]
  /\ wanted = [data |-> target["data"], ids |-> {"other"}, code |-> Code(target)]
  /\ mishap = {} /\ spent = 0

Running == {a \in Installer : op[a].step \notin {"idle", "ok", "failed"}}
Step(a, step) == op' = [op EXCEPT ![a].step = step]
Mishap(names) == mishap' = mishap \union names

-----------------------------------------------------------------------------
(* The command                                                              *)

\* The release to install: none when a directory of the repository is asked for, when there is none,
\* or when it lacks the manifest or the entry point.
ReleaseFor(r) == IF r.dir THEN {} ELSE {d \in Released : d["manifest"] # "no" /\ d["main"] # "no"}

\* Mutant: a release whose files cannot be fetched is cloned instead.
Materialized_Clones(r) == IF r.type = "local" THEN Local ELSE ReleaseFor(r) \union Cloned

\* A git source is its release when there is one, and a clone otherwise; that the files of a release
\* cannot be fetched is no reason to clone.
Materialized(r) ==
  CASE r.type = "local" -> Local
    [] r.type = "git" -> IF ReleaseFor(r) = {} THEN Cloned ELSE ReleaseFor(r)

IsPlugin(source) == source["manifest"] # "no" /\ source["main"] # "no"

\* What enabling is to write, when it changes the list at all.
EnablePlan(r) == [enable |-> r.enable /\ "this" \notin list.ids, next |-> list.ids \union {"this"}]

\* The list is read before anything is installed; one that cannot be read ends the command, as does a
\* source without manifest or entry point.
Start(a, r, source) ==
  /\ op[a].step = "idle" /\ source \in Materialized(r)
  /\ IsPlugin(source)
  /\ r.enable => ~list.torn
  /\ op' = [op EXCEPT ![a] = [NoOp EXCEPT !.step = "start", !.source = source,
       !.enable = EnablePlan(r).enable, !.next = EnablePlan(r).next]]
  /\ Mishap(IF Running = {} THEN {} ELSE {"two"})
  /\ UNCHANGED <<target, temp, backup, list, wanted, spent>>

\* Mutant: the files are copied into the installed plugin.
Stage_InPlace(a) ==
  /\ op[a].step = "start"
  /\ target' = [f \in File |-> IF op[a].source[f] = "no" THEN target[f] ELSE op[a].source[f]]
  /\ temp' = [temp EXCEPT ![a] = [f \in File |-> IF op[a].source[f] = "no" THEN target[f] ELSE op[a].source[f]]]
  /\ op' = [op EXCEPT ![a].step = "staged", ![a].had = target # NoDir]
  /\ UNCHANGED <<backup, list, wanted, mishap, spent>>

\* Only the runtime files of the source are taken.
Stage(a) ==
  /\ op[a].step = "start"
  /\ temp' = [temp EXCEPT ![a] = op[a].source]
  /\ op' = [op EXCEPT ![a].step = "staged", ![a].had = target # NoDir]
  /\ UNCHANGED <<target, backup, list, wanted, mishap, spent>>

\* Mutant: the settings of the source win.
KeepSettings_OfSource(a) ==
  /\ op[a].step = "staged" /\ Step(a, "kept")
  /\ temp' = [temp EXCEPT ![a]["data"] = IF op[a].had /\ @ = "no" THEN target["data"] ELSE @]
  /\ UNCHANGED <<target, backup, list, wanted, mishap, spent>>

\* The settings that are installed replace those of the source.
KeepSettings(a) ==
  /\ op[a].step = "staged" /\ Step(a, "kept")
  /\ temp' = [temp EXCEPT ![a]["data"] = IF op[a].had /\ target["data"] # "no" THEN target["data"] ELSE @]
  /\ UNCHANGED <<target, backup, list, wanted, mishap, spent>>

\* The installed plugin goes aside, unless another install has it in its hands.  It goes as it is, even
\* when another install is removing its files.
MoveAside(a) ==
  /\ op[a].step = "kept" /\ op[a].had /\ target # NoDir
  /\ backup' = [backup EXCEPT ![a] = target] /\ target' = NoDir
  /\ op' = [op EXCEPT ![a].step = "aside", ![a].moved = TRUE]
  /\ Mishap(IF \E b \in Running : op[b].step = "clear" THEN {"cut"} ELSE {})
  /\ UNCHANGED <<temp, list, wanted, spent>>

\* A directory is not renamed onto one that has files.
PutInPlace(a) ==
  /\ op[a].step = "aside" \/ (op[a].step = "kept" /\ ~op[a].had)
  /\ target = NoDir
  /\ target' = temp[a] /\ temp' = [temp EXCEPT ![a] = NoDir]
  /\ Step(a, "placed")
  /\ UNCHANGED <<backup, list, wanted, mishap, spent>>

DropBackup(a) ==
  /\ op[a].step = "placed"
  /\ backup' = [backup EXCEPT ![a] = NoDir]
  /\ Step(a, "installed")
  /\ UNCHANGED <<target, temp, list, wanted, mishap, spent>>

\* Another install has taken the plugin away, or put its own in the place.
Refused(a) ==
  \/ op[a].step = "kept" /\ op[a].had /\ target = NoDir
  \/ (op[a].step = "aside" \/ (op[a].step = "kept" /\ ~op[a].had)) /\ target # NoDir

\* A call fails, and what follows undoes the swap one call after the other.  The removal of the backup
\* may fail with any of its files gone; they are put back as they are.
Fail(a) ==
  /\ op[a].step \in {"start", "staged", "kept", "aside"} \/ (op[a].step = "placed" /\ op[a].moved)
  /\ IF Refused(a) THEN spent' = spent
     ELSE spent < MaxTrouble /\ spent' = spent + 1
  /\ Step(a, "undo")
  /\ \E left \in (IF op[a].step = "placed" THEN SUBSET File ELSE {File}) :
       /\ backup' = [backup EXCEPT ![a] = [f \in File |-> IF f \in left THEN @[f] ELSE "no"]]
       /\ Mishap(IF left # File THEN {"half"} ELSE {})
  /\ UNCHANGED <<target, temp, list, wanted>>

\* Mutant: the old plugin is not put back.
Unstage_LeavesAside(a) ==
  /\ op[a].step = "undo" /\ Step(a, "failed")
  /\ temp' = [temp EXCEPT ![a] = NoDir]
  /\ UNCHANGED <<target, backup, list, wanted, mishap, spent>>

\* The staged files are taken away.
Unstage(a) ==
  /\ op[a].step = "undo" /\ Step(a, IF op[a].moved THEN "clear" ELSE "failed")
  /\ temp' = [temp EXCEPT ![a] = NoDir]
  /\ UNCHANGED <<target, backup, list, wanted, mishap, spent>>

\* Mutant: what cannot be removed is passed over.
RemoveNew_GoesOn(a) ==
  /\ op[a].step = "clear" /\ Step(a, "back")
  /\ \E f \in File : target' = [target EXCEPT ![f] = "no"]
  /\ UNCHANGED <<temp, backup, list, wanted, mishap, spent>>

\* Whatever is in the place of the old plugin is removed file by file, in any order: Obsidian sees it
\* half gone, and only when the last file has gone is the old plugin put back.
RemoveNew(a) ==
  /\ op[a].step = "clear"
  /\ \E f \in File : target' = [target EXCEPT ![f] = "no"]
  /\ Step(a, IF target' = NoDir THEN "back" ELSE "clear")
  /\ UNCHANGED <<temp, backup, list, wanted, mishap, spent>>

\* The old plugin is put back, unless another install has taken the place.
Restore(a) ==
  /\ op[a].step = "back" /\ Step(a, "failed")
  /\ \/ /\ target = NoDir
        /\ target' = backup[a] /\ backup' = [backup EXCEPT ![a] = NoDir]
        /\ UNCHANGED mishap
     \/ /\ target # NoDir
        /\ Mishap({"gone"})
        /\ UNCHANGED <<target, backup>>
  /\ UNCHANGED <<temp, list, wanted, spent>>

\* The list is written in place, from what was read at the start.
Enable(a) ==
  /\ op[a].step = "installed" /\ op[a].enable
  /\ list' = [list EXCEPT !.torn = TRUE] /\ Step(a, "listing")
  /\ UNCHANGED <<target, temp, backup, wanted, mishap, spent>>

\* Mutant: the list holds the new plugin alone.
WriteList_Alone(a) ==
  /\ op[a].step = "listing" \/ (op[a].step = "installed" /\ ~op[a].enable)
  /\ list' = IF op[a].enable THEN [torn |-> FALSE, ids |-> {"this"}] ELSE list
  /\ op' = [op EXCEPT ![a] = [NoOp EXCEPT !.step = "ok"]]
  /\ wanted' = [wanted EXCEPT !.code = Code(op[a].source), !.ids = IF op[a].enable THEN @ \union {"this"} ELSE @]
  /\ UNCHANGED <<target, temp, backup, mishap, spent>>

WriteList(a) ==
  /\ op[a].step = "listing" \/ (op[a].step = "installed" /\ ~op[a].enable)
  /\ list' = IF op[a].enable THEN [torn |-> FALSE, ids |-> op[a].next] ELSE list
  /\ op' = [op EXCEPT ![a] = [NoOp EXCEPT !.step = "ok"]]
  /\ wanted' = [wanted EXCEPT !.code = Code(op[a].source), !.ids = IF op[a].enable THEN @ \union {"this"} ELSE @]
  /\ UNCHANGED <<target, temp, backup, mishap, spent>>

\* When the list cannot be written the command fails, with the plugin installed.
ListFails(a) ==
  /\ op[a].step = "listing" /\ spent < MaxTrouble /\ spent' = spent + 1
  /\ Step(a, "failed") /\ Mishap({"torn", "unreported"})
  /\ UNCHANGED <<target, temp, backup, list, wanted>>

-----------------------------------------------------------------------------

\* A command that is killed leaves its directories where they are; no other command looks at them.  It
\* ends in the same way when a call of its roll-back fails: the calls that follow are not made.
Crash(a) ==
  /\ a \in Running /\ spent < MaxTrouble
  /\ spent' = spent + 1
  /\ Step(a, "failed")
  /\ Mishap((IF op[a].step \in {"aside", "clear", "back"} \/ (op[a].step = "undo" /\ op[a].moved) THEN {"gone"} ELSE {})
            \union (IF op[a].step = "clear" THEN {"cut"} ELSE {})
            \union (IF op[a].step = "listing" THEN {"torn"} ELSE {})
            \union (IF op[a].step \in {"placed", "installed", "listing"} THEN {"unreported"} ELSE {}))
  /\ UNCHANGED <<target, temp, backup, list, wanted>>

\* The settings in the plugin's directory are not those that this command will leave there.
SettingsCopied(a) ==
  op[a].step \in {"kept", "clear"} \/ (op[a].step \in {"placed", "undo"} /\ op[a].moved)

\* Obsidian saves the settings of a plugin that is there.  A save after they were copied is lost.
SaveSettings ==
  /\ spent < MaxTrouble /\ spent' = spent + 1
  /\ target # NoDir
  /\ target' = [target EXCEPT !["data"] = "new"] /\ wanted' = [wanted EXCEPT !.data = "new"]
  /\ Mishap(IF \E a \in Running : SettingsCopied(a) THEN {"late"} ELSE {})
  /\ UNCHANGED <<temp, backup, list, op>>

\* Obsidian disables the other plugin.
SaveList ==
  /\ spent < MaxTrouble /\ spent' = spent + 1
  /\ ~list.torn /\ "other" \in list.ids
  /\ list' = [list EXCEPT !.ids = @ \ {"other"}] /\ wanted' = [wanted EXCEPT !.ids = @ \ {"other"}]
  /\ Mishap(IF \E a \in Running : op[a].enable THEN {"overwritten"} ELSE {})
  /\ UNCHANGED <<target, temp, backup, op>>

Next ==
  \/ \E a \in Installer :
       \/ \E r \in Requests : \E source \in Materialized(r) : Start(a, r, source)
       \/ Stage(a) \/ KeepSettings(a) \/ MoveAside(a) \/ PutInPlace(a) \/ DropBackup(a)
       \/ Fail(a) \/ Unstage(a) \/ RemoveNew(a) \/ Restore(a) \/ Enable(a) \/ WriteList(a) \/ ListFails(a) \/ Crash(a)
  \/ SaveSettings \/ SaveList

Spec == Init /\ [][Next]_vars

-----------------------------------------------------------------------------

Unless(names) == mishap \intersect names = {}

\* The files of the installed plugin are of one source (plugin.ts: "The swap stays atomic via a temp
\* dir + rename"), Obsidian may look when it likes.  Not while a command that has failed is removing the
\* new files again, nor after that removal was cut short (it failed, the command died, or another took
\* the directory from under it) or a backup that was partly removed was put back.
PluginIsWhole ==
  Unless({"half", "cut"}) /\ (\A a \in Installer : op[a].step # "clear") =>
    target = NoDir \/ Code(target) \in {Code(d) : d \in Installed \union Released \union Cloned \union Local}

\* When no command runs, what is installed is what the last successful one reported: one that failed
\* has put the old plugin back.
ReportedIsInstalled ==
  Running = {} /\ Unless({"half", "gone", "two", "unreported"}) => Code(target) = wanted.code

\* The settings of the vault outlive a reinstall (tests/cli.test.mjs:674), unless they are saved while
\* they are being moved or the new files removed again, or the command ends with the plugin aside.
SettingsSurvive ==
  Running = {} /\ Unless({"half", "gone", "two", "late"}) /\ wanted.data # "no" => target["data"] = wanted.data

\* The list holds what Obsidian put there and the plugins that were enabled, and is torn only by a
\* command that died while it wrote.
ListIsKept ==
  Running = {} =>
    /\ Unless({"torn"}) => ~list.torn
    /\ Unless({"torn", "overwritten"}) => list.ids = wanted.ids

\* A release that is complete is what is installed, never the repository it was made from.
ReleaseFirst ==
  Released # {} => \A a \in Installer : Code(op[a].source) \notin {Code(d) : d \in Cloned}
================================================================================
