------------------------------ MODULE SettingsFile ------------------------------
(***************************************************************************)
(* The settings of a user and what `optsidian config` does with them        *)
(* (core/settings.ts, cli/commands/config.ts, writePrivateFileSync of       *)
(* core/private-path.ts).  A command reads the whole file, changes one key  *)
(* and writes the whole file, with no lock; the write truncates the file    *)
(* first.  A project may override settings in a file that no command        *)
(* writes.  Values are the strings a user would write, types of JSON,       *)
(* links and permissions are left out.                                      *)
(***************************************************************************)
EXTENDS Naturals, FiniteSets, TLC

CONSTANTS Command,             \* processes that run config commands
          Requests,            \* what is asked of them: [do, key, raw]
          HandTexts,           \* what a user saves with an editor, as maps from keys to strings
          Overrides,           \* what a project overrides, as such maps
          MaxStarts, MaxHands  \* bounds on commands, and on saves and deaths

VARIABLES file,     \* settings.json of the user
          local,    \* .optsidian/settings.json of the project
          op,       \* the commands
          wanted,   \* the settings by the commands in the order of their writes (of the model, as the rest)
          excused,  \* keys that a command has written back as it had read them before another changed them
          mishap,   \* a command died in its write, or two were in it at once
          byHand,   \* the text in the file is a user's
          spent     \* how many commands, and saves and deaths, there were

vars == <<file, local, op, wanted, excused, mishap, byHand, spent>>

Nothing == [k \in {} |-> ""]

\* What each kind of setting accepts, and what it makes of it.
Analyzer == "intl" :> "intl" @@ "kiwi" :> "kiwi" @@ " Kiwi" :> "kiwi"
StringList == "" :> "" @@ "ko" :> "ko" @@ "ko, KO" :> "ko" @@ "fr" :> "fr"
Model == "bge-m3" :> "bge-m3" @@ "BGE" :> "bge-m3" @@
         "multilingual-e5-small" :> "multilingual-e5-small" @@ "e5" :> "multilingual-e5-small"
Boolean == "true" :> "true" @@ "1" :> "true" @@ "on" :> "true" @@
           "false" :> "false" @@ "0" :> "false" @@ "" :> "false"
Positive == "1" :> "1" @@ "2" :> "2" @@ "02" :> "2"
Natural == "0" :> "0" @@ Positive
Number == "0.5" :> "0.5" @@ "1e0" :> "1" @@ Natural

Accepts ==
  "analyzer" :> Analyzer @@ "extraLangs" :> StringList @@ "ngram" :> Boolean @@
  "partitionBits" :> Positive @@ "queryWorkers" :> Positive @@ "indexWorkers" :> Positive @@
  "executionWorkers" :> Positive @@ "snapshotRetentionCount" :> Positive @@
  "queryCacheSize" :> Natural @@ "memoryBudgetCount" :> Positive @@
  "memoryBudgetBytes" :> Positive @@ "daemonIdleMs" :> Natural @@ "embeddingModel" :> Model @@
  "denseLambda" :> Number @@ "linkLambda" :> Number @@ "rrfK" :> Positive

Known == DOMAIN Accepts

\* The command line accepts the registered analysers only (parseSettingValue).
AcceptsArgument(k, raw) == raw \in DOMAIN Accepts[k] /\ ~(k = "extraLangs" /\ raw = "fr")

-----------------------------------------------------------------------------
(* Texts of the file; texts of as many settings have one length.            *)

Absent == [ok |-> TRUE, size |-> 0, set |-> Nothing]
Emptied == [ok |-> FALSE, size |-> 0, set |-> Nothing]
Text(s) == [ok |-> TRUE, size |-> Cardinality(DOMAIN s) + 1, set |-> s]

\* normalizeSettings: one value that is not accepted makes the whole file unreadable, and
\* what is not known is dropped.
Readable(f) == f.ok /\ \A k \in DOMAIN f.set \cap Known : f.set[k] \in DOMAIN Accepts[k]
Parsed(f) == [k \in DOMAIN f.set \cap Known |-> Accepts[k][f.set[k]]]

\* As mergeSettings, but the settings of the user win.
Merged_GlobalWins(global, override) == global @@ override

\* mergeSettings
Merged(global, override) == override @@ global

\* getKnownSetting
Value(s, k) ==
  IF k \in DOMAIN s THEN s[k]
  ELSE IF k = "embeddingModel" THEN "bge-m3"
  ELSE IF k = "extraLangs" THEN "" ELSE "undefined"

\* setKnownSetting, unsetKnownSetting
WithKey(s, k, v) == (k :> v) @@ s
Without(s, k) == [x \in DOMAIN s \ {k} |-> s[x]]

Changed(request, s) ==
  IF request.do = "set" THEN WithKey(s, request.key, Accepts[request.key][request.raw])
  ELSE Without(s, request.key)

-----------------------------------------------------------------------------
Idle == [step |-> "idle", request |-> [do |-> "none", key |-> "", raw |-> ""], copy |-> Nothing,
         answer |-> "", before |-> "", sure |-> FALSE, missed |-> {}]

Init ==
  /\ file = Absent
  /\ local \in {Text(s) : s \in Overrides}
  /\ op = [c \in Command |-> Idle]
  /\ wanted = Nothing /\ excused = {} /\ mishap = FALSE /\ byHand = FALSE
  /\ spent = [starts |-> 0, hands |-> 0]

Writing(c) == op[c].step = "emptied"

\* A command begins; the model notes what a command that is alone should be told.
Start(c, request) ==
  /\ op[c].step \in {"idle", "answered"}
  /\ spent.starts < MaxStarts
  /\ spent' = [spent EXCEPT !.starts = @ + 1]
  /\ op' = [op EXCEPT ![c] = [Idle EXCEPT
       !.step = "started", !.request = request, !.before = Value(wanted, request.key),
       !.sure = request.key \notin excused]]
  /\ UNCHANGED <<file, local, wanted, excused, mishap, byHand>>

\* As ReadGlobal, but the change starts from the settings in force.
ReadGlobal_WithOverride(c) ==
  LET request == op[c].request IN
  /\ op[c].step = "started"
  /\ IF ~Readable(file) \/ (request.do = "set" /\ ~AcceptsArgument(request.key, request.raw))
     THEN op' = [op EXCEPT ![c] = Idle]
     ELSE IF request.do = "get"
     THEN op' = [op EXCEPT ![c].step = "global", ![c].copy = Parsed(file)]
     ELSE op' = [op EXCEPT ![c].step = "changed", ![c].missed = {},
                           ![c].copy = Changed(request, Merged(Parsed(file), Parsed(local)))]
  /\ UNCHANGED <<file, local, wanted, excused, mishap, byHand, spent>>

\* readGlobalSettings of any command, which fails on what it cannot read or accept; set and
\* unset also make their change of the copy.
ReadGlobal(c) ==
  LET request == op[c].request IN
  /\ op[c].step = "started"
  /\ IF ~Readable(file) \/ (request.do = "set" /\ ~AcceptsArgument(request.key, request.raw))
     THEN op' = [op EXCEPT ![c] = Idle]
     ELSE IF request.do = "get"
     THEN op' = [op EXCEPT ![c].step = "global", ![c].copy = Parsed(file)]
     ELSE op' = [op EXCEPT ![c].step = "changed", ![c].missed = {},
                           ![c].copy = Changed(request, Parsed(file))]
  /\ UNCHANGED <<file, local, wanted, excused, mishap, byHand, spent>>

\* readLocalOverrideSettings, and the answer of get.
ReadLocal(c) ==
  /\ op[c].step = "global"
  /\ op' = IF ~Readable(local) THEN [op EXCEPT ![c] = Idle]
           ELSE [op EXCEPT ![c].step = "answered", ![c].copy = Nothing,
                           ![c].answer = Value(Merged(op[c].copy, Parsed(local)), op[c].request.key)]
  /\ UNCHANGED <<file, local, wanted, excused, mishap, byHand, spent>>

\* writeFileSync opens the file, which empties it,
Empty(c) ==
  /\ op[c].step = "changed"
  /\ file' = Emptied
  /\ op' = [op EXCEPT ![c].step = "emptied"]
  /\ mishap' = (mishap \/ \E d \in Command : Writing(d))
  /\ UNCHANGED <<local, wanted, excused, byHand, spent>>

\* and writes the text over what is there by then.
WriteText(c) ==
  LET key == op[c].request.key
      changes == {key} \cup op[c].missed
  IN
  /\ Writing(c)
  /\ file' = IF file.size > Text(op[c].copy).size THEN [file EXCEPT !.ok = FALSE] ELSE Text(op[c].copy)
  /\ op' = [d \in Command |->
       IF d = c THEN Idle ELSE [op[d] EXCEPT !.missed = @ \cup changes]]
  /\ wanted' = Changed(op[c].request, wanted)
  /\ excused' = (excused \ {key}) \cup (op[c].missed \ {key})
  /\ byHand' = FALSE
  /\ mishap' = (mishap /\ ~(file'.ok /\ \A d \in Command \ {c} : ~Writing(d)))
  /\ UNCHANGED <<local, spent>>

\* A command dies between two steps.
Die(c) ==
  /\ op[c].step \in {"changed", "emptied"}
  /\ spent.hands < MaxHands
  /\ spent' = [spent EXCEPT !.hands = @ + 1]
  /\ op' = [op EXCEPT ![c] = Idle]
  /\ mishap' = (mishap \/ Writing(c))
  /\ UNCHANGED <<file, local, wanted, excused, byHand>>

\* A user saves the file with an editor, which writes it in place.
EditByHand(s) ==
  /\ spent.hands < MaxHands
  /\ spent' = [spent EXCEPT !.hands = @ + 1]
  /\ file' = Text(s)
  /\ wanted' = IF Readable(Text(s)) THEN Parsed(Text(s)) ELSE Nothing
  /\ excused' = {} /\ byHand' = TRUE /\ mishap' = \E c \in Command : Writing(c)
  /\ op' = [c \in Command |-> [op[c] EXCEPT !.missed = Known]]
  /\ UNCHANGED local

Next ==
  \/ \E c \in Command :
       \/ \E request \in Requests : Start(c, request)
       \/ ReadGlobal(c) \/ ReadLocal(c) \/ Empty(c) \/ WriteText(c) \/ Die(c)
  \/ \E s \in HandTexts : EditByHand(s)

Spec == Init /\ [][Next]_vars

-----------------------------------------------------------------------------
AtRest == \A c \in Command : ~Writing(c)

\* No setting is lost but to a command that had read the file before it was changed: however
\* commands overlap, the others are as the commands have left them.
OnlyOverlapLoses ==
  AtRest /\ Readable(file) =>
    \A k \in Known \ excused : Value(Parsed(file), k) = Value(wanted, k)

\* The file is left torn only by a command that died in its write, or by two at once.
TornByMishap == AtRest /\ ~file.ok => mishap

\* What a command has written, every command can read.
WritesWhatItReads == file.ok /\ ~byHand => Readable(file)

\* A get that no write has disturbed tells what the project overrides, or else what was set before.
GetTellsTheSetting ==
  \A c \in Command :
    LET key == op[c].request.key IN
    /\ op[c].step = "answered" /\ op[c].request.do = "get"
    /\ op[c].sure /\ key \notin op[c].missed
    => op[c].answer = IF key \in DOMAIN Parsed(local) THEN Parsed(local)[key] ELSE op[c].before

\* The promises of the settings together.
SettingsAreKept == OnlyOverlapLoses /\ TornByMishap /\ WritesWhatItReads /\ GetTellsTheSetting
=============================================================================
