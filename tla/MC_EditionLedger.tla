---------------------------- MODULE MC_EditionLedger ----------------------------
(***************************************************************************)
(* Small instances of EditionLedger for TLC.  The scenes are chosen in the  *)
(* initial state: a daemon that restarts, with failing saves among          *)
(* refreshes and among dense builds; and a daemon that is superseded while  *)
(* it still lives.                                                          *)
(***************************************************************************)
EXTENDS EditionLedger, TLC

CONSTANTS d1, d2, p1, p2

\* One publisher in each of two daemons: a restart, or a superseded daemon.
OnePublisherPerDaemon == p1 :> d1 @@ p2 :> d2

\* Both publishers in one daemon: one drains while its successor works.
OneDaemon == p1 :> d1 @@ p2 :> d1

\* The two daemons differ in nothing but their names: it is enough to let the
\* first one start first.
FirstDaemonFirst == daemon[d2] # "new" => daemon[d1] # "new"

VARIABLE scene

Saves == INSTANCE EditionLedger WITH Requests <- {"save", "refresh"}
DenseSaves == INSTANCE EditionLedger WITH Requests <- {"save", "dense"}
Takeover ==
  INSTANCE EditionLedger WITH Overlap <- TRUE, MaxOperation <- 0, Requests <- {"refresh", "dense"}

sceneVars == <<scene, vars>>

SceneInit == scene \in {"saves", "dense saves", "takeover"} /\ Init

SceneNext ==
  /\ UNCHANGED scene
  /\ \/ scene = "saves" /\ Saves!Next
     \/ scene = "dense saves" /\ DenseSaves!Next
     \/ scene = "takeover" /\ Takeover!Next

\* The ledger as the constants give it.
AloneSpec == scene = "alone" /\ Init /\ [][Next /\ UNCHANGED scene]_sceneVars

SceneSpec == SceneInit /\ [][SceneNext]_sceneVars
=============================================================================
