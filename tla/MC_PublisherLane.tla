----------------------------- MODULE MC_PublisherLane -----------------------------
(***************************************************************************)
(* Small instances of PublisherLane for TLC, chosen in the initial state:   *)
(* two build intents while other publishers commit twice, three while one   *)
(* commits once, and callers that drain, stop and clear.  An intent that    *)
(* does not belong to the instance starts as answered.                      *)
(***************************************************************************)
EXTENDS PublisherLane, TLC

CONSTANTS l1, l2, d1, f1, m1, c1

VARIABLE scene

\* An intent has the kind its name begins with.
Kinds ==
  l1 :> "lexical" @@ l2 :> "lexical" @@ d1 :> "dense" @@ f1 :> "force"
  @@ m1 :> "journal" @@ c1 :> "clear"

Scenes ==
  [pair |-> {{l1, l2}, {l1, d1}, {l1, f1}, {d1, f1}},
   three |-> {{l1, l2, d1}},
   callers |-> {{l1, m1, c1}}]

Three == INSTANCE PublisherLane WITH MaxHead <- 1
Callers == INSTANCE PublisherLane WITH Calls <- {"drain", "stop"}, MaxHead <- 0

sceneVars == <<scene, vars>>

SceneInit ==
  /\ scene \in DOMAIN Scenes
  /\ \E intents \in Scenes[scene] :
       InitWith([i \in Intent |-> IF i \in intents THEN "none" ELSE "dropped"])

SceneNext ==
  /\ UNCHANGED scene
  /\ \/ scene = "pair" /\ Next
     \/ scene = "three" /\ Three!Next
     \/ scene = "callers" /\ Callers!Next

SceneSpec ==
  /\ SceneInit /\ [][SceneNext]_sceneVars
  /\ WF_sceneVars(Loop /\ UNCHANGED scene)
  /\ WF_sceneVars(DrainWaits /\ UNCHANGED scene)
  /\ WF_sceneVars(Halt /\ UNCHANGED scene)
=================================================================================
