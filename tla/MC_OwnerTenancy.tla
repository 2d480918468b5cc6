---------------------------- MODULE MC_OwnerTenancy ----------------------------
(* A small instance of OwnerTenancy for TLC. *)
EXTENDS OwnerTenancy, TLC

CONSTANTS a1, a2, b1, old, new

\* Two incarnations of one binary, and one of another.
Binaries == a1 :> old @@ a2 :> old @@ b1 :> new

\* The state that b1 reaches alone: it found the slot empty and serves it.
Serving ==
  /\ owner = b1
  /\ epoch = [d \in Daemon |-> IF d = b1 THEN 1 ELSE 0]
  /\ pulse = [by |-> b1, phase |-> "ready", fresh |-> TRUE]
  /\ sentinel = NoDaemon
  /\ claim = NoDaemon
  /\ expired = FALSE
  /\ life = [d \in Daemon |-> IF d = b1 THEN "ready" ELSE "none"]
  /\ seen = [d \in Daemon |-> NoDaemon]
  /\ proof = [d \in Daemon |-> "cold"]
  /\ target = [d \in Daemon |-> NoDaemon]
  /\ reap = [d \in Daemon |-> IF d = b1 THEN "proved" ELSE "start"]
  /\ told = [d \in Daemon |-> NoDaemon]
  /\ marker = [d \in Daemon |-> NoDaemon]
  /\ model = {}
  /\ stalled = {}
  /\ faltered = {}
  /\ grace = b1
  /\ termed = {}
  /\ mishaps = 0

ServingSpec == Serving /\ [][Next]_vars /\ Fairness
=============================================================================
