----------------------------- MODULE PublicationLog -----------------------------
(***************************************************************************)
(* What readers and the garbage collector are promised of an edition       *)
(* ledger: an append-only log of editions whose corpus only moves forward. *)
(* An edition either publishes a newer corpus frontier, or keeps the       *)
(* frontier and the corpus of its predecessor and changes the dense arm    *)
(* only; a fresh dense arm was always embedded from the corpus it is       *)
(* published with.  There is no other way for the visible state to change. *)
(***************************************************************************)
EXTENDS Integers, Sequences

CONSTANT Corpora

VARIABLE editions

\* dense.of is the corpus a fresh generation was embedded from.
IsEdition(e) ==
  /\ e.frontier \in Nat \ {0}
  /\ e.corpus \in Corpora
  /\ e.dense.state = "fresh" => e.dense.of = e.corpus

Init == editions = << >>

NewFrontier(e) ==
  editions # << >> => e.frontier > editions[Len(editions)].frontier

SameFrontier(e) ==
  /\ editions # << >>
  /\ e.frontier = editions[Len(editions)].frontier
  /\ e.corpus = editions[Len(editions)].corpus

Publish ==
  /\ Len(editions') = Len(editions) + 1
  /\ \A i \in 1..Len(editions) : editions'[i] = editions[i]
  /\ LET e == editions'[Len(editions')]
     IN IsEdition(e) /\ (NewFrontier(e) \/ SameFrontier(e))

Spec == Init /\ [][Publish]_editions
=============================================================================
