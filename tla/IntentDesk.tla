------------------------------- MODULE IntentDesk -------------------------------
(***************************************************************************)
(* What a caller of VaultPublisher.enqueue is promised: an accepted intent *)
(* is answered once, eventually, and an answer that reports work done is   *)
(* given in turn, when nothing accepted earlier is still open.  A refusal  *)
(* (dropped, rejected) may overtake, and so may the answer to an intent    *)
(* that the ledger's head already satisfies (covered, not-ready).          *)
(***************************************************************************)
EXTENDS Naturals, Sequences, SequencesExt

CONSTANT Intent

VARIABLES
  open,    \* the accepted intents that are not answered, oldest first
  answer   \* answer[i]: "none" before i is enqueued, then "open", then final

vars == <<open, answer>>

InTurn == {"committed", "completed"}
Refusal == {"dropped", "rejected"}
Answer == InTurn \cup Refusal \cup {"covered", "not-ready"}

Init ==
  /\ open = << >>
  /\ answer \in [Intent -> {"none"} \cup Refusal]

Accept(i) ==
  /\ answer[i] = "none"
  /\ open' = Append(open, i)
  /\ answer' = [answer EXCEPT ![i] = "open"]

TurnAway(i) ==
  /\ answer[i] = "none"
  /\ \E r \in Refusal : answer' = [answer EXCEPT ![i] = r]
  /\ UNCHANGED open

\* The increasing numbering of the members of s that are not in S.
Numberings(s, S) ==
  {at \in UNION {[1..k -> DOMAIN s] : k \in 0..Len(s)} :
    /\ \A j, k \in DOMAIN at : j < k => at[j] < at[k]
    /\ \A n \in DOMAIN s : s[n] \notin S <=> \E k \in DOMAIN at : at[k] = n}

\* The intents of S are answered together.
Settle(S) ==
  /\ S # {}
  /\ \E at \in Numberings(open, S) : open' = [k \in DOMAIN at |-> open[at[k]]]
  /\ \E r \in [S -> Answer] :
       /\ answer' = [i \in Intent |-> IF i \in S THEN r[i] ELSE answer[i]]
       /\ \A n \in DOMAIN open : \A m \in 1..n :
            open[n] \in S /\ r[open[n]] \in InTurn => open[m] \in S

SettleSome == \E S \in SUBSET ToSet(open) : Settle(S)

SettleOldest == open # << >> /\ \E S \in SUBSET ToSet(open) : Head(open) \in S /\ Settle(S)

Next ==
  \/ \E i \in Intent : Accept(i) \/ TurnAway(i)
  \/ SettleSome

Spec == Init /\ [][Next]_vars /\ WF_vars(SettleOldest)
=================================================================================
