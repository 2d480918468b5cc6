--------------------------- MODULE PublisherLaneProofs ---------------------------
(***************************************************************************)
(* Proofs about PublisherLane, for any set of intents of any kinds: its     *)
(* variables keep their types, a drain keeps its word, who is told that his *)
(* save is published finds it so, a cleared publisher publishes nothing,    *)
(* and the lane implements the safety part of IntentDesk.                   *)
(***************************************************************************)
EXTENDS PublisherLane, FiniteSetTheorems, TLAPS

USE KindAssumption, CallsAssumption, OptionsAssumption, RetriesAssumption

-----------------------------------------------------------------------------
(* A sequence without some of its members.                                 *)

\* The place of n in N.
Rank(N, n) == Cardinality({m \in N : m <= n})

\* Ranks of a finite set of numbers.
LEMMA RankType ==
  ASSUME NEW N \in SUBSET Nat, IsFiniteSet(N), NEW n \in N
  PROVE  /\ Cardinality(N) \in Nat
         /\ IsFiniteSet({m \in N : m <= n})
         /\ Rank(N, n) \in Nat /\ 1 <= Rank(N, n) /\ Rank(N, n) <= Cardinality(N)
<1>2. Cardinality(N) \in Nat
  BY FS_CardinalityType
<1> DEFINE B == {m \in N : m <= n}
<1>3. B \in SUBSET N /\ n \in B
  OBVIOUS
<1>4. IsFiniteSet(B) /\ Cardinality(B) <= Cardinality(N)
  BY <1>3, FS_Subset
<1>5. Cardinality(B) \in Nat /\ Cardinality(B) # 0
  BY <1>3, <1>4, FS_CardinalityType, FS_EmptySet
<1>6. Rank(N, n) = Cardinality(B)
  BY DEF Rank
<1>7. 1 <= Cardinality(B)
  BY <1>5
<1> QED BY <1>2, <1>4, <1>5, <1>6, <1>7

\* A greater number has a greater rank.
LEMMA RankGrows ==
  ASSUME NEW N \in SUBSET Nat, IsFiniteSet(N), NEW m \in N, NEW n \in N, m < n
  PROVE  Rank(N, m) < Rank(N, n)
<1> DEFINE A == {k \in N : k <= m}
           B == {k \in N : k <= n}
<1>1. IsFiniteSet(A) /\ IsFiniteSet(B)
  BY RankType
<1>2. n \in B /\ n \notin A
  OBVIOUS
<1>6. A \in SUBSET B
  <2> SUFFICES ASSUME NEW k \in N, k <= m PROVE k <= n
    OBVIOUS
  <2>1. k \in Nat /\ m \in Nat /\ n \in Nat
    OBVIOUS
  <2> QED BY <2>1
<1>3. Cardinality(A) <= Cardinality(B) /\ Cardinality(A) # Cardinality(B)
  BY <1>1, <1>2, <1>6, FS_Subset
<1>4. Rank(N, m) = Cardinality(A) /\ Rank(N, n) = Cardinality(B)
  BY DEF Rank
<1>5. Cardinality(A) \in Nat /\ Cardinality(B) \in Nat
  BY <1>1, FS_CardinalityType
<1> HIDE DEF A, B
<1> QED BY <1>3, <1>4, <1>5

\* The rank tells the number.
LEMMA RankTells ==
  ASSUME NEW N \in SUBSET Nat, IsFiniteSet(N), NEW m \in N, NEW n \in N, Rank(N, m) = Rank(N, n)
  PROVE  m = n
<1>1. Rank(N, m) \in Nat /\ Rank(N, n) \in Nat
  BY RankType
<1>2. ~(Rank(N, m) < Rank(N, n)) /\ ~(Rank(N, n) < Rank(N, m))
  BY <1>1
<1>3. ~(m < n) /\ ~(n < m)
  BY <1>2, RankGrows
<1>4. m \in Nat /\ n \in Nat
  OBVIOUS
<1> QED BY <1>3, <1>4

\* Every rank is taken.
LEMMA RankCovers ==
  ASSUME NEW N \in SUBSET Nat, IsFiniteSet(N), NEW k \in 1..Cardinality(N)
  PROVE  \E n \in N : Rank(N, n) = k
<1> DEFINE f == [n \in N |-> Rank(N, n)]
           C == 1..Cardinality(N)
<1>1. Cardinality(N) \in Nat
  BY FS_CardinalityType
<1>2. f \in [N -> C]
  <2> SUFFICES ASSUME NEW n \in N PROVE Rank(N, n) \in C
    OBVIOUS
  <2>1. Rank(N, n) \in Nat /\ 1 <= Rank(N, n) /\ Rank(N, n) <= Cardinality(N)
    BY RankType
  <2> QED BY <1>1, <2>1
<1>3. \A m, n \in N : f[m] = f[n] => m = n
  BY RankTells
<1>4. f \in Injection(N, C)
  BY <1>2, <1>3 DEF Injection, IsInjective
<1>5. IsFiniteSet(C) /\ Cardinality(C) = Cardinality(N)
  <2>1. IsFiniteSet(1..Cardinality(N)) /\ Cardinality(1..Cardinality(N)) =
           IF 1 > Cardinality(N) THEN 0 ELSE Cardinality(N) - 1 + 1
    BY <1>1, FS_Interval
  <2> QED BY <1>1, <2>1
<1>6. f \in Surjection(N, C)
  BY <1>4, <1>5, FS_Injection
<1> QED BY <1>6 DEF Surjection

\* InOrder lists the numbers, each once, in increasing order.
LEMMA InOrderIs ==
  ASSUME NEW N \in SUBSET Nat, IsFiniteSet(N)
  PROVE  /\ Cardinality(N) \in Nat
         /\ InOrder(N) \in [1..Cardinality(N) -> N]
         /\ \A j, k \in 1..Cardinality(N) : j < k => InOrder(N)[j] < InOrder(N)[k]
         /\ \A n \in N : \E k \in 1..Cardinality(N) : InOrder(N)[k] = n
<1>1. Cardinality(N) \in Nat
  BY FS_CardinalityType
<1>2. ASSUME NEW k \in 1..Cardinality(N)
      PROVE  InOrder(N)[k] \in N /\ Rank(N, InOrder(N)[k]) = k
  <2>1. \E n \in N : Rank(N, n) = k
    BY RankCovers
  <2>2. InOrder(N)[k] = CHOOSE n \in N : Rank(N, n) = k
    BY DEF InOrder, Rank
  <2> QED BY <2>1, <2>2
<1>3. InOrder(N) \in [1..Cardinality(N) -> N]
  BY <1>2 DEF InOrder
<1>4. ASSUME NEW j \in 1..Cardinality(N), NEW k \in 1..Cardinality(N), j < k
      PROVE  InOrder(N)[j] < InOrder(N)[k]
  <2> DEFINE m == InOrder(N)[j]
             n == InOrder(N)[k]
  <2>1. m \in N /\ n \in N /\ Rank(N, m) = j /\ Rank(N, n) = k
    BY <1>2
  <2> HIDE DEF m, n
  <2>2. m \in Nat /\ n \in Nat
    BY <2>1
  <2>3. ~(n < m)
    <3> SUFFICES ASSUME n < m PROVE FALSE
      OBVIOUS
    <3>1. Rank(N, n) < Rank(N, m)
      BY <2>1, RankGrows
    <3> QED BY <1>1, <1>4, <2>1, <3>1
  <2>4. m # n
    BY <1>1, <1>4, <2>1
  <2>5. m < n
    BY <2>2, <2>3, <2>4
  <2> QED BY <2>5 DEF m, n
<1>5. ASSUME NEW n \in N PROVE \E k \in 1..Cardinality(N) : InOrder(N)[k] = n
  <2>1. Rank(N, n) \in 1..Cardinality(N)
    <3>1. Rank(N, n) \in Nat /\ 1 <= Rank(N, n) /\ Rank(N, n) <= Cardinality(N)
      BY RankType
    <3> QED BY <1>1, <3>1
  <2> DEFINE m == InOrder(N)[Rank(N, n)]
  <2>2. m \in N /\ Rank(N, m) = Rank(N, n)
    BY <1>2, <2>1
  <2> HIDE DEF m
  <2>3. m = n
    BY <2>2, RankTells
  <2> QED BY <2>1, <2>3 DEF m
<1> QED BY <1>1, <1>3, <1>4, <1>5

\* t is s without the members of S: it takes the numbers of s that at tells.
Leaves(s, S, t, at) ==
  /\ at \in [1..Len(t) -> 1..Len(s)]
  /\ \A j, k \in 1..Len(t) : j < k => at[j] < at[k]
  /\ \A k \in 1..Len(t) : t[k] = s[at[k]] /\ s[at[k]] \notin S
  /\ \A n \in 1..Len(s) : s[n] \notin S => \E k \in 1..Len(t) : at[k] = n

\* Without(s, S) leaves the members of S out, and only those.
LEMMA WithoutIs ==
  ASSUME NEW X, NEW s \in Seq(X), NEW S
  PROVE  /\ Without(s, S) \in Seq(X)
         /\ \E at : Leaves(s, S, Without(s, S), at)
<1> DEFINE N == {n \in DOMAIN s : s[n] \notin S}
           K == Cardinality(N)
           at == InOrder(N)
           t == [k \in DOMAIN at |-> s[at[k]]]
<1>1. Len(s) \in Nat /\ DOMAIN s = 1..Len(s) /\ \A n \in 1..Len(s) : s[n] \in X
  OBVIOUS
<1>2. N \in SUBSET Nat /\ N \in SUBSET (1..Len(s))
  BY <1>1
<1>a. IsFiniteSet(1..Len(s))
  BY <1>1, FS_Interval
<1>3. IsFiniteSet(N)
  BY <1>a, <1>2, FS_Subset
<1>4. /\ K \in Nat /\ at \in [1..K -> N]
      /\ \A j, k \in 1..K : j < k => at[j] < at[k]
      /\ \A n \in N : \E k \in 1..K : at[k] = n
  BY <1>2, <1>3, InOrderIs
<1>5. Without(s, S) = t
  BY DEF Without
<1>6. \A n \in N : n \in 1..Len(s) /\ s[n] \notin S /\ s[n] \in X
  BY <1>1
<1>7. \A n \in 1..Len(s) : s[n] \notin S => n \in N
  BY <1>1
<1> HIDE DEF N, K, at
<1>8. t = [k \in 1..K |-> s[at[k]]]
  BY <1>4
<1> HIDE DEF t
<1>9. t \in Seq(X) /\ Len(t) = K /\ \A k \in 1..K : t[k] = s[at[k]]
  BY <1>4, <1>6, <1>8
<1>10. Leaves(s, S, t, at)
  BY <1>4, <1>6, <1>7, <1>9 DEF Leaves
<1> QED BY <1>5, <1>9, <1>10

-----------------------------------------------------------------------------
(* The inductive invariant.                                                *)

AllOpen(s) == \A i \in ToSet(s) : IsOpen(i)
Once(s) == \A m, n \in DOMAIN s : s[m] = s[n] => m = n
Apart(s, t) == ToSet(s) \cap ToSet(t) = {}

\* Accepted and not answered is what is on hand, once.
Held ==
  /\ AllOpen(OnHand)
  /\ Once(OnHand)
  /\ Pending \subseteq ToSet(OnHand)

\* The debounced dirty intent has not been enqueued yet.
Buffered ==
  /\ \A i \in buffered : answer[i] = "none" /\ KindOf[i] = "journal"
  /\ \A i, j \in buffered : i = j
  /\ retired => buffered = {}

\* What the loop has in hand where it stands.
Stages ==
  /\ lane \in {"waiting", "enumerated", "stopped"} => group = << >> /\ folded = << >>
  /\ lane = "acting" => group = << >>
  /\ lane \in {"building", "built", "committing"} =>
       /\ ~retired
       /\ group # << >>
       /\ \A m, n \in DOMAIN group :
            Builds(group[m]) /\ BuildLane(group[m]) = BuildLane(group[n])
  /\ lane = "clearing" =>
       /\ retired
       /\ group # << >>
       /\ \A n \in DOMAIN group : KindOf[group[n]] = "clear"

\* A queued intent will be seen.
Woken ==
  /\ queue # << >> => signals > 0 \/ lane = "enumerated"
  /\ aborted => stop = "halting" /\ queue = << >>
  /\ lane = "stopped" => stop = "halting" /\ queue = << >>

\* What drain() waits for.
Awaited ==
  /\ drainer # "none" => \A i \in promised : answer[i] # "none"
  /\ drainer = "done" => \A i \in promised : ~IsOpen(i)

\* Scan boundaries only grow, and the lane knows no head beyond the ledger's.
Sorted(s) ==
  \A m, n \in DOMAIN s :
    m < n /\ KindOf[s[m]] = "lexical" /\ KindOf[s[n]] = "lexical" => goal[s[m]] <= goal[s[n]]

Boundaries ==
  /\ Sorted(queue) /\ Sorted(folded) /\ Sorted(group)
  /\ \A i \in Intent : IsOpen(i) /\ KindOf[i] = "lexical" => goal[i] <= scans
  /\ ~retired => base.boundary <= head.boundary

Inv ==
  /\ TypeOK /\ Held /\ Buffered /\ Stages /\ Woken /\ Awaited /\ Boundaries

-----------------------------------------------------------------------------
(* Queueing and answering.                                                 *)

\* What SetToSeq makes of no intent, and of one.
LEMMA SeqOfOne ==
  /\ SetToSeq({}) = << >>
  /\ \A i : SetToSeq({i}) = <<i>>
<1>1. SetToSeq({}) = << >>
  <2>1. \A f \in [1..0 -> {}] : f = << >>
    OBVIOUS
  <2>2. << >> \in [1..0 -> {}] /\ IsInjective(<< >>)
    BY DEF IsInjective
  <2> QED BY <2>1, <2>2, FS_EmptySet DEF SetToSeq
<1>2. ASSUME NEW i PROVE SetToSeq({i}) = <<i>>
  <2>1. \A f \in [1..1 -> {i}] : f = <<i>>
    OBVIOUS
  <2>2. <<i>> \in [1..1 -> {i}] /\ IsInjective(<<i>>)
    BY DEF IsInjective
  <2> QED BY <2>1, <2>2, FS_Singleton DEF SetToSeq
<1> QED BY <1>1, <1>2

\* Push puts one intent at the end of the queue, or nothing.
LEMMA PushIs ==
  ASSUME TypeOK, NEW S \in SUBSET Intent, \A i, j \in S : i = j, Push(S)
  PROVE  \/ /\ S = {}
            /\ queue' = queue /\ signals' = signals /\ answer' = answer
         \/ \E i \in S :
              /\ S = {i}
              /\ queue' = Append(queue, i) /\ signals' = signals + 1
              /\ answer' = [answer EXCEPT ![i] = "open"]
<1>1. CASE S = {}
  <2>1. queue' = queue \o << >> /\ signals' = signals + Len(<< >>)
    BY <1>1, SeqOfOne DEF Push
  <2>2. answer' = answer
    BY <1>1 DEF Push, TypeOK
  <2> QED BY <1>1, <2>1, <2>2 DEF TypeOK
<1>2. CASE S # {}
  <2>1. PICK i \in S : S = {i}
    BY <1>2
  <2>2. queue' = queue \o <<i>> /\ signals' = signals + Len(<<i>>)
    BY <2>1, SeqOfOne DEF Push
  <2>3. queue' = Append(queue, i)
    BY <2>2 DEF TypeOK
  <2>4. answer' = [answer EXCEPT ![i] = "open"]
    BY <2>1 DEF Push, TypeOK
  <2> QED BY <2>1, <2>2, <2>3, <2>4
<1> QED BY <1>1, <1>2

\* Push puts an intent that is given at the end of the queue.
LEMMA PushOne ==
  ASSUME TypeOK, NEW i \in Intent, Push({i})
  PROVE  /\ queue' = Append(queue, i) /\ signals' = signals + 1
         /\ answer' = [answer EXCEPT ![i] = "open"]
<1>1. {i} \in SUBSET Intent /\ {i} # {} /\ \A j, k \in {i} : j = k
  OBVIOUS
<1> QED BY <1>1, PushIs

-----------------------------------------------------------------------------
(* Types.                                                                  *)

\* Short sequences.
LEMMA ShortSequences ==
  << >> \in Seq(Intent) /\ \A i \in Intent : <<i>> \in Seq(Intent)
OBVIOUS

\* An answer given to some intents is an answer.
LEMMA ToldTypes ==
  ASSUME TypeOK, NEW S, NEW r \in Answers
  PROVE  Told(S, r) \in [Intent -> Answers]
BY DEF TypeOK, Told

\* What is left of a group, and what the others are told, has its type.
LEMMA FilterTypes ==
  ASSUME TypeOK, NEW h, NEW g \in Seq(Intent)
  PROVE  Remaining(h, g) \in Seq(Intent) /\ Filtered(h, g) \in [Intent -> Answers]
<1>1. Remaining(h, g) \in Seq(Intent)
  BY WithoutIs DEF Remaining
<1>2. Filtered(h, g) \in [Intent -> Answers]
  BY DEF Filtered, TypeOK, Answers
<1> QED BY <1>1, <1>2

\* Flushing the debounced marks keeps the types of what it changes.
LEMMA FlushTypes ==
  ASSUME TypeOK, Buffered, NEW c \in {"stop", "drain"}, Flush(c)
  PROVE  /\ queue' \in Seq(Intent) /\ answer' \in [Intent -> Answers] /\ signals' \in Nat
         /\ buffered' = {} /\ flushed' \in [{"stop", "drain"} -> SUBSET Intent]
<1>1. CASE Push(buffered)
  <2>1. buffered \in SUBSET Intent /\ \A i, j \in buffered : i = j
    BY DEF Buffered, TypeOK
  <2>2. \/ queue' = queue /\ signals' = signals /\ answer' = answer
        \/ \E i \in Intent : /\ queue' = Append(queue, i) /\ signals' = signals + 1
                             /\ answer' = [answer EXCEPT ![i] = "open"]
    BY <1>1, <2>1, PushIs
  <2>3. queue' \in Seq(Intent) /\ answer' \in [Intent -> Answers] /\ signals' \in Nat
    <3>1. "open" \in Answers
      BY DEF Answers
    <3>2. CASE queue' = queue /\ signals' = signals /\ answer' = answer
      BY <3>2 DEF TypeOK
    <3>3. ASSUME NEW i \in Intent, queue' = Append(queue, i), signals' = signals + 1,
                 answer' = [answer EXCEPT ![i] = "open"]
          PROVE  queue' \in Seq(Intent) /\ answer' \in [Intent -> Answers] /\ signals' \in Nat
      <4>1. answer' \in [Intent -> Answers]
        BY <3>1, <3>3 DEF TypeOK
      <4> QED BY <3>3, <4>1 DEF TypeOK
    <3> QED BY <2>2, <3>2, <3>3
  <2>4. buffered' = {} /\ flushed' \in [{"stop", "drain"} -> SUBSET Intent]
    BY DEF Flush, TypeOK
  <2> QED BY <2>3, <2>4
<1>2. CASE ~Push(buffered)
  BY <1>2 DEF TypeOK, Flush, Answers
<1> QED BY <1>1, <1>2

\* What is committed is a head.
LEMMA CandidateType ==
  ASSUME TypeOK, goal[Representative] \in Nat, NEW h \in Candidates
  PROVE  /\ h \in HeadRecord
         /\ Lexical => h.boundary = goal[Representative]
         /\ ~Lexical => h.boundary = head.boundary
<1>1. head.seq \in Nat /\ head.corpus \in Nat /\ head.boundary \in Nat
  BY DEF TypeOK, HeadRecord
<1>2. CASE Lexical
  <2>1. h \in [seq : {head.seq + 1}, boundary : {goal[Representative]},
                corpus : {head.corpus, head.corpus + 1}, fresh : {FALSE}]
    BY <1>2 DEF Candidates
  <2>2. h.seq = head.seq + 1 /\ h.boundary = goal[Representative] /\ h.fresh = FALSE
    BY <2>1
  <2>3. h.corpus = head.corpus \/ h.corpus = head.corpus + 1
    BY <2>1
  <2>4. h = [seq |-> h.seq, boundary |-> h.boundary, corpus |-> h.corpus, fresh |-> h.fresh]
    BY <2>1
  <2>5. h.seq \in Nat /\ h.boundary \in Nat /\ h.corpus \in Nat
    BY <1>1, <2>2, <2>3
  <2>6. h \in HeadRecord
    BY <2>2, <2>4, <2>5 DEF HeadRecord
  <2> QED BY <1>2, <2>2, <2>6
<1>3. CASE ~Lexical
  <2>1. PICK f \in BOOLEAN : h = [head EXCEPT !.seq = head.seq + 1, !.fresh = f]
    BY <1>3 DEF Candidates
  <2>2. head = [seq |-> head.seq, boundary |-> head.boundary, corpus |-> head.corpus,
                fresh |-> head.fresh]
    BY DEF TypeOK, HeadRecord
  <2>3. h = [seq |-> head.seq + 1, boundary |-> head.boundary, corpus |-> head.corpus, fresh |-> f]
    BY <2>1, <2>2
  <2>4. h.boundary = head.boundary
    BY <2>3
  <2>5. h \in HeadRecord
    BY <1>1, <2>3 DEF HeadRecord
  <2> QED BY <1>3, <2>4, <2>5
<1> QED BY <1>2, <1>3

\* Each step keeps the types.
LEMMA TypeStep ==
  ASSUME TypeOK, Buffered, Stages, [Next]_vars PROVE TypeOK'
<1> USE DEF TypeOK, callVars, headVars, workVars
<1>1. ASSUME NEW i \in Intent, Enqueue(i) PROVE TypeOK'
  <2>1. CASE Push({i})
    <3>1. queue' \in Seq(Intent) /\ signals' \in Nat /\ answer' \in [Intent -> Answers]
      <4>1. "open" \in Answers
        BY DEF Answers
      <4>2. queue' = Append(queue, i) /\ signals' = signals + 1 /\ answer' = [answer EXCEPT ![i] = "open"]
        BY <2>1, PushOne
      <4>3. answer' \in [Intent -> Answers]
        BY <4>1, <4>2
      <4> QED BY <4>2, <4>3
    <3>2. head.corpus \in Nat
      BY DEF HeadRecord
    <3>3. scans' \in Nat /\ goal' \in [Intent -> Nat]
      BY <1>1, <3>2 DEF Enqueue
    <3>4. UNCHANGED <<lane, retired, callVars, head, current, workVars>>
      BY <1>1 DEF Enqueue
    <3> QED BY <3>1, <3>3, <3>4
  <2>2. CASE ~Push({i})
    BY <1>1, <2>2 DEF Enqueue, Answers
  <2> QED BY <2>1, <2>2
<1>2. ASSUME NEW i \in Intent, Debounce(i) PROVE TypeOK'
  BY <1>2 DEF Debounce
<1>3. CASE Drain
  <2>1. promised' \in SUBSET Intent
    BY <1>3 DEF Drain, Pending
  <2>2. CASE Flush("drain")
    BY <1>3, <2>1, <2>2, FlushTypes DEF Drain
  <2>3. CASE ~Flush("drain")
    BY <1>3, <2>1, <2>3 DEF Drain
  <2> QED BY <2>2, <2>3
<1>4. CASE DrainWaits
  BY <1>4 DEF DrainWaits
<1>5. CASE Stop
  <2>1. CASE Flush("stop")
    BY <1>5, <2>1, FlushTypes DEF Stop
  <2>2. CASE ~Flush("stop")
    BY <1>5, <2>2 DEF Stop
  <2> QED BY <2>1, <2>2
<1>6. CASE Halt
  BY <1>6 DEF Halt
<1>7. CASE StopNow
  BY <1>7 DEF StopNow, Told, Answers
<1>8. CASE ReadWorld
  <2>1. base' \in HeadRecord
    BY <1>8 DEF ReadWorld, Head0, HeadRecord
  <2> QED BY <1>8, <2>1 DEF ReadWorld
<1>19. CASE FinishBatch
  <2>1. base' \in HeadRecord
    BY <1>19 DEF FinishBatch, Head0, HeadRecord
  <2> QED BY <1>19, <2>1 DEF FinishBatch
<1>20. CASE EnumerateFails
  BY <1>20 DEF EnumerateFails
<1>21. CASE Fold
  BY <1>21 DEF Fold
<1>22. CASE LaneStops
  BY <1>22 DEF LaneStops
<1>9. CASE RejectBatch
  <2>1. answer' \in [Intent -> Answers]
    BY <1>9, ToldTypes DEF RejectBatch, Answers
  <2> QED BY <1>9, <2>1 DEF RejectBatch
<1>23. CASE DropRetired
  <2>1. answer' \in [Intent -> Answers]
    BY <1>23, ToldTypes DEF DropRetired, Answers
  <2>2. folded' \in Seq(Intent)
    BY <1>23 DEF DropRetired, Acting
  <2> QED BY <1>23, <2>1, <2>2 DEF DropRetired
<1>10. CASE TakeGroup
  <2>1. PICK n \in 1..Len(folded) :
          LET g == SubSeq(folded, 1, n) IN
          /\ answer' = Filtered(base, g)
          /\ group' = Remaining(base, g)
          /\ lane' = IF Remaining(base, g) = << >> THEN "acting" ELSE "building"
          /\ folded' = SubSeq(folded, n + 1, Len(folded))
    BY <1>10 DEF TakeGroup, TakeGroup_Retired
  <2>2. SubSeq(folded, 1, n) \in Seq(Intent) /\ SubSeq(folded, n + 1, Len(folded)) \in Seq(Intent)
    OBVIOUS
  <2>3. retries' = 0 /\ UNCHANGED <<queue, signals, retired, callVars, headVars, base, expected>>
    BY <1>10 DEF TakeGroup, TakeGroup_Retired
  <2>4. answer' \in [Intent -> Answers] /\ group' \in Seq(Intent) /\ folded' \in Seq(Intent)
    BY <2>1, <2>2, FilterTypes
  <2>5. lane' \in {"acting", "building"}
    BY <2>1
  <2> QED BY <2>3, <2>4, <2>5
<1>11. CASE ActJournal
  <2>1. answer' \in [Intent -> Answers]
    BY <1>11, ToldTypes DEF ActJournal, Answers
  <2>2. folded' \in Seq(Intent) /\ Head(folded) \in Intent
    BY <1>11 DEF ActJournal, Acting
  <2>3. group' \in Seq(Intent)
    <3>1. group' = group \/ group' = <<Head(folded)>>
      BY <1>11 DEF ActJournal
    <3> QED BY <2>2, <3>1, ShortSequences
  <2> QED BY <1>11, <2>1, <2>2, <2>3 DEF ActJournal
<1>12. CASE BeginClear
  <2>1. answer' \in [Intent -> Answers]
    BY <1>12, ToldTypes DEF BeginClear, Answers
  <2>2. folded' \in Seq(Intent) /\ Head(folded) \in Intent
    BY <1>12 DEF BeginClear, Acting
  <2>3. group' \in Seq(Intent)
    BY <1>12, <2>2 DEF BeginClear
  <2> QED BY <1>12, <2>1, <2>2, <2>3 DEF BeginClear
<1>13. CASE EndClear
  <2>1. answer' \in [Intent -> Answers]
    BY <1>13, ToldTypes DEF EndClear, Answers
  <2>2. Head0 \in HeadRecord
    BY DEF Head0, HeadRecord
  <2>3. base' \in HeadRecord /\ head' \in HeadRecord
    BY <1>13, <2>2 DEF EndClear
  <2>4. group' \in Seq(Intent) /\ lane' \in {"acting", "failing"}
    BY <1>13, ShortSequences DEF EndClear
  <2>5. UNCHANGED <<queue, signals, retired, callVars, current, scans, goal, folded, expected, retries>>
    BY <1>13 DEF EndClear
  <2> QED BY <2>1, <2>3, <2>4, <2>5
<1>14. CASE BuildReady \/ BuildThrows \/ CommitThrows
  BY <1>14 DEF BuildReady, BuildThrows, CommitThrows
<1>24. CASE BuildDrops \/ CommitRefused
  <2>1. answer' \in [Intent -> Answers]
    BY <1>24, ToldTypes DEF BuildDrops, CommitRefused, EndGroup, Answers
  <2>2. group' \in Seq(Intent) /\ lane' = "acting"
    BY <1>24, ShortSequences DEF BuildDrops, CommitRefused, EndGroup
  <2>3. UNCHANGED <<queue, signals, retired, callVars, headVars, folded, base, expected, retries>>
    BY <1>24 DEF BuildDrops, CommitRefused
  <2> QED BY <2>1, <2>2, <2>3
<1>25. CASE ReadToken
  <2>1. answer' \in [Intent -> Answers]
    BY <1>25, ToldTypes DEF ReadToken, EndGroup, Answers
  <2>2. head.seq \in Nat
    BY DEF HeadRecord
  <2>3. group' \in Seq(Intent) /\ lane' \in {"acting", "committing"} /\ expected' \in Nat
    BY <1>25, <2>2, ShortSequences DEF ReadToken, EndGroup
  <2>4. UNCHANGED <<queue, signals, retired, callVars, headVars, folded, base, retries>>
    BY <1>25 DEF ReadToken
  <2> QED BY <2>1, <2>3, <2>4
<1>15. CASE Commit
  <2>1. PICK h \in Candidates :
          /\ head' = h /\ base' = h
          /\ answer' = [i \in Intent |->
               IF i \in ToSet(group) /\ IsOpen(i) THEN CommitAnswer(h, i) ELSE answer[i]]
    BY <1>15 DEF Commit
  <2>2. Representative \in Intent
    BY <1>15 DEF Commit, Stages, Representative, Last
  <2>3. h \in HeadRecord
    <3>1. goal[Representative] \in Nat
      BY <2>2
    <3> QED BY <3>1, CandidateType, <2>1
  <2>4. answer' \in [Intent -> Answers]
    BY <2>1 DEF CommitAnswer, Answers
  <2> QED BY <1>15, <2>1, <2>3, <2>4 DEF Commit
<1>16. CASE CommitNotHead
  <2>1. Remaining(head, group) \in Seq(Intent) /\ Filtered(head, group) \in [Intent -> Answers]
    BY FilterTypes
  <2>2. group' \in Seq(Intent) /\ lane' \in {"acting", "building"}
    BY <1>16, <2>1, ShortSequences DEF CommitNotHead
  <2>3. retries' \in 0..MaxRetries
    BY <1>16 DEF CommitNotHead
  <2>4. answer' \in [Intent -> Answers]
    <3>1. \/ answer' = Filtered(head, group)
          \/ answer' = [i \in Intent |->
               IF i \in ToSet(Remaining(head, group)) /\ IsOpen(i) THEN "rejected"
               ELSE Filtered(head, group)[i]]
      BY <1>16 DEF CommitNotHead
    <3>2. "rejected" \in Answers
      BY DEF Answers
    <3> QED BY <2>1, <3>1, <3>2
  <2>5. base' \in HeadRecord
    BY <1>16 DEF CommitNotHead
  <2>6. UNCHANGED <<queue, signals, retired, callVars, headVars, folded, expected>>
    BY <1>16 DEF CommitNotHead
  <2> QED BY <2>2, <2>3, <2>4, <2>5, <2>6
<1>17. CASE SiblingCommit
  <2>1. head.seq \in Nat /\ head.corpus \in Nat /\ head.boundary \in Nat
    BY DEF HeadRecord
  <2>2. head' \in HeadRecord
    <3>1. CASE \E b \in head.boundary + 1 .. scans + 1, c \in {head.corpus, head.corpus + 1} :
                 head' = [seq |-> head.seq + 1, boundary |-> b, corpus |-> c, fresh |-> FALSE]
      BY <2>1, <3>1 DEF HeadRecord
    <3>2. CASE head' = [head EXCEPT !.seq = @ + 1, !.fresh = TRUE]
      <4>1. head = [seq |-> head.seq, boundary |-> head.boundary, corpus |-> head.corpus,
                    fresh |-> head.fresh]
        BY DEF HeadRecord
      <4>2. head' = [seq |-> head.seq + 1, boundary |-> head.boundary, corpus |-> head.corpus,
                     fresh |-> TRUE]
        BY <3>2, <4>1
      <4> QED BY <2>1, <4>2 DEF HeadRecord
    <3> QED BY <1>17, <3>1, <3>2 DEF SiblingCommit
  <2> QED BY <1>17, <2>2 DEF SiblingCommit
<1>18. CASE Supersede \/ UNCHANGED vars
  BY <1>18, ZenonT(60) DEF Supersede, vars
<1> QED BY <1>1, <1>2, <1>3, <1>4, <1>5, <1>6, <1>7, <1>8, <1>9, <1>10, <1>11, <1>12, <1>13,
           <1>14, <1>15, <1>16, <1>17, <1>18, <1>19, <1>20, <1>21, <1>22, <1>23, <1>24, <1>25 DEF Next, Caller, Loop

-----------------------------------------------------------------------------
(* What is on hand.                                                        *)

\* The members that are left out are gone, the others are there once.
LEMMA FactsOfLeaves ==
  ASSUME NEW s \in Seq(Intent), NEW t \in Seq(Intent), NEW S, NEW at, Leaves(s, S, t, at), Once(s)
  PROVE  Once(t) /\ \A i : i \in ToSet(t) <=> i \in ToSet(s) /\ i \notin S
<1>1. \A k \in 1..Len(t) : at[k] \in 1..Len(s) /\ t[k] = s[at[k]] /\ t[k] \notin S
  BY DEF Leaves
<1>2. DOMAIN t = 1..Len(t) /\ DOMAIN s = 1..Len(s) /\ Len(t) \in Nat /\ Len(s) \in Nat
  OBVIOUS
<1>3. Once(t)
  <2> SUFFICES ASSUME NEW j \in 1..Len(t), NEW k \in 1..Len(t), t[j] = t[k] PROVE j = k
    BY <1>2 DEF Once
  <2>1. at[j] = at[k]
    BY <1>1, <1>2 DEF Once
  <2>2. \A a, b \in 1..Len(t) : a < b => at[a] < at[b]
    BY DEF Leaves
  <2>3. at[j] \in Nat /\ at[k] \in Nat
    BY <1>1
  <2>4. ~(j < k) /\ ~(k < j)
    BY <2>1, <2>2, <2>3
  <2> QED BY <2>4, <1>2
<1>4. \A i \in ToSet(t) : i \in ToSet(s) /\ i \notin S
  BY <1>1, <1>2 DEF ToSet
<1>5. \A i \in ToSet(s) : i \notin S => i \in ToSet(t)
  BY <1>1, <1>2 DEF ToSet, Leaves
<1> QED BY <1>3, <1>4, <1>5

\* An answer that ends an intent leaves the others as they are.
LEMMA ToldIs ==
  ASSUME TypeOK, NEW S, NEW r, r # "open"
  PROVE  \A i \in Intent : /\ Told(S, r)[i] = "open" <=> IsOpen(i) /\ i \notin S
                           /\ Told(S, r)[i] # answer[i] => IsOpen(i) /\ Told(S, r)[i] = r
BY DEF TypeOK, Told, IsOpen

\* Filtering answers exactly the members of the group that it takes out.
LEMMA FilterIs ==
  ASSUME TypeOK, NEW h, NEW g \in Seq(Intent), AllOpen(g), Once(g)
  PROVE  /\ Once(Remaining(h, g))
         /\ \A i \in ToSet(Remaining(h, g)) : i \in ToSet(g)
         /\ \A i \in ToSet(g) : i \in ToSet(Remaining(h, g)) <=> ~Covers(h, i) /\ ~NotReady(h, i)
         /\ \A i \in ToSet(g) : Filtered(h, g)[i] = "open" <=> i \in ToSet(Remaining(h, g))
         /\ \A i \in Intent : i \notin ToSet(g) => Filtered(h, g)[i] = answer[i]
<1> DEFINE S == {i \in Intent : Covers(h, i) \/ NotReady(h, i)}
           t == Remaining(h, g)
<1>1. t \in Seq(Intent) /\ \E at : Leaves(g, S, t, at)
  BY WithoutIs DEF Remaining
<1> HIDE DEF t
<1>2. PICK at : Leaves(g, S, t, at)
  BY <1>1
<1>5. Once(t)
  BY <1>1, <1>2, FactsOfLeaves
<1>6. \A i \in ToSet(t) : i \in ToSet(g) /\ i \notin S
  BY <1>1, <1>2, FactsOfLeaves
<1>7. \A i \in ToSet(g) : i \notin S => i \in ToSet(t)
  BY <1>1, <1>2, FactsOfLeaves
<1>8. \A i \in ToSet(g) : i \in Intent /\ answer[i] = "open"
  BY DEF ToSet, AllOpen, IsOpen
<1>9. \A i \in ToSet(g) : Filtered(h, g)[i] = "open" <=> i \notin S
  BY <1>8 DEF Filtered
<1>10. \A i \in Intent : i \notin ToSet(g) => Filtered(h, g)[i] = answer[i]
  BY DEF Filtered
<1> QED BY <1>5, <1>6, <1>7, <1>8, <1>9, <1>10 DEF t

\* Facts about sequences that the steps use.
LEMMA SequenceFacts ==
  /\ ToSet(<< >>) = {} /\ Once(<< >>)
  /\ \A s : Apart(<< >>, s) /\ Apart(s, << >>)
  /\ \A i \in Intent : ToSet(<<i>>) = {i} /\ Once(<<i>>)
  /\ \A s, t \in Seq(Intent) : ToSet(s \o t) = ToSet(s) \cup ToSet(t)
<1>1. \A i \in Intent : ToSet(<<i>>) = {i} /\ Once(<<i>>)
  BY DEF ToSet, Once
<1>2. \A s, t \in Seq(Intent) : ToSet(s \o t) = ToSet(s) \cup ToSet(t)
  <2> SUFFICES ASSUME NEW s \in Seq(Intent), NEW t \in Seq(Intent)
               PROVE  ToSet(s \o t) = ToSet(s) \cup ToSet(t)
    OBVIOUS
  <2>1. /\ DOMAIN (s \o t) = 1..(Len(s) + Len(t)) /\ Len(s) \in Nat /\ Len(t) \in Nat
        /\ DOMAIN s = 1..Len(s) /\ DOMAIN t = 1..Len(t)
        /\ \A k \in 1..Len(s) : (s \o t)[k] = s[k]
        /\ \A k \in 1..Len(t) : (s \o t)[Len(s) + k] = t[k]
    OBVIOUS
  <2>2. \A k \in 1..(Len(s) + Len(t)) : k \in 1..Len(s) \/ k - Len(s) \in 1..Len(t)
    BY <2>1
  <2>3. \A k \in 1..(Len(s) + Len(t)) : (s \o t)[k] \in ToSet(s) \cup ToSet(t)
    <3> SUFFICES ASSUME NEW k \in 1..(Len(s) + Len(t)) PROVE (s \o t)[k] \in ToSet(s) \cup ToSet(t)
      OBVIOUS
    <3>1. CASE k \in 1..Len(s)
      BY <2>1, <3>1 DEF ToSet
    <3>2. CASE k - Len(s) \in 1..Len(t)
      <4>1. k = Len(s) + (k - Len(s))
        BY <2>1
      <4>2. (s \o t)[k] = t[k - Len(s)]
        BY <2>1, <3>2, <4>1
      <4> QED BY <2>1, <3>2, <4>2 DEF ToSet
    <3> QED BY <2>2, <3>1, <3>2
  <2>4. ToSet(s) \subseteq ToSet(s \o t)
    <3>1. \A k \in 1..Len(s) : k \in 1..(Len(s) + Len(t))
      BY <2>1
    <3> QED BY <2>1, <3>1 DEF ToSet
  <2>5. ToSet(t) \subseteq ToSet(s \o t)
    <3>1. \A k \in 1..Len(t) : Len(s) + k \in 1..(Len(s) + Len(t))
      BY <2>1
    <3> QED BY <2>1, <3>1 DEF ToSet
  <2> QED BY <2>1, <2>3, <2>4, <2>5 DEF ToSet
<1>3. ToSet(<< >>) = {} /\ Once(<< >>) /\ \A s : Apart(<< >>, s) /\ Apart(s, << >>)
  BY DEF ToSet, Once, Apart
<1> QED BY <1>1, <1>2, <1>3

\* A batch that is not empty is its first intent and the others.
LEMMA FirstAndRest ==
  ASSUME NEW s \in Seq(Intent), s # << >>
  PROVE  /\ Head(s) \in Intent /\ Tail(s) \in Seq(Intent)
         /\ ToSet(s) = {Head(s)} \cup ToSet(Tail(s))
         /\ Once(s) => Head(s) \notin ToSet(Tail(s)) /\ Once(Tail(s))
<1>1. /\ Len(s) \in Nat /\ Len(s) >= 1 /\ DOMAIN s = 1..Len(s) /\ Head(s) = s[1]
      /\ Tail(s) \in Seq(Intent) /\ DOMAIN Tail(s) = 1..(Len(s) - 1)
      /\ \A k \in 1..(Len(s) - 1) : Tail(s)[k] = s[k + 1]
  OBVIOUS
<1>2. Head(s) \in Intent
  OBVIOUS
<1>3. ToSet(s) = {Head(s)} \cup ToSet(Tail(s))
  <2>1. \A k \in 1..Len(s) : k = 1 \/ k - 1 \in 1..(Len(s) - 1)
    BY <1>1
  <2>2. \A k \in 1..Len(s) : k # 1 => s[k] = Tail(s)[k - 1]
    <3> SUFFICES ASSUME NEW k \in 1..Len(s), k # 1 PROVE s[k] = Tail(s)[k - 1]
      OBVIOUS
    <3>1. k - 1 \in 1..(Len(s) - 1) /\ (k - 1) + 1 = k
      BY <1>1
    <3> QED BY <1>1, <3>1
  <2>3. \A k \in 1..(Len(s) - 1) : k + 1 \in 1..Len(s)
    BY <1>1
  <2> QED BY <1>1, <2>1, <2>2, <2>3 DEF ToSet
<1>4. ASSUME Once(s) PROVE Head(s) \notin ToSet(Tail(s)) /\ Once(Tail(s))
  <2>1. \A k \in 1..(Len(s) - 1) : k + 1 \in 1..Len(s) /\ k + 1 # 1
    BY <1>1
  <2>2. Head(s) \notin ToSet(Tail(s))
    BY <1>1, <1>4, <2>1 DEF ToSet, Once
  <2>3. \A j, k \in 1..(Len(s) - 1) : Tail(s)[j] = Tail(s)[k] => j + 1 = k + 1
    BY <1>1, <1>4, <2>1, SMTT(60) DEF Once
  <2> QED BY <1>1, <2>2, <2>3 DEF Once
<1> QED BY <1>1, <1>2, <1>3, <1>4

\* A batch is its first n intents and the others.
LEMMA GroupAndRest ==
  ASSUME NEW s \in Seq(Intent), NEW n \in 1..Len(s)
  PROVE  LET g == SubSeq(s, 1, n)
             t == SubSeq(s, n + 1, Len(s))
         IN  /\ g \in Seq(Intent) /\ t \in Seq(Intent)
             /\ Len(g) = n /\ \A k \in 1..n : g[k] = s[k]
             /\ Len(t) = Len(s) - n /\ \A k \in 1..(Len(s) - n) : t[k] = s[n + k]
             /\ ToSet(s) = ToSet(g) \cup ToSet(t)
             /\ Once(s) => Once(g) /\ Once(t) /\ ToSet(g) \cap ToSet(t) = {}
<1> DEFINE g == SubSeq(s, 1, n)
           t == SubSeq(s, n + 1, Len(s))
<1>1. /\ g \in Seq(Intent) /\ t \in Seq(Intent) /\ Len(s) \in Nat /\ DOMAIN s = 1..Len(s)
      /\ Len(g) = n /\ DOMAIN g = 1..n /\ \A k \in 1..n : g[k] = s[k]
  OBVIOUS
<1>2. /\ Len(t) = Len(s) - n /\ DOMAIN t = 1..(Len(s) - n)
      /\ \A k \in 1..(Len(s) - n) : t[k] = s[n + k]
  OBVIOUS
<1> HIDE DEF g, t
<1>3. \A k \in 1..(Len(s) - n) : n + k \in 1..Len(s)
  BY <1>1
<1>4. \A k \in 1..Len(s) : k \in 1..n \/ (k - n \in 1..(Len(s) - n) /\ n + (k - n) = k)
  BY <1>1
<1>5. ToSet(s) = ToSet(g) \cup ToSet(t)
  <2>1. \A k \in 1..n : k \in 1..Len(s)
    BY <1>1
  <2>2. \A k \in 1..Len(s) : k \notin 1..n => s[k] = t[k - n]
    BY <1>2, <1>4
  <2>3. ToSet(s) \subseteq ToSet(g) \cup ToSet(t)
    <3> SUFFICES ASSUME NEW k \in 1..Len(s) PROVE s[k] \in ToSet(g) \cup ToSet(t)
      BY <1>1 DEF ToSet
    <3>1. CASE k \in 1..n
      BY <1>1, <3>1 DEF ToSet
    <3>2. CASE k \notin 1..n
      <4>1. k - n \in DOMAIN t /\ s[k] = t[k - n]
        BY <1>2, <1>4, <2>2, <3>2
      <4> QED BY <4>1 DEF ToSet
    <3> QED BY <3>1, <3>2
  <2>4. ToSet(g) \subseteq ToSet(s)
    BY <1>1, <2>1 DEF ToSet
  <2>5. ToSet(t) \subseteq ToSet(s)
    <3> SUFFICES ASSUME NEW k \in 1..(Len(s) - n) PROVE t[k] \in ToSet(s)
      BY <1>2 DEF ToSet
    <3>1. n + k \in DOMAIN s /\ t[k] = s[n + k]
      BY <1>1, <1>2, <1>3
    <3> QED BY <3>1 DEF ToSet
  <2> QED BY <2>3, <2>4, <2>5
<1>6. ASSUME Once(s) PROVE Once(g) /\ Once(t) /\ ToSet(g) \cap ToSet(t) = {}
  <2>1. \A k \in 1..n : k \in 1..Len(s)
    BY <1>1
  <2>2. Once(g)
    BY <1>1, <1>6, <2>1 DEF Once
  <2>3. \A j, k \in 1..(Len(s) - n) : t[j] = t[k] => n + j = n + k
    <3> SUFFICES ASSUME NEW j \in 1..(Len(s) - n), NEW k \in 1..(Len(s) - n), t[j] = t[k]
                 PROVE  n + j = n + k
      OBVIOUS
    <3>1. n + j \in DOMAIN s /\ n + k \in DOMAIN s /\ s[n + j] = s[n + k]
      BY <1>1, <1>2, <1>3
    <3> QED BY <1>6, <3>1 DEF Once
  <2>4. Once(t)
    BY <1>1, <1>2, <2>3 DEF Once
  <2>5. \A j \in 1..n, k \in 1..(Len(s) - n) : j # n + k
    BY <1>1
  <2>6. \A j \in 1..n, k \in 1..(Len(s) - n) : g[j] # t[k]
    BY <1>1, <1>2, <1>3, <1>6, <2>1, <2>5, ZenonT(60) DEF Once
  <2>7. ToSet(g) \cap ToSet(t) = {}
    BY <1>1, <1>2, <2>6 DEF ToSet
  <2> QED BY <2>2, <2>4, <2>7
<1> QED BY <1>1, <1>2, <1>5, <1>6 DEF g, t

\* An intent at the end of a queue.
LEMMA FactsOfAppend ==
  ASSUME NEW s \in Seq(Intent), NEW i \in Intent
  PROVE  /\ ToSet(Append(s, i)) = ToSet(s) \cup {i}
         /\ Once(s) /\ i \notin ToSet(s) => Once(Append(s, i))
<1>1. /\ Len(s) \in Nat /\ DOMAIN s = 1..Len(s) /\ DOMAIN Append(s, i) = 1..(Len(s) + 1)
      /\ \A k \in 1..Len(s) : Append(s, i)[k] = s[k]
      /\ Append(s, i)[Len(s) + 1] = i
  OBVIOUS
<1>2. \A k \in 1..(Len(s) + 1) : k \in 1..Len(s) \/ k = Len(s) + 1
  BY <1>1
<1>3. \A k \in 1..Len(s) : k \in 1..(Len(s) + 1)
  BY <1>1
<1>4. Len(s) + 1 \in 1..(Len(s) + 1)
  BY <1>1
<1> QED BY <1>1, <1>2, <1>3, <1>4 DEF ToSet, Once

\* Two sequences in a row.
LEMMA FactsOfConcat ==
  ASSUME NEW s \in Seq(Intent), NEW t \in Seq(Intent)
  PROVE  /\ s \o t \in Seq(Intent)
         /\ ToSet(s \o t) = ToSet(s) \cup ToSet(t)
         /\ Once(s \o t) => Once(s) /\ Once(t) /\ Apart(s, t)
<1>1. /\ DOMAIN (s \o t) = 1..(Len(s) + Len(t)) /\ Len(s) \in Nat /\ Len(t) \in Nat
      /\ DOMAIN s = 1..Len(s) /\ DOMAIN t = 1..Len(t)
      /\ \A k \in 1..Len(s) : (s \o t)[k] = s[k]
      /\ \A k \in 1..Len(t) : (s \o t)[Len(s) + k] = t[k]
  OBVIOUS
<1>2. /\ \A k \in 1..Len(s) : k \in 1..(Len(s) + Len(t))
      /\ \A k \in 1..Len(t) : Len(s) + k \in 1..(Len(s) + Len(t))
      /\ \A j \in 1..Len(s), k \in 1..Len(t) : j # Len(s) + k
  BY <1>1
<1>3. ASSUME Once(s \o t) PROVE Once(s) /\ Once(t) /\ Apart(s, t)
  <2>1. Once(s)
    BY <1>1, <1>2, <1>3 DEF Once
  <2>2. \A j, k \in 1..Len(t) : t[j] = t[k] => Len(s) + j = Len(s) + k
    BY <1>1, <1>2, <1>3 DEF Once
  <2>3. Once(t)
    BY <1>1, <2>2 DEF Once
  <2>4. \A j \in 1..Len(s), k \in 1..Len(t) : s[j] # t[k]
    BY <1>1, <1>2, <1>3 DEF Once
  <2>5. Apart(s, t)
    BY <1>1, <2>4 DEF Apart, ToSet
  <2> QED BY <2>1, <2>3, <2>5
<1> QED BY <1>3, SequenceFacts

-----------------------------------------------------------------------------
(* Leaving some members of a sequence out.                                 *)

\* All of them are left out.
LEMMA LeavesAll ==
  ASSUME NEW s \in Seq(Intent), NEW S, ToSet(s) \subseteq S
  PROVE  Leaves(s, S, << >>, << >>)
BY DEF Leaves, ToSet

\* None of them.
LEMMA LeavesNone ==
  ASSUME NEW s \in Seq(Intent), NEW S, ToSet(s) \cap S = {}
  PROVE  Leaves(s, S, s, [k \in 1..Len(s) |-> k])
BY DEF Leaves, ToSet

\* Two sequences in a row are left out of one after the other.
LEMMA LeavesConcat ==
  ASSUME NEW s \in Seq(Intent), NEW t \in Seq(Intent), NEW v \in Seq(Intent), NEW w \in Seq(Intent),
         NEW S, NEW a, NEW b, Leaves(s, S, v, a), Leaves(t, S, w, b)
  PROVE  \E at : Leaves(s \o t, S, v \o w, at)
<1> DEFINE at == [k \in 1..(Len(v) + Len(w)) |->
                    IF k <= Len(v) THEN a[k] ELSE Len(s) + b[k - Len(v)]]
<1>1. /\ Len(s) \in Nat /\ Len(t) \in Nat /\ Len(v) \in Nat /\ Len(w) \in Nat
      /\ Len(s \o t) = Len(s) + Len(t) /\ Len(v \o w) = Len(v) + Len(w)
      /\ \A k \in 1..Len(s) : (s \o t)[k] = s[k]
      /\ \A k \in 1..Len(t) : (s \o t)[Len(s) + k] = t[k]
      /\ \A k \in 1..Len(v) : (v \o w)[k] = v[k]
      /\ \A k \in 1..Len(w) : (v \o w)[Len(v) + k] = w[k]
  OBVIOUS
<1>2. /\ \A k \in 1..Len(v) : a[k] \in 1..Len(s) /\ v[k] = s[a[k]] /\ s[a[k]] \notin S
      /\ \A k \in 1..Len(w) : b[k] \in 1..Len(t) /\ w[k] = t[b[k]] /\ t[b[k]] \notin S
      /\ \A j, k \in 1..Len(v) : j < k => a[j] < a[k]
      /\ \A j, k \in 1..Len(w) : j < k => b[j] < b[k]
  BY DEF Leaves
<1>3. \A k \in 1..Len(v) : k \in 1..(Len(v) + Len(w)) /\ at[k] = a[k]
  BY <1>1
<1>4. \A k \in 1..Len(w) : Len(v) + k \in 1..(Len(v) + Len(w)) /\ at[Len(v) + k] = Len(s) + b[k]
  <2> SUFFICES ASSUME NEW k \in 1..Len(w)
               PROVE  Len(v) + k \in 1..(Len(v) + Len(w)) /\ at[Len(v) + k] = Len(s) + b[k]
    OBVIOUS
  <2>1. Len(v) + k \in 1..(Len(v) + Len(w)) /\ ~(Len(v) + k <= Len(v)) /\ (Len(v) + k) - Len(v) = k
    BY <1>1
  <2> QED BY <2>1
<1>5. \A k \in 1..(Len(v) + Len(w)) : \/ k \in 1..Len(v)
                                     \/ \E j \in 1..Len(w) : k = Len(v) + j
  <2> SUFFICES ASSUME NEW k \in 1..(Len(v) + Len(w)), k \notin 1..Len(v)
               PROVE  \E j \in 1..Len(w) : k = Len(v) + j
    OBVIOUS
  <2>1. k - Len(v) \in 1..Len(w) /\ k = Len(v) + (k - Len(v))
    BY <1>1
  <2> QED BY <2>1
<1>6. DOMAIN at = 1..(Len(v) + Len(w))
  OBVIOUS
<1> HIDE DEF at
<1>7. \A k \in 1..(Len(v) + Len(w)) :
        /\ at[k] \in 1..(Len(s) + Len(t))
        /\ (v \o w)[k] = (s \o t)[at[k]] /\ (s \o t)[at[k]] \notin S
  <2> SUFFICES ASSUME NEW k \in 1..(Len(v) + Len(w))
               PROVE  /\ at[k] \in 1..(Len(s) + Len(t))
                      /\ (v \o w)[k] = (s \o t)[at[k]] /\ (s \o t)[at[k]] \notin S
    OBVIOUS
  <2>1. CASE k \in 1..Len(v)
    <3>1. at[k] = a[k] /\ a[k] \in 1..Len(s) /\ a[k] \in 1..(Len(s) + Len(t))
      BY <1>1, <1>2, <1>3, <2>1
    <3> QED BY <1>1, <1>2, <2>1, <3>1
  <2>2. ASSUME NEW j \in 1..Len(w), k = Len(v) + j
        PROVE  /\ at[k] \in 1..(Len(s) + Len(t))
               /\ (v \o w)[k] = (s \o t)[at[k]] /\ (s \o t)[at[k]] \notin S
    <3>1. at[k] = Len(s) + b[j] /\ b[j] \in 1..Len(t)
      BY <1>2, <1>4, <2>2
    <3>2. Len(s) + b[j] \in 1..(Len(s) + Len(t))
      BY <1>1, <3>1
    <3>3. (v \o w)[k] = w[j] /\ (s \o t)[at[k]] = t[b[j]]
      BY <1>1, <2>2, <3>1
    <3> QED BY <1>2, <3>1, <3>2, <3>3
  <2> QED BY <1>5, <2>1, <2>2
<1>8. at \in [1..Len(v \o w) -> 1..Len(s \o t)]
  <2>1. at = [k \in 1..(Len(v) + Len(w)) |-> at[k]]
    BY <1>6 DEF at
  <2> QED BY <1>1, <1>7, <2>1
<1>9. \A j, k \in 1..(Len(v) + Len(w)) : j < k => at[j] < at[k]
  <2> SUFFICES ASSUME NEW j \in 1..(Len(v) + Len(w)), NEW k \in 1..(Len(v) + Len(w)), j < k
               PROVE  at[j] < at[k]
    OBVIOUS
  <2>1. CASE k \in 1..Len(v)
    <3>1. j \in 1..Len(v)
      BY <1>1, <2>1
    <3> QED BY <1>2, <1>3, <2>1, <3>1
  <2>2. ASSUME NEW l \in 1..Len(w), k = Len(v) + l PROVE at[j] < at[k]
    <3>1. at[k] = Len(s) + b[l] /\ b[l] \in 1..Len(t)
      BY <1>2, <1>4, <2>2
    <3>2. CASE j \in 1..Len(v)
      <4>1. at[j] = a[j] /\ a[j] \in 1..Len(s)
        BY <1>2, <1>3, <3>2
      <4> QED BY <1>1, <3>1, <4>1
    <3>3. ASSUME NEW i \in 1..Len(w), j = Len(v) + i PROVE at[j] < at[k]
      <4>1. i < l
        BY <1>1, <2>2, <3>3
      <4>2. at[j] = Len(s) + b[i] /\ b[i] \in 1..Len(t) /\ b[i] < b[l]
        BY <1>2, <1>4, <3>3, <4>1
      <4> QED BY <1>1, <3>1, <4>2
    <3> QED BY <1>5, <3>2, <3>3
  <2> QED BY <1>5, <2>1, <2>2
<1>10. \A n \in 1..(Len(s) + Len(t)) :
         (s \o t)[n] \notin S => \E k \in 1..(Len(v) + Len(w)) : at[k] = n
  <2> SUFFICES ASSUME NEW n \in 1..(Len(s) + Len(t)), (s \o t)[n] \notin S
               PROVE  \E k \in 1..(Len(v) + Len(w)) : at[k] = n
    OBVIOUS
  <2>1. CASE n \in 1..Len(s)
    <3>1. PICK k \in 1..Len(v) : a[k] = n
      BY <1>1, <2>1 DEF Leaves
    <3> QED BY <1>3, <3>1
  <2>2. CASE n \notin 1..Len(s)
    <3>1. n - Len(s) \in 1..Len(t) /\ n = Len(s) + (n - Len(s))
      BY <1>1, <2>2
    <3>2. t[n - Len(s)] \notin S
      BY <1>1, <3>1
    <3>3. PICK k \in 1..Len(w) : b[k] = n - Len(s)
      BY <3>1, <3>2 DEF Leaves
    <3> QED BY <1>4, <3>1, <3>3
  <2> QED BY <2>1, <2>2
<1>11. Leaves(s \o t, S, v \o w, at)
  BY <1>1, <1>7, <1>8, <1>9, <1>10 DEF Leaves
<1> QED BY <1>11
\* What is in a row may be grouped at will.
LEMMA Rows ==
  /\ \A s, t, u \in Seq(Intent) : (s \o t) \o u = s \o (t \o u)
  /\ \A s \in Seq(Intent) : << >> \o s = s /\ s \o << >> = s
  /\ \A s, t \in Seq(Intent), i \in Intent : s \o Append(t, i) = Append(s \o t, i)
  /\ \A s \in Seq(Intent) : s # << >> => <<Head(s)>> \o Tail(s) = s
  /\ \A s \in Seq(Intent) : \A n \in 1..Len(s) : SubSeq(s, 1, n) \o SubSeq(s, n + 1, Len(s)) = s
<1>1. \A s, t, u \in Seq(Intent) : (s \o t) \o u = s \o (t \o u)
  OBVIOUS
<1>2. \A s \in Seq(Intent) : << >> \o s = s /\ s \o << >> = s
  OBVIOUS
<1>3. \A s, t \in Seq(Intent), i \in Intent : s \o Append(t, i) = Append(s \o t, i)
  OBVIOUS
<1>4. \A s \in Seq(Intent) : s # << >> => <<Head(s)>> \o Tail(s) = s
  OBVIOUS
<1>5. \A s \in Seq(Intent) : \A n \in 1..Len(s) : SubSeq(s, 1, n) \o SubSeq(s, n + 1, Len(s)) = s
  OBVIOUS
<1> QED BY <1>1, <1>2, <1>3, <1>4, <1>5
\* Where nothing is left out, the sequence stays.
LEMMA WithoutNone ==
  ASSUME NEW X, NEW s \in Seq(X), NEW S, \A n \in DOMAIN s : s[n] \notin S
  PROVE  Without(s, S) = s
<1> DEFINE L == Len(s)
           N == 1..L
<1>1. L \in Nat /\ DOMAIN s = N
  OBVIOUS
<1>2. {n \in DOMAIN s : s[n] \notin S} = N
  BY <1>1
<1>3. IsFiniteSet(N) /\ Cardinality(N) = L /\ N \in SUBSET Nat
  <2>1. IsFiniteSet(1..L) /\ Cardinality(1..L) = IF 1 > L THEN 0 ELSE L - 1 + 1
    BY <1>1, FS_Interval
  <2> QED BY <1>1, <2>1
<1>4. /\ InOrder(N) \in [1..L -> N]
      /\ \A j, k \in 1..L : j < k => InOrder(N)[j] < InOrder(N)[k]
  BY <1>3, InOrderIs
<1>5. ASSUME NEW k \in 1..L PROVE InOrder(N)[k] = k
  <2>1. ASSUME NEW n \in N PROVE Rank(N, n) = n
    <3>1. {m \in N : m <= n} = 1..n
      BY <1>1, <2>1
    <3>2. n \in Nat /\ 1 <= n
      BY <1>1, <2>1
    <3>3. Cardinality(1..n) = IF 1 > n THEN 0 ELSE n - 1 + 1
      BY <3>2, FS_Interval
    <3>4. Cardinality(1..n) = n
      BY <3>2, <3>3
    <3>5. Rank(N, n) = Cardinality({m \in N : m <= n})
      BY DEF Rank
    <3> QED BY <3>1, <3>4, <3>5
  <2>2. InOrder(N)[k] = CHOOSE n \in N : Rank(N, n) = k
    BY <1>3 DEF InOrder, Rank
  <2>3. k \in N /\ Rank(N, k) = k
    BY <2>1
  <2>4. \A n \in N : Rank(N, n) = k => n = k
    BY <2>1
  <2> QED BY <2>2, <2>3, <2>4
<1>6. Without(s, S) = [k \in DOMAIN InOrder(N) |-> s[InOrder(N)[k]]]
  BY <1>2 DEF Without
<1>7. DOMAIN InOrder(N) = 1..L
  BY <1>4
<1>8. Without(s, S) = [k \in 1..L |-> s[k]]
  BY <1>5, <1>6, <1>7
<1> QED BY <1>1, <1>8

-----------------------------------------------------------------------------
(* Every step accepts, turns away, settles or does nothing.                *)

Accepts(i) ==
  /\ answer[i] = "none"
  /\ OnHand' = Append(OnHand, i)
  /\ answer' = [answer EXCEPT ![i] = "open"]

TurnsAway(i) ==
  /\ answer[i] = "none"
  /\ OnHand' = OnHand
  /\ \E r \in Desk!Refusal : answer' = [answer EXCEPT ![i] = r]

\* The intents of S, and no others, get an answer.
AnswersTo(S) ==
  /\ \A i \in Intent : i \notin S => answer'[i] = answer[i]
  /\ \A i \in S : answer'[i] \in Desk!Answer

Settles(S) ==
  /\ S # {} /\ S \subseteq ToSet(OnHand)
  /\ \E at : Leaves(OnHand, S, OnHand', at)
  /\ AnswersTo(S)
  /\ \A n \in DOMAIN OnHand : \A m \in 1..n :
       OnHand[n] \in S /\ answer'[OnHand[n]] \in Desk!InTurn => OnHand[m] \in S

Answering ==
  \/ OnHand' = OnHand /\ answer' = answer
  \/ \E S : Settles(S)

DeskStep == Answering \/ \E i \in Intent : Accepts(i) \/ TurnsAway(i)

\* What settles at the front of the row: all of p, or some of it out of turn.
LEMMA SettlesFront ==
  ASSUME TypeOK, Held, NEW p \in Seq(Intent), NEW q \in Seq(Intent), NEW v \in Seq(Intent),
         NEW S, NEW a, OnHand = p \o q, OnHand' = v \o q, S # {}, S \subseteq ToSet(p),
         Leaves(p, S, v, a), AnswersTo(S),
         S = ToSet(p) \/ \A i \in S : answer'[i] \notin Desk!InTurn
  PROVE  Settles(S)
<1>1. Once(OnHand) /\ ToSet(OnHand) = ToSet(p) \cup ToSet(q) /\ Apart(p, q)
  BY FactsOfConcat DEF Held
<1>2. ToSet(q) \cap S = {}
  BY <1>1 DEF Apart
<1>3. \E at : Leaves(OnHand, S, OnHand', at)
  <2>1. Leaves(q, S, q, [k \in 1..Len(q) |-> k])
    BY <1>2, LeavesNone
  <2> DEFINE b == [k \in 1..Len(q) |-> k]
  <2> HIDE DEF b
  <2>2. Leaves(q, S, q, b)
    BY <2>1 DEF b
  <2> QED BY <2>2, LeavesConcat
<1>4. ASSUME NEW n \in DOMAIN OnHand, NEW m \in 1..n,
             OnHand[n] \in S, answer'[OnHand[n]] \in Desk!InTurn
      PROVE  OnHand[m] \in S
  <2>1. S = ToSet(p)
    BY <1>4
  <2>2. /\ Len(p) \in Nat /\ Len(q) \in Nat /\ DOMAIN (p \o q) = 1..(Len(p) + Len(q))
        /\ DOMAIN p = 1..Len(p) /\ DOMAIN q = 1..Len(q)
        /\ \A k \in 1..Len(p) : (p \o q)[k] = p[k]
        /\ \A k \in 1..Len(q) : (p \o q)[Len(p) + k] = q[k]
    OBVIOUS
  <2>3. n \in 1..Len(p)
    <3> SUFFICES ASSUME n \notin 1..Len(p) PROVE FALSE
      OBVIOUS
    <3>1. n - Len(p) \in 1..Len(q) /\ n = Len(p) + (n - Len(p))
      BY <2>2, <1>4
    <3>2. OnHand[n] = q[n - Len(p)]
      BY <2>2, <3>1
    <3>3. OnHand[n] \in ToSet(q)
      BY <2>2, <3>1, <3>2 DEF ToSet
    <3> QED BY <1>2, <1>4, <3>3
  <2>4. m \in 1..Len(p)
    BY <2>2, <2>3
  <2>5. OnHand[m] = p[m]
    BY <2>2, <2>4
  <2> QED BY <2>1, <2>2, <2>4, <2>5 DEF ToSet
<1> QED BY <1>1, <1>3, <1>4 DEF Settles

\* What settles at the end of the row is refused.
LEMMA SettlesBack ==
  ASSUME TypeOK, Held, NEW p \in Seq(Intent), NEW q \in Seq(Intent),
         OnHand = p \o q, OnHand' = p, q # << >>, AnswersTo(ToSet(q)),
         \A i \in ToSet(q) : answer'[i] \notin Desk!InTurn
  PROVE  Settles(ToSet(q))
<1> DEFINE S == ToSet(q)
           b == [k \in 1..Len(p) |-> k]
           c == << >>
<1>1. Once(OnHand) /\ ToSet(OnHand) = ToSet(p) \cup S /\ Apart(p, q)
  BY FactsOfConcat DEF Held
<1>2. S # {}
  BY DEF ToSet
<1>3. Leaves(p, S, p, b)
  BY <1>1, LeavesNone DEF Apart
<1>4. Leaves(q, S, << >>, c)
  BY LeavesAll
<1> HIDE DEF S, b, c
<1>5. << >> \in Seq(Intent)
  BY ShortSequences
<1>6. \E at : Leaves(p \o q, S, p \o << >>, at)
  BY <1>3, <1>4, <1>5, LeavesConcat
<1>7. p \o << >> = p
  BY Rows
<1> QED BY <1>1, <1>2, <1>6, <1>7 DEF Settles, S
\* One answer told to open intents.
LEMMA ToldAnswers ==
  ASSUME TypeOK, NEW S, S \subseteq Pending, NEW r \in Desk!Answer, answer' = Told(S, r)
  PROVE  AnswersTo(S) /\ \A i \in S : answer'[i] = r
BY DEF TypeOK, Pending, Told, AnswersTo

\* The parts of what is on hand are open, and apart from each other.
LEMMA HeldParts ==
  ASSUME TypeOK, Held
  PROVE  /\ ToSet(group) \subseteq Pending /\ ToSet(folded) \subseteq Pending
         /\ ToSet(queue) \subseteq Pending
         /\ Once(group) /\ Once(folded) /\ Once(queue) /\ Once(group \o folded)
         /\ Apart(group, folded) /\ Apart(group \o folded, queue)
         /\ OnHand = group \o (folded \o queue)
         /\ ToSet(group \o folded) = ToSet(group) \cup ToSet(folded)
<1>1. group \in Seq(Intent) /\ folded \in Seq(Intent) /\ queue \in Seq(Intent)
  BY DEF TypeOK
<1>2. group \o folded \in Seq(Intent) /\ ToSet(group \o folded) = ToSet(group) \cup ToSet(folded)
  BY <1>1, FactsOfConcat
<1>3. ToSet(OnHand) = ToSet(group \o folded) \cup ToSet(queue)
  BY <1>1, <1>2, FactsOfConcat DEF OnHand
<1>4. Once(group \o folded) /\ Once(queue) /\ Apart(group \o folded, queue)
  BY <1>1, <1>2, FactsOfConcat DEF OnHand, Held
<1>5. Once(group) /\ Once(folded) /\ Apart(group, folded)
  BY <1>1, <1>4, FactsOfConcat
<1>6. ToSet(OnHand) \subseteq Pending
  <2> SUFFICES ASSUME NEW i \in ToSet(OnHand) PROVE i \in Pending
    OBVIOUS
  <2>1. OnHand \in Seq(Intent)
    BY <1>1, <1>2, FactsOfConcat DEF OnHand
  <2>2. i \in Intent
    BY <2>1 DEF ToSet
  <2> QED BY <2>2 DEF Held, AllOpen, Pending
<1>7. OnHand = group \o (folded \o queue)
  BY <1>1, Rows DEF OnHand
<1> QED BY <1>2, <1>3, <1>4, <1>5, <1>6, <1>7

\* The head of the batch is told r.
LEMMA SettlesHead ==
  ASSUME TypeOK, Held, Stages, Acting, NEW r \in Desk!Answer, answer' = Told({Head(folded)}, r),
         folded' = Tail(folded), UNCHANGED <<group, queue>>
  PROVE  Settles({Head(folded)})
<1> DEFINE i == Head(folded)
           p == <<i>>
           q == Tail(folded) \o queue
           v == << >>
           a == << >>
<1>1. /\ group = << >> /\ folded \in Seq(Intent) /\ folded # << >> /\ queue \in Seq(Intent)
  BY DEF Acting, Stages, TypeOK
<1>2. i \in Intent /\ Tail(folded) \in Seq(Intent) /\ i \in ToSet(folded)
  BY <1>1, FirstAndRest
<1>3. p \in Seq(Intent) /\ q \in Seq(Intent) /\ v \in Seq(Intent) /\ ToSet(p) = {i}
  BY <1>1, <1>2, ShortSequences, FactsOfConcat, SequenceFacts
<1>4. OnHand = p \o q
  <2>1. OnHand = folded \o queue
    BY <1>1, Rows DEF OnHand
  <2>2. p \o Tail(folded) = folded
    BY <1>1, Rows
  <2>3. (p \o Tail(folded)) \o queue = p \o (Tail(folded) \o queue)
    BY <1>1, <1>2, <1>3, Rows
  <2> QED BY <2>1, <2>2, <2>3
<1>5. OnHand' = v \o q
  <2>1. OnHand' = (<< >> \o Tail(folded)) \o queue
    BY <1>1 DEF OnHand
  <2>2. << >> \o Tail(folded) = Tail(folded) /\ << >> \o q = q
    BY <1>2, <1>3, Rows
  <2> QED BY <2>1, <2>2
<1>6. Leaves(p, {i}, v, a)
  BY <1>3, LeavesAll
<1>7. AnswersTo({i})
  <2>1. {i} \subseteq Pending
    BY <1>2, HeldParts
  <2> QED BY <2>1, ToldAnswers
<1> HIDE DEF i, p, q, v, a
<1>8. Settles({i})
  BY <1>3, <1>4, <1>5, <1>6, <1>7, SettlesFront
<1> QED BY <1>8 DEF i

\* All of the group are answered, by commit or by EndGroup.
LEMMA SettlesGroup ==
  ASSUME TypeOK, Held, group # << >>, group' = << >>, UNCHANGED <<folded, queue>>,
         AnswersTo(ToSet(group))
  PROVE  Settles(ToSet(group))
<1> DEFINE q == folded \o queue
           v == << >>
           a == << >>
<1>1. group \in Seq(Intent) /\ folded \in Seq(Intent) /\ queue \in Seq(Intent)
  BY DEF TypeOK
<1>2. q \in Seq(Intent) /\ v \in Seq(Intent)
  BY <1>1, FactsOfConcat, ShortSequences
<1>3. OnHand = group \o q
  BY HeldParts
<1>4. OnHand' = v \o q
  <2>1. OnHand' = (<< >> \o folded) \o queue
    BY DEF OnHand
  <2> QED BY <1>1, <1>2, <2>1, Rows
<1>5. Leaves(group, ToSet(group), v, a)
  BY <1>1, LeavesAll
<1>6. ToSet(group) # {}
  BY <1>1, FirstAndRest
<1> HIDE DEF q, v, a
<1> QED BY <1>1, <1>2, <1>3, <1>4, <1>5, <1>6, SettlesFront

\* The same for one answer that all of them are told.
LEMMA SettlesGroupToldOne ==
  ASSUME TypeOK, Held, group # << >>, NEW r \in Desk!Answer, EndGroup(r), UNCHANGED <<folded, queue>>
  PROVE  Settles(ToSet(group))
<1>1. AnswersTo(ToSet(group))
  BY HeldParts, ToldAnswers DEF EndGroup
<1> QED BY <1>1, SettlesGroup DEF EndGroup
\* A group that is filtered at the front of the row.
LEMMA SettlesFiltered ==
  ASSUME TypeOK, Held, NEW h, NEW g \in Seq(Intent), NEW q \in Seq(Intent),
         ToSet(g) \subseteq Pending, OnHand = g \o q, OnHand' = Remaining(h, g) \o q,
         answer' = Filtered(h, g)
  PROVE  Answering
<1> DEFINE X == {i \in Intent : Covers(h, i) \/ NotReady(h, i)}
           S == {i \in ToSet(g) : Covers(h, i) \/ NotReady(h, i)}
           t == Without(g, X)
<1>1. t \in Seq(Intent) /\ \E at : Leaves(g, X, t, at)
  BY WithoutIs
<1>2. \A i \in ToSet(g) : i \in Intent /\ answer[i] = "open" /\ (i \in S <=> i \in X)
  BY DEF Pending, IsOpen
<1>3. \A n \in 1..Len(g) : g[n] \in ToSet(g)
  BY DEF ToSet
<1>4. OnHand' = t \o q
  BY DEF Remaining
<1>5. CASE S = {}
  <2>1. \A n \in DOMAIN g : g[n] \notin X
    BY <1>2, <1>3, <1>5
  <2> HIDE DEF X
  <2>2. t = g
    BY <2>1, WithoutNone
  <2>3. answer' = answer
    <3>1. \A i \in Intent : Filtered(h, g)[i] = answer[i]
      BY <1>5 DEF Filtered
    <3>2. Filtered(h, g) = [i \in Intent |-> Filtered(h, g)[i]]
      BY DEF Filtered
    <3> QED BY <3>1, <3>2 DEF TypeOK
  <2> QED BY <1>4, <2>2, <2>3 DEF Answering
<1>6. CASE S # {}
  <2>1. AnswersTo(S) /\ \A i \in S : answer'[i] \notin Desk!InTurn
    <3>1. \A i \in Intent : i \notin S => answer'[i] = answer[i]
      BY DEF Filtered
    <3>2. \A i \in S : answer'[i] \in {"covered", "not-ready"}
      BY <1>2 DEF Filtered
    <3> HIDE DEF S
    <3> QED BY <3>1, <3>2 DEF AnswersTo, Desk!Answer, Desk!InTurn
  <2>2. PICK at : Leaves(g, X, t, at)
    BY <1>1
  <2>3. Leaves(g, S, t, at)
    <3> HIDE DEF X, S, t
    <3>1. \A n \in 1..Len(g) : g[n] \in S <=> g[n] \in X
      BY <1>2, <1>3
    <3>2. \A k \in 1..Len(t) : at[k] \in 1..Len(g)
      BY <2>2 DEF Leaves
    <3> QED BY <2>2, <3>1, <3>2 DEF Leaves
  <2>4. S \subseteq ToSet(g)
    OBVIOUS
  <2> HIDE DEF X, S, t
  <2>5. Settles(S)
    BY <1>1, <1>4, <1>6, <2>1, <2>3, <2>4, SettlesFront
  <2> QED BY <2>5 DEF Answering
<1> QED BY <1>5, <1>6

\* A dirty intent that a caller flushes.
LEMMA SettlesFlushed ==
  ASSUME TypeOK, Buffered, NEW c, Flush(c), UNCHANGED <<folded, group>>
  PROVE  DeskStep
<1>1. \A i \in buffered : i \in Intent /\ answer[i] = "none"
  BY DEF Buffered, TypeOK
<1>2. buffered \in SUBSET Intent /\ \A i, j \in buffered : i = j
  BY DEF Buffered, TypeOK
<1>3. CASE Push(buffered)
  <2>1. CASE queue' = queue /\ answer' = answer
    BY <2>1 DEF OnHand, DeskStep, Answering
  <2>2. ASSUME NEW i \in buffered, queue' = Append(queue, i), answer' = [answer EXCEPT ![i] = "open"]
        PROVE  DeskStep
    <3>1. OnHand' = (group \o folded) \o Append(queue, i)
      BY <2>2 DEF OnHand
    <3>2. group \o folded \in Seq(Intent) /\ queue \in Seq(Intent)
      BY FactsOfConcat DEF TypeOK
    <3>3. OnHand' = Append(OnHand, i)
      BY <1>1, <2>2, <3>1, <3>2, Rows DEF OnHand
    <3> QED BY <1>1, <2>2, <3>3 DEF DeskStep, Accepts
  <2> QED BY <1>2, <1>3, <2>1, <2>2, PushIs
<1>4. CASE /\ answer' = [i \in Intent |-> IF i \in buffered THEN "rejected" ELSE answer[i]]
           /\ UNCHANGED queue
  <2>1. OnHand' = OnHand
    BY <1>4 DEF OnHand
  <2>2. CASE buffered = {}
    <3>1. answer' = answer
      BY <1>4, <2>2 DEF TypeOK
    <3> QED BY <2>1, <3>1 DEF DeskStep, Answering
  <2>3. CASE buffered # {}
    <3>1. PICK i \in buffered : buffered = {i}
      BY <1>2, <2>3
    <3>2. answer' = [answer EXCEPT ![i] = "rejected"]
      BY <1>4, <3>1 DEF TypeOK
    <3> QED BY <1>1, <2>1, <3>1, <3>2 DEF DeskStep, TurnsAway, Desk!Refusal
  <2> QED BY <2>2, <2>3
<1> QED BY <1>3, <1>4 DEF Flush

\* A clear takes its place in hand and drops the queue.
LEMMA SettlesClear ==
  ASSUME TypeOK, Held, Stages, BeginClear PROVE Answering
<1>1. /\ group = << >> /\ folded \in Seq(Intent) /\ folded # << >> /\ queue \in Seq(Intent)
  BY DEF BeginClear, Acting, Stages, TypeOK
<1>2. OnHand = folded \o queue
  BY <1>1, Rows DEF OnHand
<1>3. group' \o folded' = folded
  BY <1>1, Rows DEF BeginClear
<1>4. CASE retired \/ queue = << >>
  <2>1. answer' = answer
    <3>1. ToSet(<< >>) = {}
      BY SequenceFacts
    <3> QED BY <1>4, <3>1 DEF BeginClear, Told, TypeOK
  <2>2. queue' = queue
    BY <1>4 DEF BeginClear
  <2> QED BY <1>2, <1>3, <2>1, <2>2 DEF Answering, OnHand
<1>5. CASE ~retired /\ queue # << >>
  <2>1. answer' = Told(ToSet(queue), "dropped") /\ queue' = << >>
    BY <1>5 DEF BeginClear
  <2>2. OnHand' = folded
    BY <1>1, <1>3, <2>1, Rows DEF OnHand
  <2>3. AnswersTo(ToSet(queue)) /\ \A i \in ToSet(queue) : answer'[i] = "dropped"
    BY <2>1, HeldParts, ToldAnswers DEF Desk!Answer, Desk!Refusal
  <2>4. Settles(ToSet(queue))
    <3>1. \A i \in ToSet(queue) : answer'[i] \notin Desk!InTurn
      BY <2>3 DEF Desk!InTurn
    <3> QED BY <1>1, <1>2, <1>5, <2>2, <2>3, <3>1, SettlesBack
  <2> QED BY <2>4 DEF Answering
<1> QED BY <1>4, <1>5

\* stop({drain: false}) rejects what is queued.
LEMMA SettlesStopNow ==
  ASSUME TypeOK, Held, StopNow PROVE Answering
<1>1. group \o folded \in Seq(Intent) /\ queue \in Seq(Intent)
  BY FactsOfConcat DEF TypeOK
<1>2. answer' = Told(ToSet(queue), "rejected") /\ queue' = << >> /\ UNCHANGED <<group, folded>>
  BY DEF StopNow, workVars
<1>3. CASE queue = << >>
  <2>1. answer' = answer
    <3>1. ToSet(<< >>) = {}
      BY SequenceFacts
    <3> QED BY <1>2, <1>3, <3>1 DEF Told, TypeOK
  <2> QED BY <1>2, <1>3, <2>1 DEF Answering, OnHand
<1>4. CASE queue # << >>
  <2>1. AnswersTo(ToSet(queue)) /\ \A i \in ToSet(queue) : answer'[i] = "rejected"
    BY <1>2, HeldParts, ToldAnswers DEF Desk!Answer, Desk!Refusal
  <2>2. OnHand' = group \o folded
    BY <1>1, <1>2, Rows DEF OnHand
  <2>3. Settles(ToSet(queue))
    <3>1. \A i \in ToSet(queue) : answer'[i] \notin Desk!InTurn
      BY <2>1 DEF Desk!InTurn
    <3>2. OnHand = (group \o folded) \o queue
      BY DEF OnHand
    <3> QED BY <1>1, <1>4, <2>1, <2>2, <3>1, <3>2, SettlesBack
  <2> QED BY <2>3 DEF Answering
<1> QED BY <1>3, <1>4
\* Whatever does not enqueue or flush answers, if anything.
LEMMA EachAnswering ==
  ASSUME TypeOK, Held, Stages,
         StopNow \/ DrainWaits \/ Halt \/ Loop \/ SiblingCommit \/ Supersede
  PROVE  Answering
<1> USE DEF callVars, headVars, workVars
<1>1. CASE DrainWaits \/ Halt
  BY <1>1 DEF DrainWaits, Halt, Answering, OnHand
<1>2. CASE StopNow
  BY <1>2, SettlesStopNow
<1>3. CASE ReadWorld \/ FinishBatch \/ LaneStops \/ SiblingCommit \/ Supersede
  BY <1>3 DEF ReadWorld, FinishBatch, LaneStops, SiblingCommit, Supersede, Answering, OnHand
<1>4. CASE EnumerateFails \/ Fold
  <2>1. folded = << >> /\ group = << >> /\ queue \in Seq(Intent)
    BY <1>4 DEF EnumerateFails, Fold, Stages, TypeOK
  <2>2. folded' = queue /\ queue' = << >> /\ UNCHANGED <<group, answer>>
    BY <1>4 DEF EnumerateFails, Fold
  <2> QED BY <2>1, <2>2, Rows, ShortSequences DEF Answering, OnHand
<1>5. CASE RejectBatch
  <2> DEFINE p == group \o folded
             v == << >>
             a == << >>
  <2>1. p \in Seq(Intent) /\ queue \in Seq(Intent) /\ v \in Seq(Intent)
    BY FactsOfConcat, ShortSequences DEF TypeOK
  <2>2. OnHand = p \o queue /\ ToSet(p) \subseteq Pending
    BY HeldParts DEF OnHand
  <2>3. OnHand' = v \o queue
    <3>1. OnHand' = (<< >> \o << >>) \o queue
      BY <1>5 DEF RejectBatch, OnHand
    <3> QED BY <3>1, ShortSequences, Rows
  <2>4. answer' = Told(ToSet(p), "rejected")
    BY <1>5 DEF RejectBatch
  <2>5. AnswersTo(ToSet(p))
    BY <2>2, <2>4, ToldAnswers DEF Desk!Answer, Desk!Refusal
  <2>6. Leaves(p, ToSet(p), v, a)
    BY <2>1, LeavesAll
  <2> HIDE DEF p, v, a
  <2>7. CASE ToSet(p) = {}
    <3>1. answer' = answer
      BY <2>4, <2>7 DEF Told, TypeOK
    <3>2. p = << >>
      BY <2>1, <2>7, FirstAndRest
    <3> QED BY <2>2, <2>3, <3>1, <3>2 DEF Answering, v
  <2>8. CASE ToSet(p) # {}
    <3>1. Settles(ToSet(p))
      BY <2>1, <2>2, <2>3, <2>5, <2>6, <2>8, SettlesFront
    <3> QED BY <3>1 DEF Answering
  <2> QED BY <2>7, <2>8
<1>6. CASE DropRetired
  <2>1. Settles({Head(folded)})
    BY <1>6, SettlesHead DEF DropRetired, Desk!Answer, Desk!Refusal
  <2> QED BY <2>1 DEF Answering
<1>7. CASE TakeGroup
  <2>1. PICK n \in 1..Len(folded) :
          LET g == SubSeq(folded, 1, n) IN
          /\ answer' = Filtered(base, g)
          /\ group' = Remaining(base, g)
          /\ folded' = SubSeq(folded, n + 1, Len(folded))
    BY <1>7 DEF TakeGroup, TakeGroup_Retired
  <2> DEFINE g == SubSeq(folded, 1, n)
             t == SubSeq(folded, n + 1, Len(folded))
             r == Remaining(base, g)
  <2>2. group = << >> /\ folded \in Seq(Intent) /\ queue \in Seq(Intent) /\ queue' = queue
    BY <1>7 DEF TakeGroup, TakeGroup_Retired, Acting, Stages, TypeOK
  <2>3. g \in Seq(Intent) /\ t \in Seq(Intent) /\ ToSet(folded) = ToSet(g) \cup ToSet(t)
    BY <2>2, GroupAndRest
  <2>4. g \o t = folded
    BY <2>2, Rows
  <2>5. r \in Seq(Intent)
    BY <2>3, FilterTypes
  <2>6. answer' = Filtered(base, g) /\ group' = r /\ folded' = t
    BY <2>1
  <2> HIDE DEF g, t
  <2> HIDE DEF r
  <2>7. OnHand = g \o (t \o queue)
    <3>1. OnHand = folded \o queue
      BY <2>2, Rows DEF OnHand
    <3>2. (g \o t) \o queue = g \o (t \o queue)
      BY <2>2, <2>3, Rows
    <3> QED BY <2>4, <3>1, <3>2
  <2>8. OnHand' = r \o (t \o queue) /\ t \o queue \in Seq(Intent)
    <3>1. OnHand' = (r \o t) \o queue
      BY <2>2, <2>6 DEF OnHand
    <3>2. (r \o t) \o queue = r \o (t \o queue)
      BY <2>2, <2>3, <2>5, Rows, ZenonT(60)
    <3>3. t \o queue \in Seq(Intent)
      BY <2>2, <2>3, FactsOfConcat
    <3> QED BY <3>1, <3>2, <3>3
  <2>9. ToSet(g) \subseteq Pending
    BY <2>3, HeldParts
  <2> QED BY <2>3, <2>6, <2>7, <2>8, <2>9, SettlesFiltered DEF r
<1>8. CASE ActJournal
  <2>1. CASE answer' = Told({Head(folded)}, "completed") /\ UNCHANGED group
    <3>1. Settles({Head(folded)})
      BY <1>8, <2>1, SettlesHead DEF ActJournal, Desk!Answer, Desk!InTurn
    <3> QED BY <3>1 DEF Answering
  <2>2. CASE group' = <<Head(folded)>> /\ UNCHANGED answer
    <3>1. /\ group = << >> /\ folded \in Seq(Intent) /\ folded # << >>
          /\ folded' = Tail(folded) /\ queue' = queue
      BY <1>8 DEF ActJournal, Acting, Stages, TypeOK
    <3>2. group' \o folded' = folded /\ group \o folded = folded
      BY <2>2, <3>1, Rows
    <3> QED BY <2>2, <3>1, <3>2 DEF Answering, OnHand
  <2> QED BY <1>8, <2>1, <2>2 DEF ActJournal
<1>9. CASE BeginClear
  BY <1>9, SettlesClear
<1>10. CASE EndClear
  <2>1. UNCHANGED <<queue, folded>> /\ group # << >>
    BY <1>10 DEF EndClear, Stages
  <2>2. CASE EndGroup("completed")
    <3>1. Settles(ToSet(group))
      BY <2>1, <2>2, SettlesGroupToldOne DEF Desk!Answer, Desk!InTurn
    <3> QED BY <3>1 DEF Answering
  <2>3. CASE UNCHANGED <<answer, group>>
    BY <2>1, <2>3 DEF Answering, OnHand
  <2> QED BY <1>10, <2>2, <2>3 DEF EndClear, EndGroup
<1>11. CASE BuildReady \/ BuildThrows \/ CommitThrows
  BY <1>11 DEF BuildReady, BuildThrows, CommitThrows, Answering, OnHand
<1>12. CASE BuildDrops \/ ReadToken \/ CommitRefused
  <2>1. UNCHANGED <<queue, folded>> /\ group # << >>
    BY <1>12 DEF BuildDrops, ReadToken, CommitRefused, Stages
  <2>2. ASSUME NEW r \in {"dropped", "rejected"}, EndGroup(r) PROVE Answering
    <3>1. Settles(ToSet(group))
      BY <2>1, <2>2, SettlesGroupToldOne DEF Desk!Answer, Desk!Refusal
    <3> QED BY <3>1 DEF Answering
  <2>3. CASE UNCHANGED <<answer, group>>
    BY <2>1, <2>3 DEF Answering, OnHand
  <2> QED BY <1>12, <2>2, <2>3 DEF BuildDrops, ReadToken, CommitRefused
<1>13. CASE Commit
  <2>1. PICK h \in Candidates :
          answer' = [i \in Intent |->
            IF i \in ToSet(group) /\ IsOpen(i) THEN CommitAnswer(h, i) ELSE answer[i]]
    BY <1>13 DEF Commit
  <2>2. UNCHANGED <<queue, folded>> /\ group # << >> /\ group' = << >>
    BY <1>13 DEF Commit, Stages
  <2>3. AnswersTo(ToSet(group))
    <3>1. \A i \in ToSet(group) : i \in Intent /\ IsOpen(i)
      BY HeldParts DEF Pending
    <3> QED BY <2>1, <3>1 DEF AnswersTo, CommitAnswer, Desk!Answer, Desk!InTurn
  <2>4. Settles(ToSet(group))
    BY <2>2, <2>3, SettlesGroup
  <2> QED BY <2>4 DEF Answering
<1>14. CASE CommitNotHead
  <2> DEFINE r == Remaining(head, group)
             q == folded \o queue
  <2>1. /\ UNCHANGED <<queue, folded>> /\ group # << >>
        /\ group \in Seq(Intent) /\ folded \in Seq(Intent) /\ queue \in Seq(Intent)
    BY <1>14 DEF CommitNotHead, Stages, TypeOK
  <2>2. q \in Seq(Intent) /\ OnHand = group \o q /\ r \in Seq(Intent)
    BY <2>1, FactsOfConcat, HeldParts, FilterTypes
  <2>3. CASE answer' = Filtered(head, group) /\ group' = r
    <3>1. OnHand' = r \o q
      BY <2>1, <2>2, <2>3, Rows DEF OnHand
    <3> QED BY <2>1, <2>2, <2>3, <3>1, HeldParts, SettlesFiltered
  <2>4. CASE /\ group' = << >>
             /\ answer' = [i \in Intent |-> IF i \in ToSet(r) /\ IsOpen(i) THEN "rejected"
                                            ELSE Filtered(head, group)[i]]
    <3>1. /\ \A i \in ToSet(group) : i \in ToSet(r) <=> ~Covers(head, i) /\ ~NotReady(head, i)
          /\ \A i \in ToSet(r) : i \in ToSet(group)
          /\ \A i \in Intent : i \notin ToSet(group) => Filtered(head, group)[i] = answer[i]
          /\ \A i \in ToSet(group) : i \in Intent /\ IsOpen(i)
      <4>1. AllOpen(group) /\ Once(group) /\ \A i \in ToSet(group) : i \in Intent /\ IsOpen(i)
        BY HeldParts DEF AllOpen, Pending
      <4> QED BY <2>1, <4>1, FilterIs
    <3> HIDE DEF r
    <3>2. \A i \in ToSet(group) : answer'[i] \in {"rejected", "covered", "not-ready"}
      BY <2>4, <3>1 DEF Filtered
    <3>3. \A i \in Intent : i \notin ToSet(group) => answer'[i] = answer[i]
      BY <2>4, <3>1
    <3>4. AnswersTo(ToSet(group))
      BY <3>2, <3>3 DEF AnswersTo, Desk!Answer, Desk!Refusal
    <3>5. Settles(ToSet(group))
      BY <2>1, <2>4, <3>4, SettlesGroup
    <3> QED BY <3>5 DEF Answering
  <2> QED BY <1>14, <2>3, <2>4 DEF CommitNotHead
<1> QED BY <1>1, <1>2, <1>3, <1>4, <1>5, <1>6, <1>7, <1>8, <1>9, <1>10, <1>11, <1>12, <1>13, <1>14 DEF Loop

\* Each step is one of the desk.
LEMMA EachDeskStep ==
  ASSUME TypeOK, Held, Buffered, Stages, [Next]_vars PROVE DeskStep
<1> USE DEF callVars, headVars, workVars
<1>1. ASSUME NEW i \in Intent, Enqueue(i) PROVE DeskStep
  <2>1. answer[i] = "none" /\ UNCHANGED <<group, folded>>
    BY <1>1 DEF Enqueue
  <2>2. CASE Push({i})
    <3>1. queue' = Append(queue, i) /\ answer' = [answer EXCEPT ![i] = "open"]
      BY <2>2, PushOne
    <3>2. group \o folded \in Seq(Intent) /\ queue \in Seq(Intent)
      BY FactsOfConcat DEF TypeOK
    <3>3. OnHand' = Append(OnHand, i)
      BY <2>1, <3>1, <3>2, Rows DEF OnHand
    <3> QED BY <2>1, <3>1, <3>3 DEF DeskStep, Accepts
  <2>3. CASE ~Push({i})
    <3>1. /\ answer' = [answer EXCEPT ![i] = IF retired THEN "dropped" ELSE "rejected"]
          /\ UNCHANGED queue
      BY <1>1, <2>3 DEF Enqueue
    <3>2. OnHand' = OnHand
      BY <2>1, <3>1 DEF OnHand
    <3>3. \E r \in Desk!Refusal : answer' = [answer EXCEPT ![i] = r]
      BY <3>1 DEF Desk!Refusal
    <3> QED BY <2>1, <3>2, <3>3 DEF DeskStep, TurnsAway
  <2> QED BY <2>2, <2>3
<1>2. ASSUME NEW i \in Intent, Debounce(i) PROVE DeskStep
  BY <1>2 DEF Debounce, DeskStep, Answering, OnHand
<1>3. CASE Drain
  <2>1. CASE Flush("drain")
    BY <1>3, <2>1, SettlesFlushed DEF Drain
  <2>2. CASE UNCHANGED <<answer, queue>>
    BY <1>3, <2>2 DEF Drain, DeskStep, Answering, OnHand
  <2> QED BY <1>3, <2>1, <2>2 DEF Drain
<1>4. CASE Stop
  <2>1. CASE Flush("stop")
    BY <1>4, <2>1, SettlesFlushed DEF Stop
  <2>2. CASE UNCHANGED <<answer, queue>>
    BY <1>4, <2>2 DEF Stop, DeskStep, Answering, OnHand
  <2> QED BY <1>4, <2>1, <2>2 DEF Stop
<1>5. CASE StopNow \/ DrainWaits \/ Halt \/ Loop \/ SiblingCommit \/ Supersede
  BY <1>5, EachAnswering DEF DeskStep
<1>6. CASE UNCHANGED vars
  BY <1>6 DEF vars, DeskStep, Answering, OnHand
<1> QED BY <1>1, <1>2, <1>3, <1>4, <1>5, <1>6 DEF Next, Caller

\* What is held stays held.
LEMMA HeldStep ==
  ASSUME TypeOK, TypeOK', Held, DeskStep PROVE Held'
<1>1. OnHand \in Seq(Intent) /\ OnHand' \in Seq(Intent)
  <2>1. group \o folded \in Seq(Intent) /\ queue \in Seq(Intent)
    BY FactsOfConcat DEF TypeOK
  <2>2. (group \o folded)' \in Seq(Intent) /\ queue' \in Seq(Intent)
    BY FactsOfConcat DEF TypeOK
  <2> QED BY <2>1, <2>2, FactsOfConcat DEF OnHand
<1>2. answer \in [Intent -> Answers] /\ answer' \in [Intent -> Answers]
  BY DEF TypeOK
<1>3. SUFFICES /\ \A i \in ToSet(OnHand') : answer'[i] = "open"
               /\ Once(OnHand')
               /\ \A i \in Intent : answer'[i] = "open" => i \in ToSet(OnHand')
  BY DEF Held, AllOpen, Once, Pending, IsOpen
<1>4. /\ \A i \in ToSet(OnHand) : i \in Intent /\ answer[i] = "open"
      /\ Once(OnHand)
      /\ \A i \in Intent : answer[i] = "open" => i \in ToSet(OnHand)
  BY <1>1 DEF Held, AllOpen, Pending, IsOpen, ToSet
<1>5. CASE OnHand' = OnHand /\ answer' = answer
  BY <1>4, <1>5
<1>6. ASSUME NEW i \in Intent, Accepts(i)
      PROVE  /\ \A j \in ToSet(OnHand') : answer'[j] = "open"
             /\ Once(OnHand')
             /\ \A j \in Intent : answer'[j] = "open" => j \in ToSet(OnHand')
  <2>1. i \notin ToSet(OnHand)
    BY <1>4, <1>6 DEF Accepts
  <2>2. ToSet(OnHand') = ToSet(OnHand) \cup {i} /\ Once(OnHand')
    BY <1>1, <1>4, <1>6, <2>1, FactsOfAppend DEF Accepts
  <2>3. answer' = [answer EXCEPT ![i] = "open"]
    BY <1>6 DEF Accepts
  <2>4. \A j \in Intent : answer'[j] = IF j = i THEN "open" ELSE answer[j]
    BY <1>2, <2>3
  <2> HIDE DEF OnHand, IsOpen
  <2> QED BY <1>4, <2>2, <2>4
<1>7. ASSUME NEW i \in Intent, TurnsAway(i)
      PROVE  /\ \A j \in ToSet(OnHand') : answer'[j] = "open"
             /\ Once(OnHand')
             /\ \A j \in Intent : answer'[j] = "open" => j \in ToSet(OnHand')
  <2>1. PICK r \in Desk!Refusal : answer' = [answer EXCEPT ![i] = r]
    BY <1>7 DEF TurnsAway
  <2>2. r # "open"
    BY DEF Desk!Refusal
  <2>3. \A j \in Intent : answer'[j] = IF j = i THEN r ELSE answer[j]
    BY <1>2, <2>1
  <2>4. OnHand' = OnHand /\ answer[i] = "none"
    BY <1>7 DEF TurnsAway
  <2>5. i \notin ToSet(OnHand)
    BY <1>4, <2>4
  <2> QED BY <1>4, <2>2, <2>3, <2>4, <2>5
<1>8. ASSUME NEW S, Settles(S)
      PROVE  /\ \A j \in ToSet(OnHand') : answer'[j] = "open"
             /\ Once(OnHand')
             /\ \A j \in Intent : answer'[j] = "open" => j \in ToSet(OnHand')
  <2>1. PICK at : Leaves(OnHand, S, OnHand', at)
    BY <1>8 DEF Settles
  <2>2. \A j \in Intent : IF j \in S THEN answer'[j] \in Desk!Answer ELSE answer'[j] = answer[j]
    BY <1>8 DEF Settles, AnswersTo
  <2>3. "open" \notin Desk!Answer
    BY DEF Desk!Answer, Desk!InTurn, Desk!Refusal
  <2> DEFINE s == OnHand
             t == OnHand'
  <2>4. s \in Seq(Intent) /\ t \in Seq(Intent) /\ Once(s) /\ Leaves(s, S, t, at)
    BY <1>1, <1>4, <2>1
  <2> HIDE DEF s, t
  <2>5. Once(t) /\ \A j : j \in ToSet(t) <=> j \in ToSet(s) /\ j \notin S
    BY <2>4, FactsOfLeaves
  <2> QED BY <1>4, <2>2, <2>3, <2>5 DEF s, t
<1> QED BY <1>5, <1>6, <1>7, <1>8 DEF DeskStep, Answering
\* An answer changes once an intent is held, and then for good.
LEMMA AnswerStep ==
  ASSUME TypeOK, TypeOK', Held, DeskStep
  PROVE  \A i \in Intent : /\ answer[i] \notin {"none", "open"} => answer'[i] = answer[i]
                           /\ answer[i] = "open" => answer'[i] # "none"
                           /\ answer[i] = "none" => answer'[i] = "none" \/ ~Answering
                           /\ answer'[i] = "open" => answer[i] = "open" \/ ~Answering
<1>1. answer \in [Intent -> Answers]
  BY DEF TypeOK
<1>2. CASE Answering
  <2>1. CASE answer' = answer
    BY <2>1
  <2>2. ASSUME NEW S, Settles(S), NEW i \in Intent
        PROVE  /\ i \notin S => answer'[i] = answer[i]
               /\ i \in S => answer[i] = "open" /\ answer'[i] \notin {"none", "open"}
    <3>1. i \in S => IsOpen(i)
      BY <2>2 DEF Settles, Held, AllOpen
    <3>2. i \in S => answer'[i] \in Desk!Answer
      BY <2>2 DEF Settles, AnswersTo
    <3>3. i \notin S => answer'[i] = answer[i]
      BY <2>2 DEF Settles, AnswersTo
    <3> QED BY <3>1, <3>2, <3>3 DEF IsOpen, Desk!Answer, Desk!InTurn, Desk!Refusal
  <2> QED BY <1>2, <2>1, <2>2 DEF Answering
<1>3. CASE ~Answering
  <2>1. PICK i \in Intent : Accepts(i) \/ TurnsAway(i)
    BY <1>3 DEF DeskStep
  <2>2. answer[i] = "none" /\ \E r : r # "none" /\ answer' = [answer EXCEPT ![i] = r]
    BY <2>1 DEF Accepts, TurnsAway, Desk!Refusal
  <2> QED BY <1>1, <1>3, <2>2
<1> QED BY <1>2, <1>3

-----------------------------------------------------------------------------
(* The other parts of the invariant.                                       *)

\* The debounced intent.
LEMMA BufferedStep ==
  ASSUME TypeOK, TypeOK', Held, Buffered, Stages, [Next]_vars PROVE Buffered'
<1> USE DEF callVars
<1>1. ASSUME NEW i \in Intent, Enqueue(i) PROVE Buffered'
  <2>1. i \notin buffered /\ buffered' = buffered /\ retired' = retired
    BY <1>1 DEF Enqueue
  <2>2. \A j \in Intent : j # i => answer'[j] = answer[j]
    <3>1. CASE Push({i})
      BY <3>1 DEF Push
    <3>2. CASE ~Push({i})
      BY <1>1, <3>2 DEF Enqueue, TypeOK
    <3> QED BY <3>1, <3>2
  <2>3. \A j \in buffered : j \in Intent /\ j # i
    BY <2>1 DEF TypeOK
  <2> QED BY <2>1, <2>2, <2>3 DEF Buffered
<1>2. ASSUME NEW i \in Intent, Debounce(i) PROVE Buffered'
  BY <1>2 DEF Debounce, Buffered
<1>3. CASE Drain \/ Stop
  <2>1. buffered' = {}
    BY <1>3 DEF Drain, Stop, Flush, Buffered
  <2> QED BY <2>1 DEF Buffered
<1>4. CASE StopNow
  BY <1>4 DEF StopNow, Buffered
<1>5. CASE BeginClear
  <2>1. buffered' = {}
    BY <1>5 DEF BeginClear, Buffered
  <2> QED BY <2>1 DEF Buffered
<1>6. CASE DrainWaits \/ Halt \/ (Loop /\ ~BeginClear) \/ SiblingCommit \/ Supersede
  <2>1. Answering
    BY <1>6, EachAnswering
  <2>2. buffered' = buffered /\ retired' = retired
    BY <1>6 DEF DrainWaits, Halt, Loop, SiblingCommit, Supersede, ReadWorld, EnumerateFails, Fold,
                FinishBatch, LaneStops, RejectBatch, DropRetired, TakeGroup, TakeGroup_Retired,
                ActJournal, EndClear, BuildReady, BuildDrops, BuildThrows, ReadToken, Commit,
                CommitRefused, CommitThrows, CommitNotHead
  <2>3. \A i \in Intent : answer[i] = "none" => answer'[i] = "none"
    <3>1. DeskStep
      BY <2>1 DEF DeskStep
    <3>2. Held /\ TypeOK /\ TypeOK'
      OBVIOUS
    <3> HIDE DEF callVars
    <3> QED BY <2>1, <3>1, <3>2, AnswerStep
  <2>4. buffered \subseteq Intent
    BY DEF TypeOK
  <2> QED BY <2>2, <2>3, <2>4 DEF Buffered
<1>7. CASE UNCHANGED vars
  BY <1>7 DEF vars, Buffered
<1> QED BY <1>1, <1>2, <1>3, <1>4, <1>5, <1>6, <1>7 DEF Next, Caller, Loop
\* What is in hand at each stage.
LEMMA StagesStep ==
  ASSUME TypeOK, Held, Stages, [Next]_vars PROVE Stages'
<1> USE DEF callVars, headVars, workVars
<1>1. CASE \/ \E i \in Intent : Enqueue(i) \/ Debounce(i)
           \/ Drain \/ Stop \/ StopNow \/ DrainWaits \/ Halt \/ SiblingCommit \/ Supersede
           \/ UNCHANGED vars
  <2>1. UNCHANGED <<lane, group, folded, retired>>
    BY <1>1 DEF Enqueue, Debounce, Drain, Stop, StopNow, DrainWaits, Halt, SiblingCommit, Supersede,
                vars
  <2> QED BY <2>1 DEF Stages, Builds, BuildLane
<1>2. CASE ReadWorld \/ EnumerateFails \/ Fold \/ FinishBatch \/ LaneStops
  BY <1>2 DEF ReadWorld, EnumerateFails, Fold, FinishBatch, LaneStops, Stages
<1>3. CASE RejectBatch \/ DropRetired
  BY <1>3 DEF RejectBatch, DropRetired, Acting, Stages
<1>4. CASE TakeGroup
  <2>1. PICK n \in 1..Len(folded) :
          LET g == SubSeq(folded, 1, n) IN
          /\ IsGroup(n)
          /\ group' = Remaining(base, g)
          /\ lane' = IF Remaining(base, g) = << >> THEN "acting" ELSE "building"
    BY <1>4 DEF TakeGroup, TakeGroup_Retired
  <2> DEFINE g == SubSeq(folded, 1, n)
  <2>2. retired = FALSE /\ retired' = FALSE
    BY <1>4 DEF TakeGroup, TakeGroup_Retired, TypeOK
  <2>3. g \in Seq(Intent) /\ Len(g) = n /\ \A k \in 1..n : g[k] = folded[k]
    BY GroupAndRest DEF TypeOK
  <2>4. ToSet(g) \subseteq ToSet(folded) /\ Once(g)
    BY GroupAndRest, HeldParts DEF TypeOK
  <2>5. \A i \in ToSet(g) : Builds(i) /\ BuildLane(i) = BuildLane(Head(folded))
    BY <2>1, <2>3 DEF IsGroup, InGroup, ToSet
  <2> HIDE DEF g
  <2>6. AllOpen(g)
    BY <2>4, HeldParts DEF AllOpen, Pending
  <2>7. group' \in Seq(Intent) /\ \A i \in ToSet(group') : i \in ToSet(g)
    BY <2>1, <2>3, <2>4, <2>6, FilterIs, FilterTypes DEF g
  <2>8. \A m \in DOMAIN group' : group'[m] \in ToSet(group')
    BY <2>7 DEF ToSet
  <2>9. \A m \in DOMAIN group' :
          Builds(group'[m]) /\ BuildLane(group'[m]) = BuildLane(Head(folded))
    BY <2>5, <2>7, <2>8
  <2>10. \A m, k \in DOMAIN group' :
           Builds(group'[m]) /\ BuildLane(group'[m]) = BuildLane(group'[k])
    BY <2>9
  <2>11. lane' = IF group' = << >> THEN "acting" ELSE "building"
    BY <2>1
  <2> QED BY <2>2, <2>10, <2>11 DEF Stages
<1>5. CASE ActJournal
  BY <1>5 DEF ActJournal, Acting, Stages
<1>6. CASE BeginClear
  <2>1. lane' = "clearing" /\ retired' = TRUE /\ group' = <<Head(folded)>>
        /\ KindOf[Head(folded)] = "clear"
    BY <1>6 DEF BeginClear
  <2> QED BY <2>1 DEF Stages
<1>7. CASE EndClear
  BY <1>7 DEF EndClear, Stages
<1>8. CASE BuildReady \/ BuildThrows \/ CommitThrows
  <2>1. UNCHANGED <<group, folded, retired>>
    BY <1>8 DEF BuildReady, BuildThrows, CommitThrows
  <2>2. lane' = "failing" \/ (lane = "building" /\ lane' = "built")
    BY <1>8 DEF BuildReady, BuildThrows, CommitThrows
  <2> QED BY <2>1, <2>2 DEF Stages, Builds, BuildLane
<1>9. CASE BuildDrops \/ ReadToken \/ CommitRefused \/ Commit
  <2>1. UNCHANGED <<folded, retired>>
    BY <1>9 DEF BuildDrops, ReadToken, CommitRefused, Commit
  <2>2. \/ lane' = "acting" /\ group' = << >>
        \/ lane = "built" /\ lane' = "committing" /\ group' = group
    BY <1>9 DEF BuildDrops, ReadToken, CommitRefused, Commit, EndGroup
  <2> QED BY <2>1, <2>2 DEF Stages, Builds, BuildLane
<1>10. CASE CommitNotHead
  <2> DEFINE r == Remaining(head, group)
  <2>1. lane = "committing" /\ retired' = retired
    BY <1>10 DEF CommitNotHead
  <2>2. ~retired /\ \A m, n \in DOMAIN group :
                      Builds(group[m]) /\ BuildLane(group[m]) = BuildLane(group[n])
    BY <2>1 DEF Stages
  <2>3. \/ group' = << >> /\ lane' = "acting"
        \/ group' = r /\ r # << >> /\ lane' = "building"
    BY <1>10 DEF CommitNotHead
  <2>4. group \in Seq(Intent) /\ AllOpen(group) /\ Once(group)
    BY HeldParts DEF TypeOK, AllOpen, Pending
  <2>5. r \in Seq(Intent) /\ \A i \in ToSet(r) : i \in ToSet(group)
    BY <2>4, FilterIs, FilterTypes
  <2> HIDE DEF r
  <2>6. \A m \in DOMAIN r : \E k \in DOMAIN group : r[m] = group[k]
    BY <2>5 DEF ToSet
  <2>7. \A m, n \in DOMAIN r : Builds(r[m]) /\ BuildLane(r[m]) = BuildLane(r[n])
    BY <2>2, <2>6
  <2> QED BY <2>1, <2>2, <2>3, <2>7 DEF Stages
<1> QED BY <1>1, <1>2, <1>3, <1>4, <1>5, <1>6, <1>7, <1>8, <1>9, <1>10 DEF Next, Caller, Loop

\* What is queued is seen.
LEMMA WokenStep ==
  ASSUME TypeOK, Buffered, Stages, Woken, [Next]_vars PROVE Woken'
<1> USE DEF callVars, headVars, workVars
<1>1. ASSUME NEW S, Push(S), S \in SUBSET Intent, \A i, j \in S : i = j, ~StructuralStopped,
             UNCHANGED <<lane, aborted>>
      PROVE  Woken'
  <2>1. (queue' = queue /\ signals' = signals) \/ signals' = signals + 1
    BY <1>1, PushIs
  <2>2. signals \in Nat /\ stop # "halting"
    BY <1>1 DEF TypeOK, StructuralStopped
  <2>3. ~aborted /\ lane # "stopped"
    BY <2>2 DEF Woken
  <2>4. ~aborted' /\ lane' # "stopped"
    BY <1>1, <2>3
  <2>5. queue' # << >> => signals' > 0 \/ lane' = "enumerated"
    BY <1>1, <2>1, <2>2 DEF Woken
  <2> QED BY <2>4, <2>5 DEF Woken
<1>2. ASSUME NEW i \in Intent, Enqueue(i) PROVE Woken'
  <2>1. CASE ~StructuralStopped /\ Push({i})
    BY <1>1, <1>2, <2>1 DEF Enqueue
  <2>2. CASE UNCHANGED <<queue, signals>>
    BY <1>2, <2>2 DEF Enqueue, Woken
  <2> QED BY <1>2, <2>1, <2>2 DEF Enqueue
<1>3. CASE Drain \/ Stop
  <2>1. UNCHANGED <<lane, aborted>> /\ (stop' = stop \/ stop = "no")
    BY <1>3 DEF Drain, Stop
  <2>2. CASE ~StructuralStopped /\ Push(buffered)
    BY <1>1, <2>1, <2>2 DEF Buffered, TypeOK
  <2>3. CASE UNCHANGED <<queue, signals>>
    BY <2>1, <2>3 DEF Woken
  <2> QED BY <1>3, <2>2, <2>3 DEF Drain, Stop, Flush
<1>4. ASSUME NEW i \in Intent, Debounce(i) PROVE Woken'
  BY <1>4 DEF Debounce, Woken
<1>5. CASE StopNow
  BY <1>5 DEF StopNow, Woken
<1>6. CASE Halt
  BY <1>6 DEF Halt, Woken
<1>7. CASE DrainWaits \/ SiblingCommit \/ Supersede \/ UNCHANGED vars
  BY <1>7 DEF DrainWaits, SiblingCommit, Supersede, vars, Woken
<1>8. CASE ReadWorld
  BY <1>8 DEF ReadWorld, Woken
<1>9. CASE EnumerateFails \/ Fold
  BY <1>9 DEF EnumerateFails, Fold, Woken
<1>10. CASE LaneStops
  BY <1>10 DEF LaneStops, Woken, TypeOK
<1>11. CASE BeginClear
  BY <1>11 DEF BeginClear, Acting, Woken
<1>12. CASE \/ FinishBatch \/ RejectBatch \/ DropRetired \/ TakeGroup \/ ActJournal \/ EndClear
            \/ BuildReady \/ BuildDrops \/ BuildThrows \/ ReadToken \/ Commit \/ CommitRefused
            \/ CommitThrows \/ CommitNotHead
  <2>1. UNCHANGED <<queue, signals, stop, aborted>> /\ lane \notin {"enumerated", "stopped"}
        /\ lane' # "stopped"
    BY <1>12 DEF FinishBatch, RejectBatch, DropRetired, TakeGroup, TakeGroup_Retired, ActJournal,
                 EndClear, BuildReady, BuildDrops, BuildThrows, ReadToken, Commit, CommitRefused,
                 CommitThrows, CommitNotHead, Acting, EndGroup
  <2> QED BY <2>1 DEF Woken
<1> QED BY <1>2, <1>3, <1>4, <1>5, <1>6, <1>7, <1>8, <1>9, <1>10, <1>11, <1>12
        DEF Next, Caller, Loop

\* When nothing is queued, folded or in hand, nothing is open.
LEMMA NothingHeld ==
  ASSUME Held, group = << >>, folded = << >>, queue = << >>
  PROVE  \A i \in Intent : ~IsOpen(i)
<1>1. OnHand = << >>
  BY ShortSequences, Rows DEF OnHand
<1>2. ToSet(OnHand) = {}
  BY <1>1, SequenceFacts
<1> QED BY <1>2 DEF Held, Pending

\* What drain waits for is answered in the end.
LEMMA AwaitedStep ==
  ASSUME TypeOK, TypeOK', Held, Held', Buffered, Stages, Woken, Awaited, [Next]_vars
  PROVE  Awaited'
<1> USE DEF callVars, headVars, workVars
<1>1. DeskStep
  BY EachDeskStep
<1>2. \A i \in Intent : /\ answer[i] \notin {"none", "open"} => answer'[i] = answer[i]
                        /\ answer[i] = "open" => answer'[i] # "none"
  BY <1>1, AnswerStep
<1>3. ASSUME promised' = promised, drainer # "none", drainer' = "done" => drainer = "done"
      PROVE  Awaited'
  <2>1. promised \subseteq Intent
    BY DEF TypeOK
  <2> QED BY <1>2, <1>3, <2>1 DEF Awaited, IsOpen
<1>4. ASSUME promised' = promised, drainer' = "none" PROVE Awaited'
  BY <1>4 DEF Awaited
<1>5. ASSUME UNCHANGED <<answer, promised, group, folded, queue>>, drainer # "none",
             group = << >>, folded = << >>, queue = << >>
      PROVE  Awaited'
  <2>1. \A i \in Intent : ~IsOpen(i)
    BY <1>5, NothingHeld
  <2>2. promised \subseteq Intent
    BY DEF TypeOK
  <2> QED BY <1>5, <2>1, <2>2 DEF Awaited, IsOpen
<1>6. CASE Drain
  <2>1. drainer' = "flushing" /\ promised' = Pending \cup buffered
    BY <1>6 DEF Drain
  <2>2. \A i \in buffered : answer'[i] # "none"
    <3>1. CASE Flush("drain")
      BY <3>1 DEF Flush, Push, TypeOK
    <3>2. CASE retired
      BY <3>2 DEF Buffered
    <3> QED BY <1>6, <3>1, <3>2 DEF Drain
  <2>3. \A i \in Pending : answer'[i] # "none"
    BY <1>2 DEF Pending, IsOpen
  <2> QED BY <2>1, <2>2, <2>3 DEF Awaited
<1>7. CASE DrainWaits
  <2>1. CASE Idle
    <3>1. group = << >> /\ folded = << >>
      BY <2>1 DEF Idle, Running, Stages
    <3>2. queue = << >>
      BY <2>1 DEF Idle, Running, Woken
    <3> QED BY <1>5, <1>7, <3>1, <3>2 DEF DrainWaits
  <2>2. CASE ~Idle
    BY <1>3, <1>7, <2>2 DEF DrainWaits
  <2> QED BY <2>1, <2>2
<1>8. CASE FinishBatch
  <2>1. CASE drainer = "waiting" /\ signals = 0
    <3>1. group = << >> /\ folded = << >> /\ queue = << >>
      BY <1>8, <2>1 DEF FinishBatch, Stages, Woken
    <3> QED BY <1>5, <1>8, <2>1, <3>1 DEF FinishBatch
  <2>2. CASE ~(drainer = "waiting" /\ signals = 0)
    BY <1>3, <1>4, <1>8, <2>2 DEF FinishBatch
  <2> QED BY <2>1, <2>2
<1>9. CASE LaneStops
  <2>1. CASE drainer = "waiting"
    <3>1. group = << >> /\ folded = << >> /\ queue = << >>
      BY <1>9 DEF LaneStops, Stages, Woken, TypeOK
    <3> QED BY <1>5, <1>9, <2>1, <3>1 DEF LaneStops
  <2>2. CASE drainer # "waiting"
    BY <1>3, <1>4, <1>9, <2>2 DEF LaneStops
  <2> QED BY <2>1, <2>2
<1>10. ASSUME UNCHANGED <<promised, drainer>> PROVE Awaited'
  BY <1>3, <1>4, <1>10
<1>11. CASE \/ \E i \in Intent : Enqueue(i) \/ Debounce(i)
            \/ Stop \/ StopNow \/ Halt \/ SiblingCommit \/ Supersede \/ UNCHANGED vars
  BY <1>10, <1>11 DEF Enqueue, Debounce, Stop, StopNow, Halt, SiblingCommit, Supersede, vars
<1>12. CASE \/ ReadWorld \/ EnumerateFails \/ Fold \/ RejectBatch \/ DropRetired \/ TakeGroup
            \/ ActJournal \/ BeginClear \/ EndClear \/ BuildReady \/ BuildDrops \/ BuildThrows
            \/ ReadToken \/ Commit \/ CommitRefused \/ CommitThrows \/ CommitNotHead
  <2>1. UNCHANGED <<promised, drainer>>
    BY <1>12 DEF ReadWorld, EnumerateFails, Fold, RejectBatch, DropRetired, TakeGroup,
                 TakeGroup_Retired, ActJournal, BeginClear, EndClear, BuildReady, BuildDrops,
                 BuildThrows, ReadToken, Commit, CommitRefused, CommitThrows, CommitNotHead
  <2> QED BY <1>10, <2>1
<1> QED BY <1>6, <1>7, <1>8, <1>9, <1>11, <1>12 DEF Next, Caller, Loop
\* A part of a sorted sequence is sorted.
LEMMA SortedPart ==
  ASSUME TypeOK, NEW s \in Seq(Intent), Sorted(s)
  PROVE  /\ \A h : Sorted(Remaining(h, s))
         /\ s # << >> => Sorted(Tail(s))
         /\ \A n \in 1..Len(s) : Sorted(SubSeq(s, 1, n)) /\ Sorted(SubSeq(s, n + 1, Len(s)))
<1>1. ASSUME NEW t \in Seq(Intent), NEW at \in [1..Len(t) -> 1..Len(s)],
             \A j, k \in 1..Len(t) : j < k => at[j] < at[k],
             \A k \in 1..Len(t) : t[k] = s[at[k]]
      PROVE  Sorted(t)
  <2> SUFFICES ASSUME NEW j \in 1..Len(t), NEW k \in 1..Len(t), j < k,
                      KindOf[t[j]] = "lexical", KindOf[t[k]] = "lexical"
               PROVE  goal[t[j]] <= goal[t[k]]
    BY DEF Sorted
  <2>1. at[j] < at[k] /\ at[j] \in DOMAIN s /\ at[k] \in DOMAIN s
    BY <1>1
  <2>2. t[j] = s[at[j]] /\ t[k] = s[at[k]]
    BY <1>1
  <2> QED BY <2>1, <2>2 DEF Sorted
<1>2. ASSUME NEW h PROVE Sorted(Remaining(h, s))
  <2> DEFINE S == {j \in Intent : Covers(h, j) \/ NotReady(h, j)}
             t == Remaining(h, s)
  <2>1. t \in Seq(Intent) /\ \E at : Leaves(s, S, t, at)
    BY WithoutIs DEF Remaining
  <2> HIDE DEF S, t
  <2>2. PICK at : Leaves(s, S, t, at)
    BY <2>1
  <2>3. /\ at \in [1..Len(t) -> 1..Len(s)]
        /\ \A j, k \in 1..Len(t) : j < k => at[j] < at[k]
        /\ \A k \in 1..Len(t) : t[k] = s[at[k]]
    BY <2>2 DEF Leaves
  <2>4. Sorted(t)
    BY <1>1, <2>1, <2>3
  <2> QED BY <2>4 DEF t
<1>3. ASSUME s # << >> PROVE Sorted(Tail(s))
  <2> DEFINE t == Tail(s)
             at == [k \in 1..Len(t) |-> k + 1]
  <2>1. /\ t \in Seq(Intent) /\ Len(s) \in Nat /\ Len(t) = Len(s) - 1
        /\ \A k \in 1..Len(t) : t[k] = s[k + 1]
    BY <1>3
  <2> HIDE DEF t
  <2>2. \A k \in 1..Len(t) : k + 1 \in 1..Len(s) /\ at[k] = k + 1
    BY <2>1
  <2>3. at \in [1..Len(t) -> 1..Len(s)]
    BY <2>2
  <2> HIDE DEF at
  <2>4. \A j, k \in 1..Len(t) : j < k => at[j] < at[k]
    <3> SUFFICES ASSUME NEW j \in 1..Len(t), NEW k \in 1..Len(t), j < k PROVE at[j] < at[k]
      OBVIOUS
    <3>1. at[j] = j + 1 /\ at[k] = k + 1
      BY <2>2
    <3> QED BY <3>1
  <2>5. \A k \in 1..Len(t) : t[k] = s[at[k]]
    BY <2>1, <2>2
  <2>6. Sorted(t)
    BY <1>1, <2>1, <2>3, <2>4, <2>5
  <2> QED BY <2>6 DEF t
<1>4. ASSUME NEW n \in 1..Len(s) PROVE Sorted(SubSeq(s, 1, n)) /\ Sorted(SubSeq(s, n + 1, Len(s)))
  <2> DEFINE g == SubSeq(s, 1, n)
             t == SubSeq(s, n + 1, Len(s))
             a == [k \in 1..Len(g) |-> k]
             b == [k \in 1..Len(t) |-> n + k]
  <2>1. /\ g \in Seq(Intent) /\ t \in Seq(Intent) /\ Len(s) \in Nat
        /\ Len(g) = n /\ \A k \in 1..n : g[k] = s[k]
        /\ Len(t) = Len(s) - n /\ \A k \in 1..(Len(s) - n) : t[k] = s[n + k]
    BY GroupAndRest
  <2> HIDE DEF g, t
  <2>2. Sorted(g)
    <3>1. \A k \in 1..Len(g) : k \in 1..Len(s) /\ a[k] = k
      BY <2>1
    <3>2. a \in [1..Len(g) -> 1..Len(s)]
      BY <3>1
    <3> HIDE DEF a
    <3>3. \A j, k \in 1..Len(g) : j < k => a[j] < a[k]
      <4> SUFFICES ASSUME NEW j \in 1..Len(g), NEW k \in 1..Len(g), j < k PROVE a[j] < a[k]
        OBVIOUS
      <4>1. a[j] = j /\ a[k] = k
        BY <3>1
      <4> QED BY <4>1
    <3>4. \A k \in 1..Len(g) : g[k] = s[a[k]]
      BY <2>1, <3>1
    <3> QED BY <1>1, <2>1, <3>2, <3>3, <3>4
  <2>3. Sorted(t)
    <3>1. \A k \in 1..Len(t) : n + k \in 1..Len(s) /\ b[k] = n + k
      BY <2>1
    <3>2. b \in [1..Len(t) -> 1..Len(s)]
      BY <3>1
    <3> HIDE DEF b
    <3>3. \A j, k \in 1..Len(t) : j < k => b[j] < b[k]
      <4> SUFFICES ASSUME NEW j \in 1..Len(t), NEW k \in 1..Len(t), j < k PROVE b[j] < b[k]
        OBVIOUS
      <4>1. b[j] = n + j /\ b[k] = n + k
        BY <3>1
      <4> QED BY <4>1
    <3>4. \A k \in 1..Len(t) : t[k] = s[b[k]]
      BY <2>1, <3>1
    <3> QED BY <1>1, <2>1, <3>2, <3>3, <3>4
  <2> QED BY <2>2, <2>3 DEF g, t
<1> QED BY <1>2, <1>3, <1>4

\* At the end of a queue, an intent with the newest boundary, or one without.
LEMMA SortedAppend ==
  ASSUME TypeOK, NEW s \in Seq(Intent), Sorted(s), NEW i \in Intent,
         KindOf[i] = "lexical" => \A j \in ToSet(s) : KindOf[j] = "lexical" => goal[j] <= goal[i]
  PROVE  Sorted(Append(s, i))
<1>1. /\ Len(s) \in Nat /\ DOMAIN s = 1..Len(s) /\ DOMAIN Append(s, i) = 1..(Len(s) + 1)
      /\ \A k \in 1..Len(s) : Append(s, i)[k] = s[k] /\ s[k] \in ToSet(s)
      /\ Append(s, i)[Len(s) + 1] = i
  BY DEF ToSet
<1>2. ASSUME NEW m \in DOMAIN Append(s, i), NEW n \in DOMAIN Append(s, i), m < n
      PROVE  m \in 1..Len(s) /\ (n \in 1..Len(s) \/ n = Len(s) + 1)
  BY <1>1, <1>2
<1> QED BY <1>1, <1>2 DEF Sorted

\* Boundaries stay sorted, and the lane's head stays behind the ledger's.
LEMMA BoundariesStep ==
  ASSUME TypeOK, TypeOK', Held, Buffered, Stages, Boundaries, [Next]_vars
  PROVE  Boundaries'
<1> USE DEF callVars, headVars, workVars
<1>1. /\ queue \in Seq(Intent) /\ folded \in Seq(Intent) /\ group \in Seq(Intent)
      /\ Sorted(queue) /\ Sorted(folded) /\ Sorted(group) /\ Sorted(<< >>)
  BY DEF TypeOK, Boundaries, Sorted
<1>2. /\ base.boundary \in Nat /\ head.boundary \in Nat /\ scans \in Nat
      /\ base'.boundary \in Nat /\ head'.boundary \in Nat
  BY DEF TypeOK, HeadRecord
<1>3. DeskStep
  BY EachDeskStep
<1>4. ASSUME UNCHANGED <<goal, scans>>,
             Sorted(queue'), Sorted(folded'), Sorted(group'),
             \A i \in Intent : answer'[i] = "open" => answer[i] = "open" \/ KindOf[i] = "journal",
             ~retired' => base'.boundary <= head'.boundary
      PROVE  Boundaries'
  <2>1. Sorted(queue)' /\ Sorted(folded)' /\ Sorted(group)'
    BY <1>4 DEF Sorted
  <2> QED BY <1>4, <2>1 DEF Boundaries, IsOpen
<1>5. ASSUME NEW i \in Intent, Enqueue(i) PROVE Boundaries'
  <2>1. answer[i] = "none" /\ UNCHANGED <<group, folded, retired, base, head>>
    BY <1>5 DEF Enqueue
  <2>2. CASE Push({i})
    <3>1. queue' = Append(queue, i) /\ answer' = [answer EXCEPT ![i] = "open"]
      BY <2>2, PushOne
    <3>2. i \notin ToSet(queue) /\ i \notin ToSet(folded) /\ i \notin ToSet(group)
      BY <2>1, HeldParts DEF Pending, IsOpen
    <3>3. \A j \in Intent : j # i => goal'[j] = goal[j] /\ answer'[j] = answer[j]
      BY <1>5, <3>1 DEF Enqueue, TypeOK
    <3>4. /\ KindOf[i] = "lexical" => goal'[i] = scans + 1 /\ scans' = scans + 1
          /\ scans' = scans \/ scans' = scans + 1
      <4>1. answer'[i] = "open"
        BY <3>1 DEF TypeOK
      <4>2. answer' # [answer EXCEPT ![i] = IF retired THEN "dropped" ELSE "rejected"]
        BY <4>1 DEF TypeOK
      <4> QED BY <1>5, <4>2 DEF Enqueue, TypeOK
    <3>5. \A j \in ToSet(queue) : KindOf[j] = "lexical" => goal[j] <= scans
      BY HeldParts DEF Boundaries, Pending
    <3>8. Sorted(queue)'
      <4>1. \A m \in DOMAIN queue : queue[m] \in Intent /\ queue[m] # i /\ queue[m] \in ToSet(queue)
        BY <1>1, <3>2 DEF ToSet
      <4>2. /\ Len(queue) \in Nat /\ DOMAIN queue = 1..Len(queue)
            /\ DOMAIN queue' = 1..(Len(queue) + 1)
            /\ \A k \in 1..Len(queue) : queue'[k] = queue[k]
            /\ queue'[Len(queue) + 1] = i
        BY <1>1, <3>1
      <4> SUFFICES ASSUME NEW m \in DOMAIN queue', NEW n \in DOMAIN queue', m < n,
                          KindOf[queue'[m]] = "lexical", KindOf[queue'[n]] = "lexical"
                   PROVE  goal'[queue'[m]] <= goal'[queue'[n]]
        BY DEF Sorted
      <4>3. m \in DOMAIN queue /\ (n \in DOMAIN queue \/ n = Len(queue) + 1)
        BY <4>2
      <4>4. goal'[queue'[m]] = goal[queue[m]] /\ queue'[m] = queue[m]
        BY <3>3, <4>1, <4>2, <4>3
      <4>5. CASE n \in DOMAIN queue
        <5>1. goal'[queue'[n]] = goal[queue[n]] /\ queue'[n] = queue[n]
          BY <3>3, <4>1, <4>2, <4>5
        <5>2. goal[queue[m]] <= goal[queue[n]]
          BY <1>1, <4>3, <4>4, <4>5, <5>1 DEF Sorted
        <5> QED BY <4>4, <5>1, <5>2
      <4>6. CASE n = Len(queue) + 1
        <5>1. goal'[queue'[n]] = scans + 1
          BY <3>4, <4>2, <4>6
        <5>2. goal[queue[m]] <= scans /\ goal[queue[m]] \in Nat
          BY <3>5, <4>1, <4>3, <4>4 DEF TypeOK
        <5> QED BY <1>2, <4>4, <5>1, <5>2
      <4> QED BY <4>3, <4>5, <4>6
    <3>9. Sorted(folded)' /\ Sorted(group)'
      <4>1. \A n \in DOMAIN folded : folded[n] \in Intent /\ folded[n] # i
        BY <1>1, <3>2 DEF ToSet
      <4>2. \A n \in DOMAIN group : group[n] \in Intent /\ group[n] # i
        BY <1>1, <3>2 DEF ToSet
      <4>3. folded' = folded /\ group' = group
        BY <2>1
      <4>4. Sorted(folded)'
        BY <1>1, <3>3, <4>1, <4>3 DEF Sorted
      <4>5. Sorted(group)'
        BY <1>1, <3>3, <4>2, <4>3 DEF Sorted
      <4> QED BY <4>4, <4>5
    <3>10. \A j \in Intent : IsOpen(j)' /\ KindOf[j] = "lexical" => goal'[j] <= scans'
      <4> SUFFICES ASSUME NEW j \in Intent, answer'[j] = "open", KindOf[j] = "lexical"
                   PROVE  goal'[j] <= scans'
        BY DEF IsOpen
      <4>1. CASE j = i
        BY <1>2, <3>4, <4>1
      <4>2. CASE j # i
        <5>1. goal'[j] = goal[j] /\ goal[j] <= scans /\ goal[j] \in Nat
          BY <3>3, <4>2 DEF Boundaries, IsOpen, TypeOK
        <5> QED BY <1>2, <3>4, <5>1
      <4> QED BY <4>1, <4>2
    <3> QED BY <2>1, <3>8, <3>9, <3>10 DEF Boundaries
  <2>3. CASE ~Push({i})
    <3>1. UNCHANGED <<queue, scans, goal>>
      BY <1>5, <2>3 DEF Enqueue
    <3>2. answer' = [answer EXCEPT ![i] = IF retired THEN "dropped" ELSE "rejected"]
      BY <1>5, <2>3 DEF Enqueue
    <3>3. \A j \in Intent : answer'[j] = "open" => answer[j] = "open"
      BY <3>2 DEF TypeOK
    <3> QED BY <1>1, <1>4, <2>1, <3>1, <3>3 DEF Boundaries
  <2> QED BY <2>2, <2>3
<1>6. ASSUME NEW c, Flush(c), UNCHANGED <<group, folded, retired, base, head, goal, scans>>
      PROVE  Boundaries'
  <2>1. ~retired' => base'.boundary <= head'.boundary
    BY <1>6 DEF Boundaries
  <2>2. \A j \in buffered : j \in Intent /\ KindOf[j] = "journal"
    BY DEF Buffered, TypeOK
  <2>3. CASE Push(buffered)
    <3>1. buffered \in SUBSET Intent /\ \A j, k \in buffered : j = k
      BY DEF Buffered, TypeOK
    <3>2. CASE queue' = queue /\ answer' = answer
      BY <1>1, <1>4, <1>6, <2>1, <3>2
    <3>3. ASSUME NEW j \in buffered, queue' = Append(queue, j), answer' = [answer EXCEPT ![j] = "open"]
          PROVE  Boundaries'
      <4>1. Sorted(queue')
        BY <1>1, <2>2, <3>3, SortedAppend
      <4>2. \A k \in Intent : answer'[k] = "open" => answer[k] = "open" \/ KindOf[k] = "journal"
        BY <2>2, <3>3 DEF TypeOK
      <4> QED BY <1>1, <1>4, <1>6, <2>1, <4>1, <4>2
    <3> QED BY <2>3, <3>1, <3>2, <3>3, PushIs
  <2>4. CASE ~Push(buffered)
    <3>1. queue' = queue /\ answer' = [k \in Intent |-> IF k \in buffered THEN "rejected" ELSE answer[k]]
      BY <1>6, <2>4 DEF Flush
    <3>2. \A k \in Intent : answer'[k] = "open" => answer[k] = "open"
      BY <3>1
    <3> QED BY <1>1, <1>4, <1>6, <2>1, <3>1, <3>2
  <2> QED BY <2>3, <2>4
<1>7. CASE UNCHANGED <<answer, queue, group, folded, retired, base, head, goal, scans>>
  BY <1>1, <1>4, <1>7 DEF Boundaries
<1>8. CASE Drain
  <2>1. CASE Flush("drain")
    BY <1>6, <1>8, <2>1 DEF Drain
  <2>2. CASE UNCHANGED <<answer, queue>>
    BY <1>7, <1>8, <2>2 DEF Drain
  <2> QED BY <1>8, <2>1, <2>2 DEF Drain
<1>9. CASE Stop
  <2>1. CASE Flush("stop")
    BY <1>6, <1>9, <2>1 DEF Stop
  <2>2. CASE UNCHANGED <<answer, queue>>
    BY <1>7, <1>9, <2>2 DEF Stop
  <2> QED BY <1>9, <2>1, <2>2 DEF Stop
<1>10. CASE (\E i \in Intent : Debounce(i)) \/ DrainWaits \/ Halt \/ UNCHANGED vars
  BY <1>7, <1>10 DEF Debounce, DrainWaits, Halt, vars
<1>11. ASSUME StopNow \/ Loop \/ SiblingCommit \/ Supersede,
              UNCHANGED <<goal, scans>>,
              Sorted(queue'), Sorted(folded'), Sorted(group'),
              ~retired' => base'.boundary <= head'.boundary
       PROVE  Boundaries'
  <2>1. Answering
    BY <1>11, EachAnswering
  <2>2. \A i \in Intent : answer'[i] = "open" => answer[i] = "open"
    BY <1>3, <2>1, AnswerStep
  <2> QED BY <1>4, <1>11, <2>2
<1>12. CASE StopNow
  BY <1>1, <1>11, <1>12 DEF StopNow, Boundaries
<1>13. CASE SiblingCommit
  <2>1. head.seq \in Nat /\ head = [seq |-> head.seq, boundary |-> head.boundary,
                                    corpus |-> head.corpus, fresh |-> head.fresh]
    BY DEF TypeOK, HeadRecord
  <2>2. head.boundary <= head'.boundary
    <3>1. ASSUME NEW b \in head.boundary + 1 .. scans + 1, NEW k,
                 head' = [seq |-> head.seq + 1, boundary |-> b, corpus |-> k, fresh |-> FALSE]
          PROVE  head.boundary <= head'.boundary
      <4>1. head'.boundary = b
        BY <3>1
      <4> QED BY <1>2, <4>1
    <3>2. CASE head' = [head EXCEPT !.seq = @ + 1, !.fresh = TRUE]
      <4>1. head'.boundary = head.boundary
        BY <2>1, <3>2
      <4> QED BY <1>2, <4>1
    <3> QED BY <1>13, <3>1, <3>2 DEF SiblingCommit
  <2>3. ~retired => base.boundary <= head.boundary
    BY DEF Boundaries
  <2>4. UNCHANGED <<goal, scans, queue, folded, group, retired, base>>
    BY <1>13 DEF SiblingCommit
  <2>5. ~retired' => base'.boundary <= head'.boundary
    BY <1>2, <2>2, <2>3, <2>4
  <2> QED BY <1>1, <1>11, <1>13, <2>4, <2>5
<1>14. CASE Supersede
  BY <1>7, <1>14 DEF Supersede
<1>15. CASE ReadWorld
  <2>1. UNCHANGED <<goal, scans, queue, folded, group, retired, head>>
    BY <1>15 DEF ReadWorld
  <2>2. ~retired' => base' = head'
    BY <1>15, <2>1 DEF ReadWorld
  <2>3. ~retired' => base'.boundary <= head'.boundary
    BY <1>2, <2>2
  <2> QED BY <1>1, <1>11, <1>15, <2>1, <2>3 DEF Loop
<1>16. CASE FinishBatch
  <2>1. UNCHANGED <<goal, scans, queue, folded, group, retired, head>> /\ base' = Head0
    BY <1>16 DEF FinishBatch
  <2>2. base'.boundary = 0
    BY <2>1 DEF Head0
  <2>3. base'.boundary <= head'.boundary
    BY <1>2, <2>2
  <2> QED BY <1>1, <1>11, <1>16, <2>1, <2>3 DEF Loop
<1>17. ASSUME Loop, UNCHANGED <<goal, scans, retired, base, head>>,
              Sorted(queue'), Sorted(folded'), Sorted(group')
       PROVE  Boundaries'
  <2>1. ~retired' => base'.boundary <= head'.boundary
    BY <1>17 DEF Boundaries
  <2> QED BY <1>11, <1>17, <2>1
<1>18. CASE EnumerateFails \/ Fold \/ LaneStops \/ RejectBatch \/ BuildReady \/ BuildThrows
            \/ CommitThrows \/ BuildDrops \/ CommitRefused \/ ReadToken
  <2>1. /\ UNCHANGED <<goal, scans, retired, base, head>>
        /\ queue' \in {queue, << >>} /\ folded' \in {queue, folded, << >>}
        /\ group' \in {group, << >>}
    BY <1>18 DEF EnumerateFails, Fold, LaneStops, RejectBatch, BuildReady, BuildThrows, CommitThrows,
                 BuildDrops, CommitRefused, ReadToken, EndGroup
  <2> QED BY <1>1, <1>17, <1>18, <2>1 DEF Loop
<1>19. CASE DropRetired \/ ActJournal
  <2>1. /\ UNCHANGED <<goal, scans, retired, base, head, queue>>
        /\ folded # << >> /\ folded' = Tail(folded)
        /\ group' = group \/ group' = <<Head(folded)>>
    BY <1>19 DEF DropRetired, ActJournal, Acting
  <2>2. Sorted(folded')
    BY <1>1, <2>1, SortedPart
  <2>3. Sorted(<<Head(folded)>>)
    BY DEF Sorted
  <2> QED BY <1>1, <1>17, <1>19, <2>1, <2>2, <2>3 DEF Loop
<1>20. CASE TakeGroup
  <2>1. PICK n \in 1..Len(folded) :
          /\ group' = Remaining(base, SubSeq(folded, 1, n))
          /\ folded' = SubSeq(folded, n + 1, Len(folded))
    BY <1>20 DEF TakeGroup, TakeGroup_Retired
  <2>2. UNCHANGED <<goal, scans, retired, base, head, queue>>
    BY <1>20 DEF TakeGroup, TakeGroup_Retired
  <2>3. Sorted(SubSeq(folded, 1, n)) /\ Sorted(folded') /\ SubSeq(folded, 1, n) \in Seq(Intent)
    BY <1>1, <2>1, SortedPart, GroupAndRest
  <2>4. Sorted(group')
    BY <2>1, <2>3, SortedPart
  <2> QED BY <1>1, <1>17, <1>20, <2>2, <2>3, <2>4 DEF Loop
<1>21. CASE BeginClear
  <2>1. /\ UNCHANGED <<goal, scans>> /\ retired' = TRUE
        /\ folded # << >> /\ folded' = Tail(folded)
        /\ queue' = queue \/ queue' = << >>
        /\ group' = <<Head(folded)>>
    BY <1>21 DEF BeginClear, Acting
  <2>2. Sorted(folded')
    BY <1>1, <2>1, SortedPart
  <2>3. Sorted(<<Head(folded)>>)
    BY DEF Sorted
  <2> QED BY <1>1, <1>11, <1>21, <2>1, <2>2, <2>3 DEF Loop
<1>22. CASE EndClear
  <2>1. /\ UNCHANGED <<goal, scans, queue, folded, retired>> /\ retired
        /\ group' = group \/ group' = << >>
    BY <1>22 DEF EndClear, Stages
  <2> QED BY <1>1, <1>11, <1>22, <2>1 DEF Loop
<1>23. CASE Commit
  <2>1. /\ UNCHANGED <<goal, scans, queue, folded, retired>>
        /\ base' = head' /\ group' = << >>
    BY <1>23 DEF Commit
  <2>2. base'.boundary <= head'.boundary
    BY <1>2, <2>1
  <2> QED BY <1>1, <1>11, <1>23, <2>1, <2>2 DEF Loop
<1>24. CASE CommitNotHead
  <2>1. /\ UNCHANGED <<goal, scans, queue, folded, retired, head>>
        /\ base' = head /\ (group' = Remaining(head, group) \/ group' = << >>)
    BY <1>24 DEF CommitNotHead
  <2>2. base'.boundary <= head'.boundary
    BY <1>2, <2>1
  <2>3. Sorted(group')
    BY <1>1, <2>1, SortedPart
  <2> QED BY <1>1, <1>11, <1>24, <2>1, <2>2, <2>3 DEF Loop
<1> QED BY <1>5, <1>8, <1>9, <1>10, <1>12, <1>13, <1>14, <1>15, <1>16, <1>18, <1>19, <1>20,
           <1>21, <1>22, <1>23, <1>24 DEF Next, Caller, Loop

-----------------------------------------------------------------------------
(* The invariant, and what it says.                                        *)

\* Every initial state satisfies the invariant, also one whose intents that
\* nobody will enqueue start as answered.
LEMMA InitInv ==
  ASSUME NEW answers \in [Intent -> Desk!Refusal \cup {"none"}], InitWith(answers)
  PROVE  Inv
<1>1. TypeOK
  <2>1. answer \in [Intent -> Answers]
    BY DEF InitWith, Answers, Desk!Refusal
  <2>2. base \in HeadRecord /\ head \in HeadRecord
    BY DEF InitWith, Head0, HeadRecord
  <2>3. queue \in Seq(Intent) /\ folded \in Seq(Intent) /\ group \in Seq(Intent)
    BY ShortSequences DEF InitWith
  <2>4. /\ goal \in [Intent -> Nat] /\ flushed \in [{"stop", "drain"} -> SUBSET Intent]
        /\ retries \in 0..MaxRetries
    BY DEF InitWith
  <2> QED BY <2>1, <2>2, <2>3, <2>4 DEF InitWith, TypeOK
<1>2. OnHand = << >>
  BY ShortSequences, Rows DEF InitWith, OnHand
<1>3. \A i \in Intent : answer[i] # "open"
  BY DEF InitWith, Desk!Refusal
<1>4. Held
  BY <1>2, <1>3, SequenceFacts DEF Held, AllOpen, Once, Pending, IsOpen
<1>5. Boundaries
  <2>1. base.boundary = 0 /\ head.boundary = 0
    BY DEF InitWith, Head0
  <2> QED BY <1>3, <2>1 DEF InitWith, Boundaries, Sorted, IsOpen
<1> QED BY <1>1, <1>4, <1>5 DEF Inv, InitWith, Buffered, Stages, Woken, Awaited

\* Every step keeps it.
LEMMA InvStep == Inv /\ [Next]_vars => Inv'
<1> SUFFICES ASSUME Inv, [Next]_vars PROVE Inv'
  OBVIOUS
<1> USE DEF Inv
<1>1. TypeOK'
  BY TypeStep
<1>2. DeskStep
  BY EachDeskStep
<1>3. Held'
  BY <1>1, <1>2, HeldStep
<1>4. Buffered'
  BY <1>1, BufferedStep
<1>5. Stages'
  BY StagesStep
<1>6. Woken'
  BY WokenStep
<1>7. Awaited'
  BY <1>1, <1>3, AwaitedStep
<1>8. Boundaries'
  BY <1>1, BoundariesStep
<1> QED BY <1>1, <1>3, <1>4, <1>5, <1>6, <1>7, <1>8

\* The invariant holds in every state of the lane.
THEOREM LaneInvariant == Spec => []Inv
<1>1. Init => Inv
  <2> SUFFICES ASSUME Init PROVE Inv
    OBVIOUS
  <2>1. [i \in Intent |-> "none"] \in [Intent -> Desk!Refusal \cup {"none"}]
    OBVIOUS
  <2> QED BY <2>1, InitInv DEF Init
<1> QED BY <1>1, InvStep, PTL DEF Spec

\* The variables of the lane hold what the code could hold.
THEOREM LaneTypes == Spec => []TypeOK
<1>1. Inv => TypeOK
  BY DEF Inv
<1> QED BY <1>1, LaneInvariant, PTL

\* A drain that has resolved left nothing behind of what it found.
THEOREM LaneDrains == Spec => []DrainKeepsWord
<1>1. Inv => DrainKeepsWord
  <2> SUFFICES ASSUME Inv, drainer = "done" PROVE \A i \in promised : answer[i] # "none" /\ ~IsOpen(i)
    BY DEF DrainKeepsWord
  <2>1. Awaited
    BY DEF Inv
  <2> QED BY <2>1 DEF Awaited
<1> QED BY <1>1, LaneInvariant, PTL

\* Who in a batch or a group is told what.
LEMMA WhoIsTold ==
  ASSUME TypeOK, NEW S, NEW r, answer' = Told(S, r), NEW i \in Intent, IsOpen(i)
  PROVE  answer'[i] = "open" \/ (answer'[i] = r /\ i \in S)
BY DEF Told, IsOpen

\* Who is told that his work is done, and at which step.
LEMMA WhoIsServed ==
  ASSUME Inv, [Next]_vars, NEW i \in Intent, IsOpen(i),
         answer'[i] \in {"covered", "committed", "completed"}
  PROVE  \/ TakeGroup /\ answer'[i] = "covered" /\ Covers(base, i)
         \/ CommitNotHead /\ answer'[i] = "covered" /\ Covers(head, i)
         \/ Commit /\ answer'[i] = "committed" /\ i \in ToSet(group)
         \/ ActJournal /\ answer'[i] = "completed"
         \/ EndClear /\ answer'[i] = "completed" /\ i \in ToSet(group)
<1> USE DEF callVars, headVars, workVars
<1>1. TypeOK /\ Buffered /\ answer[i] = "open"
  BY DEF Inv, IsOpen
<1>2. answer'[i] # "open" /\ answer' # answer
  BY <1>1
<1>3. ASSUME NEW j \in Intent, Enqueue(j) PROVE FALSE
  <2>1. answer[j] = "none" /\ j # i
    BY <1>1, <1>3 DEF Enqueue
  <2>2. CASE Push({j})
    BY <1>1, <1>2, <2>1, <2>2 DEF Push
  <2>3. CASE ~Push({j})
    BY <1>1, <1>2, <1>3, <2>1, <2>3 DEF Enqueue, TypeOK
  <2> QED BY <2>2, <2>3
<1>4. ASSUME NEW c, Flush(c) PROVE FALSE
  <2>1. i \notin buffered
    BY <1>1 DEF Buffered
  <2> QED BY <1>1, <1>2, <1>4, <2>1 DEF Flush, Push
<1>5. CASE Drain \/ Stop
  BY <1>2, <1>4, <1>5 DEF Drain, Stop
<1>6. CASE \/ \E j \in Intent : Debounce(j)
           \/ DrainWaits \/ Halt \/ ReadWorld \/ EnumerateFails \/ Fold \/ FinishBatch \/ LaneStops
           \/ BuildReady \/ BuildThrows \/ CommitThrows \/ SiblingCommit \/ Supersede
           \/ UNCHANGED vars
  BY <1>2, <1>6 DEF Debounce, DrainWaits, Halt, ReadWorld, EnumerateFails, Fold, FinishBatch,
       LaneStops, BuildReady, BuildThrows, CommitThrows, SiblingCommit, Supersede, vars
<1>7. CASE StopNow \/ RejectBatch \/ DropRetired \/ BeginClear \/ BuildDrops \/ CommitRefused \/ ReadToken
  <2>1. \/ answer' = answer
        \/ \E S : answer' = Told(S, "dropped") \/ answer' = Told(S, "rejected")
    BY <1>7 DEF StopNow, RejectBatch, DropRetired, BeginClear, BuildDrops, CommitRefused, ReadToken,
                EndGroup
  <2> QED BY <1>1, <1>2, <2>1, WhoIsTold
<1>8. CASE ActJournal
  <2>1. answer' = Told({Head(folded)}, "completed")
    BY <1>2, <1>8 DEF ActJournal
  <2> QED BY <1>1, <1>2, <1>8, <2>1, WhoIsTold
<1>9. CASE EndClear
  <2>1. answer' = Told(ToSet(group), "completed")
    BY <1>2, <1>9 DEF EndClear
  <2> QED BY <1>1, <1>2, <1>9, <2>1, WhoIsTold
<1>10. CASE Commit
  <2>1. PICK h \in Candidates :
          answer' = [j \in Intent |->
            IF j \in ToSet(group) /\ IsOpen(j) THEN CommitAnswer(h, j) ELSE answer[j]]
    BY <1>10 DEF Commit
  <2>2. i \in ToSet(group) /\ answer'[i] = CommitAnswer(h, i)
    BY <1>1, <1>2, <2>1 DEF IsOpen
  <2> QED BY <1>10, <2>2 DEF CommitAnswer
<1>11. CASE TakeGroup
  <2>1. PICK g : answer' = Filtered(base, g)
    BY <1>11 DEF TakeGroup, TakeGroup_Retired
  <2> QED BY <1>1, <1>2, <1>11, <2>1 DEF Filtered
<1>12. CASE CommitNotHead
  <2>1. answer'[i] = Filtered(head, group)[i] \/ answer'[i] = "rejected"
    BY <1>12 DEF CommitNotHead
  <2> QED BY <1>1, <1>2, <1>12, <2>1 DEF Filtered
<1> QED BY <1>3, <1>5, <1>6, <1>7, <1>8, <1>9, <1>10, <1>11, <1>12 DEF Next, Caller, Loop

\* Who is told that his save or refresh is published finds the head of the
\* ledger at or beyond the scan boundary recorded for it.
THEOREM LanePublishes == Spec => PublishedIsCovered
<1>1. ASSUME Inv, [Next]_vars, NEW i \in Intent, KindOf[i] = "lexical", IsOpen(i),
             answer'[i] \in {"covered", "committed"}
      PROVE  head'.boundary >= goal[i]
  <2>1. /\ TypeOK /\ Stages /\ Boundaries
        /\ goal[i] \in Nat /\ head.boundary \in Nat /\ base.boundary \in Nat
    BY <1>1 DEF Inv, TypeOK, HeadRecord
  <2>2. CASE TakeGroup /\ Covers(base, i)
    <3>1. base.boundary >= goal[i] /\ ~retired /\ head' = head
      BY <1>1, <2>2 DEF Covers, TakeGroup, TakeGroup_Retired, headVars
    <3>2. base.boundary <= head.boundary
      BY <2>1, <3>1 DEF Boundaries
    <3> QED BY <2>1, <3>1, <3>2
  <2>3. CASE CommitNotHead /\ Covers(head, i)
    BY <1>1, <2>3 DEF Covers, CommitNotHead, headVars
  <2>4. CASE Commit /\ i \in ToSet(group)
    <3>1. PICK h \in Candidates : head' = h
      BY <2>4 DEF Commit
    <3>2. group \in Seq(Intent) /\ group # << >>
      BY <2>1, <2>4 DEF TypeOK, Stages, Commit
    <3>3. /\ Len(group) \in Nat /\ DOMAIN group = 1..Len(group) /\ Len(group) \in DOMAIN group
          /\ Representative = group[Len(group)] /\ Representative \in Intent
      BY <3>2 DEF Representative, Last
    <3>4. PICK n \in DOMAIN group : group[n] = i
      BY <2>4 DEF ToSet
    <3>5. BuildLane(i) = BuildLane(Representative)
      BY <2>1, <2>4, <3>3, <3>4 DEF Stages, Commit
    <3>6. KindOf[Representative] = "lexical"
      BY <1>1, <3>5 DEF BuildLane
    <3>7. goal[i] <= goal[Representative]
      <4>1. CASE n = Len(group)
        BY <2>1, <3>3, <3>4, <4>1
      <4>2. CASE n # Len(group)
        <5>1. n < Len(group)
          BY <3>3, <4>2
        <5> QED BY <1>1, <2>1, <3>3, <3>4, <3>6, <5>1 DEF Boundaries, Sorted
      <4> QED BY <4>1, <4>2
    <3>8. goal[Representative] \in Nat
      BY <2>1, <3>3 DEF TypeOK
    <3>9. h.boundary = goal[Representative]
      BY <2>1, <3>6, <3>8, CandidateType DEF Lexical
    <3> QED BY <2>1, <3>1, <3>7, <3>8, <3>9
  <2> QED BY <1>1, <2>2, <2>3, <2>4, WhoIsServed
<1>2. Inv /\ [Next]_vars =>
        [\A i \in Intent : /\ KindOf[i] = "lexical"
                           /\ IsOpen(i)
                           /\ answer'[i] \in {"covered", "committed"}
                           => head'.boundary >= goal[i]]_vars
  BY <1>1
<1> QED BY <1>2, LaneInvariant, PTL DEF Spec, PublishedIsCovered

\* A publisher that has begun a clear reports nothing done but clears.
THEOREM LaneIsQuiet == Spec => QuietAfterClear
<1>1. ASSUME Inv, [Next]_vars, retired, NEW i \in Intent, IsOpen(i),
             answer'[i] \in {"covered", "committed", "completed"}
      PROVE  KindOf[i] = "clear"
  <2>1. Stages
    BY <1>1 DEF Inv
  <2>2. ~TakeGroup /\ ~CommitNotHead /\ ~Commit /\ ~ActJournal
    BY <1>1, <2>1 DEF TakeGroup, CommitNotHead, Commit, ActJournal, Stages
  <2>3. EndClear /\ i \in ToSet(group)
    BY <1>1, <2>2, WhoIsServed
  <2> QED BY <2>1, <2>3 DEF Stages, EndClear, ToSet
<1>2. Inv /\ [Next]_vars =>
        [retired => \A i \in Intent : /\ IsOpen(i)
                                      /\ answer'[i] \in {"covered", "committed", "completed"}
                                      => KindOf[i] = "clear"]_vars
  BY <1>1
<1> QED BY <1>2, LaneInvariant, PTL DEF Spec, QuietAfterClear

\* A numbering is no longer than what it numbers.
LEMMA NumberingIsShort ==
  ASSUME NEW m \in Nat, NEW n \in Nat, NEW at \in [1..m -> 1..n],
         \A j, k \in 1..m : j < k => at[j] < at[k]
  PROVE  m <= n
<1>1. at \in Injection(1..m, 1..n)
  <2>1. ASSUME NEW j \in 1..m, NEW k \in 1..m, at[j] = at[k] PROVE j = k
    <3>1. at[j] \in Nat /\ at[k] \in Nat
      OBVIOUS
    <3>2. ~(j < k) /\ ~(k < j)
      BY <2>1, <3>1
    <3> QED BY <3>2
  <2> QED BY <2>1 DEF Injection, IsInjective
<1>2. IsFiniteSet(1..n) /\ IsFiniteSet(1..m)
  BY FS_Interval
<1>3. Cardinality(1..m) = m /\ Cardinality(1..n) = n
  <2>1. \A k \in Nat : Cardinality(1..k) = IF 1 > k THEN 0 ELSE k - 1 + 1
    BY FS_Interval
  <2>2. Cardinality(1..m) = IF 1 > m THEN 0 ELSE m - 1 + 1
    BY <2>1
  <2>3. Cardinality(1..n) = IF 1 > n THEN 0 ELSE n - 1 + 1
    BY <2>1
  <2> QED BY <2>2, <2>3
<1>4. Cardinality(1..m) <= Cardinality(1..n)
  BY <1>1, <1>2, FS_Injection
<1> QED BY <1>3, <1>4

\* What settles here settles at the desk.
LEMMA SettlesAtDesk ==
  ASSUME TypeOK, TypeOK', NEW S, Settles(S)
  PROVE  Desk!SettleSome
<1> DEFINE s == OnHand
           t == OnHand'
<1>1. s \in Seq(Intent) /\ t \in Seq(Intent)
  <2>1. group \o folded \in Seq(Intent) /\ queue \in Seq(Intent)
    BY FactsOfConcat DEF TypeOK
  <2>2. (group \o folded)' \in Seq(Intent) /\ queue' \in Seq(Intent)
    BY FactsOfConcat DEF TypeOK
  <2> QED BY <2>1, <2>2, FactsOfConcat DEF OnHand
<1>2. PICK at : Leaves(s, S, t, at)
  BY DEF Settles
<1>3. S \in SUBSET ToSet(s) /\ S # {} /\ AnswersTo(S)
  BY DEF Settles
<1>4. \A n \in DOMAIN s : \A m \in 1..n :
        s[n] \in S /\ answer'[s[n]] \in Desk!InTurn => s[m] \in S
  BY DEF Settles
<1> HIDE DEF s, t
<1>5. /\ Len(s) \in Nat /\ Len(t) \in Nat /\ DOMAIN s = 1..Len(s) /\ DOMAIN t = 1..Len(t)
      /\ at \in [1..Len(t) -> 1..Len(s)]
      /\ \A j, k \in 1..Len(t) : j < k => at[j] < at[k]
      /\ \A k \in 1..Len(t) : t[k] = s[at[k]] /\ s[at[k]] \notin S
      /\ \A n \in 1..Len(s) : s[n] \notin S => \E k \in 1..Len(t) : at[k] = n
  BY <1>1, <1>2 DEF Leaves
<1>6. at \in Desk!Numberings(s, S)
  <2>1. Len(t) \in 0..Len(s)
    BY <1>5, NumberingIsShort
  <2>2. at \in UNION {[1..k -> DOMAIN s] : k \in 0..Len(s)}
    BY <1>5, <2>1
  <2>3. DOMAIN at = 1..Len(t)
    BY <1>5
  <2>4. \A n \in DOMAIN s : s[n] \notin S <=> \E k \in DOMAIN at : at[k] = n
    BY <1>5, <2>3
  <2> QED BY <1>5, <2>2, <2>3, <2>4 DEF Desk!Numberings
<1>7. t = [k \in DOMAIN at |-> s[at[k]]]
  <2>1. t = [k \in 1..Len(t) |-> t[k]]
    BY <1>1, <1>5
  <2> QED BY <1>5, <2>1
<1> DEFINE r == [i \in S |-> answer'[i]]
<1>8. r \in [S -> Desk!Answer]
  BY <1>3 DEF AnswersTo
<1>9. answer' = [i \in Intent |-> IF i \in S THEN r[i] ELSE answer[i]]
  BY <1>3 DEF AnswersTo, TypeOK
<1>10. \A n \in DOMAIN s : \A m \in 1..n : s[n] \in S /\ r[s[n]] \in Desk!InTurn => s[m] \in S
  BY <1>4
<1> HIDE DEF r
<1>11. Desk!Settle(S)
  BY <1>3, <1>6, <1>7, <1>8, <1>9, <1>10 DEF Desk!Settle, s, t
<1>12. S \in SUBSET Desk!ToSet(s)
  BY <1>3 DEF ToSet, Desk!ToSet
<1> QED BY <1>11, <1>12 DEF Desk!SettleSome, s

\* The lane does what the desk promises: nothing that is accepted is lost or
\* answered twice, and what reports work done does not overtake.
THEOREM LaneIsDesk == Spec => Desk!Init /\ [][Desk!Next]_(Desk!vars)
<1>1. Init => Desk!Init
  <2> SUFFICES ASSUME Init PROVE Desk!Init
    OBVIOUS
  <2>1. OnHand = << >>
    BY ShortSequences, Rows DEF Init, InitWith, OnHand
  <2>2. answer \in [Intent -> {"none"} \cup Desk!Refusal]
    BY DEF Init, InitWith
  <2> QED BY <2>1, <2>2 DEF Desk!Init
<1>2. Inv /\ [Next]_vars => [Desk!Next]_(Desk!vars)
  <2> SUFFICES ASSUME Inv, [Next]_vars PROVE Desk!Next \/ UNCHANGED Desk!vars
    OBVIOUS
  <2>1. DeskStep /\ TypeOK /\ TypeOK'
    BY EachDeskStep, InvStep DEF Inv
  <2>2. ASSUME NEW i \in Intent, Accepts(i) PROVE Desk!Next
    <3>1. Desk!Accept(i)
      BY <2>2 DEF Accepts, Desk!Accept
    <3> QED BY <3>1 DEF Desk!Next
  <2>3. ASSUME NEW i \in Intent, TurnsAway(i) PROVE Desk!Next
    <3>1. Desk!TurnAway(i)
      BY <2>3 DEF TurnsAway, Desk!TurnAway
    <3> QED BY <3>1 DEF Desk!Next
  <2>4. ASSUME NEW S, Settles(S) PROVE Desk!Next
    BY <2>1, <2>4, SettlesAtDesk DEF Desk!Next
  <2>5. CASE OnHand' = OnHand /\ answer' = answer
    BY <2>5 DEF Desk!vars
  <2> QED BY <2>1, <2>2, <2>3, <2>4, <2>5 DEF DeskStep, Answering
<1> QED BY <1>1, <1>2, LaneInvariant, PTL DEF Spec
=================================================================================
