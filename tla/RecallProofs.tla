--------------------------- MODULE RecallProofs ---------------------------
(* Proofs about Recall, for every number of appenders and episodes, for    *)
(* whatever requests, and however the channels' reads fall between writes. *)
EXTENDS Recall, IntegerSets, SequenceTheorems

-----------------------------------------------------------------------------
(* Rankings: what Ranked chooses exists, and is in order *)

\* Ahead is a strict order in which any two episodes compare.
LEMMA AheadIsTotal ==
    ASSUME NEW S \in SUBSET Int, NEW score, \A s \in S : score[s] \in Int,
           NEW s \in S, NEW t \in S
    PROVE  /\ ~Ahead(score, s, s) /\ (s # t => Ahead(score, s, t) \/ Ahead(score, t, s))
           /\ \A u \in S : Ahead(score, s, t) /\ Ahead(score, t, u) => Ahead(score, s, u)
<1>1. s \in Int /\ t \in Int /\ score[s] \in Int /\ score[t] \in Int
  OBVIOUS
<1>2. ASSUME NEW u \in S, Ahead(score, s, t), Ahead(score, t, u)
      PROVE  Ahead(score, s, u)
  <2>1. u \in Int /\ score[u] \in Int
    OBVIOUS
  <2> QED
    BY <1>1, <1>2, <2>1 DEF Ahead
<1> QED
  BY <1>1, <1>2 DEF Ahead

\* The positions 1 .. n of f hold members of S, each ahead of the next.
InOrder(S, score, n, f) ==
    /\ f \in [1 .. n -> S]
    /\ \A i, j \in 1 .. n : i < j => Ahead(score, f[i], f[j])

\* A member can be put where it belongs.
LEMMA InsertInOrder ==
    ASSUME NEW S \in SUBSET Int, NEW score, \A s \in S : score[s] \in Int, NEW n \in Nat,
           NEW t \in S, NEW g, InOrder(S \ {t}, score, n, g)
    PROVE  \E f : InOrder(S, score, n + 1, f)
<1> DEFINE P == {i \in 1 .. n + 1 : i = n + 1 \/ Ahead(score, t, g[i])}
           p == Min(P)
           f == [i \in 1 .. n + 1 |-> IF i < p THEN g[i] ELSE IF i = p THEN t ELSE g[i - 1]]
<1>1. P \in SUBSET Nat /\ n + 1 \in P
  OBVIOUS
<1> HIDE DEF P
<1>2. p \in P /\ \A i \in P : p <= i
  BY <1>1, MinIsLeast
<1>3. p \in 1 .. n + 1 /\ (p = n + 1 \/ Ahead(score, t, g[p]))
  BY <1>2 DEF P
<1> HIDE DEF p
<1>4. \A i \in 1 .. n : g[i] \in S /\ g[i] # t
  BY DEF InOrder
<1>5. \A i \in 1 .. n : i < p => Ahead(score, g[i], t)
  <2> SUFFICES ASSUME NEW i \in 1 .. n, i < p
               PROVE  Ahead(score, g[i], t)
    OBVIOUS
  <2>1. i \notin P
    BY <1>2, <1>3
  <2>2. ~Ahead(score, t, g[i])
    BY <2>1 DEF P
  <2> QED
    BY <1>4, <2>2, AheadIsTotal
<1>6. \A i \in 1 .. n : i >= p => Ahead(score, t, g[i])
  <2> SUFFICES ASSUME NEW i \in 1 .. n, i >= p
               PROVE  Ahead(score, t, g[i])
    OBVIOUS
  <2>1. p \in 1 .. n /\ Ahead(score, t, g[p])
    BY <1>3
  <2>2. CASE i = p
    BY <2>1, <2>2
  <2>3. CASE i # p
    <3>1. Ahead(score, g[p], g[i])
      BY <1>3, <2>1, <2>3 DEF InOrder
    <3>2. g[p] \in S /\ g[i] \in S
      BY <1>4, <2>1
    <3> QED
      BY <2>1, <3>1, <3>2, AheadIsTotal
  <2> QED
    BY <2>2, <2>3
<1>7. f \in [1 .. n + 1 -> S]
  <2>1. \A i \in 1 .. n + 1 : f[i] \in S
    <3> TAKE i \in 1 .. n + 1
    <3>1. CASE i < p
      BY <1>3, <1>4, <3>1
    <3>2. CASE i = p
      BY <1>3, <3>2
    <3>3. CASE i > p
      <4>1. i - 1 \in 1 .. n /\ f[i] = g[i - 1]
        BY <1>3, <3>3
      <4> QED
        BY <1>4, <4>1
    <3> QED
      BY <1>3, <3>1, <3>2, <3>3
  <2> QED
    BY <2>1
<1>8. ASSUME NEW i \in 1 .. n + 1, NEW j \in 1 .. n + 1, i < j
      PROVE  Ahead(score, f[i], f[j])
  <2>1. CASE j < p
    <3>1. f[i] = g[i] /\ f[j] = g[j] /\ i \in 1 .. n /\ j \in 1 .. n
      BY <1>3, <1>8, <2>1
    <3> QED
      BY <1>8, <3>1 DEF InOrder
  <2>2. CASE j = p
    <3>1. f[i] = g[i] /\ f[j] = t /\ i \in 1 .. n /\ i < p
      BY <1>3, <1>8, <2>2
    <3> QED
      BY <1>5, <3>1
  <2>3. CASE i = p
    <3>1. f[i] = t /\ f[j] = g[j - 1] /\ j - 1 \in 1 .. n /\ j - 1 >= p
      BY <1>3, <1>8, <2>3
    <3> QED
      BY <1>6, <3>1
  <2>4. CASE i < p /\ j > p
    <3>1. f[i] = g[i] /\ f[j] = g[j - 1] /\ i \in 1 .. n /\ j - 1 \in 1 .. n /\ i < j - 1
      BY <1>3, <1>8, <2>4
    <3> QED
      BY <3>1 DEF InOrder
  <2>5. CASE i > p
    <3>1. f[i] = g[i - 1] /\ f[j] = g[j - 1] /\ i - 1 \in 1 .. n /\ j - 1 \in 1 .. n /\ i - 1 < j - 1
      BY <1>3, <1>8, <2>5
    <3> QED
      BY <3>1 DEF InOrder
  <2> QED
    BY <1>3, <1>8, <2>1, <2>2, <2>3, <2>4, <2>5
<1> HIDE DEF f
<1>9. InOrder(S, score, n + 1, f)
  BY <1>7, <1>8 DEF InOrder
<1> QED
  BY <1>9

\* Every finite set of episodes can be ranked.
LEMMA RankingExists ==
    ASSUME NEW S \in SUBSET Int, IsFiniteSet(S), NEW score, \A s \in S : score[s] \in Int
    PROVE  \E f : InOrder(S, score, Cardinality(S), f)
<1> DEFINE Bad == {n \in Nat : \E T \in SUBSET S :
                      Cardinality(T) = n /\ ~\E f : InOrder(T, score, n, f)}
<1> SUFFICES ASSUME Bad # {}
             PROVE  FALSE
  <2>1. Cardinality(S) \in Nat /\ S \in SUBSET S
    BY FS_CardinalityType
  <2> QED
    BY <2>1
<1>1. Bad \in SUBSET Nat
  OBVIOUS
<1> DEFINE m == Min(Bad)
<1>2. m \in Bad /\ \A n \in Bad : m <= n
  <2> HIDE DEF Bad
  <2> QED
    BY <1>1, MinIsLeast
<1> HIDE DEF m
<1>3. PICK T \in SUBSET S : Cardinality(T) = m /\ ~\E f : InOrder(T, score, m, f)
  BY <1>2
<1>4. m \in Nat /\ IsFiniteSet(T) /\ T \in SUBSET Int /\ \A s \in T : score[s] \in Int
  BY <1>2, FS_Subset
<1>5. CASE T = {}
  <2>1. m = 0
    BY <1>3, <1>5, FS_EmptySet
  <2>2. InOrder(T, score, 0, [i \in 1 .. 0 |-> i])
    BY DEF InOrder
  <2> QED
    BY <1>3, <2>1, <2>2
<1>6. CASE T # {}
  <2>1. PICK t \in T : TRUE
    BY <1>6
  <2>2. IsFiniteSet(T \ {t}) /\ Cardinality(T \ {t}) = m - 1
    BY <1>3, <1>4, <2>1, FS_RemoveElement
  <2>3. m - 1 \in Nat
    BY <2>2, FS_CardinalityType
  <2>4. m - 1 \notin Bad
    BY <1>2, <1>4, <2>3
  <2>5. PICK g : InOrder(T \ {t}, score, m - 1, g)
    <3>1. T \ {t} \in SUBSET S
      OBVIOUS
    <3> QED
      BY <2>2, <2>3, <2>4, <3>1
  <2> HIDE DEF Bad
  <2>6. \E f : InOrder(T, score, (m - 1) + 1, f)
    BY <1>4, <2>1, <2>3, <2>5, InsertInOrder
  <2>7. (m - 1) + 1 = m
    BY <1>4
  <2> QED
    BY <1>3, <2>6, <2>7
<1> QED
  BY <1>5, <1>6

\* A ranking holds each member of the set once, the better ones first.
LEMMA RankedIsRanking ==
    ASSUME NEW S \in SUBSET Int, IsFiniteSet(S), NEW score, \A s \in S : score[s] \in Int
    PROVE  /\ Cardinality(S) \in Nat
           /\ Ranked(S, score) \in [1 .. Cardinality(S) -> S]
           /\ \A i, j \in 1 .. Cardinality(S) :
                 i < j => Ahead(score, Ranked(S, score)[i], Ranked(S, score)[j])
           /\ \A i, j \in 1 .. Cardinality(S) : Ranked(S, score)[i] = Ranked(S, score)[j] => i = j
           /\ \A s \in S : \E i \in 1 .. Cardinality(S) : Ranked(S, score)[i] = s
           /\ Range(Ranked(S, score)) = S
<1> DEFINE n == Cardinality(S)
           r == Ranked(S, score)
<1>1. n \in Nat
  BY FS_CardinalityType
<1>2. \E f \in [1 .. n -> S] : \A i, j \in DOMAIN f : i < j => Ahead(score, f[i], f[j])
  <2>1. PICK f : InOrder(S, score, n, f)
    BY RankingExists
  <2> QED
    BY <2>1 DEF InOrder
<1>3. r \in [1 .. n -> S] /\ \A i, j \in DOMAIN r : i < j => Ahead(score, r[i], r[j])
  BY <1>2, Zenon DEF Ranked
<1> HIDE DEF r, n
<1>4. \A i, j \in 1 .. n : i < j => Ahead(score, r[i], r[j])
  BY <1>3
<1>5. ASSUME NEW i \in 1 .. n, NEW j \in 1 .. n, r[i] = r[j], i # j
      PROVE  FALSE
  <2>1. r[i] \in S /\ r[j] \in S
    BY <1>3
  <2>2. ~Ahead(score, r[i], r[i])
    BY <2>1, AheadIsTotal
  <2>3. i < j \/ j < i
    BY <1>1, <1>5
  <2> QED
    BY <1>4, <1>5, <2>2, <2>3
<1>6. Range(r) \subseteq S /\ \A s \in Range(r) : \E i \in 1 .. n : r[i] = s
  BY <1>3 DEF Range
<1>7. Range(r) = S
  <2>1. r \in Bijection(1 .. n, Range(r))
    <3>1. r \in [1 .. n -> Range(r)]
      BY <1>3 DEF Range
    <3> QED
      BY <1>5, <1>6, <3>1 DEF Bijection, Injection, Surjection, IsInjective
  <2>2. IsFiniteSet(1 .. n) /\ Cardinality(1 .. n) = n
    BY <1>1, FS_Interval
  <2>3. Cardinality(Range(r)) = n
    BY <2>1, <2>2, FS_Bijection DEF ExistsBijection
  <2> QED
    BY <1>6, <2>3, FS_Subset DEF n
<1> QED
  BY <1>1, <1>3, <1>4, <1>5, <1>6, <1>7 DEF r, n

-----------------------------------------------------------------------------
(* Budgets: what Spent computes *)

\* p is the running sum of costs up to its n-th item.
SumsTo(costs, n, p) ==
    /\ p \in [0 .. n -> Nat] /\ p[0] = 0
    /\ \A i \in 1 .. n : p[i] = p[i - 1] + costs[i]

\* Running sums exist.
LEMMA SumsExist ==
    ASSUME NEW costs \in Seq(Nat)
    PROVE  \E p : SumsTo(costs, Len(costs), p)
<1> DEFINE Bad == {n \in 0 .. Len(costs) : ~\E p : SumsTo(costs, n, p)}
<1>0. Len(costs) \in Nat
  OBVIOUS
<1> SUFFICES ASSUME Bad # {}
             PROVE  FALSE
  BY <1>0
<1> DEFINE m == Min(Bad)
<1>1. Bad \in SUBSET Nat
  OBVIOUS
<1>2. m \in Bad /\ \A n \in Bad : m <= n
  <2> HIDE DEF Bad
  <2> QED
    BY <1>1, MinIsLeast
<1> HIDE DEF m
<1>3. m \in 0 .. Len(costs) /\ ~\E p : SumsTo(costs, m, p)
  BY <1>2
<1>4. CASE m = 0
  <2>1. SumsTo(costs, 0, [i \in 0 .. 0 |-> 0])
    BY DEF SumsTo
  <2> QED
    BY <1>3, <1>4, <2>1
<1>5. CASE m # 0
  <2>1. m - 1 \in 0 .. Len(costs) /\ m - 1 \notin Bad
    <3>1. m - 1 \in 0 .. Len(costs) /\ ~(m <= m - 1)
      BY <1>0, <1>3, <1>5
    <3> HIDE DEF Bad
    <3> QED
      BY <1>2, <3>1
  <2>2. PICK p : SumsTo(costs, m - 1, p)
    BY <2>1
  <2> DEFINE q == [i \in 0 .. m |-> IF i = m THEN p[m - 1] + costs[m] ELSE p[i]]
  <2>3. costs[m] \in Nat
    BY <1>0, <1>3, <1>5
  <2>4. p \in [0 .. m - 1 -> Nat] /\ p[0] = 0 /\ \A i \in 1 .. m - 1 : p[i] = p[i - 1] + costs[i]
    BY <2>2 DEF SumsTo
  <2>5. \A i \in 0 .. m - 1 : q[i] = p[i] /\ p[i] \in Nat
    BY <1>0, <1>3, <2>4
  <2>6. q[m] = p[m - 1] + costs[m]
    BY <1>0, <1>3
  <2>7. m - 1 \in 0 .. m - 1 /\ 0 \in 0 .. m - 1
    BY <1>0, <1>3, <1>5
  <2>8. q \in [0 .. m -> Nat]
    <3>1. q[m] \in Nat
      <4>1. p[m - 1] \in Nat
        BY <2>5, <2>7
      <4> HIDE DEF q
      <4> QED
        BY <2>3, <2>6, <4>1
    <3>2. \A i \in 0 .. m : i = m \/ i \in 0 .. m - 1
      BY <1>0, <1>3
    <3>3. \A i \in 0 .. m : q[i] \in Nat
      BY <2>5, <3>1, <3>2
    <3> QED
      BY <3>3
  <2> HIDE DEF q
  <2>9. \A i \in 1 .. m : q[i] = q[i - 1] + costs[i]
    <3> TAKE i \in 1 .. m
    <3>1. CASE i = m
      BY <2>5, <2>6, <2>7, <3>1
    <3>2. CASE i # m
      <4>1. i \in 1 .. m - 1 /\ i \in 0 .. m - 1 /\ i - 1 \in 0 .. m - 1
        BY <1>0, <1>3, <3>2
      <4> QED
        BY <2>4, <2>5, <4>1
    <3> QED
      BY <3>1, <3>2
  <2>10. SumsTo(costs, m, q)
    BY <2>4, <2>5, <2>7, <2>8, <2>9 DEF SumsTo
  <2> QED
    BY <1>3, <2>10
<1> QED
  BY <1>4, <1>5

\* Spent is the running sum.
LEMMA SpentSums ==
    ASSUME NEW costs \in Seq(Nat)
    PROVE  SumsTo(costs, Len(costs), Spent(costs))
<1>1. PICK p : SumsTo(costs, Len(costs), p)
  BY SumsExist
<1>2. Len(costs) \in Nat
  OBVIOUS
<1>3. p = [n \in 0 .. Len(costs) |-> IF n = 0 THEN 0 ELSE p[n - 1] + costs[n]]
  <2> DEFINE q == [n \in 0 .. Len(costs) |-> IF n = 0 THEN 0 ELSE p[n - 1] + costs[n]]
  <2>1. p \in [0 .. Len(costs) -> Nat] /\ p[0] = 0
    BY <1>1 DEF SumsTo
  <2>2. \A n \in 0 .. Len(costs) : p[n] = q[n]
    <3> TAKE n \in 0 .. Len(costs)
    <3>1. CASE n = 0
      BY <2>1, <3>1
    <3>2. CASE n # 0
      <4>1. n \in 1 .. Len(costs)
        BY <1>2, <3>2
      <4> QED
        BY <1>1, <3>2, <4>1 DEF SumsTo
    <3> QED
      BY <3>1, <3>2
  <2> QED
    BY <2>1, <2>2
<1> DEFINE s == Spent(costs)
<1>4. s = [n \in 0 .. Len(costs) |-> IF n = 0 THEN 0 ELSE s[n - 1] + costs[n]]
  BY <1>3, Zenon DEF Spent
<1> HIDE DEF s
<1>5. s = p
  <2> DEFINE Bad == {n \in 0 .. Len(costs) : s[n] # p[n]}
  <2>1. Bad = {}
    <3> SUFFICES ASSUME Bad # {}
                 PROVE  FALSE
      OBVIOUS
    <3> DEFINE m == Min(Bad)
    <3>1. Bad \in SUBSET Nat
      BY <1>2
    <3>2. m \in Bad /\ \A n \in Bad : m <= n
      <4> HIDE DEF Bad
      <4> QED
        BY <3>1, MinIsLeast
    <3> HIDE DEF m
    <3>3. m \in 0 .. Len(costs) /\ s[m] # p[m]
      BY <3>2
    <3>4. CASE m = 0
      BY <1>3, <1>4, <3>3, <3>4
    <3>5. CASE m # 0
      <4>1. m - 1 \in 0 .. Len(costs) /\ m - 1 \notin Bad
        BY <1>2, <3>2, <3>3, <3>5
      <4>2. s[m - 1] = p[m - 1]
        BY <4>1
      <4> QED
        BY <1>3, <1>4, <3>3, <3>5, <4>2
    <3> QED
      BY <3>4, <3>5
  <2>2. \A n \in 0 .. Len(costs) : s[n] = p[n]
    BY <2>1
  <2> QED
    BY <1>3, <1>4, <2>2
<1> QED
  BY <1>1, <1>5 DEF s

\* Items that are alike cost alike, whatever comes after them.
LEMMA SpentAlike ==
    ASSUME NEW c \in Seq(Nat), NEW d \in Seq(Nat), NEW n \in Nat,
           n <= Len(c), n <= Len(d), \A i \in 1 .. n : c[i] = d[i]
    PROVE  Spent(c)[n] = Spent(d)[n]
<1> DEFINE Bad == {k \in 0 .. n : Spent(c)[k] # Spent(d)[k]}
           m == Min(Bad)
<1> SUFFICES ASSUME Bad # {}
             PROVE  FALSE
  OBVIOUS
<1>1. /\ Spent(c)[0] = 0 /\ \A i \in 1 .. n : Spent(c)[i] = Spent(c)[i - 1] + c[i]
      /\ Spent(d)[0] = 0 /\ \A i \in 1 .. n : Spent(d)[i] = Spent(d)[i - 1] + d[i]
  <2>1. \A i \in 1 .. n : i \in 1 .. Len(c) /\ i \in 1 .. Len(d)
    OBVIOUS
  <2> QED
    BY <2>1, SpentSums DEF SumsTo
<1>2. m \in Bad /\ \A k \in Bad : m <= k
  <2>1. Bad \in SUBSET Nat
    OBVIOUS
  <2> HIDE DEF Bad
  <2> QED
    BY <2>1, MinIsLeast
<1> HIDE DEF m
<1>3. m \in 0 .. n /\ Spent(c)[m] # Spent(d)[m]
  BY <1>2
<1>4. m # 0
  BY <1>1, <1>3
<1>5. m - 1 \in 0 .. n /\ m - 1 \notin Bad /\ m \in 1 .. n
  BY <1>2, <1>3, <1>4
<1>6. Spent(c)[m - 1] = Spent(d)[m - 1]
  BY <1>5
<1> QED
  BY <1>1, <1>3, <1>5, <1>6

-----------------------------------------------------------------------------
(* The inductive invariant *)

\* What an appender and a Recall hold.
Appends == [at : {"idle", "stamped", "sequenced"}, stamp : Nat, n : Nat, base : Nat]
Slots == [at : {"running", "ok", "failed"}, found : Seq(Seqs), facts : Seq(Nat)]
Plans == UNION {[C -> Slots] : C \in SUBSET Channels}
Answers == [facts : Seq(Nat), episodes : Seq(Seqs), tokens : Nat, truncated : BOOLEAN]
Calls == [at : {"running", "answered", "all_failed", "cancelled"}, q : Requests, asOf : Int,
          limit : Nat, depth : Nat, factLimit : Nat, slots : Plans, before : SUBSET Seqs,
          answer : Answers]

\* The appender that has taken its numbers is the one that holds the row, and
\* they are the last ones taken.
Appending ==
    /\ app \in [Appenders -> Appends] /\ lastSeq \in 0 .. MaxSeq
    /\ \A a \in Appenders :
          /\ app[a].at = "sequenced" <=> lock = a
          /\ app[a].at = "sequenced" => lastSeq = app[a].base + app[a].n
          /\ app[a].at # "idle" => app[a].stamp \in 1 .. now

\* The cursor is at an episode that was committed.
Paged == cursor = 0 \/ cursor \in DOMAIN log

\* A Recall is about episodes that were there when it began, and that its
\* instant admits.
Asked == rc \in Calls /\ \A s \in rc.before : s \in DOMAIN log /\ log[s].at <= rc.asOf

\* A channel returns committed episodes, each once, and no more facts than it
\* may.
Filled ==
    \A c \in DOMAIN rc.slots :
        LET slot == rc.slots[c] IN
        /\ \A i \in DOMAIN slot.found : slot.found[i] \in DOMAIN log
        /\ \A i, j \in DOMAIN slot.found : slot.found[i] = slot.found[j] => i = j
        /\ Len(slot.facts) <= rc.factLimit

\* The lexical channel returns everything that matches, or as much as it may.
Searched ==
    Answered("lexical") =>
        \A s \in rc.before \cap Live :
            log[s].kind = "hit" =>
                s \in Range(rc.slots["lexical"].found) \/ Len(rc.slots["lexical"].found) = rc.depth

\* A Recall that ended has the answer its channels' results make.
Ended ==
    /\ rc.at = "answered" => rc.answer = Answer /\ ~AllFailed
    /\ rc.at = "all_failed" => AllFailed /\ \A c \in DOMAIN rc.slots : rc.slots[c].at # "running"

\* The inductive invariant.
IInv == /\ TypeOK /\ Appending /\ Paged /\ ReplaySkipsNothing
        /\ rc.at # "idle" => Asked /\ Filled /\ Searched /\ Ended

-----------------------------------------------------------------------------
(* Steps on the log *)

\* What the calls in flight know of the log.
LogInv == TypeOK /\ Appending /\ Paged /\ ReplaySkipsNothing
RecallInv == rc.at # "idle" => Asked /\ Filled /\ Searched /\ Ended

\* The log holds numbers of its own range only.
LEMMA LogWithinBounds ==
    ASSUME LogInv
    PROVE  /\ lastSeq \in Nat /\ lastSeq <= MaxSeq /\ MaxSeq \in Nat
           /\ lock = None => DOMAIN log = 1 .. lastSeq
           /\ \A a \in Appenders : lock = a => DOMAIN log = 1 .. app[a].base
           /\ DOMAIN log \subseteq Seqs /\ None \notin Appenders
<1>1. None \notin Appenders /\ MaxSeq \in Nat
  BY ConstantsOK DEF None
<1>2. lastSeq \in Nat /\ lastSeq <= MaxSeq
  BY <1>1 DEF LogInv, Appending
<1>3. lock = None => DOMAIN log = 1 .. lastSeq
  BY DEF LogInv, TypeOK
<1>4. \A a \in Appenders : lock = a => DOMAIN log = 1 .. app[a].base
  BY <1>1 DEF LogInv, TypeOK
<1>5. DOMAIN log \subseteq Seqs
  <2>1. CASE lock = None
    BY <1>1, <1>2, <1>3, <2>1 DEF Seqs
  <2>2. CASE lock # None
    <3>1. lock \in Appenders
      BY <2>2 DEF LogInv, TypeOK
    <3>2. app[lock].base \in Nat /\ app[lock].n \in Nat /\ lastSeq = app[lock].base + app[lock].n
      BY <3>1 DEF LogInv, Appending, Appends
    <3>3. app[lock].base <= MaxSeq
      BY <1>1, <1>2, <3>2
    <3> QED
      BY <1>1, <1>4, <3>1, <3>2, <3>3 DEF Seqs
  <2> QED
    BY <2>1, <2>2
<1> QED
  BY <1>1, <1>2, <1>3, <1>4, <1>5

\* A write that only adds to the log leaves a Recall in flight in order.
LEMMA WriteKeepsRecall ==
    ASSUME RecallInv, rc' = rc, rc.at \in {"idle", "running"},
           \A s \in DOMAIN log : s \in DOMAIN log' /\ log'[s] = log[s], erased \subseteq erased'
    PROVE  RecallInv'
<1> SUFFICES ASSUME rc.at # "idle"
             PROVE  Asked' /\ Filled' /\ Searched' /\ Ended'
  BY DEF RecallInv
<1>1. Asked /\ Filled /\ Searched /\ rc.at = "running"
  BY DEF RecallInv
<1>2. Asked'
  BY <1>1 DEF Asked, Calls
<1>3. Filled'
  BY <1>1 DEF Filled
<1>4. Searched'
  <2>1. \A s \in rc.before : s \in Live' => s \in Live /\ log'[s] = log[s]
    BY <1>1 DEF Asked, Live
  <2> QED
    BY <1>1, <2>1 DEF Searched, Answered
<1>5. Ended'
  BY <1>1 DEF Ended
<1> QED
  BY <1>2, <1>3, <1>4, <1>5

\* A step of one appender that leaves the log alone.
LEMMA AppenderKeeps ==
    ASSUME LogInv, NEW a \in Appenders, UNCHANGED <<now, log, erased, readVars>>,
           app' \in [Appenders -> Appends], \A b \in Appenders : b # a => app'[b] = app[b],
           lastSeq' \in 0 .. MaxSeq, appends' \in 0 .. MaxAppends,
           lock' \in Appenders \cup {None},
           DOMAIN log = 1 .. (IF lock' = None THEN lastSeq' ELSE app'[lock'].base),
           \A b \in Appenders :
              /\ app'[b].at = "sequenced" <=> lock' = b
              /\ app'[b].at = "sequenced" => lastSeq' = app'[b].base + app'[b].n,
           app'[a].at # "idle" => app'[a].stamp \in 1 .. now
    PROVE  LogInv'
<1>1. now' = now /\ log' = log /\ erased' = erased /\ client' = client /\ cursor' = cursor
      /\ seen' = seen /\ rc' = rc
  BY DEF readVars
<1>2. TypeOK'
  BY <1>1 DEF LogInv, TypeOK
<1>3. Appending'
  <2>1. \A b \in Appenders : app'[b].at # "idle" => app'[b].stamp \in 1 .. now
    BY DEF LogInv, Appending
  <2> QED
    BY <1>1, <2>1 DEF Appending
<1>4. Paged' /\ ReplaySkipsNothing'
  BY <1>1 DEF LogInv, Paged, ReplaySkipsNothing, Live
<1> QED
  BY <1>2, <1>3, <1>4 DEF LogInv

\* The ingest time is read.
LEMMA StampKeeps ==
    ASSUME LogInv, NEW a \in Appenders, NEW n \in 1 .. MaxAppendBatch, Stamp(a, n)
    PROVE  LogInv'
<1> DEFINE body == [NotAppending EXCEPT !.at = "stamped", !.stamp = now, !.n = n]
<1>1. /\ app[a].at = "idle" /\ app' = [app EXCEPT ![a] = body] /\ appends' = appends + 1
      /\ appends < MaxAppends /\ lastSeq' = lastSeq /\ lock' = lock
      /\ UNCHANGED <<now, log, erased, readVars>>
  BY DEF Stamp
<1>2. now \in 1 .. MaxNow /\ now \in Nat /\ n \in Nat /\ app \in [Appenders -> Appends]
  BY ConstantsOK DEF LogInv, TypeOK, Appending
<1>3. body \in Appends /\ body.at = "stamped" /\ body.stamp = now
  BY <1>2 DEF Appends, NotAppending
<1> HIDE DEF body
<1>4. app' \in [Appenders -> Appends] /\ app'[a] = body /\ \A b \in Appenders : b # a => app'[b] = app[b]
  BY <1>1, <1>2, <1>3
<1>5. appends' \in 0 .. MaxAppends
  BY <1>1, ConstantsOK DEF LogInv, TypeOK
<1>6. lock # a
  BY <1>1 DEF LogInv, Appending
<1>7. lock \in Appenders \cup {None} /\ None \notin Appenders
  BY LogWithinBounds DEF LogInv, TypeOK
<1>8. DOMAIN log = 1 .. (IF lock' = None THEN lastSeq' ELSE app'[lock'].base)
  BY <1>1, <1>4, <1>6, <1>7 DEF LogInv, TypeOK
<1>9. \A b \in Appenders :
              /\ app'[b].at = "sequenced" <=> lock' = b
              /\ app'[b].at = "sequenced" => lastSeq' = app'[b].base + app'[b].n
  BY <1>1, <1>3, <1>4, <1>6 DEF LogInv, Appending
<1>10. lastSeq' \in 0 .. MaxSeq /\ now \in 1 .. now
  BY <1>1, <1>2 DEF LogInv, Appending
<1> QED
  BY <1>1, <1>3, <1>4, <1>5, <1>7, <1>8, <1>9, <1>10, AppenderKeeps

\* appendSQL takes the row and the numbers.
LEMMA SequenceKeeps ==
    ASSUME LogInv, NEW a \in Appenders, Sequence(a)
    PROVE  LogInv'
<1> DEFINE body == [app[a] EXCEPT !.at = "sequenced", !.base = lastSeq]
<1>1. app \in [Appenders -> Appends] /\ app[a] \in Appends
  BY DEF LogInv, Appending
<1>2. /\ app[a].at = "stamped" /\ app' = [app EXCEPT ![a] = body] /\ lastSeq' = lastSeq + app[a].n
      /\ lastSeq + app[a].n <= MaxSeq /\ lock = None /\ lock' = a /\ appends' = appends
      /\ UNCHANGED <<now, log, erased, readVars>>
  BY <1>1 DEF Sequence
<1>3. lastSeq \in Nat /\ lastSeq <= MaxSeq /\ MaxSeq \in Nat /\ DOMAIN log = 1 .. lastSeq /\ None \notin Appenders
  BY <1>2, LogWithinBounds
<1>4. /\ body \in Appends /\ body.at = "sequenced" /\ body.base = lastSeq
      /\ body.n = app[a].n /\ body.stamp = app[a].stamp
  BY <1>1, <1>3 DEF Appends
<1> HIDE DEF body
<1>5. app' \in [Appenders -> Appends] /\ app'[a] = body /\ \A b \in Appenders : b # a => app'[b] = app[b]
  BY <1>1, <1>2, <1>4
<1>6. lastSeq' \in 0 .. MaxSeq
  BY <1>1, <1>2, <1>3 DEF Appends
<1>7. DOMAIN log = 1 .. (IF lock' = None THEN lastSeq' ELSE app'[lock'].base)
  BY <1>2, <1>3, <1>4, <1>5
<1>8. \A b \in Appenders :
              /\ app'[b].at = "sequenced" <=> lock' = b
              /\ app'[b].at = "sequenced" => lastSeq' = app'[b].base + app'[b].n
  BY <1>2, <1>3, <1>4, <1>5 DEF LogInv, Appending
<1>9. app'[a].stamp \in 1 .. now /\ appends' \in 0 .. MaxAppends
  BY <1>2, <1>4, <1>5 DEF LogInv, Appending, TypeOK
<1> QED
  BY <1>2, <1>5, <1>6, <1>7, <1>8, <1>9, AppenderKeeps

\* An append that fails gives its numbers back.
LEMMA AbortAppendKeeps ==
    ASSUME LogInv, NEW a \in Appenders, AbortAppend(a)
    PROVE  LogInv'
<1>1. app \in [Appenders -> Appends] /\ app[a] \in Appends
  BY DEF LogInv, Appending
<1>2. /\ app' = [app EXCEPT ![a] = NotAppending] /\ appends' = appends
      /\ lastSeq' = IF app[a].at = "sequenced" THEN app[a].base ELSE lastSeq
      /\ lock' = IF lock = a THEN None ELSE lock
      /\ UNCHANGED <<now, log, erased, readVars>>
  BY DEF AbortAppend, Unlock
<1>3. NotAppending \in Appends /\ NotAppending.at = "idle"
  BY DEF NotAppending, Appends
<1>4. /\ app' \in [Appenders -> Appends] /\ app'[a].at = "idle"
      /\ \A b \in Appenders : b # a => app'[b] = app[b]
  BY <1>1, <1>2, <1>3
<1>5. /\ lastSeq \in Nat /\ lastSeq <= MaxSeq /\ MaxSeq \in Nat /\ None \notin Appenders
      /\ lock = None => DOMAIN log = 1 .. lastSeq
      /\ \A b \in Appenders : lock = b => DOMAIN log = 1 .. app[b].base
  BY LogWithinBounds
<1>6. /\ lock \in Appenders \cup {None} /\ appends \in 0 .. MaxAppends
      /\ \A b \in Appenders :
            /\ app[b].at = "sequenced" <=> lock = b
            /\ app[b].at = "sequenced" => lastSeq = app[b].base + app[b].n
  BY DEF LogInv, TypeOK, Appending
<1>7. lastSeq' \in 0 .. MaxSeq
  BY <1>1, <1>2, <1>5, <1>6 DEF Appends
<1>8. DOMAIN log = 1 .. (IF lock' = None THEN lastSeq' ELSE app'[lock'].base)
  <2>1. CASE lock = a
    BY <1>2, <1>5, <1>6, <2>1
  <2>2. CASE lock = None
    BY <1>2, <1>5, <1>6, <2>2
  <2>3. CASE lock # None /\ lock # a
    BY <1>2, <1>4, <1>5, <1>6, <2>3
  <2> QED
    BY <2>1, <2>2, <2>3
<1>9. \A b \in Appenders :
              /\ app'[b].at = "sequenced" <=> lock' = b
              /\ app'[b].at = "sequenced" => lastSeq' = app'[b].base + app'[b].n
  BY <1>2, <1>4, <1>5, <1>6
<1>10. lock' \in Appenders \cup {None}
  BY <1>2, <1>6
<1> QED
  BY <1>2, <1>4, <1>6, <1>7, <1>8, <1>9, <1>10, AppenderKeeps

\* An append commits: its numbers follow those of the log, so that no cursor is
\* past one of them.
LEMMA CommitAppendKeeps ==
    ASSUME LogInv, NEW a \in Appenders, CommitAppend(a)
    PROVE  /\ LogInv'
           /\ \A s \in DOMAIN log : s \in DOMAIN log' /\ log'[s] = log[s]
<1> DEFINE new == app[a].base + 1 .. app[a].base + app[a].n
<1>1. /\ app \in [Appenders -> Appends] /\ app[a].base \in Nat /\ app[a].n \in Nat
      /\ app[a].at = "sequenced" /\ lock = a /\ lastSeq = app[a].base + app[a].n
      /\ app[a].stamp \in 1 .. now
  BY DEF LogInv, Appending, Appends, CommitAppend
<1>2. PICK kind \in [new -> Kinds] :
          log' = [s \in DOMAIN log \cup new |->
                     IF s \in new THEN [kind |-> kind[s], at |-> app[a].stamp] ELSE log[s]]
  BY DEF CommitAppend
<1>3. /\ app' = [app EXCEPT ![a] = NotAppending] /\ appends' = appends /\ lastSeq' = lastSeq
      /\ lock' = None /\ now' = now /\ erased' = erased /\ client' = client
      /\ cursor' = cursor /\ seen' = seen /\ rc' = rc
  BY <1>1 DEF CommitAppend, Unlock, readVars
<1>4. NotAppending \in Appends /\ NotAppending.at = "idle"
  BY DEF NotAppending, Appends
<1>5. /\ app' \in [Appenders -> Appends] /\ app'[a].at = "idle"
      /\ \A b \in Appenders : b # a => app'[b] = app[b]
  BY <1>1, <1>3, <1>4
<1>6. DOMAIN log = 1 .. app[a].base /\ None \notin Appenders
  BY <1>1, LogWithinBounds
<1>7. /\ DOMAIN log' = DOMAIN log \cup new /\ DOMAIN log' = 1 .. lastSeq
      /\ \A s \in DOMAIN log : s \in DOMAIN log' /\ s \notin new
      /\ \A s \in new : s > app[a].base
  BY <1>1, <1>2, <1>6
<1>8. \A s \in DOMAIN log : log'[s] = log[s]
  BY <1>2, <1>7
<1>9. \A s \in new : log'[s].kind \in Kinds /\ log'[s].at \in 1 .. now
  BY <1>1, <1>2
<1> HIDE DEF new
<1>10. TypeOK'
  <2>1. TypeOK
    BY DEF LogInv
  <2>2. \A s \in DOMAIN log' : log'[s].kind \in Kinds /\ log'[s].at \in 1 .. now
    BY <1>7, <1>8, <1>9, <2>1 DEF TypeOK
  <2>3. erased \subseteq DOMAIN log' /\ seen \subseteq DOMAIN log'
    BY <1>7, <2>1 DEF TypeOK
  <2> QED
    BY <1>3, <1>7, <2>1, <2>2, <2>3 DEF TypeOK
<1>11. Appending'
  <2>1. \A b \in Appenders : app'[b].at # "sequenced"
    BY <1>1, <1>5 DEF LogInv, Appending
  <2>2. \A b \in Appenders : lock' # b
    BY <1>3, <1>6
  <2>3. \A b \in Appenders : app'[b].at # "idle" => app'[b].stamp \in 1 .. now
    BY <1>5 DEF LogInv, Appending
  <2>4. lastSeq \in 0 .. MaxSeq
    BY DEF LogInv, Appending
  <2> QED
    BY <1>3, <1>5, <2>1, <2>2, <2>3, <2>4 DEF Appending
<1>12. Paged'
  BY <1>3, <1>7 DEF LogInv, Paged
<1>13. ReplaySkipsNothing'
  <2> SUFFICES ASSUME NEW s \in Live', s <= cursor
               PROVE  s \in seen
    BY <1>3 DEF ReplaySkipsNothing
  <2>1. s \in DOMAIN log' /\ s \notin erased
    BY <1>3 DEF Live
  <2>2. CASE s \in new
    <3>1. s > app[a].base /\ s \in Int
      BY <1>7, <2>2 DEF new
    <3>2. cursor \in Int /\ cursor <= app[a].base
      BY <1>1, <1>6 DEF LogInv, Paged
    <3> QED
      BY <1>1, <3>1, <3>2
  <2>3. CASE s \in DOMAIN log
    BY <2>1, <2>3 DEF LogInv, ReplaySkipsNothing, Live
  <2> QED
    BY <1>7, <2>1, <2>2, <2>3
<1> QED
  BY <1>7, <1>8, <1>10, <1>11, <1>12, <1>13 DEF LogInv

\* An erasure, the clock, and a step that leaves log and pages alone.
LEMMA EraseKeeps ==
    ASSUME LogInv, NEW s \in Seqs, Erase(s)
    PROVE  LogInv'
<1>1. /\ erased' = erased \cup {s} /\ s \in DOMAIN log /\ UNCHANGED <<now, lastSeq, lock, app, log, appends, readVars>>
  BY DEF Erase, Live
<1>2. TypeOK' /\ Appending' /\ Paged'
  BY <1>1 DEF LogInv, TypeOK, Appending, Paged, readVars
<1>3. ReplaySkipsNothing'
  BY <1>1 DEF LogInv, ReplaySkipsNothing, Live, readVars
<1> QED
  BY <1>2, <1>3 DEF LogInv

\* The clock.
LEMMA TickKeeps ==
    ASSUME LogInv, Tick
    PROVE  LogInv'
<1>1. /\ now < MaxNow /\ now' = now + 1 /\ UNCHANGED <<lastSeq, lock, app, log, erased, appends, readVars>>
  BY DEF Tick
<1>2. now' \in 1 .. MaxNow /\ \A t : t \in 1 .. now => t \in 1 .. now'
  BY <1>1, ConstantsOK DEF LogInv, TypeOK
<1>3. TypeOK'
  BY <1>1, <1>2 DEF LogInv, TypeOK, readVars
<1>4. Appending'
  BY <1>1, <1>2 DEF LogInv, Appending
<1>5. Paged' /\ ReplaySkipsNothing'
  BY <1>1 DEF LogInv, Paged, ReplaySkipsNothing, Live, readVars
<1> QED
  BY <1>3, <1>4, <1>5 DEF LogInv

\* A page ends with the last of the episodes it holds, and holds every one the
\* cursor passes.
LEMMA ReplayKeeps ==
    ASSUME LogInv, NEW limit \in PageLimits, Replay(limit)
    PROVE  LogInv'
<1> DEFINE ahead == {s \in Live : s > cursor}
           page == First(limit, ahead)
           before(s) == {t \in ahead : t < s}
<1>1. /\ page # {} /\ cursor' = Max(page) /\ seen' = seen \cup page
      /\ UNCHANGED <<logVars, client, rc>>
  BY DEF Replay
<1>2. /\ page \subseteq ahead /\ ahead \subseteq DOMAIN log
      /\ \A s \in ahead : s \in page <=> Cardinality(before(s)) < limit
  BY DEF First, Live
<1>3. DOMAIN log \subseteq Seqs /\ MaxSeq \in Nat /\ limit \in Nat
  BY LogWithinBounds, ConstantsOK
<1> HIDE DEF page
<1>4. Max(page) \in page /\ \A s \in page : Max(page) >= s
  <2>1. page \in SUBSET (0 .. MaxSeq)
    BY <1>2, <1>3 DEF Seqs
  <2> QED
    BY <1>1, <1>3, <2>1, MaxIsGreatest
<1>5. ASSUME NEW s \in ahead, s <= Max(page)
      PROVE  s \in page
  <2>1. \A t \in ahead : t \in Int
    BY <1>2, <1>3 DEF Seqs
  <2>2. before(s) \subseteq before(Max(page))
    BY <1>2, <1>4, <1>5, <2>1
  <2>3. IsFiniteSet(before(Max(page)))
    <3>1. IsFiniteSet(1 .. MaxSeq)
      BY <1>3, FS_Interval
    <3>2. before(Max(page)) \subseteq 1 .. MaxSeq
      BY <1>2, <1>3 DEF Seqs
    <3> QED
      BY <3>1, <3>2, FS_Subset
  <2>4. Cardinality(before(Max(page))) < limit
    BY <1>2, <1>4
  <2> HIDE DEF before
  <2>5. /\ Cardinality(before(s)) <= Cardinality(before(Max(page)))
        /\ Cardinality(before(s)) \in Nat /\ Cardinality(before(Max(page))) \in Nat
    BY <2>2, <2>3, FS_Subset, FS_CardinalityType
  <2>6. Cardinality(before(s)) < limit
    BY <1>3, <2>4, <2>5
  <2> QED
    BY <1>2, <2>6
<1>6. /\ now' = now /\ lastSeq' = lastSeq /\ lock' = lock /\ app' = app /\ log' = log
      /\ erased' = erased /\ appends' = appends /\ client' = client /\ rc' = rc
  BY <1>1 DEF logVars
<1>7. cursor' \in 0 .. MaxSeq /\ cursor' \in DOMAIN log /\ seen' \subseteq DOMAIN log
  <2>1. cursor' \in DOMAIN log
    BY <1>1, <1>2, <1>4
  <2>2. cursor' \in 0 .. MaxSeq
    BY <1>3, <2>1 DEF Seqs
  <2>3. seen' \subseteq DOMAIN log
    BY <1>1, <1>2 DEF LogInv, TypeOK
  <2> QED
    BY <2>1, <2>2, <2>3
<1>8. TypeOK' /\ Appending' /\ Paged'
  BY <1>6, <1>7 DEF LogInv, TypeOK, Appending, Paged
<1>9. ReplaySkipsNothing'
  <2> SUFFICES ASSUME NEW s \in Live, s <= Max(page)
               PROVE  s \in seen \cup page
    BY <1>1, <1>6 DEF ReplaySkipsNothing, Live
  <2>1. CASE s <= cursor
    BY <2>1 DEF LogInv, ReplaySkipsNothing
  <2>2. CASE ~(s <= cursor)
    <3>1. s \in Int /\ cursor \in Int
      BY <1>3 DEF Live, Seqs, LogInv, TypeOK
    <3>2. s \in ahead
      BY <2>2, <3>1
    <3> QED
      BY <1>5, <3>2
  <2> QED
    BY <2>1, <2>2
<1> QED
  BY <1>8, <1>9 DEF LogInv

-----------------------------------------------------------------------------
(* What the answer is made of *)

\* A Recall in flight or ended, with what its channels have returned.
InFlight == LogInv /\ Asked /\ Filled

\* The fields of a call.
LEMMA CallFields ==
    ASSUME InFlight
    PROVE  /\ rc \in Calls /\ rc.q \in Request /\ rc.limit \in Nat /\ rc.factLimit \in Nat
           /\ rc.depth \in Nat /\ rc.asOf \in Int /\ rc.q.maxTokens \in Int
           /\ \A c \in DOMAIN rc.slots : c \in Channels /\ rc.slots[c] \in Slots
           /\ \A c \in DOMAIN rc.slots : rc.slots[c].found \in Seq(Seqs) /\ rc.slots[c].facts \in Seq(Nat)
<1>1. /\ rc \in Calls /\ rc.q \in Requests /\ rc.limit \in Nat /\ rc.factLimit \in Nat
      /\ rc.depth \in Nat /\ rc.asOf \in Int /\ rc.slots \in Plans
  BY DEF InFlight, Asked, Calls
<1>2. rc.q \in Request /\ rc.q.maxTokens \in Int
  <2>1. rc.q \in Request
    BY <1>1, ConstantsOK
  <2> QED
    BY <2>1 DEF Request
<1>3. PICK C \in SUBSET Channels : rc.slots \in [C -> Slots]
  BY <1>1 DEF Plans
<1>4. \A c \in DOMAIN rc.slots : c \in Channels /\ rc.slots[c] \in Slots
  BY <1>3
<1> QED
  BY <1>1, <1>2, <1>4 DEF Slots

\* An episode a channel found has a rank in it, within the bound on ranks.
LEMMA RanksWithinBounds ==
    ASSUME InFlight, NEW c \in EpisodeChannels, NEW s, FoundBy(c, s)
    PROVE  /\ RankIn(c, s) \in DOMAIN rc.slots[c].found /\ rc.slots[c].found[RankIn(c, s)] = s
           /\ RankIn(c, s) \in Seqs /\ s \in DOMAIN log /\ s \in Seqs
<1> DEFINE found == rc.slots[c].found
<1>1. c \in DOMAIN rc.slots /\ s \in Range(found)
  BY DEF FoundBy, Answered
<1>2. /\ found \in Seq(Seqs) /\ Len(found) \in Nat /\ DOMAIN found = 1 .. Len(found)
      /\ found \in [1 .. Len(found) -> Seqs]
  <2>1. found \in Seq(Seqs)
    BY <1>1, CallFields
  <2> HIDE DEF found
  <2> QED
    BY <2>1, LenProperties
<1>3. \E r \in DOMAIN found : found[r] = s
  BY <1>1 DEF Range
<1>4. RankIn(c, s) \in DOMAIN found /\ found[RankIn(c, s)] = s
  BY <1>3, Zenon DEF RankIn
<1>5. /\ \A i, j \in DOMAIN found : found[i] = found[j] => i = j
      /\ \A i \in DOMAIN found : found[i] \in DOMAIN log
  BY <1>1 DEF InFlight, Filled
<1> HIDE DEF found
<1>6. Len(found) <= MaxSeq
  <2>1. found \in Injection(1 .. Len(found), Seqs)
    BY <1>2, <1>5 DEF Injection, IsInjective
  <2>2. MaxSeq \in Nat
    BY ConstantsOK
  <2>3. IsFiniteSet(Seqs) /\ Cardinality(Seqs) = MaxSeq
    BY <2>2, FS_Interval DEF Seqs
  <2>4. Cardinality(1 .. Len(found)) = Len(found)
    BY <1>2, FS_Interval
  <2> QED
    BY <2>1, <2>3, <2>4, FS_Injection
<1>7. RankIn(c, s) \in Seqs
  BY <1>2, <1>4, <1>6, ConstantsOK DEF Seqs
<1>8. s \in DOMAIN log /\ s \in Seqs
  BY <1>4, <1>5, LogWithinBounds DEF InFlight
<1> QED
  BY <1>4, <1>7, <1>8 DEF found

\* What the channels found is of the log.
LEMMA FoundInLog ==
    ASSUME InFlight
    PROVE  /\ Found \subseteq DOMAIN log /\ Found \in SUBSET Seqs /\ Found \in SUBSET Int
           /\ IsFiniteSet(Found)
           /\ \A s : s \in Found <=> \E c \in EpisodeChannels : FoundBy(c, s)
<1>1. \A s : s \in Found <=> \E c \in EpisodeChannels : FoundBy(c, s)
  BY DEF Found, FoundBy
<1>2. \A s \in Found : s \in DOMAIN log /\ s \in Seqs
  BY <1>1, RanksWithinBounds
<1>3. IsFiniteSet(Seqs) /\ Seqs \subseteq Int
  BY FS_Interval, ConstantsOK DEF Seqs
<1>4. IsFiniteSet(Found)
  BY <1>2, <1>3, FS_Subset
<1> QED
  BY <1>1, <1>2, <1>3, <1>4

\* Weights and scores are natural numbers, and 1 over a rank is positive.
LEMMA ScoresAreNat ==
    ASSUME InFlight
    PROVE  /\ \A c \in EpisodeChannels : Weight(c) \in Nat
           /\ \A r \in Seqs : Scale \div (K + r) \in Nat \ {0}
           /\ \A c \in EpisodeChannels : \A s : Share(c, s) \in Nat
           /\ \A s : Score(s) \in Nat
<1>1. \A c \in EpisodeChannels : Weight(c) \in Nat
  <2> TAKE c \in EpisodeChannels
  <2>1. rc.q.weights \in UNION {[C -> 0 .. MaxWeight] : C \in SUBSET EpisodeChannels}
    BY CallFields DEF Request
  <2>2. PICK C \in SUBSET EpisodeChannels : rc.q.weights \in [C -> 0 .. MaxWeight]
    BY <2>1
  <2>3. c \in DOMAIN rc.q.weights => rc.q.weights[c] \in Nat
    BY <2>2 DEF MaxWeight
  <2> QED
    BY <2>3 DEF Weight
<1>2. \A r \in Seqs : Scale \div (K + r) \in Nat \ {0}
  <2> TAKE r \in Seqs
  <2>1. K + r \in Nat \ {0} /\ Scale \in Nat \ {0} /\ Scale % (K + r) = 0
    BY ConstantsOK DEF Seqs
  <2>2. ASSUME NEW d \in Nat \ {0}, NEW n \in Nat \ {0}, n % d = 0
        PROVE  n \div d \in Nat \ {0}
    <3>1. n = d * (n \div d) + (n % d) /\ n \div d \in Int
      OBVIOUS
    <3>2. d * (n \div d) = n
      BY <2>2, <3>1
    <3> QED
      BY <3>1, <3>2
  <2> QED
    BY <2>1, <2>2
<1>3. \A c \in EpisodeChannels : \A s : Share(c, s) \in Nat
  <2> TAKE c \in EpisodeChannels
  <2> TAKE s
  <2>1. CASE FoundBy(c, s)
    <3>1. RankIn(c, s) \in Seqs
      BY <2>1, RanksWithinBounds
    <3>2. Weight(c) \in Nat /\ Scale \div (K + RankIn(c, s)) \in Nat
      BY <1>1, <1>2, <3>1
    <3>3. \A m, n \in Nat : m * n \in Nat
      OBVIOUS
    <3> QED
      BY <2>1, <3>2, <3>3 DEF Share
  <2>2. CASE ~FoundBy(c, s)
    BY <2>2 DEF Share
  <2> QED
    BY <2>1, <2>2
<1>4. \A s : Score(s) \in Nat
  BY <1>3 DEF Score, EpisodeChannels
<1> QED
  BY <1>1, <1>2, <1>3, <1>4

\* The fused list holds what the channels found, each episode once, by score
\* and then by age.
LEMMA FuseIsRanking ==
    ASSUME InFlight
    PROVE  /\ Fuse \in Seq(Found) /\ Fuse \in Seq(Seqs) /\ Len(Fuse) \in Nat
           /\ DOMAIN Fuse = 1 .. Len(Fuse) /\ Range(Fuse) = Found
           /\ \A i \in DOMAIN Fuse : Fuse[i] \in Found
           /\ \A s \in Found : \E i \in DOMAIN Fuse : Fuse[i] = s
           /\ \A i, j \in DOMAIN Fuse :
                 i < j => \/ Score(Fuse[i]) > Score(Fuse[j])
                          \/ Score(Fuse[i]) = Score(Fuse[j]) /\ Fuse[i] > Fuse[j]
<1> DEFINE score == [s \in Found |-> Score(s)]
           n == Cardinality(Found)
<1>1. Found \in SUBSET Int /\ Found \in SUBSET Seqs /\ IsFiniteSet(Found)
  BY FoundInLog
<1>2. \A s \in Found : score[s] = Score(s) /\ score[s] \in Int
  BY ScoresAreNat
<1> HIDE DEF score
<1>3. /\ n \in Nat /\ Ranked(Found, score) \in [1 .. n -> Found]
      /\ \A i, j \in 1 .. n :
            i < j => Ahead(score, Ranked(Found, score)[i], Ranked(Found, score)[j])
      /\ \A s \in Found : \E i \in 1 .. n : Ranked(Found, score)[i] = s
      /\ Range(Ranked(Found, score)) = Found
  BY <1>1, <1>2, RankedIsRanking
<1>4. Fuse = Ranked(Found, score)
  BY DEF Fuse, score
<1> HIDE DEF n
<1>5. n \in Nat /\ Fuse \in [1 .. n -> Found] /\ DOMAIN Fuse = 1 .. n /\ Range(Fuse) = Found
  BY <1>3, <1>4
<1>6. Fuse \in Seq(Found) /\ Len(Fuse) = n
  BY <1>5
<1>7. Fuse \in Seq(Seqs)
  BY <1>1, <1>6, SeqMonotonic
<1>8. \A i \in 1 .. n : Fuse[i] \in Found
  BY <1>5
<1>9. \A s \in Found : \E i \in DOMAIN Fuse : Fuse[i] = s
  BY <1>3, <1>4, <1>5
<1>10. ASSUME NEW i \in 1 .. n, NEW j \in 1 .. n, i < j
       PROVE  \/ Score(Fuse[i]) > Score(Fuse[j])
              \/ Score(Fuse[i]) = Score(Fuse[j]) /\ Fuse[i] > Fuse[j]
  <2>1. Ahead(score, Fuse[i], Fuse[j])
    BY <1>3, <1>4, <1>10
  <2> QED
    BY <1>2, <1>8, <2>1 DEF Ahead
<1> QED
  BY <1>5, <1>6, <1>7, <1>8, <1>9, <1>10

\* As many items are taken as the limit and the budget allow, and the next one
\* would not have fitted.
LEMMA TakenFits ==
    ASSUME NEW costs \in Seq(Nat), NEW limit \in Nat, NEW spent \in Nat, rc.q.maxTokens \in Int
    PROVE  LET n == Taken(costs, limit, spent) IN
           /\ n \in 0 .. Len(costs) /\ n <= limit
           /\ rc.q.maxTokens = 0 \/ n = 0 \/ spent + Spent(costs)[n] <= rc.q.maxTokens
           /\ n < Len(costs) /\ n < limit =>
                 rc.q.maxTokens # 0 /\ spent + Spent(costs)[n + 1] > rc.q.maxTokens
<1> DEFINE max == Min({limit, Len(costs)})
           fits(n) == rc.q.maxTokens = 0 \/ n = 0 \/ spent + Spent(costs)[n] <= rc.q.maxTokens
           F == {n \in 0 .. max : fits(n)}
           n == Taken(costs, limit, spent)
<1>1. Len(costs) \in Nat
  OBVIOUS
<1>2. max \in Nat /\ max <= limit /\ max <= Len(costs) /\ max \in {limit, Len(costs)}
  <2>1. {limit, Len(costs)} \in SUBSET Nat /\ {limit, Len(costs)} # {}
    BY <1>1
  <2>2. Min({limit, Len(costs)}) \in {limit, Len(costs)} /\ \A y \in {limit, Len(costs)} : Min({limit, Len(costs)}) <= y
    BY <2>1, MinIsLeast
  <2> QED
    BY <1>1, <2>2
<1> HIDE DEF max
<1>3. n = Max(F)
  BY DEF Taken, max
<1>4. F \in SUBSET (0 .. max) /\ 0 \in F
  BY <1>2
<1>5. n \in F /\ \A k \in F : n >= k
  <2> HIDE DEF F
  <2> QED
    BY <1>2, <1>3, <1>4, MaxIsGreatest
<1> HIDE DEF n
<1>6. n \in 0 .. Len(costs) /\ n <= limit /\ fits(n)
  BY <1>1, <1>2, <1>5
<1>7. ASSUME n < Len(costs), n < limit
      PROVE  rc.q.maxTokens # 0 /\ spent + Spent(costs)[n + 1] > rc.q.maxTokens
  <2>1. n + 1 \in 0 .. max /\ n + 1 \in 0 .. Len(costs) /\ n + 1 # 0
    BY <1>1, <1>2, <1>6, <1>7
  <2>2. ~(n >= n + 1)
    BY <1>1, <1>6
  <2>3. n + 1 \notin F
    <3> HIDE DEF F
    <3> QED
      BY <1>5, <2>2
  <2>4. ~fits(n + 1)
    BY <2>1, <2>3
  <2>5. Spent(costs)[n + 1] \in Nat
    BY <2>1, SpentSums DEF SumsTo
  <2> QED
    BY <2>1, <2>4, <2>5
<1> QED
  BY <1>6, <1>7 DEF n

\* How much of each list an answer holds.
FactsTaken == Taken(FactCosts, rc.factLimit, 0)
EpisodesTaken == Taken(EpisodeCosts(Fuse), rc.limit, Spent(FactCosts)[FactsTaken])

\* Costs are natural numbers.
LEMMA CostsAreNat ==
    ASSUME InFlight
    PROVE  /\ FactsFound \in Seq(Nat) /\ Len(FactsFound) <= rc.factLimit
           /\ FactCosts \in Seq(Nat) /\ Len(FactCosts) = Len(FactsFound)
           /\ \A eps \in Seq(Found) : EpisodeCosts(eps) \in Seq(Nat) /\ Len(EpisodeCosts(eps)) = Len(eps)
<1>1. FactsFound \in Seq(Nat) /\ Len(FactsFound) <= rc.factLimit
  <2>1. CASE Answered("fact")
    <3>1. "fact" \in DOMAIN rc.slots
      BY <2>1 DEF Answered
    <3> QED
      BY <2>1, <3>1, CallFields DEF FactsFound, InFlight, Filled
  <2>2. CASE ~Answered("fact")
    <3>1. FactsFound = <<>> /\ Len(<<>>) = 0
      BY <2>2 DEF FactsFound
    <3>2. rc.factLimit \in Nat
      BY CallFields
    <3> QED
      BY <3>1, <3>2, EmptySeq
  <2> QED
    BY <2>1, <2>2
<1>2. \A n \in Nat : CountTokens(n) \in Nat
  <2> TAKE n \in Nat
  <2>1. BytesPerToken \in Nat \ {0}
    BY ConstantsOK
  <2>2. \A a \in Nat, b \in Nat \ {0} : a \div b \in Nat
    OBVIOUS
  <2>3. n + BytesPerToken - 1 \in Nat
    BY <2>1
  <2> QED
    BY <2>1, <2>2, <2>3 DEF CountTokens
<1>3. FactCosts \in Seq(Nat) /\ Len(FactCosts) = Len(FactsFound)
  <2>1. Len(FactsFound) \in Nat /\ DOMAIN FactsFound = 1 .. Len(FactsFound)
    BY <1>1
  <2>2. \A i \in 1 .. Len(FactsFound) : CountTokens(FactsFound[i]) \in Nat
    BY <1>1, <1>2
  <2>3. FactCosts = [i \in 1 .. Len(FactsFound) |-> CountTokens(FactsFound[i])]
    BY <2>1 DEF FactCosts
  <2>4. FactCosts \in [1 .. Len(FactsFound) -> Nat]
    BY <2>2, <2>3
  <2> QED
    BY <2>1, <2>4
<1>4. ASSUME NEW eps \in Seq(Found)
      PROVE  EpisodeCosts(eps) \in Seq(Nat) /\ Len(EpisodeCosts(eps)) = Len(eps)
  <2>1. Len(eps) \in Nat /\ DOMAIN eps = 1 .. Len(eps) /\ \A i \in 1 .. Len(eps) : eps[i] \in Found
    OBVIOUS
  <2>2. \A s \in Found : ContentLen[log[s].kind] \in Nat
    <3> TAKE s \in Found
    <3>1. s \in DOMAIN log
      BY FoundInLog
    <3>2. log[s].kind \in Kinds
      BY <3>1 DEF InFlight, LogInv, TypeOK
    <3> QED
      BY <3>2, ConstantsOK
  <2>3. \A i \in 1 .. Len(eps) : CountTokens(ContentLen[log[eps[i]].kind]) \in Nat
    BY <1>2, <2>1, <2>2
  <2>4. EpisodeCosts(eps) \in [1 .. Len(eps) -> Nat]
    BY <2>1, <2>3 DEF EpisodeCosts
  <2> QED
    BY <2>1, <2>4
<1> QED
  BY <1>1, <1>3, <1>4

\* The answer is made of the first facts and the first of the fused episodes.
LEMMA AnswerHolds ==
    ASSUME InFlight
    PROVE  /\ FactsTaken \in 0 .. Len(FactsFound) /\ FactsTaken <= rc.factLimit
           /\ EpisodesTaken \in 0 .. Len(Fuse) /\ EpisodesTaken <= rc.limit
           /\ Spent(FactCosts)[FactsTaken] \in Nat
           /\ Answer.facts = SubSeq(FactsFound, 1, FactsTaken)
           /\ Answer.episodes = SubSeq(Fuse, 1, EpisodesTaken)
           /\ Answer.tokens = Spent(FactCosts)[FactsTaken] + Spent(EpisodeCosts(Fuse))[EpisodesTaken]
           /\ Answer.truncated <=> FactsTaken < Len(FactsFound) \/ EpisodesTaken < Len(Fuse)
           /\ Answer.facts \in Seq(Nat) /\ Len(Answer.facts) = FactsTaken
           /\ Answer.episodes \in Seq(Found) /\ Len(Answer.episodes) = EpisodesTaken
           /\ \A i \in 1 .. EpisodesTaken : Answer.episodes[i] = Fuse[i]
           /\ Answer \in Answers
<1>1. /\ FactsFound \in Seq(Nat) /\ FactCosts \in Seq(Nat) /\ Len(FactCosts) = Len(FactsFound)
      /\ rc.factLimit \in Nat /\ rc.limit \in Nat /\ rc.q.maxTokens \in Int
  BY CostsAreNat, CallFields
<1>2. FactsTaken \in 0 .. Len(FactsFound) /\ FactsTaken <= rc.factLimit
  BY <1>1, TakenFits DEF FactsTaken
<1>3. Spent(FactCosts)[FactsTaken] \in Nat
  BY <1>1, <1>2, SpentSums DEF SumsTo
<1>4. Fuse \in Seq(Found) /\ Fuse \in Seq(Seqs) /\ Len(Fuse) \in Nat
  BY FuseIsRanking
<1>5. EpisodeCosts(Fuse) \in Seq(Nat) /\ Len(EpisodeCosts(Fuse)) = Len(Fuse)
  BY <1>4, CostsAreNat
<1>6. EpisodesTaken \in 0 .. Len(Fuse) /\ EpisodesTaken <= rc.limit
  BY <1>1, <1>3, <1>5, TakenFits DEF EpisodesTaken
<1>7. Spent(EpisodeCosts(Fuse))[EpisodesTaken] \in Nat
  BY <1>5, <1>6, SpentSums DEF SumsTo
<1>8. Answer = [facts |-> SubSeq(FactsFound, 1, FactsTaken), episodes |-> SubSeq(Fuse, 1, EpisodesTaken),
                tokens |-> Spent(FactCosts)[FactsTaken] + Spent(EpisodeCosts(Fuse))[EpisodesTaken],
                truncated |-> FactsTaken < Len(FactsFound) \/ EpisodesTaken < Len(Fuse)]
  BY Zenon DEF Answer, FactsTaken, EpisodesTaken
<1>9. /\ SubSeq(FactsFound, 1, FactsTaken) \in Seq(Nat)
      /\ Len(SubSeq(FactsFound, 1, FactsTaken)) = FactsTaken
  <2>1. Len(FactsFound) \in Nat
    BY <1>1
  <2>2. \A i \in 1 .. FactsTaken : FactsFound[i] \in Nat
    BY <1>1, <1>2
  <2> QED
    BY <1>2, <2>1, <2>2, SubSeqProperties
<1>10. /\ SubSeq(Fuse, 1, EpisodesTaken) \in Seq(Found)
       /\ Len(SubSeq(Fuse, 1, EpisodesTaken)) = EpisodesTaken
       /\ \A i \in 1 .. EpisodesTaken : SubSeq(Fuse, 1, EpisodesTaken)[i] = Fuse[i]
  <2>1. \A i \in 1 .. EpisodesTaken : Fuse[i] \in Found
    BY <1>4, <1>6
  <2>2. /\ SubSeq(Fuse, 1, EpisodesTaken) \in Seq(Found)
        /\ Len(SubSeq(Fuse, 1, EpisodesTaken)) = IF 1 <= EpisodesTaken THEN EpisodesTaken - 1 + 1 ELSE 0
        /\ \A i \in 1 .. EpisodesTaken - 1 + 1 : SubSeq(Fuse, 1, EpisodesTaken)[i] = Fuse[1 + i - 1]
    BY <1>4, <1>6, <2>1, SubSeqProperties
  <2>3. \A i \in 1 .. EpisodesTaken : i \in 1 .. EpisodesTaken - 1 + 1 /\ 1 + i - 1 = i
    BY <1>4, <1>6
  <2> QED
    BY <1>4, <1>6, <2>2, <2>3
<1>11. SubSeq(Fuse, 1, EpisodesTaken) \in Seq(Seqs)
  BY <1>10, FoundInLog, SeqMonotonic
<1>12. Answer \in Answers
  BY <1>3, <1>7, <1>8, <1>9, <1>11 DEF Answers
<1> QED
  BY <1>2, <1>3, <1>6, <1>8, <1>9, <1>10, <1>12

-----------------------------------------------------------------------------
(* Steps of a Recall *)

\* What everyone else sees does not change.
LEMMA ReaderKeepsLog ==
    ASSUME LogInv, UNCHANGED <<logVars, client, cursor, seen>>, rc'.at \in {"running", "answered", "all_failed", "cancelled"}
    PROVE  LogInv'
<1>1. /\ now' = now /\ lastSeq' = lastSeq /\ lock' = lock /\ app' = app /\ log' = log
      /\ erased' = erased /\ appends' = appends /\ client' = client /\ cursor' = cursor /\ seen' = seen
  BY DEF logVars
<1>2. TypeOK' /\ Appending' /\ Paged'
  BY <1>1 DEF LogInv, TypeOK, Appending, Paged
<1>3. ReplaySkipsNothing'
  BY <1>1 DEF LogInv, ReplaySkipsNothing, Live
<1> QED
  BY <1>2, <1>3 DEF LogInv

\* A limit that is left open is the default.
LEMMA DefaultsApply ==
    ASSUME NEW n \in Int, n >= 0, NEW d \in Nat
    PROVE  OrDefault(n, d) \in Nat
  BY DEF OrDefault

\* The plan of a Recall.
LEMMA BeginRecallKeeps ==
    ASSUME IInv, NEW q \in Requests, BeginRecall(q)
    PROVE  IInv'
<1> DEFINE limit == OrDefault(q.limit, DefaultLimit)
           asOf == OrDefault(q.asOf, now)
           depth == Max({limit, OrDefault(q.depth, DefaultDepth)})
           slots == [c \in ResolveChannels(q) |-> EmptySlot]
           before == {s \in Live : q.asOf = 0 \/ log[s].at <= asOf}
           call == [at |-> "running", q |-> q, asOf |-> asOf, limit |-> limit, depth |-> depth,
                    factLimit |-> OrDefault(q.factLimit, DefaultFactLimit), slots |-> slots,
                    before |-> before, answer |-> NoAnswer]
<1>1. ValidRequest(q) /\ rc' = call /\ UNCHANGED <<logVars, client, cursor, seen>>
  BY DEF BeginRecall
<1>2. LogInv
  BY DEF IInv, LogInv
<1>3. /\ q \in Request /\ q.limit \in Int /\ q.depth \in Int /\ q.factLimit \in Int /\ q.asOf \in Int
      /\ q.channels \in Seq(Channels)
  <2>1. q \in Request
    BY ConstantsOK
  <2> QED
    BY <2>1 DEF Request
<1>4. limit \in Nat /\ OrDefault(q.depth, DefaultDepth) \in Nat /\ OrDefault(q.factLimit, DefaultFactLimit) \in Nat
  <2>1. DefaultLimit \in Nat /\ DefaultDepth \in Nat /\ DefaultFactLimit \in Nat
    BY ConstantsOK
  <2> QED
    BY <1>1, <1>3, <2>1, DefaultsApply DEF ValidRequest
<1>5. depth \in Nat
  <2> HIDE DEF limit
  <2> DEFINE d == OrDefault(q.depth, DefaultDepth)
  <2> HIDE DEF d
  <2>1. limit + d \in Nat /\ {limit, d} \in SUBSET (0 .. limit + d) /\ {limit, d} # {}
    BY <1>4 DEF d
  <2>2. Max({limit, d}) \in {limit, d}
    BY <2>1, MaxIsGreatest
  <2> QED
    BY <1>4, <2>2 DEF d
<1>6. now \in Int /\ asOf \in Int
  BY <1>2, <1>3, ConstantsOK DEF OrDefault, LogInv, TypeOK
<1>7. /\ EmptySlot \in Slots /\ EmptySlot.at = "running" /\ EmptySlot.found = <<>>
      /\ EmptySlot.facts = <<>>
  <2>1. <<>> \in Seq(Seqs) /\ <<>> \in Seq(Nat)
    BY EmptySeq
  <2> QED
    BY <2>1 DEF EmptySlot, Slots
<1>8. ResolveChannels(q) \in SUBSET Channels
  <2>1. Range(q.channels) \subseteq Channels
    BY <1>3 DEF Range
  <2> QED
    BY <2>1 DEF ResolveChannels, EpisodeChannels, Channels
<1>9. slots \in Plans /\ DOMAIN slots = ResolveChannels(q) /\ \A c \in DOMAIN slots : slots[c] = EmptySlot
  <2>1. slots \in [ResolveChannels(q) -> Slots]
    BY <1>7
  <2> QED
    BY <1>8, <2>1 DEF Plans
<1>10. before \in SUBSET Seqs /\ \A s \in before : s \in DOMAIN log /\ log[s].at <= asOf
  <2>1. DOMAIN log \subseteq Seqs
    BY <1>2, LogWithinBounds
  <2>2. \A s \in DOMAIN log : log[s].at \in Int /\ log[s].at <= now
    BY <1>2, <1>6 DEF LogInv, TypeOK
  <2> QED
    BY <2>1, <2>2 DEF Live, OrDefault
<1>11. NoAnswer \in Answers
  <2>1. <<>> \in Seq(Seqs) /\ <<>> \in Seq(Nat)
    BY EmptySeq
  <2> QED
    BY <2>1 DEF NoAnswer, Answers
<1> HIDE DEF limit, asOf, depth, slots, before
<1>12. /\ call \in Calls /\ call.at = "running" /\ call.slots = slots /\ call.before = before
       /\ call.asOf = asOf /\ call.factLimit \in Nat
  BY <1>4, <1>5, <1>6, <1>9, <1>10, <1>11 DEF Calls
<1> HIDE DEF call
<1>13. LogInv'
  BY <1>1, <1>2, <1>12, ReaderKeepsLog
<1>14. log' = log
  BY <1>1 DEF logVars
<1>15. Asked'
  BY <1>1, <1>10, <1>12, <1>14 DEF Asked
<1>16. Filled'
  <2>1. \A c \in DOMAIN rc'.slots : rc'.slots[c] = EmptySlot
    BY <1>1, <1>9, <1>12
  <2>2. DOMAIN EmptySlot.found = {} /\ Len(EmptySlot.facts) = 0
    BY <1>7
  <2>3. Len(EmptySlot.facts) <= rc'.factLimit
    BY <1>1, <1>12, <2>2
  <2> QED
    BY <2>1, <2>2, <2>3 DEF Filled
<1>17. Searched'
  BY <1>1, <1>7, <1>9, <1>12 DEF Searched, Answered
<1>18. Ended'
  BY <1>1, <1>12 DEF Ended
<1> QED
  BY <1>13, <1>15, <1>16, <1>17, <1>18 DEF IInv, LogInv

\* A channel fills its slot.
LEMMA FillKeeps ==
    ASSUME IInv, NEW c, Running(c), NEW slot \in Slots, Fill(c, slot),
           \A i \in DOMAIN slot.found : slot.found[i] \in DOMAIN log,
           \A i, j \in DOMAIN slot.found : slot.found[i] = slot.found[j] => i = j,
           Len(slot.facts) <= rc.factLimit,
           c = "lexical" /\ slot.at = "ok" =>
              \A s \in rc.before \cap Live :
                 log[s].kind = "hit" => s \in Range(slot.found) \/ Len(slot.found) = rc.depth
    PROVE  IInv'
<1> DEFINE slots == [rc.slots EXCEPT ![c] = slot]
           call == [rc EXCEPT !.slots = slots]
<1>1. /\ rc.at = "running" /\ c \in DOMAIN rc.slots /\ Asked /\ Filled /\ Searched /\ LogInv
  BY DEF IInv, LogInv, Running
<1>2. rc \in Calls /\ rc.slots \in Plans
  BY <1>1 DEF Asked, Calls
<1>3. rc' = call /\ UNCHANGED <<logVars, client, cursor, seen>>
  BY <1>2 DEF Fill, Calls
<1>4. /\ slots \in Plans /\ DOMAIN slots = DOMAIN rc.slots /\ slots[c] = slot
      /\ \A d \in DOMAIN rc.slots : d # c => slots[d] = rc.slots[d]
  <2>1. PICK C \in SUBSET Channels : rc.slots \in [C -> Slots]
    BY <1>2 DEF Plans
  <2>2. slots \in [C -> Slots]
    BY <2>1
  <2> QED
    BY <1>1, <2>1, <2>2 DEF Plans
<1> HIDE DEF slots
<1>5. /\ call \in Calls /\ call.at = "running" /\ call.slots = slots /\ call.before = rc.before
      /\ call.asOf = rc.asOf /\ call.factLimit = rc.factLimit /\ call.depth = rc.depth
  BY <1>1, <1>2, <1>4 DEF Calls
<1> HIDE DEF call
<1>6. LogInv' /\ log' = log /\ erased' = erased
  BY <1>1, <1>3, <1>5, ReaderKeepsLog DEF logVars
<1>7. Asked'
  BY <1>1, <1>3, <1>5, <1>6 DEF Asked
<1>8. Filled'
  <2> SUFFICES ASSUME NEW d \in DOMAIN slots
               PROVE  /\ \A i \in DOMAIN slots[d].found : slots[d].found[i] \in DOMAIN log
                      /\ \A i, j \in DOMAIN slots[d].found : slots[d].found[i] = slots[d].found[j] => i = j
                      /\ Len(slots[d].facts) <= rc.factLimit
    BY <1>3, <1>5, <1>6 DEF Filled
  <2>1. CASE d = c
    BY <1>4, <2>1
  <2>2. CASE d # c
    BY <1>1, <1>4, <2>2 DEF Filled
  <2> QED
    BY <2>1, <2>2
<1>9. Searched'
  <2>1. Live' = Live
    BY <1>6 DEF Live
  <2>2. CASE c = "lexical"
    BY <1>3, <1>4, <1>5, <1>6, <2>1, <2>2 DEF Searched, Answered
  <2>3. CASE c # "lexical"
    <3>1. "lexical" \in DOMAIN slots => slots["lexical"] = rc.slots["lexical"]
      BY <1>4, <2>3
    <3> QED
      BY <1>1, <1>3, <1>4, <1>5, <1>6, <2>1, <3>1 DEF Searched, Answered
  <2> QED
    BY <2>2, <2>3
<1>10. Ended'
  BY <1>3, <1>5 DEF Ended
<1> QED
  BY <1>6, <1>7, <1>8, <1>9, <1>10 DEF IInv, LogInv

\* What a channel admits is of the log.
LEMMA AdmittedInLog ==
    ASSUME LogInv, NEW kinds, NEW S \in SUBSET Admitted(kinds)
    PROVE  S \subseteq DOMAIN log /\ S \in SUBSET Seqs /\ S \in SUBSET Int /\ IsFiniteSet(S)
<1>1. S \subseteq DOMAIN log /\ DOMAIN log \subseteq Seqs
  BY LogWithinBounds DEF Admitted, Live
<1>2. IsFiniteSet(Seqs) /\ Seqs \subseteq Int
  BY FS_Interval, ConstantsOK DEF Seqs
<1> QED
  BY <1>1, <1>2, FS_Subset

\* The semantic channel.
LEMMA SearchSemanticKeeps ==
    ASSUME IInv, SearchSemantic
    PROVE  IInv'
<1>1. Running("semantic") /\ LogInv /\ rc.at # "idle" /\ Asked /\ Filled
  BY DEF SearchSemantic, IInv, LogInv, Running
<1>2. PICK near \in SUBSET Admitted({"hit", "near"}) :
          \E top \in kSubset(Min({rc.depth, Cardinality(near)}), near) :
             Fill("semantic", [EmptySlot EXCEPT !.at = "ok", !.found = Ranked(top, rc.q.sem)])
  BY DEF SearchSemantic
<1>3. PICK top \in SUBSET near :
             Fill("semantic", [EmptySlot EXCEPT !.at = "ok", !.found = Ranked(top, rc.q.sem)])
  BY <1>2 DEF kSubset
<1> DEFINE found == Ranked(top, rc.q.sem)
           slot == [EmptySlot EXCEPT !.at = "ok", !.found = found]
<1>4. top \subseteq DOMAIN log /\ top \in SUBSET Seqs /\ top \in SUBSET Int /\ IsFiniteSet(top)
  <2>1. top \in SUBSET Admitted({"hit", "near"})
    OBVIOUS
  <2> QED
    BY <1>1, <2>1, AdmittedInLog
<1>5. \A s \in top : rc.q.sem[s] \in Int
  <2>1. rc.q \in Request
    BY <1>1, CallFields DEF InFlight
  <2> QED
    BY <1>4, <2>1 DEF Request
<1>6. /\ Cardinality(top) \in Nat /\ found \in [1 .. Cardinality(top) -> top]
      /\ \A i, j \in 1 .. Cardinality(top) : found[i] = found[j] => i = j
  BY <1>4, <1>5, RankedIsRanking
<1> HIDE DEF found
<1>7. /\ found \in Seq(Seqs) /\ DOMAIN found = 1 .. Cardinality(top)
      /\ \A i \in DOMAIN found : found[i] \in DOMAIN log
  <2>1. found \in Seq(top)
    BY <1>6
  <2> QED
    BY <1>4, <1>6, <2>1, SeqMonotonic
<1>8. slot \in Slots /\ slot.found = found /\ slot.facts = <<>> /\ slot.at = "ok"
  <2>1. <<>> \in Seq(Nat)
    BY EmptySeq
  <2> QED
    BY <1>7, <2>1 DEF EmptySlot, Slots
<1>9. Fill("semantic", slot)
  BY <1>3 DEF found
<1> HIDE DEF slot
<1>10. rc.factLimit \in Nat /\ Len(slot.facts) = 0
  BY <1>1, <1>8, CallFields DEF InFlight
<1>11. Len(slot.facts) <= rc.factLimit
  BY <1>10
<1> QED
  BY <1>1, <1>6, <1>7, <1>8, <1>9, <1>11, FillKeeps

\* The lexical channel: all that matches, or the best as many as it may.
LEMMA SearchLexicalKeeps ==
    ASSUME IInv, SearchLexical
    PROVE  IInv'
<1> DEFINE S == Admitted({"hit"})
           all == Ranked(S, rc.q.lex)
           n == Min({rc.depth, Len(all)})
           found == SubSeq(all, 1, n)
           slot == [EmptySlot EXCEPT !.at = "ok", !.found = found]
<1>1. Running("lexical") /\ LogInv /\ rc.at # "idle" /\ Asked /\ Filled
  BY DEF SearchLexical, IInv, LogInv, Running
<1>2. Fill("lexical", slot)
  BY DEF SearchLexical, LexicalTop
<1>3. S \subseteq DOMAIN log /\ S \in SUBSET Seqs /\ S \in SUBSET Int /\ IsFiniteSet(S)
  <2>1. S \in SUBSET Admitted({"hit"})
    OBVIOUS
  <2> QED
    BY <1>1, <2>1, AdmittedInLog
<1>4. rc.q \in Request /\ rc.depth \in Nat /\ rc.factLimit \in Nat
  BY <1>1, CallFields DEF InFlight
<1>5. \A s \in S : rc.q.lex[s] \in Int
  BY <1>3, <1>4 DEF Request
<1>6. ASSUME NEW s \in rc.before \cap Live, log[s].kind = "hit"
      PROVE  s \in S
  BY <1>1, <1>6 DEF Asked, Admitted
<1> HIDE DEF S
<1>7. /\ Cardinality(S) \in Nat /\ all \in [1 .. Cardinality(S) -> S] /\ Range(all) = S
      /\ \A i, j \in 1 .. Cardinality(S) : all[i] = all[j] => i = j
  BY <1>3, <1>5, RankedIsRanking
<1> HIDE DEF all
<1>8. all \in Seq(S) /\ Len(all) = Cardinality(S) /\ DOMAIN all = 1 .. Len(all)
  BY <1>7
<1>9. n \in Nat /\ n <= Len(all) /\ (n = rc.depth \/ n = Len(all))
  <2>1. {rc.depth, Len(all)} \in SUBSET Nat /\ {rc.depth, Len(all)} # {}
    BY <1>4, <1>7, <1>8
  <2>2. n \in {rc.depth, Len(all)} /\ \A y \in {rc.depth, Len(all)} : n <= y
    BY <2>1, MinIsLeast
  <2> QED
    BY <2>1, <2>2
<1> HIDE DEF n
<1>10. /\ found \in Seq(S) /\ Len(found) = n
       /\ \A i \in 1 .. n : found[i] = all[i]
  <2>1. \A i \in 1 .. n : all[i] \in S
    BY <1>7, <1>8, <1>9
  <2>2. /\ SubSeq(all, 1, n) \in Seq(S) /\ Len(SubSeq(all, 1, n)) = IF 1 <= n THEN n - 1 + 1 ELSE 0
        /\ \A i \in 1 .. n - 1 + 1 : SubSeq(all, 1, n)[i] = all[1 + i - 1]
    BY <1>9, <2>1, SubSeqProperties
  <2>3. \A i \in 1 .. n : i \in 1 .. n - 1 + 1 /\ 1 + i - 1 = i
    BY <1>9
  <2> QED
    BY <1>9, <2>2, <2>3
<1>11. n = Len(all) => Range(found) = S
  <2> SUFFICES ASSUME n = Len(all)
               PROVE  Range(found) = S
    OBVIOUS
  <2>1. DOMAIN found = DOMAIN all /\ \A i \in DOMAIN all : found[i] = all[i]
    BY <1>8, <1>10
  <2> QED
    BY <1>7, <2>1 DEF Range
<1> HIDE DEF found
<1>12. found \in Seq(Seqs) /\ DOMAIN found = 1 .. n
  BY <1>3, <1>9, <1>10, SeqMonotonic
<1>13. /\ \A i \in DOMAIN found : found[i] \in DOMAIN log
       /\ \A i, j \in DOMAIN found : found[i] = found[j] => i = j
  <2>1. \A i \in DOMAIN found : found[i] = all[i] /\ i \in 1 .. Cardinality(S)
    BY <1>7, <1>8, <1>9, <1>10, <1>12
  <2>2. \A i \in 1 .. Cardinality(S) : all[i] \in DOMAIN log
    BY <1>3, <1>7
  <2> QED
    BY <1>7, <2>1, <2>2
<1>14. slot \in Slots /\ slot.found = found /\ slot.facts = <<>> /\ slot.at = "ok"
  <2>1. <<>> \in Seq(Nat)
    BY EmptySeq
  <2> QED
    BY <1>12, <2>1 DEF EmptySlot, Slots
<1> HIDE DEF slot
<1>15. Len(slot.facts) <= rc.factLimit
  <2>1. Len(slot.facts) = 0
    BY <1>14
  <2> QED
    BY <1>4, <2>1
<1>16. \A s \in rc.before \cap Live :
          log[s].kind = "hit" => s \in Range(slot.found) \/ Len(slot.found) = rc.depth
  BY <1>6, <1>9, <1>10, <1>11, <1>14
<1> QED
  BY <1>1, <1>2, <1>13, <1>14, <1>15, <1>16, FillKeeps

\* A channel that failed.
LEMMA FailedSlotFits ==
    ASSUME IInv, NEW c, Running(c), Fill(c, [EmptySlot EXCEPT !.at = "failed"])
    PROVE  IInv'
<1> DEFINE slot == [EmptySlot EXCEPT !.at = "failed"]
<1>1. slot \in Slots /\ slot.found = <<>> /\ slot.facts = <<>> /\ slot.at = "failed"
  <2>1. <<>> \in Seq(Nat) /\ <<>> \in Seq(Seqs)
    BY EmptySeq
  <2> QED
    BY <2>1 DEF EmptySlot, Slots
<1> HIDE DEF slot
<1>2. rc.factLimit \in Nat
  BY CallFields DEF InFlight, IInv, LogInv, Running
<1>3. Len(slot.facts) <= rc.factLimit /\ DOMAIN slot.found = {}
  BY <1>1, <1>2
<1> QED
  BY <1>1, <1>3, FillKeeps DEF slot

\* The facts channel.
LEMMA QueryFactsKeeps ==
    ASSUME IInv, QueryFacts
    PROVE  IInv'
<1>1. Running("fact") /\ LogInv /\ rc.at # "idle" /\ Asked /\ Filled
  BY DEF QueryFacts, IInv, LogInv, Running
<1>2. CASE ~rc.q.facts
  <2>1. Fill("fact", [EmptySlot EXCEPT !.at = "failed"])
    BY <1>2 DEF QueryFacts
  <2> QED
    BY <1>1, <2>1, FailedSlotFits
<1>3. CASE rc.q.facts
  <2> DEFINE n == Min({rc.factLimit, Len(FactLens)})
             facts == SubSeq(FactLens, 1, n)
             slot == [EmptySlot EXCEPT !.at = "ok", !.facts = facts]
  <2>1. Fill("fact", slot)
    BY <1>3 DEF QueryFacts
  <2>2. rc.factLimit \in Nat /\ FactLens \in Seq(Nat) /\ Len(FactLens) \in Nat
    BY <1>1, CallFields, ConstantsOK DEF InFlight
  <2>3. n \in Nat /\ n <= rc.factLimit /\ n <= Len(FactLens)
    <3>1. {rc.factLimit, Len(FactLens)} \in SUBSET Nat /\ {rc.factLimit, Len(FactLens)} # {}
      BY <2>2
    <3>2. n \in {rc.factLimit, Len(FactLens)} /\ \A y \in {rc.factLimit, Len(FactLens)} : n <= y
      BY <3>1, MinIsLeast
    <3> QED
      BY <3>1, <3>2
  <2> HIDE DEF n
  <2>4. facts \in Seq(Nat) /\ Len(facts) = n
    <3>1. \A i \in 1 .. n : FactLens[i] \in Nat
      BY <2>2, <2>3
    <3> QED
      BY <2>3, <3>1, SubSeqProperties
  <2> HIDE DEF facts
  <2>5. slot \in Slots /\ slot.found = <<>> /\ slot.facts = facts
    <3>1. <<>> \in Seq(Seqs)
      BY EmptySeq
    <3> QED
      BY <2>4, <3>1 DEF EmptySlot, Slots
  <2> HIDE DEF slot
  <2>6. Len(slot.facts) <= rc.factLimit /\ DOMAIN slot.found = {}
    BY <2>2, <2>3, <2>4, <2>5
  <2> QED
    BY <1>1, <2>1, <2>5, <2>6, FillKeeps
<1> QED
  BY <1>2, <1>3

\* The answer depends on the log and on what the call holds, and on nothing
\* that its end changes.
LEMMA AnswerStands ==
    ASSUME rc'.slots = rc.slots, rc'.q = rc.q, rc'.limit = rc.limit,
           rc'.factLimit = rc.factLimit, log' = log
    PROVE  Answer' = Answer /\ (AllFailed' <=> AllFailed)
<1>1. \A c : Answered(c)' <=> Answered(c)
  BY DEF Answered
<1>2. Found' = Found
  BY <1>1 DEF Found
<1>3. /\ \A c, s : FoundBy(c, s)' <=> FoundBy(c, s)
      /\ \A c, s : RankIn(c, s)' = RankIn(c, s)
  BY <1>1, Zenon DEF FoundBy, RankIn
<1>4. \A c : Weight(c)' = Weight(c)
  BY DEF Weight
<1>5. \A s : Score(s)' = Score(s)
  <2>1. \A c, s : Share(c, s)' = Share(c, s)
    <3> TAKE c, s
    <3>1. CASE FoundBy(c, s)
      BY <1>3, <1>4, <3>1 DEF Share
    <3>2. CASE ~FoundBy(c, s)
      BY <1>3, <3>2 DEF Share
    <3> QED
      BY <3>1, <3>2
  <2> QED
    BY <2>1 DEF Score
<1>6. Fuse' = Fuse
  <2>1. [s \in Found' |-> Score(s)'] = [s \in Found |-> Score(s)]
    BY <1>2, <1>5
  <2>2. Fuse' = Ranked(Found', [s \in Found' |-> Score(s)'])
    BY DEF Fuse
  <2> QED
    BY <1>2, <2>1, <2>2, Zenon DEF Fuse
<1>7. FactsFound' = FactsFound
  BY <1>1 DEF FactsFound
<1>8. FactCosts' = FactCosts
  BY <1>7 DEF FactCosts
<1>9. EpisodeCosts(Fuse)' = EpisodeCosts(Fuse)
  BY <1>6 DEF EpisodeCosts
<1>10. FactsTaken' = FactsTaken
  BY <1>8 DEF FactsTaken, Taken
<1>11. EpisodesTaken' = EpisodesTaken
  BY <1>8, <1>9, <1>10 DEF EpisodesTaken, Taken
<1>12. Answer = [facts |-> SubSeq(FactsFound, 1, FactsTaken), episodes |-> SubSeq(Fuse, 1, EpisodesTaken),
                 tokens |-> Spent(FactCosts)[FactsTaken] + Spent(EpisodeCosts(Fuse))[EpisodesTaken],
                 truncated |-> FactsTaken < Len(FactsFound) \/ EpisodesTaken < Len(Fuse)]
  BY Zenon DEF Answer, FactsTaken, EpisodesTaken
<1>13. Answer' = [facts |-> SubSeq(FactsFound', 1, FactsTaken'), episodes |-> SubSeq(Fuse', 1, EpisodesTaken'),
                  tokens |-> Spent(FactCosts')[FactsTaken'] + Spent(EpisodeCosts(Fuse)')[EpisodesTaken'],
                  truncated |-> FactsTaken' < Len(FactsFound') \/ EpisodesTaken' < Len(Fuse')]
  BY Zenon DEF Answer, FactsTaken, EpisodesTaken
<1>14. Answer' = Answer
  BY <1>6, <1>7, <1>8, <1>9, <1>10, <1>11, <1>12, <1>13, Zenon
<1> QED
  BY <1>1, <1>14 DEF AllFailed

\* A step that leaves log and call alone keeps what was established of the call.
LEMMA RecallStands ==
    ASSUME RecallInv, rc' = rc, log' = log, erased' = erased
    PROVE  RecallInv'
<1> SUFFICES ASSUME rc.at # "idle"
             PROVE  Asked' /\ Filled' /\ Searched' /\ Ended'
  BY DEF RecallInv
<1>1. Asked /\ Filled /\ Searched /\ Ended
  BY DEF RecallInv
<1>2. Asked' /\ Filled'
  BY <1>1 DEF Asked, Filled
<1>3. Searched'
  BY <1>1 DEF Searched, Answered, Live
<1>4. Ended'
  BY <1>1, AnswerStands DEF Ended
<1> QED
  BY <1>2, <1>3, <1>4

\* The call ends, with an answer, with an error or cancelled.
LEMMA EndKeeps ==
    ASSUME IInv, EndRecall \/ CancelRecall
    PROVE  IInv'
<1>1. /\ rc.at = "running" /\ LogInv /\ Asked /\ Filled /\ Searched /\ rc \in Calls
      /\ UNCHANGED <<logVars, client, cursor, seen>>
  BY DEF EndRecall, CancelRecall, IInv, LogInv, Asked
<1>2. InFlight
  BY <1>1 DEF InFlight
<1>3. Answer \in Answers
  BY <1>2, AnswerHolds
<1>4. \/ /\ rc' = [rc EXCEPT !.at = "all_failed"] /\ AllFailed
         /\ \A c \in DOMAIN rc.slots : rc.slots[c].at # "running"
      \/ rc' = [rc EXCEPT !.at = "answered", !.answer = Answer] /\ ~AllFailed
      \/ rc' = [rc EXCEPT !.at = "cancelled"]
  BY DEF EndRecall, CancelRecall
<1>5. /\ rc' \in Calls /\ rc'.slots = rc.slots /\ rc'.q = rc.q /\ rc'.limit = rc.limit
      /\ rc'.factLimit = rc.factLimit /\ rc'.before = rc.before /\ rc'.asOf = rc.asOf
      /\ rc'.depth = rc.depth
      /\ rc'.at \in {"answered", "all_failed", "cancelled"}
      /\ rc'.at = "answered" => rc'.answer = Answer /\ ~AllFailed
      /\ rc'.at = "all_failed" => AllFailed /\ \A c \in DOMAIN rc.slots : rc.slots[c].at # "running"
  <2>1. CASE /\ rc' = [rc EXCEPT !.at = "all_failed"] /\ AllFailed
             /\ \A c \in DOMAIN rc.slots : rc.slots[c].at # "running"
    BY <1>1, <2>1 DEF Calls
  <2>2. CASE rc' = [rc EXCEPT !.at = "answered", !.answer = Answer] /\ ~AllFailed
    BY <1>1, <1>3, <2>2 DEF Calls
  <2>3. CASE rc' = [rc EXCEPT !.at = "cancelled"]
    BY <1>1, <2>3 DEF Calls
  <2> QED
    BY <1>4, <2>1, <2>2, <2>3
<1>6. LogInv' /\ log' = log /\ erased' = erased
  BY <1>1, <1>5, ReaderKeepsLog DEF logVars
<1>7. Asked' /\ Filled'
  BY <1>1, <1>5, <1>6 DEF Asked, Filled
<1>8. Searched'
  <2>1. Live' = Live
    BY <1>6 DEF Live
  <2> QED
    BY <1>1, <1>5, <1>6, <2>1 DEF Searched, Answered
<1>9. Answer' = Answer /\ (AllFailed' <=> AllFailed)
  BY <1>5, <1>6, AnswerStands
<1>10. Ended'
  BY <1>5, <1>9 DEF Ended
<1> QED
  BY <1>6, <1>7, <1>8, <1>10 DEF IInv, LogInv

-----------------------------------------------------------------------------
(* The theorems *)

\* The invariant holds at the start.
LEMMA InitEstablishes == Init => IInv
<1> SUFFICES ASSUME Init
             PROVE  IInv
  OBVIOUS
<1>1. DOMAIN log = {} /\ rc.at = "idle" /\ lock = None /\ None \notin Appenders
  BY ConstantsOK DEF Init, NoRecall, None
<1>2. TypeOK
  <2>1. 1 .. 0 = {} /\ now \in 1 .. MaxNow /\ appends \in 0 .. MaxAppends /\ cursor \in 0 .. MaxSeq
    BY ConstantsOK DEF Init
  <2> QED
    BY <1>1, <2>1 DEF Init, TypeOK
<1>3. Appending
  <2>1. NotAppending \in Appends /\ NotAppending.at = "idle"
    BY DEF NotAppending, Appends
  <2>2. lastSeq \in 0 .. MaxSeq
    BY ConstantsOK DEF Init
  <2> QED
    BY <1>1, <2>1, <2>2 DEF Init, Appending
<1>4. Paged /\ ReplaySkipsNothing
  BY <1>1 DEF Init, Paged, ReplaySkipsNothing, Live
<1> QED
  BY <1>1, <1>2, <1>3, <1>4 DEF IInv

\* A write keeps it.
LEMMA WriteKeeps ==
    ASSUME IInv, rc.at \in {"idle", "running"}, Write
    PROVE  IInv'
<1>1. LogInv /\ RecallInv
  BY DEF IInv, LogInv, RecallInv
<1>2. \/ \E a \in Appenders : \E n \in 1 .. MaxAppendBatch : Stamp(a, n)
      \/ \E a \in Appenders : Sequence(a)
      \/ \E a \in Appenders : CommitAppend(a)
      \/ \E a \in Appenders : AbortAppend(a)
      \/ \E s \in Seqs : Erase(s)
      \/ Tick
  BY DEF Write
<1>3. LogInv'
  BY <1>1, <1>2, StampKeeps, SequenceKeeps, CommitAppendKeeps, AbortAppendKeeps, EraseKeeps, TickKeeps
<1>4. rc' = rc /\ erased \subseteq erased'
  BY <1>2 DEF Stamp, Sequence, CommitAppend, AbortAppend, Erase, Tick, readVars
<1>5. \A s \in DOMAIN log : s \in DOMAIN log' /\ log'[s] = log[s]
  <2>1. CASE \E a \in Appenders : CommitAppend(a)
    BY <1>1, <2>1, CommitAppendKeeps
  <2>2. CASE ~\E a \in Appenders : CommitAppend(a)
    <3>1. log' = log
      BY <1>2, <2>2 DEF Stamp, Sequence, AbortAppend, Erase, Tick
    <3> QED
      BY <3>1
  <2> QED
    BY <2>1, <2>2
<1>6. RecallInv'
  BY <1>1, <1>4, <1>5, WriteKeepsRecall
<1> QED
  BY <1>3, <1>6 DEF IInv, LogInv, RecallInv

\* Every step keeps it.
LEMMA StepKeeps == IInv /\ [Next]_vars => IInv'
<1> SUFFICES ASSUME IInv, [Next]_vars
             PROVE  IInv'
  OBVIOUS
<1>1. CASE rc.at \in {"idle", "running"} /\ Write
  BY <1>1, WriteKeeps
<1>2. ASSUME NEW limit \in PageLimits, Replay(limit)
      PROVE  IInv'
  <2>1. LogInv /\ RecallInv
    BY DEF IInv, LogInv, RecallInv
  <2>2. rc' = rc /\ log' = log /\ erased' = erased
    BY <1>2 DEF Replay, logVars
  <2>3. LogInv' /\ RecallInv'
    BY <1>2, <2>1, <2>2, ReplayKeeps, RecallStands
  <2> QED
    BY <2>3 DEF IInv, LogInv, RecallInv
<1>3. ASSUME NEW q \in Requests, BeginRecall(q)
      PROVE  IInv'
  BY <1>3, BeginRecallKeeps
<1>4. CASE SearchSemantic
  BY <1>4, SearchSemanticKeeps
<1>5. CASE SearchLexical
  BY <1>5, SearchLexicalKeeps
<1>6. CASE QueryFacts
  BY <1>6, QueryFactsKeeps
<1>7. ASSUME NEW c \in Channels, ChannelFails(c)
      PROVE  IInv'
  BY <1>7, FailedSlotFits DEF ChannelFails
<1>8. CASE EndRecall \/ CancelRecall
  BY <1>8, EndKeeps
<1>9. CASE UNCHANGED vars
  <2>1. /\ now' = now /\ lastSeq' = lastSeq /\ lock' = lock /\ app' = app /\ log' = log
        /\ erased' = erased /\ appends' = appends /\ client' = client /\ cursor' = cursor
        /\ seen' = seen /\ rc' = rc
    BY <1>9 DEF vars, logVars, readVars
  <2>2. TypeOK' /\ Appending' /\ Paged' /\ ReplaySkipsNothing'
    BY <2>1 DEF IInv, TypeOK, Appending, Paged, ReplaySkipsNothing, Live
  <2>3. RecallInv'
    <3>1. RecallInv
      BY DEF IInv, RecallInv
    <3> QED
      BY <2>1, <3>1, RecallStands
  <2> QED
    BY <2>2, <2>3 DEF IInv, RecallInv
<1> QED
  BY <1>1, <1>2, <1>3, <1>4, <1>5, <1>6, <1>7, <1>8, <1>9 DEF Next

\* The invariant always holds.
LEMMA InvariantHolds == Spec => []IInv
  BY InitEstablishes, StepKeeps, PTL DEF Spec

\* Sequence numbers are dense in commit order: appendSQL's lock on the scope
\* row keeps every number that was taken and not committed with its holder.
THEOREM TypeCorrect == Spec => []TypeOK
<1>1. IInv => TypeOK
  BY DEF IInv
<1> QED
  BY <1>1, InvariantHolds, PTL

\* Replay leaves nothing behind its cursor, however many clients append, abort
\* and erase between its pages and whatever their limits.
THEOREM ReplayIsComplete == Spec => []ReplaySkipsNothing
<1>1. IInv => ReplaySkipsNothing
  BY DEF IInv
<1> QED
  BY <1>1, InvariantHolds, PTL

\* What of an answer follows from its being the one the channels' results make.
LEMMA AnsweredInFlight ==
    ASSUME IInv, rc.at = "answered"
    PROVE  InFlight /\ rc.answer = Answer /\ ~AllFailed /\ Searched
  BY DEF IInv, InFlight, LogInv, Ended

\* An answer holds nothing but what was found, and all of it unless it says so.
LEMMA AnswerIsComplete ==
    ASSUME IInv, rc.at = "answered"
    PROVE  /\ Range(rc.answer.episodes) \subseteq Found
           /\ ~rc.answer.truncated => Range(rc.answer.episodes) = Found /\ rc.answer.facts = FactsFound
<1>1. InFlight /\ rc.answer = Answer
  BY AnsweredInFlight
<1>2. /\ FactsTaken \in 0 .. Len(FactsFound) /\ EpisodesTaken \in 0 .. Len(Fuse)
      /\ Answer.facts = SubSeq(FactsFound, 1, FactsTaken)
      /\ Answer.truncated <=> FactsTaken < Len(FactsFound) \/ EpisodesTaken < Len(Fuse)
      /\ Answer.episodes \in Seq(Found) /\ Len(Answer.episodes) = EpisodesTaken
      /\ \A i \in 1 .. EpisodesTaken : Answer.episodes[i] = Fuse[i]
  BY <1>1, AnswerHolds
<1>3. Range(Answer.episodes) \subseteq Found
  BY <1>2 DEF Range
<1>4. ASSUME ~Answer.truncated
      PROVE  Range(Answer.episodes) = Found /\ Answer.facts = FactsFound
  <2>1. /\ FactsFound \in Seq(Nat) /\ Len(Fuse) \in Nat /\ DOMAIN Fuse = 1 .. Len(Fuse)
        /\ Range(Fuse) = Found
    BY <1>1, CostsAreNat, FuseIsRanking
  <2>2. FactsTaken = Len(FactsFound) /\ EpisodesTaken = Len(Fuse)
    <3>1. Len(FactsFound) \in Nat
      BY <2>1, LenProperties
    <3>2. ~(FactsTaken < Len(FactsFound)) /\ ~(EpisodesTaken < Len(Fuse))
      BY <1>2, <1>4
    <3>3. FactsTaken = Len(FactsFound)
      BY <1>2, <3>1, <3>2
    <3>4. EpisodesTaken = Len(Fuse)
      <4>1. EpisodesTaken \in 0 .. Len(Fuse) /\ Len(Fuse) \in Nat
        BY <1>2, <2>1
      <4>2. \A m \in Nat : \A n \in 0 .. m : n < m \/ n = m
        OBVIOUS
      <4> QED
        BY <3>2, <4>1, <4>2
    <3> QED
      BY <3>3, <3>4
  <2>3. Answer.facts = FactsFound
    BY <1>2, <2>1, <2>2, SubSeqFull
  <2>4. DOMAIN Answer.episodes = DOMAIN Fuse /\ \A i \in DOMAIN Fuse : Answer.episodes[i] = Fuse[i]
    BY <1>2, <2>1, <2>2
  <2> QED
    BY <2>1, <2>3, <2>4 DEF Range
<1> QED
  BY <1>1, <1>3, <1>4

\* An episode is lexically searchable the moment its Append returns: whatever
\* was committed when a Recall began, is still there and matches is in the
\* answer, or the answer says it was truncated, or the channel was full.
THEOREM AppendedIsFound == Spec => []AppendedIsRecalled
<1>1. ASSUME IInv
      PROVE  AppendedIsRecalled
  <2> SUFFICES ASSUME rc.at = "answered", Answered("lexical"), NEW s \in rc.before \cap Live,
                      log[s].kind = "hit", ~rc.answer.truncated,
                      Len(rc.slots["lexical"].found) # rc.depth
               PROVE  s \in Range(rc.answer.episodes)
    BY DEF AppendedIsRecalled
  <2>1. InFlight /\ Searched
    BY <1>1, AnsweredInFlight
  <2>2. s \in Range(rc.slots["lexical"].found)
    BY <2>1 DEF Searched
  <2>3. s \in Found
    BY <2>2 DEF Found, EpisodeChannels
  <2> QED
    BY <1>1, <2>3, AnswerIsComplete
<1> QED
  BY <1>1, InvariantHolds, PTL

\* A failed channel costs its own results and no more: Recall fails only when
\* every channel did.
THEOREM FailuresStayTheirOwn == Spec => []AnswersFromWhatWorked
<1>1. ASSUME IInv
      PROVE  AnswersFromWhatWorked
  <2>1. ASSUME rc.at = "all_failed", NEW c \in DOMAIN rc.slots
        PROVE  rc.slots[c].at = "failed"
    <3>1. InFlight /\ AllFailed /\ rc.slots[c].at # "running"
      BY <1>1, <2>1 DEF IInv, InFlight, LogInv, Ended
    <3>2. rc.slots[c] \in Slots
      BY <3>1, CallFields
    <3> QED
      BY <3>1, <3>2 DEF Slots, AllFailed, Answered
  <2>2. ASSUME rc.at = "answered"
        PROVE  /\ \E c \in DOMAIN rc.slots : Answered(c)
               /\ ~rc.answer.truncated =>
                     /\ Range(rc.answer.episodes) = Found
                     /\ rc.answer.facts = FactsFound
               /\ Range(rc.answer.episodes) \subseteq Found
    <3>1. ~AllFailed
      BY <1>1, <2>2, AnsweredInFlight
    <3>2. \E c \in DOMAIN rc.slots : Answered(c)
      BY <3>1 DEF AllFailed
    <3> QED
      BY <1>1, <2>2, <3>2, AnswerIsComplete
  <2> QED
    BY <2>1, <2>2 DEF AnswersFromWhatWorked
<1> QED
  BY <1>1, InvariantHolds, PTL

\* The limits and the token budget are kept, facts and episodes together, and
\* no fact is left out that would have fitted.
THEOREM BudgetsAreKept == Spec => []BudgetKept
<1>1. ASSUME IInv
      PROVE  BudgetKept
  <2> SUFFICES ASSUME rc.at = "answered"
               PROVE  LET ans == rc.answer
                          spent == Spent(FactCosts)[Len(ans.facts)] IN
                      /\ Len(ans.episodes) <= rc.limit /\ Len(ans.facts) <= rc.factLimit
                      /\ ans.tokens = spent + Spent(EpisodeCosts(ans.episodes))[Len(ans.episodes)]
                      /\ rc.q.maxTokens > 0 => ans.tokens <= rc.q.maxTokens
                      /\ Len(ans.facts) < Len(FactsFound) =>
                            spent + FactCosts[Len(ans.facts) + 1] > rc.q.maxTokens
    BY DEF BudgetKept
  <2> DEFINE ans == rc.answer
             nf == FactsTaken
             ne == EpisodesTaken
             spent == Spent(FactCosts)[nf]
             more == Spent(EpisodeCosts(Fuse))[ne]
             budget == rc.q.maxTokens
  <2>1. InFlight /\ ans = Answer
    BY <1>1, AnsweredInFlight
  <2>2. /\ nf \in 0 .. Len(FactsFound) /\ nf <= rc.factLimit /\ spent \in Nat
        /\ ne \in 0 .. Len(Fuse) /\ ne <= rc.limit /\ ans.tokens = spent + more
        /\ Len(ans.facts) = nf /\ ans.episodes \in Seq(Found) /\ Len(ans.episodes) = ne
        /\ \A i \in 1 .. ne : ans.episodes[i] = Fuse[i]
    BY <2>1, AnswerHolds
  <2>3. /\ FactsFound \in Seq(Nat) /\ FactCosts \in Seq(Nat) /\ Len(FactCosts) = Len(FactsFound)
        /\ Len(FactsFound) <= rc.factLimit /\ rc.factLimit \in Nat /\ rc.limit \in Nat /\ budget \in Int
    BY <2>1, CostsAreNat, CallFields
  <2>4. /\ Fuse \in Seq(Found) /\ Len(Fuse) \in Nat
        /\ EpisodeCosts(Fuse) \in Seq(Nat) /\ Len(EpisodeCosts(Fuse)) = Len(Fuse)
        /\ EpisodeCosts(ans.episodes) \in Seq(Nat) /\ Len(EpisodeCosts(ans.episodes)) = ne
    BY <2>1, <2>2, FuseIsRanking, CostsAreNat
  <2>5. /\ Spent(FactCosts)[0] = 0
        /\ \A i \in 1 .. Len(FactCosts) : Spent(FactCosts)[i] = Spent(FactCosts)[i - 1] + FactCosts[i]
        /\ Spent(EpisodeCosts(Fuse))[0] = 0 /\ Spent(EpisodeCosts(Fuse)) \in [0 .. Len(Fuse) -> Nat]
    BY <2>3, <2>4, SpentSums DEF SumsTo
  <2>6. more = Spent(EpisodeCosts(ans.episodes))[Len(ans.episodes)]
    <3>1. DOMAIN Fuse = 1 .. Len(Fuse) /\ DOMAIN ans.episodes = 1 .. ne
      BY <2>2, <2>4
    <3>2. \A i \in 1 .. ne : i \in DOMAIN Fuse /\ i \in DOMAIN ans.episodes
      BY <2>2, <2>4, <3>1
    <3>3. \A i \in 1 .. ne : EpisodeCosts(Fuse)[i] = EpisodeCosts(ans.episodes)[i]
      BY <2>2, <3>2 DEF EpisodeCosts
    <3>4. ne \in Nat /\ ne <= Len(EpisodeCosts(Fuse)) /\ ne <= Len(EpisodeCosts(ans.episodes))
      BY <2>2, <2>4
    <3> HIDE DEF ne, ans
    <3>5. Spent(EpisodeCosts(Fuse))[ne] = Spent(EpisodeCosts(ans.episodes))[ne]
      BY <2>4, <3>3, <3>4, SpentAlike
    <3> QED
      BY <2>2, <3>5
  <2>7. budget = 0 \/ nf = 0 \/ 0 + spent <= budget
    BY <2>3, TakenFits DEF FactsTaken
  <2>8. budget = 0 \/ ne = 0 \/ spent + more <= budget
    BY <2>2, <2>3, <2>4, TakenFits DEF EpisodesTaken
  <2>9. more \in Nat /\ (ne = 0 => more = 0) /\ (nf = 0 => spent = 0)
    BY <2>2, <2>4, <2>5
  <2>10. budget > 0 => ans.tokens <= budget
    <3> HIDE DEF ans, nf, ne, spent, more, budget
    <3> QED
      BY <2>2, <2>3, <2>7, <2>8, <2>9
  <2>11. nf < Len(FactsFound) => spent + FactCosts[nf + 1] > budget
    <3> SUFFICES ASSUME nf < Len(FactsFound)
                 PROVE  spent + FactCosts[nf + 1] > budget
      OBVIOUS
    <3>1. Len(FactsFound) \in Nat
      BY <2>3
    <3>2. nf \in Nat /\ nf < Len(FactCosts) /\ nf < rc.factLimit
      BY <2>2, <2>3, <3>1
    <3>3. 0 + Spent(FactCosts)[nf + 1] > budget
      BY <2>3, <3>2, TakenFits DEF FactsTaken
    <3>4. nf + 1 \in 1 .. Len(FactCosts) /\ (nf + 1) - 1 = nf
      BY <2>3, <3>1, <3>2
    <3>5. Spent(FactCosts)[nf + 1] = spent + FactCosts[nf + 1] /\ FactCosts[nf + 1] \in Nat
      BY <2>3, <2>5, <3>4
    <3> HIDE DEF nf, spent, budget
    <3> QED
      BY <2>2, <2>3, <3>3, <3>5
  <2> HIDE DEF more, budget
  <2> QED
    BY <2>2, <2>6, <2>10, <2>11 DEF budget
<1> QED
  BY <1>1, InvariantHolds, PTL

\* A smaller rank is worth more.
LEMMA SmallerRankIsWorthMore ==
    ASSUME NEW r \in Seqs, NEW u \in Seqs, r < u
    PROVE  Scale \div (K + r) > Scale \div (K + u)
<1>1. /\ K + r \in Nat \ {0} /\ K + u \in Nat \ {0} /\ Scale \in Nat \ {0} /\ K + r < K + u
      /\ Scale % (K + r) = 0 /\ Scale % (K + u) = 0
  BY ConstantsOK DEF Seqs
<1>2. ASSUME NEW a \in Nat \ {0}, NEW b \in Nat \ {0}, NEW n \in Nat \ {0}, a < b,
             n % a = 0, n % b = 0
      PROVE  n \div a > n \div b
  <2>1. ASSUME NEW d \in Nat \ {0}, n % d = 0
        PROVE  n \div d \in Nat \ {0} /\ d * (n \div d) = n
    <3>1. n = d * (n \div d) + (n % d) /\ n \div d \in Int
      OBVIOUS
    <3>2. d * (n \div d) = n
      BY <2>1, <3>1
    <3> QED
      BY <3>1, <3>2
  <2>2. PICK p \in Nat \ {0} : p = n \div a /\ a * p = n
    BY <1>2, <2>1
  <2>3. PICK q \in Nat \ {0} : q = n \div b /\ b * q = n
    BY <1>2, <2>1
  <2>4. a * q < b * q
    BY <1>2
  <2>5. p <= q => a * p <= a * q
    OBVIOUS
  <2>6. a * p = b * q /\ a * q \in Nat /\ a * p \in Nat
    BY <2>2, <2>3
  <2>7. p > q
    BY <2>4, <2>5, <2>6
  <2> QED
    BY <2>2, <2>3, <2>7
<1> QED
  BY <1>1, <1>2

\* What an episode collects from a channel follows its rank there: one that is
\* not behind collects no less, one that is ahead in a channel with a weight
\* collects more.
LEMMA ShareFollowsRank ==
    ASSUME InFlight, NEW c \in EpisodeChannels, NEW s, NEW t
    PROVE  /\ (Weight(c) > 0 /\ FoundBy(c, t) => FoundBy(c, s) /\ RankIn(c, s) <= RankIn(c, t))
                 => Share(c, s) >= Share(c, t)
           /\ Weight(c) > 0 /\ FoundBy(c, s) /\ ~(FoundBy(c, t) /\ RankIn(c, t) <= RankIn(c, s))
                 => Share(c, s) > Share(c, t)
<1> DEFINE w == Weight(c)
           Worth(e) == Scale \div (K + RankIn(c, e))
<1>1. w \in Nat
  BY ScoresAreNat
<1>2. \A e : FoundBy(c, e) => RankIn(c, e) \in Seqs
  BY RanksWithinBounds
<1>3. \A e : FoundBy(c, e) => Worth(e) \in Nat \ {0} /\ Share(c, e) = w * Worth(e)
  BY <1>2, ScoresAreNat DEF Share
<1>4. \A e : (~FoundBy(c, e) => Share(c, e) = 0) /\ Share(c, e) \in Nat
  BY ScoresAreNat DEF Share
<1>5. ASSUME FoundBy(c, s), FoundBy(c, t)
      PROVE  /\ RankIn(c, s) \in Int /\ RankIn(c, t) \in Int
             /\ RankIn(c, s) < RankIn(c, t) => Worth(s) > Worth(t)
             /\ RankIn(c, s) = RankIn(c, t) => Worth(s) = Worth(t)
  <2>1. RankIn(c, s) \in Seqs /\ RankIn(c, t) \in Seqs
    BY <1>2, <1>5
  <2>2. RankIn(c, s) \in Int /\ RankIn(c, t) \in Int
    BY <2>1 DEF Seqs
  <2> QED
    BY <2>1, <2>2, SmallerRankIsWorthMore
<1> HIDE DEF w, Worth
<1>6. \A m, n, k \in Nat : (m >= n => k * m >= k * n) /\ (m > n /\ k > 0 => k * m > k * n)
  OBVIOUS
<1>7. \A m, n \in Nat : (m > 0 /\ n > 0 => m * n > 0) /\ 0 * n = 0
  OBVIOUS
<1>8. ASSUME w > 0 /\ FoundBy(c, t) => FoundBy(c, s) /\ RankIn(c, s) <= RankIn(c, t)
      PROVE  Share(c, s) >= Share(c, t)
  <2>1. CASE ~FoundBy(c, t)
    BY <1>4, <2>1
  <2>2. CASE FoundBy(c, t) /\ w = 0
    <3>1. Share(c, t) = 0
      BY <1>3, <1>7, <2>2
    <3> QED
      BY <1>4, <3>1
  <2>3. CASE FoundBy(c, t) /\ w > 0
    <3>1. FoundBy(c, s) /\ RankIn(c, s) <= RankIn(c, t)
      BY <1>8, <2>3
    <3>2. Worth(s) >= Worth(t) /\ Worth(s) \in Nat /\ Worth(t) \in Nat
      BY <1>3, <1>5, <2>3, <3>1
    <3> QED
      BY <1>1, <1>3, <1>6, <2>3, <3>1, <3>2
  <2> QED
    BY <1>1, <2>1, <2>2, <2>3
<1>9. ASSUME w > 0, FoundBy(c, s), ~(FoundBy(c, t) /\ RankIn(c, t) <= RankIn(c, s))
      PROVE  Share(c, s) > Share(c, t)
  <2>1. CASE FoundBy(c, t)
    <3>1. Worth(s) > Worth(t) /\ Worth(s) \in Nat /\ Worth(t) \in Nat
      BY <1>3, <1>5, <1>9, <2>1
    <3> QED
      BY <1>1, <1>3, <1>6, <1>9, <2>1, <3>1
  <2>2. CASE ~FoundBy(c, t)
    <3>1. Share(c, t) = 0 /\ Share(c, s) = w * Worth(s) /\ Worth(s) \in Nat /\ Worth(s) > 0
      BY <1>3, <1>4, <1>9, <2>2
    <3> QED
      BY <1>1, <1>7, <1>9, <3>1
  <2> QED
    BY <2>1, <2>2
<1> QED
  BY <1>8, <1>9 DEF w

\* An episode no channel that counts puts behind another scores no less, and
\* more when one of them puts it ahead.
LEMMA ScoreFollowsRanks ==
    ASSUME InFlight, NEW s, NEW t, Matches(s, t)
    PROVE  Score(s) >= Score(t) /\ (~Matches(t, s) => Score(s) > Score(t))
<1>1. \A c \in EpisodeChannels : Share(c, s) >= Share(c, t) /\ Share(c, s) \in Nat /\ Share(c, t) \in Nat
  <2> TAKE c \in EpisodeChannels
  <2>1. Weight(c) > 0 /\ FoundBy(c, t) => FoundBy(c, s) /\ RankIn(c, s) <= RankIn(c, t)
    BY DEF Matches, FoundBy
  <2> QED
    BY <2>1, ShareFollowsRank, ScoresAreNat
<1>2. /\ Share("semantic", s) >= Share("semantic", t) /\ Share("lexical", s) >= Share("lexical", t)
      /\ Share("semantic", s) \in Nat /\ Share("semantic", t) \in Nat
      /\ Share("lexical", s) \in Nat /\ Share("lexical", t) \in Nat
  BY <1>1 DEF EpisodeChannels
<1>3. ASSUME ~Matches(t, s)
      PROVE  Score(s) > Score(t)
  <2>1. PICK c \in EpisodeChannels :
           Weight(c) > 0 /\ FoundBy(c, s) /\ ~(FoundBy(c, t) /\ RankIn(c, t) <= RankIn(c, s))
    BY <1>3 DEF Matches
  <2>2. Share(c, s) > Share(c, t)
    BY <2>1, ShareFollowsRank
  <2>3. c = "semantic" \/ c = "lexical"
    BY DEF EpisodeChannels
  <2> QED
    BY <1>2, <2>2, <2>3 DEF Score
<1> QED
  BY <1>2, <1>3 DEF Score

\* The answer respects the channels: an episode no channel that counts puts
\* behind another, and that is better in one or newer, comes before it and is
\* not the one that is cut.
THEOREM BestComesFirst == Spec => []BestFirst
<1>1. ASSUME IInv
      PROVE  BestFirst
  <2> DEFINE eps == rc.answer.episodes
  <2> SUFFICES ASSUME rc.at = "answered", NEW i \in DOMAIN eps, NEW s \in Found,
                      s # eps[i], Matches(s, eps[i]), ~Matches(eps[i], s) \/ s > eps[i]
               PROVE  \E j \in 1 .. i - 1 : eps[j] = s
    BY DEF BestFirst
  <2>1. InFlight /\ rc.answer = Answer
    BY <1>1, AnsweredInFlight
  <2>2. /\ EpisodesTaken \in 0 .. Len(Fuse)
        /\ eps \in Seq(Found) /\ Len(eps) = EpisodesTaken
        /\ \A k \in 1 .. EpisodesTaken : eps[k] = Fuse[k]
    BY <2>1, AnswerHolds
  <2>3. /\ Len(Fuse) \in Nat /\ DOMAIN Fuse = 1 .. Len(Fuse)
        /\ \A k \in DOMAIN Fuse : Fuse[k] \in Found
    BY <2>1, FuseIsRanking
  <2>4. i \in 1 .. EpisodesTaken /\ i \in DOMAIN Fuse /\ eps[i] = Fuse[i]
    <3>1. DOMAIN eps = 1 .. EpisodesTaken
      BY <2>2, LenProperties
    <3>2. i \in 1 .. EpisodesTaken
      BY <3>1
    <3> HIDE DEF eps
    <3>3. i \in 1 .. Len(Fuse)
      BY <2>2, <2>3, <3>2
    <3> QED
      BY <2>2, <2>3, <3>2, <3>3
  <2>5. PICK j \in DOMAIN Fuse : Fuse[j] = s
    BY <2>1, FuseIsRanking
  <2> DEFINE t == Fuse[i]
  <2>6. Score(s) \in Nat /\ Score(t) \in Nat /\ s \in Int /\ t \in Int
    BY <2>1, <2>3, <2>4, ScoresAreNat, FoundInLog
  <2>7. Score(s) >= Score(t) /\ (Score(s) > Score(t) \/ s > t)
    BY <2>1, <2>4, ScoreFollowsRanks
  <2>8. i # j
    BY <2>4, <2>5
  <2>9. ~(i < j)
    <3> SUFFICES ASSUME i < j
                 PROVE  FALSE
      OBVIOUS
    <3>1. Score(t) > Score(s) \/ (Score(t) = Score(s) /\ t > s)
      BY <2>1, <2>4, <2>5, FuseIsRanking
    <3> HIDE DEF t
    <3> QED
      BY <2>6, <2>7, <3>1
  <2>10. j \in 1 .. i - 1
    BY <2>3, <2>4, <2>5, <2>8, <2>9
  <2>11. j \in 1 .. EpisodesTaken
    BY <2>3, <2>2, <2>4, <2>10
  <2> QED
    BY <2>2, <2>5, <2>10, <2>11
<1> QED
  BY <1>1, InvariantHolds, PTL
=============================================================================
