------------------------------- MODULE Recall -------------------------------
(***************************************************************************)
(* The log of one scope (L0) with its appenders, and what reads it: the    *)
(* pages of Replay, and Recall with its channels.  Readers change nothing, *)
(* so that one client at a time is enough: each behaviour has a client     *)
(* that replays or one that recalls.  A Recall reads the database once per *)
(* channel, at moments of their own, while episodes are appended, encoded  *)
(* and erased.                                                             *)
(***************************************************************************)
EXTENDS Integers, Sequences, FiniteSets, FiniteSetsExt, Functions

CONSTANTS
    Appenders,     \* processes that append
    Kinds,         \* what an episode is to the request: "hit" passes its filters
                   \* and shares a word with it, "near" only the first, "out" neither
    ContentLen,    \* ContentLen[k]: bytes of an episode of kind k
    FactLens,      \* bytes of the statements of the scope's facts, in query order
    Requests,      \* the Recalls a client may ask for, see Request
    K,             \* FusionOptions.K
    Scale,         \* a multiple of every K + rank
    BytesPerToken, DefaultLimit, DefaultDepth, DefaultFactLimit,
    PageLimits,    \* the limits a Replay may be called with
    MaxAppendBatch,
    MaxAppends,    \* bound: calls of Append and AppendBatch
    MaxSeq,        \* bound: episodes
    MaxNow,        \* bound: the clock
    MaxErasures    \* bound: erasures

Channels == {"semantic", "lexical", "fact"}
EpisodeChannels == {"semantic", "lexical"}
Seqs == 1 .. MaxSeq
MaxWeight == 8  \* bound: a weight, in quarters

\* A zero field is left to its default.  sem and lex are how the two channels
\* score an episode for this query.  facts and weight are of the Memory that is
\* asked: whether it has an Extractor and a FactStore, and the weights its
\* FusionOptions name, in quarters.
Request == [channels : Seq(Channels), asOf : Int, limit : Int, depth : Int, factLimit : Int,
            maxTokens : Int, sem : [Seqs -> Nat], lex : [Seqs -> Nat],
            facts : BOOLEAN, weights : UNION {[C -> 0 .. MaxWeight] : C \in SUBSET EpisodeChannels}]

ASSUME ConstantsOK ==
    /\ "none" \notin Appenders /\ Requests \subseteq Request
    /\ ContentLen \in [Kinds -> Nat] /\ FactLens \in Seq(Nat) /\ K \in Int
    /\ \A r \in Seqs : K + r > 0 /\ Scale % (K + r) = 0
    /\ {Scale, DefaultLimit, DefaultDepth, DefaultFactLimit, BytesPerToken, MaxNow}
          \subseteq Nat \ {0}
    /\ {MaxAppendBatch, MaxAppends, MaxSeq, MaxErasures} \subseteq Nat /\ PageLimits \subseteq Nat

VARIABLES
    client,  \* "replay" or "recall"
    now,     \* the clock
    lastSeq, \* scopes.last_seq, as the holder of the row's lock sees it
    lock,    \* the appender holding the lock on the scope row, or None
    app,     \* app[a]: the append a is in
    log,     \* committed episodes by Seq: kind and IngestedAt
    erased,  \* episodes that were erased since
    appends,
    cursor, seen,  \* Replay: the last Seq, and what the pages held
    rc       \* Recall: the call

logVars == <<now, lastSeq, lock, app, log, erased, appends>>
readVars == <<client, cursor, seen, rc>>
vars == <<logVars, readVars>>

None == "none"
NotAppending == [at |-> "idle", stamp |-> 0, n |-> 0, base |-> 0]
EmptySlot == [at |-> "running", found |-> <<>>, facts |-> <<>>]
NoAnswer == [facts |-> <<>>, episodes |-> <<>>, tokens |-> 0, truncated |-> FALSE]
NoRecall == [at |-> "idle"]

\* The rows of mempher.episodes.
Live == DOMAIN log \ erased

-----------------------------------------------------------------------------
(* Appending *)

\* Append, or AppendBatch of n episodes: the ingest time is read before the
\* statement is sent.  What they hold is chosen when it can be seen.
Stamp(a, n) ==
    /\ app[a].at = "idle" /\ n \in 1 .. MaxAppendBatch /\ appends < MaxAppends
    /\ appends' = appends + 1
    /\ app' = [app EXCEPT ![a] = [NotAppending EXCEPT !.at = "stamped", !.stamp = now, !.n = n]]
    /\ UNCHANGED <<now, lastSeq, lock, log, erased, readVars>>

\* Faulty: sequence numbers are taken without waiting for the row.
SequenceUnlocked(a) ==
    /\ app[a].at = "stamped" /\ lastSeq + app[a].n <= MaxSeq
    /\ lastSeq' = lastSeq + app[a].n
    /\ app' = [app EXCEPT ![a].at = "sequenced", ![a].base = lastSeq]
    /\ UNCHANGED <<now, lock, log, erased, appends, readVars>>

\* appendSQL locks the scope row and takes a block of sequence numbers from it.
Sequence(a) ==
    /\ app[a].at = "stamped" /\ lock = None /\ lastSeq + app[a].n <= MaxSeq
    /\ lock' = a
    /\ lastSeq' = lastSeq + app[a].n
    /\ app' = [app EXCEPT ![a].at = "sequenced", ![a].base = lastSeq]
    /\ UNCHANGED <<now, log, erased, appends, readVars>>

Unlock(a) == lock' = IF lock = a THEN None ELSE lock

CommitAppend(a) ==
    LET new == app[a].base + 1 .. app[a].base + app[a].n IN
    /\ app[a].at = "sequenced"
    /\ \E kind \in [new -> Kinds] :
          log' = [s \in DOMAIN log \cup new |->
                     IF s \in new THEN [kind |-> kind[s], at |-> app[a].stamp] ELSE log[s]]
    /\ app' = [app EXCEPT ![a] = NotAppending]
    /\ Unlock(a)
    /\ UNCHANGED <<now, lastSeq, erased, appends, readVars>>

\* The statement fails or the client dies: nothing is left of it.
AbortAppend(a) ==
    /\ app[a].at \in {"stamped", "sequenced"}
    /\ lastSeq' = IF app[a].at = "sequenced" THEN app[a].base ELSE lastSeq
    /\ app' = [app EXCEPT ![a] = NotAppending]
    /\ Unlock(a)
    /\ UNCHANGED <<now, log, erased, appends, readVars>>

\* Forget of one episode; the scope row stays, and so does last_seq.  Forget of
\* the whole scope ends the log: the one that begins after it is another.
Erase(s) ==
    /\ s \in Live /\ Cardinality(erased) < MaxErasures
    /\ erased' = erased \cup {s}
    /\ UNCHANGED <<now, lastSeq, lock, app, log, appends, readVars>>

\* The Clock of the one Memory all callers share.  With several, an episode
\* stamped by a clock ahead of the reader's is not recalled yet.
Tick ==
    /\ now < MaxNow
    /\ now' = now + 1
    /\ UNCHANGED <<lastSeq, lock, app, log, erased, appends, readVars>>

-----------------------------------------------------------------------------
(* Replay: pages in Seq order, each from where the one before ended *)

\* The first n members of S in Seq order.
First(n, S) == {s \in S : Cardinality({t \in S : t < s}) < n}

Replay(limit) ==
    LET page == First(limit, {s \in Live : s > cursor}) IN
    /\ client = "replay" /\ page # {}
    /\ cursor' = Max(page)
    /\ seen' = seen \cup page
    /\ UNCHANGED <<logVars, client, rc>>

-----------------------------------------------------------------------------
(* Recall: the plan and the channels *)

OrDefault(n, default) == IF n = 0 THEN default ELSE n

\* RecallRequest.Validate.
ValidRequest(q) == q.limit >= 0 /\ q.depth >= 0 /\ q.factLimit >= 0 /\ q.maxTokens >= 0

\* resolveChannels: every channel once; by default what this Memory can answer.
ResolveChannels(q) ==
    IF q.channels # <<>> THEN Range(q.channels)
    ELSE IF q.facts THEN Channels ELSE EpisodeChannels

\* Everything the channels share is resolved before they start.
BeginRecall(q) ==
    LET limit == OrDefault(q.limit, DefaultLimit)
        asOf == OrDefault(q.asOf, now) IN
    /\ client = "recall" /\ rc.at = "idle" /\ ValidRequest(q)
    /\ rc' = [at |-> "running", q |-> q, asOf |-> asOf, limit |-> limit,
              depth |-> Max({limit, OrDefault(q.depth, DefaultDepth)}),
              factLimit |-> OrDefault(q.factLimit, DefaultFactLimit),
              slots |-> [c \in ResolveChannels(q) |-> EmptySlot],
              \* ghost: the episodes committed by now that the request is about
              before |-> {s \in Live : q.asOf = 0 \/ log[s].at <= asOf},
              answer |-> NoAnswer]
    /\ UNCHANGED <<logVars, client, cursor, seen>>

Running(c) == rc.at = "running" /\ c \in DOMAIN rc.slots /\ rc.slots[c].at = "running"

Fill(c, slot) ==
    /\ rc' = [rc EXCEPT !.slots[c] = slot]
    /\ UNCHANGED <<logVars, client, cursor, seen>>

\* The filters both episode channels push into SQL.
Admitted(kinds) == {s \in Live : log[s].at <= rc.asOf /\ log[s].kind \in kinds}

\* The order of scanCandidates and of fuse: by score, then the newer episode.
Ahead(score, s, t) == score[s] > score[t] \/ (score[s] = score[t] /\ s > t)

\* The members of S in that order; the rank is the position.
Ranked(S, score) ==
    CHOOSE f \in [1 .. Cardinality(S) -> S] :
        \A i, j \in DOMAIN f : i < j => Ahead(score, f[i], f[j])

\* EmbedQuery, as long as it takes, and the nearest encodings of what workers
\* have encoded by then; which of equally near ones the limit keeps is open.
SearchSemantic ==
    /\ Running("semantic")
    /\ \E near \in SUBSET Admitted({"hit", "near"}) :
          \E top \in kSubset(Min({rc.depth, Cardinality(near)}), near) :
             /\ \A s \in top, t \in near \ top : rc.q.sem[s] >= rc.q.sem[t]
             /\ Fill("semantic", [EmptySlot EXCEPT !.at = "ok", !.found = Ranked(top, rc.q.sem)])

\* Faulty: the filters are applied to what the limit has left.
LexicalTopFiltered ==
    LET all == Ranked({s \in Live : log[s].kind # "near"}, rc.q.lex) IN
    SelectSeq(SubSeq(all, 1, Min({rc.depth, Len(all)})), LAMBDA s : s \in Admitted({"hit"}))

LexicalTop ==
    LET all == Ranked(Admitted({"hit"}), rc.q.lex) IN SubSeq(all, 1, Min({rc.depth, Len(all)}))

SearchLexical ==
    /\ Running("lexical")
    /\ Fill("lexical", [EmptySlot EXCEPT !.at = "ok", !.found = LexicalTop])

\* The facts believed at the moment, up to FactLimit of them; without a
\* FactStore the channel fails.
QueryFacts ==
    /\ Running("fact")
    /\ Fill("fact", IF rc.q.facts
                    THEN [EmptySlot EXCEPT !.at = "ok",
                              !.facts = SubSeq(FactLens, 1, Min({rc.factLimit, Len(FactLens)}))]
                    ELSE [EmptySlot EXCEPT !.at = "failed"])

ChannelFails(c) ==
    /\ Running(c)
    /\ Fill(c, [EmptySlot EXCEPT !.at = "failed"])

-----------------------------------------------------------------------------
(* Recall: the answer *)

Answered(c) == c \in DOMAIN rc.slots /\ rc.slots[c].at = "ok"
Found == UNION {Range(rc.slots[c].found) : c \in {d \in EpisodeChannels : Answered(d)}}
RankIn(c, s) == CHOOSE r \in DOMAIN rc.slots[c].found : rc.slots[c].found[r] = s
FoundBy(c, s) == Answered(c) /\ s \in Range(rc.slots[c].found)

\* FusionOptions.resolve and weight: a channel that is not named weighs 1, the
\* lexical one a quarter of that.
Weight(c) ==
    CASE c \in DOMAIN rc.q.weights -> rc.q.weights[c]
      [] c = "lexical" -> 1
      [] OTHER -> 4

\* The reciprocal rank an episode collects from a channel, over the common
\* divisor Scale.
Share(c, s) == IF FoundBy(c, s) THEN Weight(c) * (Scale \div (K + RankIn(c, s))) ELSE 0

Score(s) == Share("semantic", s) + Share("lexical", s)

\* Faulty: the comparison is turned around.
FuseAscending == Ranked(Found, [s \in Found |-> -Score(s)])

\* fuse: by score, ties to the newer episode.
Fuse == Ranked(Found, [s \in Found |-> Score(s)])

CountTokens(len) == (len + BytesPerToken - 1) \div BytesPerToken

\* Spent(costs)[n]: the tokens of the first n items.
Spent(costs) ==
    LET sum[n \in 0 .. Len(costs)] == IF n = 0 THEN 0 ELSE sum[n - 1] + costs[n] IN sum

\* Faulty: what was spent before is not counted.
TakenAnew(costs, limit, spent) ==
    Max({n \in 0 .. Min({limit, Len(costs)}) :
            rc.q.maxTokens = 0 \/ n = 0 \/ Spent(costs)[n] <= rc.q.maxTokens})

\* The loop that takes items in order until one does not fit: how many fit.
Taken(costs, limit, spent) ==
    Max({n \in 0 .. Min({limit, Len(costs)}) :
            rc.q.maxTokens = 0 \/ n = 0 \/ spent + Spent(costs)[n] <= rc.q.maxTokens})

FactsFound == IF Answered("fact") THEN rc.slots["fact"].facts ELSE <<>>
FactCosts == [i \in DOMAIN FactsFound |-> CountTokens(FactsFound[i])]
EpisodeCosts(eps) == [i \in DOMAIN eps |-> CountTokens(ContentLen[log[eps[i]].kind])]

\* Facts take the budget first, the fused episodes what is left of it.
Answer ==
    LET fused == Fuse
        nf == Taken(FactCosts, rc.factLimit, 0)
        spent == Spent(FactCosts)[nf]
        ne == Taken(EpisodeCosts(fused), rc.limit, spent) IN
    [facts |-> SubSeq(FactsFound, 1, nf), episodes |-> SubSeq(fused, 1, ne),
     tokens |-> spent + Spent(EpisodeCosts(fused))[ne],
     truncated |-> nf < Len(FactsFound) \/ ne < Len(fused)]

\* Faulty: one failure fails the Recall.
AllFailedAny == \E c \in DOMAIN rc.slots : ~Answered(c)

AllFailed == \A c \in DOMAIN rc.slots : ~Answered(c)

\* Every channel has filled its slot.
EndRecall ==
    /\ rc.at = "running" /\ \A c \in DOMAIN rc.slots : rc.slots[c].at \in {"ok", "failed"}
    /\ rc' = IF AllFailed THEN [rc EXCEPT !.at = "all_failed"]
             ELSE [rc EXCEPT !.at = "answered", !.answer = Answer]
    /\ UNCHANGED <<logVars, client, cursor, seen>>

\* The caller's context ends; the channels fail with it, and that is the error.
CancelRecall ==
    /\ rc.at = "running"
    /\ rc' = [rc EXCEPT !.at = "cancelled"]
    /\ UNCHANGED <<logVars, client, cursor, seen>>

-----------------------------------------------------------------------------

Init ==
    /\ client \in {"replay", "recall"}
    /\ now = 1 /\ lastSeq = 0 /\ lock = None
    /\ app = [a \in Appenders |-> NotAppending]
    /\ log = <<>> /\ erased = {} /\ appends = 0
    /\ cursor = 0 /\ seen = {} /\ rc = NoRecall

Write ==
    \/ \E a \in Appenders :
          \/ \E n \in 1 .. MaxAppendBatch : Stamp(a, n)
          \/ Sequence(a)
          \/ CommitAppend(a)
          \/ AbortAppend(a)
    \/ \E s \in Seqs : Erase(s)
    \/ Tick

\* What happens to the log once a Recall has its answer is of no interest.
Next ==
    \/ rc.at \in {"idle", "running"} /\ Write
    \/ \E limit \in PageLimits : Replay(limit)
    \/ \E q \in Requests : BeginRecall(q)
    \/ SearchSemantic
    \/ SearchLexical
    \/ QueryFacts
    \/ \E c \in Channels : ChannelFails(c)
    \/ EndRecall
    \/ CancelRecall

Spec == Init /\ [][Next]_vars

-----------------------------------------------------------------------------
(* Properties *)

\* Every variable has its type; sequence numbers are dense, and ahead of the
\* log only while their append holds the row.
TypeOK ==
    /\ client \in {"replay", "recall"} /\ now \in 1 .. MaxNow
    /\ lock \in Appenders \cup {None}
    /\ DOMAIN log = 1 .. (IF lock = None THEN lastSeq ELSE app[lock].base)
    /\ \A s \in DOMAIN log : log[s].kind \in Kinds /\ log[s].at \in 1 .. now
    /\ erased \subseteq DOMAIN log
    /\ appends \in 0 .. MaxAppends /\ cursor \in 0 .. MaxSeq /\ seen \subseteq DOMAIN log
    /\ rc.at \in {"idle", "running", "answered", "all_failed", "cancelled"}

\* Seq order is commit order: a client that pages through the log by Seq while
\* others append, abort and erase never leaves an episode behind its cursor
\* that no page held.
ReplaySkipsNothing == \A s \in Live : s <= cursor => s \in seen

\* An episode is lexically searchable the moment its Append returns: what was
\* committed when the Recall began and matches is in the answer, whatever the
\* other channels did, unless the answer says it was truncated or the channel
\* returned as many as it may.
AppendedIsRecalled ==
    rc.at = "answered" /\ Answered("lexical") =>
        \A s \in rc.before \cap Live :
            log[s].kind = "hit" =>
                \/ s \in Range(rc.answer.episodes)
                \/ rc.answer.truncated
                \/ Len(rc.slots["lexical"].found) = rc.depth

\* A failed channel costs its own results and no more: Recall fails only when
\* every channel did, and otherwise answers from those that worked, with what
\* one of them found and what nothing but a limit or the budget cut.
AnswersFromWhatWorked ==
    /\ rc.at = "all_failed" => \A c \in DOMAIN rc.slots : rc.slots[c].at = "failed"
    /\ rc.at = "answered" =>
          /\ \E c \in DOMAIN rc.slots : Answered(c)
          /\ ~rc.answer.truncated =>
                /\ Range(rc.answer.episodes) = Found
                /\ rc.answer.facts = FactsFound
          /\ Range(rc.answer.episodes) \subseteq Found

\* s does at least as well as t in every channel that counts.
Matches(s, t) ==
    \A c \in {d \in EpisodeChannels : Answered(d) /\ Weight(d) > 0} :
        FoundBy(c, t) => FoundBy(c, s) /\ RankIn(c, s) <= RankIn(c, t)

\* The answer respects the channels, in whatever order they came in: an episode
\* no channel that counts puts behind another, and that is better in one or
\* newer, comes first, and is not the one that is cut.
BestFirst ==
    rc.at = "answered" =>
        \A i \in DOMAIN rc.answer.episodes : \A s \in Found :
            LET t == rc.answer.episodes[i] IN
            s # t /\ Matches(s, t) /\ (~Matches(t, s) \/ s > t) =>
                \E j \in 1 .. i - 1 : rc.answer.episodes[j] = s

\* What is returned keeps to the limits and, facts and episodes together, to
\* the token budget; and no fact was left out to make room for an episode.
BudgetKept ==
    rc.at = "answered" =>
        LET ans == rc.answer
            spent == Spent(FactCosts)[Len(ans.facts)] IN
        /\ Len(ans.episodes) <= rc.limit /\ Len(ans.facts) <= rc.factLimit
        /\ ans.tokens = spent + Spent(EpisodeCosts(ans.episodes))[Len(ans.episodes)]
        /\ rc.q.maxTokens > 0 => ans.tokens <= rc.q.maxTokens
        /\ Len(ans.facts) < Len(FactsFound) =>
              spent + FactCosts[Len(ans.facts) + 1] > rc.q.maxTokens

=============================================================================
