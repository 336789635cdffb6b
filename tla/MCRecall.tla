------------------------------ MODULE MCRecall ------------------------------
(* The instance of Recall that TLC checks. *)
EXTENDS Recall, TLC

CONSTANTS a1, a2

Bytes == [k \in {"hit", "near", "out"} |-> IF k = "near" THEN 4 ELSE 5]
Statements == <<4, 12, 3>>
Unnamed == [c \in {} |-> 0]
Lexical(weight) == [c \in {"lexical"} |-> weight]
Both == <<"semantic", "lexical">>

Up == [s \in 1 .. MaxSeq |-> s]
Down == [s \in 1 .. MaxSeq |-> MaxSeq - s]
Flat == [s \in 1 .. MaxSeq |-> 1]

Clients == Permutations({a1, a2})

\* Everything by default, with rankings that disagree; a budget that
\* cuts facts and episodes, at equal weights; a shallow search with ties for more than it
\* may return, pinned to an earlier cut, where the lexical ranks do not count; one
\* channel named twice, and facts from a Memory without them; a refused one.
Default ==
    [channels |-> <<>>, asOf |-> 0, limit |-> 0, depth |-> 0, factLimit |-> 0, maxTokens |-> 0,
     sem |-> Up, lex |-> Down, facts |-> TRUE, weights |-> Unnamed]
SomeRequests ==
    {Default,
     [Default EXCEPT !.maxTokens = 3, !.weights = Lexical(4)],
     [Default EXCEPT !.channels = Both, !.asOf = 1, !.limit = 1, !.depth = 1, !.sem = Flat,
                     !.facts = FALSE, !.weights = Lexical(0)],
     [Default EXCEPT !.channels = <<"lexical", "fact", "lexical">>, !.limit = 3, !.facts = FALSE],
     [Default EXCEPT !.limit = -1]}
=============================================================================
