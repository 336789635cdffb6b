------------------------------ MODULE MCFacts ------------------------------
(* The instances of Facts that TLC checks. *)
EXTENDS Facts, TLC

CONSTANTS r1, r2, live, replay, paris, berlin, hobby

Claim(c, from, to) == [claim |-> c, from |-> from, to |-> to]

\* Nothing; windows of one claim that overlap; windows of one claim that meet,
\* with an empty window and a claim outside the vocabulary; two claims.
SomeUtterances ==
    {{}, {Claim(paris, 1, 4), Claim(paris, 2, 4)},
     {Claim(paris, 2, 2), Claim(hobby, 1, 4), Claim(paris, 1, 2), Claim(paris, 2, 4)},
     {Claim(paris, 2, 4), Claim(berlin, 2, 4)}}

EachAndBoth == {{1}, {2}, {1, 2}}
OneByOne == {{1}, {2}}
InTurn == [e \in 1 .. 2 |-> e]
Moved == [e \in 1 .. 2 |-> IF e = 1 THEN paris ELSE berlin]
OneHome == {<<paris, berlin>>, <<berlin, paris>>}
Workers == Permutations({r1, r2})
=============================================================================
