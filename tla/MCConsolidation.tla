--------------------------- MODULE MCConsolidation ---------------------------
(* Small instances of Consolidation for TLC. *)
EXTENDS Consolidation, TLC

CONSTANTS r1, r2

\* Workers are interchangeable.
Symmetric == Permutations(Runners)

\* Both episodes support the same claim.
SameClaim == [e \in Episodes |-> Claims]
=============================================================================
