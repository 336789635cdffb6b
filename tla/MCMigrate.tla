----------------------------- MODULE MCMigrate -----------------------------
(* The instance of Migrate that TLC checks. *)
EXTENDS Migrate

CONSTANTS p1, p2

Plain(n) == [v \in 1 .. n |-> "h"]
Ask(sums, dims, text, schema0) == [sums |-> sums, dims |-> dims, text |-> text, ext |-> schema0]

\* An old and a new build, one with an edited first migration, one for another
\* text search configuration, one that names the extensions' schema, and one
\* for vectors that are too wide.
SomeRequests ==
    {Ask(Plain(1), 1, "english", Unset), Ask(Plain(2), 1, "english", Unset),
     Ask(Plain(2), 1, "french", Unset), Ask([Plain(2) EXCEPT ![1] = "edited"], 1, "english", Unset),
     Ask(Plain(2), 1, "english", "ext"), Ask(Plain(1), 2, "english", Unset)}
=============================================================================
