----------------------------- MODULE MCJobQueue -----------------------------
(* Small instances of JobQueue for TLC. *)
EXTENDS JobQueue

CONSTANTS w1, w2, id1, id2

\* Two kinds of work, encode with two attempts; extract with one or two.
TwoKinds == [k \in Works |-> IF k = "encode1" THEN "encode" ELSE "extract"]
OneOrTwo == [k \in Works |-> IF k = "encode1" THEN 2 ELSE 1]
TwoAttempts == [k \in Works |-> 2]

\* Named workers, and two workers of one process sharing the default id.
OwnIds == [w \in Workers |-> IF w = w1 THEN id1 ELSE id2]
SharedId == [w \in Workers |-> id1]

\* The worker w1 has an Extractor, w2 has not.
Claims == [w \in Workers |-> IF w = w1 THEN {"encode", "extract"} ELSE {"encode"}]

NoSkew == [w \in Workers |-> 0]
FastClock == [w \in Workers |-> IF w = w2 THEN 1 ELSE 0]
=============================================================================
