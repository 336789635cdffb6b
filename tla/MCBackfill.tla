----------------------------- MODULE MCBackfill -----------------------------
(* Small instances of Backfill for TLC. *)
EXTENDS Backfill

BothKinds == <<"encode", "extract">>
OneKind == <<"encode">>
=============================================================================
