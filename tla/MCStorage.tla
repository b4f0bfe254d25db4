----------------------------- MODULE MCStorage ------------------------------
(* Two savers of two models, in every table and by every column. *)
EXTENDS Storage
=============================================================================
