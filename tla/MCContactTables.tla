----------------------------- MODULE MCContactTables -----------------------------
(***************************************************************************)
(* ContactTables for TLC.                                                  *)
(***************************************************************************)
EXTENDS ContactTables, TLC

=============================================================================
