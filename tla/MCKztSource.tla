---------------------------- MODULE MCKztSource -----------------------------
(***************************************************************************)
(* A service started on the third day after defaultFrom: its first window  *)
(* has four days, later ones one day or, after failures, up to all of them.*)
(***************************************************************************)
EXTENDS KztSource
=============================================================================
