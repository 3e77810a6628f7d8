---------------------------- MODULE MCRubSource -----------------------------
(***************************************************************************)
(* A service started on the third day of the calendar, whose second,       *)
(* fourth and sixth day have a rate and whose fifth day has a record that  *)
(* cannot be parsed: there are days to carry into, an update may find      *)
(* tomorrow published or not, and the last days are a weekend.             *)
(***************************************************************************)
EXTENDS RubSource
=============================================================================
