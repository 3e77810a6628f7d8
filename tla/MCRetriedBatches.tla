-------------------------- MODULE MCRetriedBatches --------------------------
(***************************************************************************)
(* Two callers that share one fetch; the first needs more of them than the *)
(* bucket holds and any deadline allows.                                   *)
(***************************************************************************)
EXTENDS RetriedBatches

MCFetches == <<{"mon", "tue", "wed", "thu"}, {"thu", "fri"}>>
=============================================================================
