--------------------------------- MODULE MCSeninfPm ---------------------------------
(***************************************************************************)
(* SeninfPm with two parents other consumers may give the CSI mux, so that *)
(* a parent read too early can be stale.                                   *)
(***************************************************************************)
EXTENDS SeninfPm

MCParents == {"pa", "pb"}
=============================================================================
