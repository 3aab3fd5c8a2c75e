------------------------------ MODULE MCMetrics ------------------------------
(***************************************************************************)
(* Metrics with the values of MCController.                                *)
(***************************************************************************)
EXTENDS Metrics, MCController
=============================================================================
