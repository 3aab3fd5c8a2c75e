------------------------------ MODULE MCRollout ------------------------------
(***************************************************************************)
(* Rollout with the values of MCController.                                *)
(***************************************************************************)
EXTENDS Rollout, MCController
=============================================================================
