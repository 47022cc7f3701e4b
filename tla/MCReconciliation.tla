-------------------------- MODULE MCReconciliation --------------------------
(***************************************************************************)
(* The instances of Reconciliation that TLC checks: the vending path with  *)
(* the panel beside it, so that a run can check properties of both.        *)
(***************************************************************************)
EXTENDS MCTwoWalls, Reconciliation
=============================================================================
