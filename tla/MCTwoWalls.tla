----------------------------- MODULE MCTwoWalls -----------------------------
(***************************************************************************)
(* The instances that TLC checks; the cfg files give the constants values. *)
(***************************************************************************)
EXTENDS MoneyInv

CONSTANTS r1, r2

OneRequest == {r1}
TwoRequests == {r1, r2}
=============================================================================
