--------------------------- MODULE MCDemoControl ---------------------------
(***************************************************************************)
(* The instances of DemoControl that TLC checks.                           *)
(***************************************************************************)
EXTENDS DemoControl

CONSTANTS s1, s2

TwoScenarios == {s1, s2}
RevokedOnly == {"revoked-merchant"}
=============================================================================
