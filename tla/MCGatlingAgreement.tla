------------------------- MODULE MCGatlingAgreement -------------------------
(***************************************************************************)
(* TLC instance of GatlingAgreement: two validators, two instances, three  *)
(* views, every assignment of finalized views to instances.                *)
(***************************************************************************)
EXTENDS GatlingAgreement

MCViews == 1 .. 3
=============================================================================
