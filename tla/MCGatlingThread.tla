-------------------------- MODULE MCGatlingThread ---------------------------
(***************************************************************************)
(* TLC instance of GatlingThread: three instances, three views, every      *)
(* assignment of finalized views to instances.                             *)
(***************************************************************************)
EXTENDS GatlingThread

MCViews == 1 .. 3
=============================================================================
