------------------------------ MODULE MCCluster ------------------------------
(***************************************************************************)
(* TLC instance of Cluster: two validators, of which the first generates   *)
(* transactions and runs the gatling thread.                               *)
(***************************************************************************)
EXTENDS Cluster

MCValidators == 0 .. 1
MCFirst == {0}
MCClientTxs == {<<2, 0>>}
MCFaulty == {<<0, "main">>, <<0, "engine">>, <<1, "main">>, <<1, "http">>, <<1, "p2p">>}
=============================================================================
