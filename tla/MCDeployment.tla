---------------------------- MODULE MCDeployment ----------------------------
(***************************************************************************)
(* TLC instance of Deployment: up to four peers, lists of up to four names *)
(* of three regions in any order, two runs of setup indexer; a start port  *)
(* far below the ports of the HTTP servers, one that meets them, one just  *)
(* above, and one without room; setup runs just before a full minute.      *)
(***************************************************************************)
EXTENDS Deployment

MCPeers == {3, 4, 7, 9}
MCRegions == 0 .. 2
MCStartPorts == {3000, 8075, 8085, 65530}
MCTimes == {119}
MCInstanceCounts == {1, 3, 7}
MCProposalViews == 0 .. 2
=============================================================================
