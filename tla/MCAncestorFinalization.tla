----------------------- MODULE MCAncestorFinalization -----------------------
(***************************************************************************)
(* TLC instance of AncestorFinalization: this validator and one that has   *)
(* every block; nothing is in local storage at the start.                  *)
(***************************************************************************)
EXTENDS AncestorFinalization

MCTriggers == {2, 3}
MCHolders == {0}
MCStores == {{}}
=============================================================================
