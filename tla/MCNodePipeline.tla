--------------------------- MODULE MCNodePipeline ---------------------------
(***************************************************************************)
(* TLC instance of NodePipeline: three views, of which one instance may    *)
(* finalize blocks in all and the other in one; one block in a channel at  *)
(* a time; one restart.                                                    *)
(***************************************************************************)
EXTENDS NodePipeline

MCViews == 1 .. 3
MCMaxHeight == [i \in Inst |-> IF i = 0 THEN 3 ELSE 1]
=============================================================================
