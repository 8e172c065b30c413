--------------------------- MODULE MCVerification ---------------------------
(***************************************************************************)
(* TLC instance of Verification: of four validators one is not honest, and *)
(* one does not run.  The first view has an honest leader.                 *)
(***************************************************************************)
EXTENDS Verification

MCHonest == {1, 2}
MCLeader == <<1, 4>>

Block(id, parent, height, time, signed) ==
  [id |-> id, parent |-> parent, height |-> height, time |-> time, signed |-> signed]

\* Two good blocks; one with a height that skips, one no later than its
\* parent.  All signatures are good here.
MCBlocks == { Block(1, 0, 1, 1, TRUE), Block(2, 1, 2, 2, TRUE), Block(3, 1, 3, 2, TRUE),
              Block(4, 1, 2, 1, TRUE) }
=============================================================================
