-------------------------- MODULE GatlingAgreement --------------------------
(***************************************************************************)
(* Two validators, A and B, each running gatling_thread.  They share only  *)
(* what the consensus instances decide (`chain`); each validator's         *)
(* pipelines deliver at their own pace.  The interleaving of the steps of  *)
(* the two threads is arbitrary.                                           *)
(***************************************************************************)
EXTENDS GatlingOrder, SequencesExt

VARIABLES
  chain,
  fedA, blocksA, gapsA, finalizedUpToA, cursorA, pcA, logA,
  fedB, blocksB, gapsB, finalizedUpToB, cursorB, pcB, logB

A == INSTANCE GatlingThreadProofs WITH
  fed <- fedA, blocks <- blocksA, gaps <- gapsA, cursor <- cursorA,
  finalizedUpTo <- finalizedUpToA, pc <- pcA, log <- logA

B == INSTANCE GatlingThreadProofs WITH
  fed <- fedB, blocks <- blocksB, gaps <- gapsB, cursor <- cursorB,
  finalizedUpTo <- finalizedUpToB, pc <- pcB, log <- logB

varsA == <<fedA, blocksA, gapsA, finalizedUpToA, cursorA, pcA, logA>>
varsB == <<fedB, blocksB, gapsB, finalizedUpToB, cursorB, pcB, logB>>
vars == <<chain, varsA, varsB>>

Init == A!Init /\ B!Init

Next ==
  \/ A!Next /\ UNCHANGED varsB
  \/ B!Next /\ UNCHANGED varsA

Spec == Init /\ [][Next]_vars

FairSpec == Spec /\ A!Fairness /\ B!Fairness
-----------------------------------------------------------------------------
TypeOK == A!TypeOK /\ B!TypeOK

\* The two global logs never disagree: one is always a prefix of the other.
Agreement == IsPrefix(logA, logB) \/ IsPrefix(logB, logA)

\* What one validator has logged, the other logs at the same position once
\* its own pipelines have delivered what consensus decided.
LoggedEverywhere ==
  \A c \in Cell : (c \in A!Logged) ~> (c \in B!Logged)
=============================================================================
