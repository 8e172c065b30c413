---------------------------- MODULE MCProposals ----------------------------
(***************************************************************************)
(* TLC instances of Proposals: one instance leads both views, the other    *)
(* only the first.                                                         *)
(***************************************************************************)
EXTENDS Proposals, ProposalTiming

MCTxs == 1 .. 3
MCTwoTxs == 1 .. 2
MCLeads == {<<0, 1>>, <<0, 2>>, <<1, 1>>}
MCOneInstance == {<<0, 1>>, <<0, 2>>}

\* The slots Proposals counts time in are in the order of tproposal, and the
\* arithmetic holds up to the last number of instances for which it does.
ASSUME TimingChecked ==
  /\ \A i, j \in Inst, u, v \in View :
       Target(i, u) < Target(j, v) <=> TProposal(7, K, i + 1, u) < TProposal(7, K, j + 1, v)
  /\ \A n \in 1 .. 8 : /\ ProposedInGlobalOrder(7, n, 0 .. 3)
                        /\ \A i \in 0 .. n - 1 : ProposalOffset(n, i) = SlotMs(n, i + 1)
                        /\ ChannelsApart(n)
  /\ \A k \in 1 .. 2999 : SlotMs(3000, k) < SlotMs(3000, k + 1)
  /\ \E k \in 1 .. 3000 : SlotMs(3001, k) = SlotMs(3001, k + 1)
=============================================================================
