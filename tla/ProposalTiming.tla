--------------------------- MODULE ProposalTiming ---------------------------
(***************************************************************************)
(* When an instance may propose: Actor::tproposal of                       *)
(* src/chain/src/application/actor.rs, the proposal offset the engines are *)
(* configured with (src/chain/src/bin/validator.rs), and the channels the  *)
(* instances talk on.  All of it is arithmetic on the number of instances. *)
(***************************************************************************)
EXTENDS Integers

BlockTime == 3000   \* delta_ibt in ms
SecondMs == 1000    \* ms of a second

\* Mutant of SlotMs: divided before it is multiplied.
SlotOfWhole(K, k) == ((k - 1) \div K) * BlockTime

\* The offset of instance k of K within a view.
SlotMs(K, k) == ((k - 1) * BlockTime) \div K

\* Actor::tproposal: when instance k of K proposes in view v.
TProposal(genesis, K, k, v) == genesis * SecondMs + v * BlockTime + SlotMs(K, k)

\* proposal_offset_ms of the engine with index i, whose instance is i + 1.
ProposalOffset(K, i) == (i * BlockTime) \div K

\* The order of gatling's cursor: by view, then by instance.
SlotBefore(s, t) == \/ s.view < t.view
                    \/ s.view = t.view /\ s.inst < t.inst

-----------------------------------------------------------------------------

\* The channels of src/chain/src/bin/validator.rs: six of each instance, ten
\* apart, and one for all.
InstanceChannels == {0, 1, 2, 3, 4, 6}
TransactionChannel == 5

Channel(i, c) == i * 10 + c

-----------------------------------------------------------------------------

\* Instances propose in the order in which the global order takes them.
ProposedInGlobalOrder(genesis, K, Views) ==
  \A s, t \in [view : Views, inst : 1 .. K] :
    TProposal(genesis, K, s.inst, s.view) < TProposal(genesis, K, t.inst, t.view) <=> SlotBefore(s, t)

\* No two instances share a channel, and none uses the one of the gossip.
ChannelsApart(K) ==
  \A i, j \in 0 .. K - 1, c, d \in InstanceChannels :
    /\ Channel(i, c) # TransactionChannel
    /\ Channel(i, c) = Channel(j, d) => i = j /\ c = d
=============================================================================
