---------------------------- MODULE GlobalOrder -----------------------------
(***************************************************************************)
(* What Gatling promises on one validator: the finalized blocks of all     *)
(* instances come out as one sequence, which grows by exactly the least    *)
(* block not yet in it.  Which blocks exist is decided by consensus        *)
(* (`chain`), and the promise says nothing of how a validator finds out    *)
(* that no block can come before the one it appends.                       *)
(***************************************************************************)
EXTENDS GatlingOrder, Sequences

VARIABLES
  chain,   \* decided by the consensus instances, never changes
  log      \* the cells finalized by the validator, in order

vars == <<chain, log>>

Logged == { log[j] : j \in 1 .. Len(log) }

Init ==
  /\ chain \in Chains
  /\ log = << >>

Append1(c) ==
  /\ c \in Blocks(chain) \ Logged
  /\ \A d \in Blocks(chain) : Before(d, c) => d \in Logged
  /\ log' = Append(log, c)
  /\ UNCHANGED chain

Next == \E c \in Cell : Append1(c)

Spec == Init /\ [][Next]_vars
=============================================================================
