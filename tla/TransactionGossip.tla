------------------------- MODULE TransactionGossip -------------------------
(***************************************************************************)
(* Where a transaction is, on its way from a client or a generator to the  *)
(* mempools of the validators: the mempool of each validator, the channel  *)
(* to its tx_broadcast task, the p2p channel its tx_gossip task reads      *)
(* (src/chain/src/bin/validator.rs, http_server.rs, mempool.rs).           *)
(*                                                                         *)
(* The operators are the effects of those tasks; Cluster says when a       *)
(* validator's process takes them.  A pool is the set of its digests: the  *)
(* order in which a proposal takes them is the subject of Proposals.       *)
(***************************************************************************)
EXTENDS Naturals, Sequences, FiniteSets

CONSTANTS
  Validators,  \* the validators
  Gossiping,   \* those run with gossip enabled
  Txs          \* the transactions

VARIABLES
  pool,      \* mempool of each validator
  taken,     \* transactions its proposals have taken in this incarnation
  outgoing,  \* its broadcast channel
  incoming,  \* <<sender, transaction>> its p2p transaction channel holds
  accepted,  \* <<validator, transaction>> submitted, by HTTP or a generator
  reached    \* validators the transaction has been handed to

GossipInit ==
  /\ pool = [v \in Validators |-> {}]
  /\ taken = [v \in Validators |-> {}]
  /\ outgoing = [v \in Validators |-> << >>]
  /\ incoming = [v \in Validators |-> {}]
  /\ accepted = {}
  /\ reached = [t \in Txs |-> {}]

\* Mutant of Accept: the transaction is only handed to the broadcast task.
AcceptUnpooled(v, t) ==
  /\ <<v, t>> \notin accepted
  /\ accepted' = accepted \cup {<<v, t>>}
  /\ reached' = [reached EXCEPT ![t] = @ \cup {v}]
  /\ outgoing' = IF v \in Gossiping THEN [outgoing EXCEPT ![v] = Append(@, t)] ELSE outgoing
  /\ UNCHANGED <<pool, taken, incoming>>

\* A transaction submitted to v: into the shared pool, and to the broadcast
\* task if there is one.  (A validator is given each transaction once.)
Accept(v, t) ==
  /\ <<v, t>> \notin accepted
  /\ accepted' = accepted \cup {<<v, t>>}
  /\ reached' = [reached EXCEPT ![t] = @ \cup {v}]
  /\ pool' = [pool EXCEPT ![v] = @ \cup {t}]
  /\ outgoing' = IF v \in Gossiping THEN [outgoing EXCEPT ![v] = Append(@, t)] ELSE outgoing
  /\ UNCHANGED <<taken, incoming>>

\* tx_broadcast: the next transaction is sent to all peers; R are those that
\* are connected (none, when the send fails).  It is not sent again.
Broadcast(v, R) ==
  /\ outgoing[v] # << >>
  /\ outgoing' = [outgoing EXCEPT ![v] = Tail(@)]
  /\ incoming' = [u \in Validators |->
                    incoming[u] \cup IF u \in R THEN {<<v, Head(outgoing[v])>>} ELSE {}]
  /\ reached' = [reached EXCEPT ![Head(outgoing[v])] = @ \cup (R \cap Gossiping)]
  /\ UNCHANGED <<pool, taken, accepted>>

\* Mutant of Gossip: what arrives is not put into the pool.
GossipDrops(v) ==
  \E m \in incoming[v] :
    /\ incoming' = [incoming EXCEPT ![v] = @ \ {m}]
    /\ UNCHANGED <<pool, taken, outgoing, accepted, reached>>

\* tx_gossip: a transaction from a peer goes into the pool and no further.
Gossip(v) ==
  \E m \in incoming[v] :
    /\ incoming' = [incoming EXCEPT ![v] = @ \ {m}]
    /\ pool' = [pool EXCEPT ![v] = @ \cup {m[2]}]
    /\ UNCHANGED <<taken, outgoing, accepted, reached>>

\* An instance's proposal takes what the pool holds.
Take(v) ==
  /\ pool[v] # {}
  /\ pool' = [pool EXCEPT ![v] = {}]
  /\ taken' = [taken EXCEPT ![v] = @ \cup pool[v]]
  /\ UNCHANGED <<outgoing, incoming, accepted, reached>>

\* The process of v ends: nothing of this is persisted.
Forget(v) ==
  /\ pool' = [pool EXCEPT ![v] = {}]
  /\ taken' = [taken EXCEPT ![v] = {}]
  /\ outgoing' = [outgoing EXCEPT ![v] = << >>]
  /\ incoming' = [incoming EXCEPT ![v] = {}]
  /\ UNCHANGED <<accepted, reached>>

GossipTypeOK ==
  /\ pool \in [Validators -> SUBSET Txs]
  /\ taken \in [Validators -> SUBSET Txs]
  /\ DOMAIN outgoing = Validators /\ \A v \in Validators : outgoing[v] \in Seq(Txs)
  /\ incoming \in [Validators -> SUBSET (Validators \X Txs)]
  /\ accepted \subseteq Validators \X Txs
  /\ reached \in [Txs -> SUBSET Validators]
=============================================================================
