------------------------------ MODULE Cluster ------------------------------
(***************************************************************************)
(* The validators of a deployment together: their processes, from          *)
(* ValidatorProcess, and the transactions that travel between them, from   *)
(* TransactionGossip.  A transaction's task acts while it runs, and a      *)
(* process that ends takes its pool and its channels along.                *)
(***************************************************************************)
EXTENDS ValidatorProcess, Sequences

CONSTANT ClientTxs  \* transactions of clients, each <<sender, timestamp>>

\* When the generators run.
Window == Genesis + StartDelay .. Genesis + StartDelay + Duration - 1

\* A transaction is told apart by its digest: here its sender and timestamp
\* (the generator's amount and receiver are fixed).
Txs == ClientTxs \cup (Generating \X Window)

VARIABLES pool, taken, outgoing, incoming, accepted, reached

INSTANCE TransactionGossip

gossipVars == <<pool, taken, outgoing, incoming, accepted, reached>>
vars == <<processVars, gossipVars>>

Init == ProcessInit /\ GossipInit

-----------------------------------------------------------------------------
(* Transactions. *)

\* POST /transaction: a transaction that does not decode, or whose signature
\* does not verify, is refused and changes nothing.  (Each client submits its
\* transaction to one validator.)
Submit(v) ==
  /\ Runs(v, Service("http"))
  /\ \E t \in ClientTxs : /\ \A u \in Validators : <<u, t>> \notin accepted
                          /\ Accept(v, t)
  /\ UNCHANGED processVars

\* The generator signs a transaction of this moment.
Generate(v) ==
  /\ Runs(v, Service("submit"))
  /\ now \in Window
  /\ Accept(v, <<v, now>>)
  /\ UNCHANGED processVars

\* Its time is over.
StopGenerator(v) ==
  /\ Runs(v, Service("submit"))
  /\ now >= Genesis + StartDelay + Duration
  /\ End(v, Service("submit"))
  /\ UNCHANGED <<now, stage, started, errored, emitted, handled, faults>>
  /\ UNCHANGED gossipVars

\* The peers whose network runs are not all connected at this moment.
SendToPeers(v) ==
  /\ Runs(v, Service("broadcast"))
  /\ \E R \in SUBSET { u \in Validators \ {v} : /\ Runs(u, Service("p2p"))
                                                /\ Runs(v, Service("p2p")) } :
       Broadcast(v, R)
  /\ UNCHANGED processVars

ReceiveGossip(v) ==
  /\ Runs(v, Service("gossip"))
  /\ Gossip(v)
  /\ UNCHANGED processVars

\* The network is gone and the channel empty: tx_gossip breaks its loop.
ReceiverCloses(v) ==
  /\ Runs(v, Service("gossip"))
  /\ ~Runs(v, Service("p2p")) /\ incoming[v] = {}
  /\ End(v, Service("gossip"))
  /\ UNCHANGED <<now, stage, started, errored, emitted, handled, faults>>
  /\ UNCHANGED gossipVars

\* An instance of v proposes.
TakeFromPool(v) ==
  /\ \E i \in Inst : Runs(v, EngineTask(i))
  /\ Take(v)
  /\ UNCHANGED processVars

-----------------------------------------------------------------------------
(* Processes. *)

\* Main goes on.  When it returns, the transactions are forgotten.
MainStep(v) ==
  \/ /\ GenesisPassed(v) \/ StartEngine(v) \/ SpawnThread(v) \/ MainWakes(v)
     /\ UNCHANGED gossipVars
  \/ Exit(v) /\ Forget(v)

\* The process is started, its tasks act or fail.
ProcessStep(v) ==
  /\ \/ Start(v) \/ HandleEvent(v) \/ ServerFails(v)
     \/ \E i \in Inst : Emit(v, i) \/ ActorFails(v, i)
     \/ \E x \in AllTasks(v) : Panic(v, x)
  /\ UNCHANGED gossipVars

Kill(v) == Crash(v) /\ Forget(v)

Next ==
  \/ Tick /\ UNCHANGED gossipVars
  \/ \E v \in Validators :
       \/ Submit(v) \/ Generate(v) \/ StopGenerator(v) \/ SendToPeers(v)
       \/ ReceiveGossip(v) \/ ReceiverCloses(v) \/ TakeFromPool(v)
       \/ MainStep(v) \/ ProcessStep(v) \/ Kill(v)

\* The clock goes on, main and the tasks run; nothing makes a client submit,
\* an instance propose or finalize, or anything fail.
Fairness ==
  /\ WF_vars(Tick /\ UNCHANGED gossipVars)
  /\ \A v \in Validators :
       /\ WF_vars(MainStep(v))
       /\ WF_vars(HandleEvent(v) /\ UNCHANGED gossipVars)
       /\ WF_vars(ReceiveGossip(v))

Spec == Init /\ [][Next]_vars
FairSpec == Spec /\ Fairness

-----------------------------------------------------------------------------

TypeOK == ProcessTypeOK /\ GossipTypeOK

\* v still has t, or has taken it for a proposal.
Holds(v, t) ==
  \/ t \in pool[v] \cup taken[v]
  \/ v \in Gossiping /\ \E u \in Validators : <<u, t>> \in incoming[v]

\* "Transaction survives even if the receiving validator crashes" (docs/
\* TRANSACTION_GOSSIP.md), as far as it goes: what more validators have been
\* handed than have failed since is held by one of them.
GossipOutlivesCrash ==
  \A t \in Txs : Cardinality(reached[t]) > faults => \E v \in Validators : Holds(v, t)

\* Before genesis no validator takes part, whichever restarted when: no
\* transaction is submitted or pooled, and no instance finalizes.
QuietBeforeGenesis ==
  now < Genesis => /\ accepted = {}
                   /\ \A v \in Validators : pool[v] = {} /\ emitted[v] = 0

\* Against "Join the gatling OS thread after all async tasks finish"
\* (validator.rs) and the "graceful shutdown" of docs/ARCHITECTURE_RELATION-
\* SHIPS.md: main joins on the first error and never gets past it.  The thread
\* returns when its channel has no sender left, and main holds one itself,
\* whichever of its tasks and engines have failed.
NeverReturns == \A v \in Gatling : stage[v] # "exited"

\* What arrives from a peer, while main still waits for genesis or after,
\* gets into the pool, unless the process or its gossip task ends.
GossipReachesPool ==
  \A v \in Gossiping, t \in Txs :
    (\E u \in Validators : <<u, t>> \in incoming[v])
      ~> \/ t \in pool[v] \cup taken[v]
         \/ ~Up(v)
         \/ Served(v) /\ ~Runs(v, Service("gossip"))

\* What the instances finalize reaches the gatling thread, also what they do
\* before it is spawned and after main has begun to wait for it.
EventsReachThread ==
  \A v \in Gatling, n \in 1 .. MaxEvents :
    emitted[v] >= n ~> handled[v] >= n \/ ~Up(v)

\* A task's error is seen by main, also when it comes before main waits.
ErrorReachesMain ==
  \A v \in Validators : errored[v] ~> stage[v] \in {"joining", "exited", "down"}
=============================================================================
