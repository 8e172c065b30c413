---------------------------- MODULE Verification ----------------------------
(***************************************************************************)
(* One consensus instance at all of its validators: from a proposal to the *)
(* votes on it, and from a certificate to the application and to storage.  *)
(* The subject is Message::Verify and the persistence of Message::Finalized*)
(* in src/chain/src/application/actor.rs and FinalizationPusher of         *)
(* ingress.rs; the voter, the broadcast buffer and marshal are modelled by *)
(* what these get from them.                                               *)
(*                                                                         *)
(* A block of another leader reaches a validator only by the leader's      *)
(* broadcast, into memory; a validator that votes for it hands it to       *)
(* marshal first, which stores it later.  A leader votes for its own block *)
(* unasked, and has it in memory only until its application handles the    *)
(* finalization and hands the block to marshal too.                        *)
(***************************************************************************)
EXTENDS Integers, FiniteSets

CONSTANTS
  Honest,          \* the validators that run this code
  MaxFaulty,       \* how many more there are
  Quorum,          \* quorum(peers): votes of a certificate
  Leader,          \* the leader of each view: one of Honest, or another
  Blocks,          \* blocks there can be, genesis aside
  SynchronyBound,  \* SYNCHRONY_BOUND
  MaxView,         \* bound: the last view
  MaxNow,          \* bound: the clock
  MaxCrashed       \* bound: validators that crash, each once

Genesis == [id |-> 0, parent |-> 0, height |-> 0, time |-> 0, signed |-> TRUE]

\* A block's digest is its id, its parent's digest `parent`; `signed` tells
\* whether the signatures of its transactions verify.
ASSUME VerificationAssumption ==
  /\ IsFiniteSet(Honest) /\ MaxFaulty \in Nat /\ Quorum \in Nat
  /\ Blocks \subseteq [id : Nat \ {0}, parent : Nat, height : Nat, time : Nat, signed : BOOLEAN]
  /\ \A b, c \in Blocks : b.id = c.id => b = c
  /\ SynchronyBound \in Nat /\ MaxView \in Nat \ {0} /\ MaxNow \in Nat /\ MaxCrashed \in Nat

\* One vote of a certificate is that of an honest validator that is not the
\* leader.
ASSUME QuorumAssumption == Quorum > MaxFaulty + 1

VARIABLES
  now,        \* the clock
  proposal,   \* the proposal of each view
  certified,  \* the views whose proposal is notarized
  view,       \* view of each validator's voter
  task,       \* its verify task of each view
  votes,      \* <<validator, view>> of the honest notarize votes
  memory,     \* blocks its broadcast buffer holds
  queued,     \* <<view, block>> of the Verified messages to its marshal
  stored,     \* blocks its marshal has stored
  finalized,  \* <<validator, view>> of the finalizations in the journals
  pusher,     \* how far the finalization of each view has got at it
  crashed     \* the validators that have crashed

taskVars == <<task, votes, queued, finalized, pusher>>
vars == <<now, proposal, certified, view, taskVars, memory, stored, crashed>>

View == 1 .. MaxView
All == Blocks \cup {Genesis}

NoProposal == [block |-> Genesis, pview |-> 0, parent |-> Genesis]
Proposal == [block : All, pview : 0 .. MaxView, parent : All]
Proposed(v) == proposal[v] # NoProposal

Init ==
  /\ now = 0
  /\ proposal = [v \in View |-> NoProposal]
  /\ certified = {}
  /\ view = [n \in Honest |-> 1]
  /\ task = [n \in Honest |-> [v \in View |-> "none"]]
  /\ votes = {}
  /\ memory = [n \in Honest |-> {}]
  /\ queued = [n \in Honest |-> {}]
  /\ stored = [n \in Honest |-> {}]
  /\ finalized = {}
  /\ pusher = [n \in Honest |-> [v \in View |-> "none"]]
  /\ crashed = {}

\* What marshal.subscribe finds or is told of.  Genesis is at hand.  Peers
\* never answer the fetch by view: no marshal is told of notarizations.
Available(n) == memory[n] \cup stored[n] \cup {Genesis}

Tick ==
  /\ now < MaxNow
  /\ now' = now + 1
  /\ UNCHANGED <<proposal, certified, view, taskVars, memory, stored, crashed>>

-----------------------------------------------------------------------------
(* Proposals, votes and certificates. *)

\* The parents a proposal of view v can name: genesis, which Message::Genesis
\* gives the voter, or the block of a notarized view.
Parents(v) == {<<0, Genesis>>} \cup { <<u, proposal[u].block>> : u \in certified \cap (1 .. v - 1) }

\* Block::new in Message::Propose: on top of the parent, and later than it.
Built(b, p) == /\ b.parent = p.id /\ b.height = p.height + 1 /\ b.signed
               /\ b.time = IF now <= p.time THEN p.time + 1 ELSE now

\* The leader of v proposes, an honest one what it has built and with its own
\* vote; another one anything.
Propose(v) ==
  /\ ~Proposed(v)
  /\ \E p \in Parents(v), b \in Blocks :
       /\ Leader[v] \in Honest => /\ view[Leader[v]] = v
                                  /\ p[2] \in Available(Leader[v]) /\ Built(b, p[2])
       /\ proposal' = [proposal EXCEPT ![v] = [block |-> b, pview |-> p[1], parent |-> p[2]]]
       /\ memory' = [n \in Honest |-> memory[n] \cup IF n = Leader[v] THEN {b} ELSE {}]
       /\ votes' = votes \cup ({Leader[v]} \cap Honest) \X {v}
  /\ UNCHANGED <<now, certified, view, task, queued, finalized, pusher, stored, crashed>>

\* The broadcast of v's leader reaches n.
BlockArrives(n, v) ==
  /\ Proposed(v) /\ Leader[v] # n
  /\ proposal[v].block \notin memory[n]
  /\ memory' = [memory EXCEPT ![n] = @ \cup {proposal[v].block}]
  /\ UNCHANGED <<now, proposal, certified, view, taskVars, stored, crashed>>

\* The voter of n asks its application, once per view, with the view, the
\* certified parent and the payload of the leader's proposal.
AskVerify(n, v) ==
  /\ Proposed(v) /\ Leader[v] # n
  /\ view[n] = v
  /\ task[n][v] = "none" /\ <<n, v>> \notin votes
  /\ task' = [task EXCEPT ![n][v] = "waiting"]
  /\ UNCHANGED <<now, proposal, certified, view, votes, queued, finalized, pusher,
                 memory, stored, crashed>>

\* The answer arrives in time: n votes.  (It need not: in a view that has
\* timed out verified() takes no answer any more.)
Vote(n, v) ==
  /\ task[n][v] = "true"
  /\ view[n] = v
  /\ task' = [task EXCEPT ![n][v] = "done"]
  /\ votes' = votes \cup {<<n, v>>}
  /\ UNCHANGED <<now, proposal, certified, view, queued, finalized, pusher,
                 memory, stored, crashed>>

\* The voter enters the next view and drops the answer it waits for.
EnterView(n) ==
  /\ view[n] < MaxView
  /\ view' = [view EXCEPT ![n] = @ + 1]
  /\ task' = [task EXCEPT ![n][view[n]] = IF @ = "true" THEN "done" ELSE @]
  /\ UNCHANGED <<now, proposal, certified, votes, queued, finalized, pusher, memory, stored, crashed>>

Voters(v) == { n \in Honest : <<n, v>> \in votes }

\* Enough votes: a certificate, with any of the votes of the others.
Certify(v) ==
  /\ Proposed(v) /\ v \notin certified
  /\ Cardinality(Voters(v)) + MaxFaulty >= Quorum
  /\ certified' = certified \cup {v}
  /\ UNCHANGED <<now, proposal, view, taskVars, memory, stored, crashed>>

-----------------------------------------------------------------------------
(* Message::Verify. *)

\* Mutant of Extends: the height is not looked at.
ExtendsAnyHeight(b, p) == b.parent = p.id /\ b.time > p.time

Extends(b, p) == b.height = p.height + 1 /\ b.parent = p.id /\ b.time > p.time

\* What the task checks once it has both blocks.
Valid(b, p) == Extends(b, p) /\ b.time <= now + SynchronyBound /\ b.signed

\* Mutant of Check: the block is not handed to marshal.
CheckUnstored(n, v) ==
  /\ task[n][v] = "waiting"
  /\ {proposal[v].parent, proposal[v].block} \subseteq Available(n)
  /\ task' = [task EXCEPT ![n][v] = IF Valid(proposal[v].block, proposal[v].parent)
                                    THEN "persisted" ELSE "done"]
  /\ UNCHANGED <<now, proposal, certified, view, votes, queued, finalized, pusher,
                 memory, stored, crashed>>

\* Both blocks have come: a valid block goes to marshal.
Check(n, v) ==
  LET p == proposal[v]
      ok == Valid(p.block, p.parent)
  IN  /\ task[n][v] = "waiting"
      /\ {p.parent, p.block} \subseteq Available(n)
      /\ task' = [task EXCEPT ![n][v] = IF ok THEN "persisted" ELSE "done"]
      /\ queued' = [queued EXCEPT ![n] = @ \cup IF ok THEN {<<v, p.block>>} ELSE {}]
      /\ UNCHANGED <<now, proposal, certified, view, votes, finalized, pusher,
                     memory, stored, crashed>>

\* And then the answer, to a voter that waits for it or has gone on.
Answer(n, v) ==
  /\ task[n][v] = "persisted"
  /\ task' = [task EXCEPT ![n][v] = IF view[n] = v THEN "true" ELSE "done"]
  /\ UNCHANGED <<now, proposal, certified, view, votes, queued, finalized, pusher,
                 memory, stored, crashed>>

\* A block is still missing when the voter drops the response.
Abort(n, v) ==
  /\ task[n][v] = "waiting"
  /\ view[n] # v
  /\ task' = [task EXCEPT ![n][v] = "done"]
  /\ UNCHANGED <<now, proposal, certified, view, votes, queued, finalized, pusher,
                 memory, stored, crashed>>

\* marshal takes a Verified message and stores the block.
Store(n) ==
  \E m \in queued[n] :
    /\ queued' = [queued EXCEPT ![n] = @ \ {m}]
    /\ stored' = [stored EXCEPT ![n] = @ \cup {m[2]}]
    /\ UNCHANGED <<now, proposal, certified, view, task, votes, finalized, pusher,
                   memory, crashed>>

-----------------------------------------------------------------------------
(* FinalizationPusher and Message::Finalized. *)

\* Mutant of ReportFinalization: marshal is asked for what it has now.
ReportIfThere(n, v) ==
  /\ v \in certified /\ <<n, v>> \notin finalized
  /\ finalized' = finalized \cup {<<n, v>>}
  /\ pusher' = [pusher EXCEPT ![n][v] = IF proposal[v].block \in Available(n)
                                        THEN "waiting" ELSE @]
  /\ UNCHANGED <<now, proposal, certified, view, task, votes, queued, memory, stored, crashed>>

\* Mutant of ReportFinalization: a nullification is not ignored.
ReportNullified(n, v) ==
  /\ v \in certified \/ ~Proposed(v)
  /\ <<n, v>> \notin finalized
  /\ finalized' = finalized \cup {<<n, v>>}
  /\ pusher' = [pusher EXCEPT ![n][v] = "waiting"]
  /\ UNCHANGED <<now, proposal, certified, view, task, votes, queued, memory, stored, crashed>>

\* The voter of n has the certificate of a view in its journal and reports the
\* finalization: a task asks marshal for the block.  Other activities are
\* ignored.
ReportFinalization(n, v) ==
  /\ v \in certified /\ <<n, v>> \notin finalized
  /\ finalized' = finalized \cup {<<n, v>>}
  /\ pusher' = [pusher EXCEPT ![n][v] = "waiting"]
  /\ UNCHANGED <<now, proposal, certified, view, task, votes, queued, memory, stored, crashed>>

\* The block is there: Message::Finalized, with the view of the certificate.
PushFinalized(n, v) ==
  /\ pusher[n][v] = "waiting"
  /\ proposal[v].block \in Available(n)
  /\ pusher' = [pusher EXCEPT ![n][v] = "sent"]
  /\ UNCHANGED <<now, proposal, certified, view, task, votes, queued, finalized,
                 memory, stored, crashed>>

\* Mutant of HandleFinalized: the block is not handed to marshal.
HandleUnstored(n, v) ==
  /\ pusher[n][v] = "sent"
  /\ pusher' = [pusher EXCEPT ![n][v] = "handled"]
  /\ UNCHANGED <<now, proposal, certified, view, task, votes, queued, finalized,
                 memory, stored, crashed>>

\* The application handles the message.  Its task persist_finalized hands the
\* block to marshal, verified here or not.
HandleFinalized(n, v) ==
  /\ pusher[n][v] = "sent"
  /\ pusher' = [pusher EXCEPT ![n][v] = "handled"]
  /\ queued' = [queued EXCEPT ![n] = @ \cup {<<v, proposal[v].block>>}]
  /\ UNCHANGED <<now, proposal, certified, view, task, votes, finalized,
                 memory, stored, crashed>>

-----------------------------------------------------------------------------

\* The process of n ends and starts again.  Its votes and finalizations are in
\* the voter's journal, from which the finalizations are reported again; tasks,
\* messages and buffers were in memory.
Crash(n) ==
  /\ n \notin crashed /\ Cardinality(crashed) < MaxCrashed
  /\ crashed' = crashed \cup {n}
  /\ task' = [task EXCEPT ![n] = [v \in View |-> "none"]]
  /\ pusher' = [pusher EXCEPT ![n] = [v \in View |-> IF <<n, v>> \in finalized
                                                    THEN "waiting" ELSE "none"]]
  /\ memory' = [memory EXCEPT ![n] = {}]
  /\ queued' = [queued EXCEPT ![n] = {}]
  /\ UNCHANGED <<now, proposal, certified, view, votes, finalized, stored>>

Next ==
  \/ Tick
  \/ \E v \in View : Propose(v) \/ Certify(v)
  \/ \E n \in Honest :
       \/ EnterView(n) \/ Store(n) \/ Crash(n)
       \/ \E v \in View :
            \/ BlockArrives(n, v) \/ AskVerify(n, v) \/ Vote(n, v)
            \/ Check(n, v) \/ Answer(n, v) \/ Abort(n, v)
            \/ ReportFinalization(n, v) \/ PushFinalized(n, v) \/ HandleFinalized(n, v)

\* The finalization_fetch tasks, the application and marshal run.  Of verify
\* tasks and of the voters nothing is assumed.
Fairness ==
  \A n \in Honest :
    /\ WF_vars(Store(n))
    /\ \A v \in View : WF_vars(PushFinalized(n, v) \/ HandleFinalized(n, v))

Spec == Init /\ [][Next]_vars
FairSpec == Spec /\ Fairness

-----------------------------------------------------------------------------

TypeOK ==
  /\ now \in 0 .. MaxNow
  /\ proposal \in [View -> Proposal]
  /\ certified \subseteq View
  /\ view \in [Honest -> View]
  /\ task \in [Honest -> [View -> {"none", "waiting", "persisted", "true", "done"}]]
  /\ votes \subseteq Honest \X View
  /\ memory \in [Honest -> SUBSET Blocks]
  /\ queued \in [Honest -> SUBSET (View \X Blocks)]
  /\ stored \in [Honest -> SUBSET Blocks]
  /\ finalized \subseteq Honest \X View
  /\ pusher \in [Honest -> [View -> {"none", "waiting", "sent", "handled"}]]
  /\ crashed \subseteq Honest

\* Whatever the leaders propose, the notarized blocks are chains from genesis:
\* the parent of each is genesis or the block of an earlier notarized view,
\* the heights follow each other, the times increase.  run_buffer forwards by
\* height, finalize_ancestors walks from parent to parent.
CertifiedChain ==
  \A v \in certified :
    LET p == proposal[v]
    IN  /\ p.block.parent = p.parent.id
        /\ p.block.height = p.parent.height + 1 /\ p.block.time > p.parent.time
        /\ \/ p.pview = 0 /\ p.parent = Genesis
           \/ p.pview \in certified /\ p.pview < v /\ p.parent = proposal[p.pview].block

\* The honest votes, not the leader's own, that a certificate of v takes.
Persisters(v) == Quorum - MaxFaulty - Cardinality({Leader[v]} \cap Honest)

\* A notarized block is in storage or on the way there, at some validator, as
\* long as fewer have crashed than voted for it as verifiers: the answer to
\* the voter comes after the block has been handed to marshal.
CertifiedBlockKept ==
  \A v \in certified :
    Cardinality(crashed) < Persisters(v)
      => \E n \in Honest : \/ proposal[v].block \in stored[n]
                           \/ <<v, proposal[v].block>> \in queued[n]

\* Having(n, v): n's voter knows v finalized, and n has the block, in memory
\* or in storage, whichever of the two it got first.
Having(n, v) == <<n, v>> \in finalized /\ proposal[v].block \in Available(n)

\* A finalized block reaches the application of every validator that has it,
\* and ends up in that validator's storage, where it serves walks and requests
\* for ancestors: whether the block or the certificate came first, at the
\* leader and those that have not verified it too, and once more after a crash
\* at any point; only a crash that takes the block is an excuse.
FinalizedHandledAndStored ==
  \A n \in Honest, v \in View :
    Having(n, v) ~> \/ pusher[n][v] = "handled" /\ proposal[v].block \in stored[n]
                    \/ ~Having(n, v)
=============================================================================
