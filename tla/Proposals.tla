----------------------------- MODULE Proposals -----------------------------
(***************************************************************************)
(* How the K consensus instances of one validator turn the transactions of *)
(* its one shared mempool into proposals: Mempool, Message::Propose and    *)
(* Message::Broadcast of src/chain/src/application, and the part of the    *)
(* vendored consensus voter that asks for a proposal and takes the answer. *)
(*                                                                         *)
(* A propose task takes transactions out of the pool twice, when it is     *)
(* asked and when the time of its proposal has come.  In between it sleeps,*)
(* while the voter may leave the view, and other tasks, of the same        *)
(* instance too, use the pool and the instance's `built` slot.             *)
(*                                                                         *)
(* A block is its view and its transactions; its digest stands for both.   *)
(***************************************************************************)
EXTENDS Naturals, FiniteSets, Sequences

CONSTANTS
  K,           \* consensus instances
  Leads,       \* the <<instance, view>> this validator leads
  Txs,         \* transactions, 1 .. n in the order they are first submitted
  MaxBlock,    \* MAX_BLOCK_TRANSACTIONS
  MaxView,     \* bound: the last view of an instance
  MaxSubmits   \* bound: how often one transaction is submitted

ASSUME ProposalsAssumption ==
  /\ K \in Nat \ {0} /\ MaxBlock \in Nat \ {0} /\ MaxView \in Nat \ {0}
  /\ Txs \subseteq Nat \ {0} /\ Leads \subseteq (0 .. K - 1) \X (1 .. MaxView)

VARIABLES
  pool,      \* the mempool, in arrival order (`order`, keys of `transactions`)
  arrivals,  \* every successful add so far, in order
  now,       \* the clock, in slots of 3000 / K milliseconds since genesis
  view,      \* current view of each instance's voter
  asked,     \* requested_proposal_build of the current view
  answer,    \* proposal waiting in the voter's oneshot, NoBlock if none
  mailbox,   \* messages to each instance's application actor
  task,      \* the propose task of each instance and view
  built,     \* `built` of each instance
  proposed,  \* <<instance, block>> of the proposals cast
  sent       \* <<instance, block asked for, block broadcast>>

vars == <<pool, arrivals, now, view, asked, answer, mailbox, task, built,
          proposed, sent>>

Inst == 0 .. K - 1
View == 1 .. MaxView

NoBlock == [view |-> 0, txs |-> << >>]

Idle == [phase |-> "idle", txs |-> << >>, first |-> 0]
Done == [Idle EXCEPT !.phase = "done"]
Live(i, v) == task[i][v].phase \notin {"idle", "done"}

InSeq(x, s) == \E j \in 1 .. Len(s) : s[j] = x
Times(x, s) == Cardinality({ j \in 1 .. Len(s) : s[j] = x })

Init ==
  /\ pool = << >>
  /\ arrivals = << >>
  /\ now = 0
  /\ view = [i \in Inst |-> 1]
  /\ asked = [i \in Inst |-> FALSE]
  /\ answer = [i \in Inst |-> NoBlock]
  /\ mailbox = [i \in Inst |-> << >>]
  /\ task = [i \in Inst |-> [v \in View |-> Idle]]
  /\ built = [i \in Inst |-> NoBlock]
  /\ proposed = {}
  /\ sent = {}

-----------------------------------------------------------------------------
(* The mempool. *)

\* Mempool::add: a transaction that is in the pool already is ignored.  The
\* transactions have their numbers from the order of their first submissions.
Submit(t) ==
  /\ Times(t, arrivals) < MaxSubmits
  /\ \A u \in 1 .. t - 1 : InSeq(u, arrivals)
  /\ ~InSeq(t, pool)
  /\ pool' = Append(pool, t)
  /\ arrivals' = Append(arrivals, t)
  /\ UNCHANGED <<now, view, asked, answer, mailbox, task, built, proposed, sent>>

\* Mutant of PickUp: what the first pickup took is not counted.
PickUpFull(n) == SubSeq(pool, 1, IF Len(pool) < MaxBlock THEN Len(pool) ELSE MaxBlock)

\* Mempool::next until a block with n transactions is full or the pool empty.
PickUp(n) == LET m == MaxBlock - n
             IN  SubSeq(pool, 1, IF Len(pool) < m THEN Len(pool) ELSE m)
Rest(n) == SubSeq(pool, Len(PickUp(n)) + 1, Len(pool))

-----------------------------------------------------------------------------
(* The voter of instance i. *)

\* It enters a later view; a proposal asked for in the old one is dropped.
EnterView(i) ==
  /\ \E v \in View : v > view[i] /\ view' = [view EXCEPT ![i] = v]
  /\ asked' = [asked EXCEPT ![i] = FALSE]
  /\ answer' = [answer EXCEPT ![i] = NoBlock]
  /\ UNCHANGED <<pool, arrivals, now, mailbox, task, built, proposed, sent>>

\* It leads the view and asks its application for a block, once per view.
AskProposal(i) ==
  /\ <<i, view[i]>> \in Leads
  /\ ~asked[i]
  /\ asked' = [asked EXCEPT ![i] = TRUE]
  /\ mailbox' = [mailbox EXCEPT ![i] = Append(@, [ask |-> "propose", view |-> view[i],
                                                  payload |-> NoBlock])]
  /\ UNCHANGED <<pool, arrivals, now, view, answer, task, built, proposed, sent>>

\* It casts the proposal, and asks the application to broadcast the block.
CastProposal(i) ==
  /\ answer[i] # NoBlock
  /\ proposed' = proposed \cup {<<i, answer[i]>>}
  /\ mailbox' = [mailbox EXCEPT ![i] = Append(@, [ask |-> "broadcast", view |-> view[i],
                                                  payload |-> answer[i]])]
  /\ answer' = [answer EXCEPT ![i] = NoBlock]
  /\ UNCHANGED <<pool, arrivals, now, view, asked, task, built, sent>>

\* The view has timed out meanwhile: our_proposal refuses the answer.
RefuseAnswer(i) ==
  /\ answer[i] # NoBlock
  /\ answer' = [answer EXCEPT ![i] = NoBlock]
  /\ UNCHANGED <<pool, arrivals, now, view, asked, mailbox, task, built, proposed, sent>>

-----------------------------------------------------------------------------
(* The application actor of instance i. *)

Message(i, ask) == mailbox[i] # << >> /\ Head(mailbox[i]).ask = ask
Consume(i) == mailbox' = [mailbox EXCEPT ![i] = Tail(@)]

\* Mutant of HandlePropose: the transactions are copied, not taken.
ProposeCopies(i) ==
  /\ Message(i, "propose")
  /\ Consume(i)
  /\ task' = [task EXCEPT ![i][Head(mailbox[i]).view] =
                [phase |-> "parent", txs |-> PickUp(0), first |-> Len(PickUp(0))]]
  /\ UNCHANGED <<pool, arrivals, now, view, asked, answer, built, proposed, sent>>

\* Message::Propose: first pickup, and a task that waits for the parent.
HandlePropose(i) ==
  /\ Message(i, "propose")
  /\ Consume(i)
  /\ pool' = Rest(0)
  /\ task' = [task EXCEPT ![i][Head(mailbox[i]).view] =
                [phase |-> "parent", txs |-> PickUp(0), first |-> Len(PickUp(0))]]
  /\ UNCHANGED <<arrivals, now, view, asked, answer, built, proposed, sent>>

\* Message::Broadcast: the block built last goes to the syncer.
HandleBroadcast(i) ==
  /\ Message(i, "broadcast")
  /\ Consume(i)
  /\ sent' = IF built[i] = NoBlock THEN sent
             ELSE sent \cup {<<i, Head(mailbox[i]).payload, built[i]>>}
  /\ UNCHANGED <<pool, arrivals, now, view, asked, answer, task, built, proposed>>

-----------------------------------------------------------------------------
(* The propose task of instance i for view v. *)

\* The voter still holds the receiver of this task's response.
Open(i, v) == view[i] = v

Block(i, v) == [view |-> v, txs |-> task[i][v].txs]

\* tproposal in slots: views are K slots apart, instances one slot.
Target(i, v) == v * K + i

\* select!: the parent is there, the block is built.
ParentArrives(i, v) ==
  /\ task[i][v].phase = "parent"
  /\ built' = [built EXCEPT ![i] = Block(i, v)]
  /\ task' = [task EXCEPT ![i][v].phase = "sleep"]
  /\ UNCHANGED <<pool, arrivals, now, view, asked, answer, mailbox, proposed, sent>>

\* select!: the response was cancelled first.  The transactions are gone.
Abort(i, v) ==
  /\ task[i][v].phase = "parent"
  /\ ~Open(i, v)
  /\ task' = [task EXCEPT ![i][v] = Done]
  /\ UNCHANGED <<pool, arrivals, now, view, asked, answer, mailbox, built,
                 proposed, sent>>

\* Mutant of SecondPickup: what it takes goes before the first pickup.
SecondPickupFirst(i, v) ==
  LET n == Len(task[i][v].txs) IN
  /\ task[i][v].phase = "sleep"
  /\ now >= Target(i, v)
  /\ pool' = Rest(n)
  /\ task' = [task EXCEPT ![i][v].phase = "rebuild", ![i][v].txs = PickUp(n) \o @]
  /\ UNCHANGED <<arrivals, now, view, asked, answer, mailbox, built, proposed, sent>>

\* Mutant of SecondPickup: nothing waits for tproposal.
SecondPickupAtOnce(i, v) ==
  LET n == Len(task[i][v].txs) IN
  /\ task[i][v].phase = "sleep"
  /\ pool' = Rest(n)
  /\ task' = [task EXCEPT ![i][v].phase = "rebuild", ![i][v].txs = @ \o PickUp(n)]
  /\ UNCHANGED <<arrivals, now, view, asked, answer, mailbox, built, proposed, sent>>

\* tproposal has come, or passed before the block was built: second pickup.
\* The response may have been cancelled in the meantime.
SecondPickup(i, v) ==
  LET n == Len(task[i][v].txs) IN
  /\ task[i][v].phase = "sleep"
  /\ now >= Target(i, v)
  /\ pool' = Rest(n)
  /\ task' = [task EXCEPT ![i][v].phase = "rebuild", ![i][v].txs = @ \o PickUp(n)]
  /\ UNCHANGED <<arrivals, now, view, asked, answer, mailbox, built, proposed, sent>>

\* If transactions were added the block is built anew and replaces `built`.
Rebuild(i, v) ==
  /\ task[i][v].phase = "rebuild"
  /\ built' = IF Len(task[i][v].txs) = task[i][v].first THEN built
              ELSE [built EXCEPT ![i] = Block(i, v)]
  /\ task' = [task EXCEPT ![i][v].phase = "respond"]
  /\ UNCHANGED <<pool, arrivals, now, view, asked, answer, mailbox, proposed, sent>>

\* Mutant of Respond: only a block built anew is answered with.
RespondIfRebuilt(i, v) ==
  /\ task[i][v].phase = "respond"
  /\ answer' = IF Open(i, v) /\ Len(task[i][v].txs) # task[i][v].first
               THEN [answer EXCEPT ![i] = Block(i, v)] ELSE answer
  /\ task' = [task EXCEPT ![i][v] = Done]
  /\ UNCHANGED <<pool, arrivals, now, view, asked, mailbox, built, proposed, sent>>

\* response.send(digest); a closed response is ignored.
Respond(i, v) ==
  /\ task[i][v].phase = "respond"
  /\ answer' = IF Open(i, v) THEN [answer EXCEPT ![i] = Block(i, v)] ELSE answer
  /\ task' = [task EXCEPT ![i][v] = Done]
  /\ UNCHANGED <<pool, arrivals, now, view, asked, mailbox, built, proposed, sent>>

TaskStep(i, v) ==
  \/ ParentArrives(i, v) \/ Abort(i, v) \/ SecondPickup(i, v)
  \/ Rebuild(i, v) \/ Respond(i, v)

-----------------------------------------------------------------------------
Tick ==
  /\ now < Target(K - 1, MaxView)
  /\ now' = now + 1
  /\ UNCHANGED <<pool, arrivals, view, asked, answer, mailbox, task, built,
                 proposed, sent>>

Handle(i) == HandlePropose(i) \/ HandleBroadcast(i)

Next ==
  \/ Tick
  \/ \E t \in Txs : Submit(t)
  \/ \E i \in Inst : \/ EnterView(i) \/ AskProposal(i) \/ CastProposal(i) \/ RefuseAnswer(i)
                     \/ Handle(i) \/ \E v \in View : TaskStep(i, v)

Spec == Init /\ [][Next]_vars

\* The clock runs, actors and tasks are scheduled, and parents are delivered;
\* nothing makes a voter ask, or leave its view, or a client submit.
Fairness ==
  /\ WF_vars(Tick)
  /\ \A i \in Inst : /\ WF_vars(Handle(i))
                     /\ \A v \in View : WF_vars(TaskStep(i, v))

FairSpec == Spec /\ Fairness
-----------------------------------------------------------------------------
BlockType(b) == b.view \in 0 .. MaxView /\ b.txs \in Seq(Txs) /\ Len(b.txs) <= MaxBlock

TypeOK ==
  /\ pool \in Seq(Txs)
  /\ arrivals \in Seq(Txs)
  /\ now \in Nat
  /\ view \in [Inst -> View]
  /\ asked \in [Inst -> BOOLEAN]
  /\ \A i \in Inst : BlockType(answer[i]) /\ BlockType(built[i])
  /\ \A i \in Inst : \A v \in View : BlockType(Block(i, v))
  /\ \A p \in proposed : p[1] \in Inst /\ BlockType(p[2])

\* The tasks that hold transaction t, and the proposals that carry it.
HeldBy(t) == { c \in Inst \X View : Live(c[1], c[2]) /\ InSeq(t, task[c[1]][c[2]].txs) }
Answers(t) == { i \in Inst : InSeq(t, answer[i].txs) }
Carriers(t) == { p \in proposed : InSeq(t, p[2].txs) }

\* However the pickups of the instances interleave, one arrival of a
\* transaction ends in one place: the pool, one task, or one proposal.
OnePlacePerArrival ==
  \A t \in Txs :
    Times(t, pool) + Cardinality(HeldBy(t)) + Cardinality(Answers(t))
      + Cardinality(Carriers(t)) <= Times(t, arrivals)

\* A block lists its transactions in order of arrival, those of the second
\* pickup after those of the first, even when other tasks took some between.
Precedes(t, u) == \E j, k \in 1 .. Len(arrivals) : j < k /\ arrivals[j] = t /\ arrivals[k] = u
ProposedInArrivalOrder ==
  \A p \in proposed : \A j, k \in 1 .. Len(p[2].txs) :
    j < k => Precedes(p[2].txs[j], p[2].txs[k])

\* An instance casts one proposal per view, at or after its tproposal.
OneTimelyProposalPerView ==
  \A p, q \in proposed : /\ now >= Target(p[1], p[2].view)
                         /\ p[1] = q[1] /\ p[2].view = q[2].view => p = q

\* A voter that asked for a proposal gets one, unless it leaves the view.
Requested(i, v) ==
  \/ \E j \in 1 .. Len(mailbox[i]) : mailbox[i][j].ask = "propose" /\ mailbox[i][j].view = v
  \/ Live(i, v)
RequestAnswered ==
  \A i \in Inst : \A v \in View :
    <<i, v>> \in Leads => (Requested(i, v) /\ view[i] = v) ~> (view[i] > v \/ answer[i].view = v)

\* GATLING_SPEC.md 3.1: "each transaction is included in exactly one block
\* across all instances on this validator".  So a transaction that has left
\* the pool is in a block that is, or can still be, proposed.
NoTransactionLost ==
  \A t \in Txs : InSeq(t, arrivals) =>
    InSeq(t, pool) \/ HeldBy(t) \cup Answers(t) \cup Carriers(t) # {}

\* actor.rs, Message::Broadcast: "Check if the last built is equal".  So the
\* block broadcast is the block whose digest was proposed.
BroadcastsProposedBlock == \A s \in sent : s[2] = s[3]
=============================================================================
