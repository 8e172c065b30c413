--------------------------- MODULE ProposalsProofs ---------------------------
(***************************************************************************)
(* Proofs about Proposals, for any number of instances, transactions and   *)
(* views: blocks list transactions in the order of their arrival, an       *)
(* instance proposes once per view and not before its time, and an arrival *)
(* is in one place at a time.                                              *)
(***************************************************************************)
EXTENDS Proposals, FiniteSetTheorems, SequenceTheorems, TLAPS

Phases == {"idle", "parent", "sleep", "rebuild", "respond", "done"}
BlockSet == { b \in [view : 0 .. MaxView, txs : Seq(Txs)] : Len(b.txs) <= MaxBlock }
TaskSet == { x \in [phase : Phases, txs : Seq(Txs), first : Nat] : Len(x.txs) <= MaxBlock }
MessageSet == [ask : {"propose", "broadcast"}, view : View, payload : BlockSet]

Types ==
  /\ pool \in Seq(Txs) /\ arrivals \in Seq(Txs)
  /\ now \in Nat
  /\ view \in [Inst -> View]
  /\ asked \in [Inst -> BOOLEAN]
  /\ answer \in [Inst -> BlockSet]
  /\ mailbox \in [Inst -> Seq(MessageSet)]
  /\ task \in [Inst -> [View -> TaskSet]]
  /\ built \in [Inst -> BlockSet]
  /\ proposed \subseteq Inst \X BlockSet

\* The messages to the application of i that ask for a proposal in view v.
Asking(i, v) == { j \in 1 .. Len(mailbox[i]) : mailbox[i][j].ask = "propose" /\ mailbox[i][j].view = v }

\* What instance i has proposed in view v.
ProposedIn(i, v) == { p \in proposed : p[1] = i /\ p[2].view = v }

\* A proposal is asked for once, is in the mailbox, then with the task, then
\* answered, then cast.
OnceEach(i, v) ==
  /\ Asking(i, v) # {} => task[i][v].phase = "idle"
  /\ \A j, k \in Asking(i, v) : j = k
  /\ v > view[i] \/ (v = view[i] /\ ~asked[i]) => task[i][v].phase = "idle" /\ Asking(i, v) = {}
  /\ answer[i].view = v => v = view[i] /\ task[i][v].phase = "done" /\ ProposedIn(i, v) = {}
  /\ ProposedIn(i, v) # {} => task[i][v].phase = "done"
  /\ \A p, q \in ProposedIn(i, v) : p = q

\* And not before its time.
InTime(i, v) ==
  /\ task[i][v].phase \in {"rebuild", "respond"} => now >= Target(i, v)
  /\ answer[i].view = v => now >= Target(i, v)
  /\ ProposedIn(i, v) # {} => now >= Target(i, v)

Named ==
  /\ \A i \in Inst : answer[i].view = 0 => answer[i] = NoBlock
  /\ \A p \in proposed : p[2].view \in View

Casting == Named /\ \A i \in Inst, v \in View : OnceEach(i, v) /\ InTime(i, v)

\* The sequences of transactions are in the order of arrival, those of a task
\* before all that is still in the pool.
Ordered(s) == \A j, k \in 1 .. Len(s) : j < k => Precedes(s[j], s[k])
Arrived(s) == \A j \in 1 .. Len(s) : InSeq(s[j], arrivals)
AheadOfPool(s) == \A j \in 1 .. Len(s), k \in 1 .. Len(pool) : Precedes(s[j], pool[k])

InOrder ==
  /\ Ordered(pool) /\ Arrived(pool)
  /\ \A i \in Inst, v \in View :
       Ordered(task[i][v].txs) /\ Arrived(task[i][v].txs) /\ AheadOfPool(task[i][v].txs)
  /\ \A i \in Inst : Ordered(answer[i].txs)
  /\ \A p \in proposed : Ordered(p[2].txs)

IInv == Types /\ Casting /\ InOrder

-----------------------------------------------------------------------------
(* Pickups. *)

\* A pickup takes the first transactions of the pool, as many as fit.
LEMMA PickUpSplits ==
  ASSUME pool \in Seq(Txs), NEW n \in 0 .. MaxBlock
  PROVE  \E m \in 0 .. Len(pool) :
           /\ m <= MaxBlock - n
           /\ PickUp(n) \in Seq(Txs) /\ Len(PickUp(n)) = m
           /\ \A j \in 1 .. m : PickUp(n)[j] = pool[j]
           /\ Rest(n) \in Seq(Txs) /\ Len(Rest(n)) = Len(pool) - m
           /\ \A j \in 1 .. Len(pool) - m : Rest(n)[j] = pool[j + m]
<1>1. MaxBlock \in Nat /\ Len(pool) \in Nat
  BY ProposalsAssumption
<1>2. PICK m : m = IF Len(pool) < MaxBlock - n THEN Len(pool) ELSE MaxBlock - n
  OBVIOUS
<1>3. m \in 0 .. Len(pool) /\ m <= MaxBlock - n
  BY <1>1, <1>2
<1>4. PickUp(n) = SubSeq(pool, 1, m)
  BY <1>2 DEF PickUp
<1>5. /\ SubSeq(pool, 1, m) \in Seq(Txs) /\ Len(SubSeq(pool, 1, m)) = m
      /\ \A j \in 1 .. m : SubSeq(pool, 1, m)[j] = pool[j]
  BY <1>1, <1>3
<1>6. Rest(n) = SubSeq(pool, m + 1, Len(pool))
  BY <1>4, <1>5 DEF Rest
<1>7. /\ SubSeq(pool, m + 1, Len(pool)) \in Seq(Txs)
      /\ Len(SubSeq(pool, m + 1, Len(pool))) = Len(pool) - m
      /\ \A j \in 1 .. Len(pool) - m : SubSeq(pool, m + 1, Len(pool))[j] = pool[j + m]
  BY <1>1, <1>3
<1> QED
  BY <1>3, <1>4, <1>5, <1>6, <1>7

-----------------------------------------------------------------------------
(* The initial states. *)

\* The invariant holds at start-up.
LEMMA InitIInv == Init => IInv
<1> SUFFICES ASSUME Init PROVE IInv
  OBVIOUS
<1> USE ProposalsAssumption DEF Init
<1>1. NoBlock \in BlockSet /\ Idle \in TaskSet /\ 1 \in View
  BY DEF NoBlock, BlockSet, Idle, TaskSet, Phases, View
<1>2. Types
  BY <1>1 DEF Types
<1>3. \A i \in Inst : answer[i] = NoBlock /\ NoBlock.view = 0 /\ NoBlock.txs = << >> /\ mailbox[i] = << >>
  BY DEF NoBlock
<1>4. \A i \in Inst, v \in View : task[i][v].phase = "idle" /\ task[i][v].txs = << >> /\ v # 0
  BY DEF Idle, View
<1>5. Casting
  BY <1>3, <1>4 DEF Casting, Named, OnceEach, InTime, Asking, ProposedIn
<1>6. InOrder
  BY <1>3, <1>4 DEF InOrder, Ordered, Arrived, AheadOfPool
<1> QED
  BY <1>2, <1>5, <1>6 DEF IInv

-----------------------------------------------------------------------------
(* Types. *)

\* Every step keeps the types of the state, the block limit included.
LEMMA NextTypes ==
  ASSUME Types, [Next]_vars
  PROVE  Types'
<1> USE ProposalsAssumption DEF Types
<1>1. NoBlock \in BlockSet /\ Done \in TaskSet
  <2>1. NoBlock \in BlockSet
    BY DEF NoBlock, BlockSet
  <2>2. Idle \in TaskSet
    BY DEF Idle, TaskSet, Phases
  <2>3. Done \in TaskSet
    BY <2>2 DEF Done, TaskSet, Phases
  <2> QED
    BY <2>1, <2>3
<1>2. \A i \in Inst, v \in View : Block(i, v) \in BlockSet
  <2> SUFFICES ASSUME NEW i \in Inst, NEW v \in View
               PROVE  Block(i, v) \in BlockSet
    OBVIOUS
  <2>1. task[i][v] \in TaskSet
    OBVIOUS
  <2>2. PICK s \in Seq(Txs) : s = task[i][v].txs /\ Len(s) <= MaxBlock
    BY <2>1 DEF TaskSet
  <2>3. [view |-> v, txs |-> s] \in BlockSet
    BY <2>2 DEF BlockSet, View
  <2> QED
    BY <2>2, <2>3 DEF Block
<1>3. CASE Tick
  BY <1>3 DEF Tick
<1>4. ASSUME NEW t \in Txs, Submit(t)
      PROVE  Types'
  BY <1>4 DEF Submit
<1>5. ASSUME NEW i \in Inst, EnterView(i)
      PROVE  Types'
  BY <1>1, <1>5 DEF EnterView
<1>6. ASSUME NEW i \in Inst, AskProposal(i)
      PROVE  Types'
  <2>1. PICK m : m = [ask |-> "propose", view |-> view[i], payload |-> NoBlock]
    OBVIOUS
  <2>2. m \in MessageSet
    BY <1>1, <2>1 DEF MessageSet
  <2>3. mailbox' = [mailbox EXCEPT ![i] = Append(@, m)] /\ asked' = [asked EXCEPT ![i] = TRUE]
    BY <1>6, <2>1 DEF AskProposal
  <2>4. mailbox' \in [Inst -> Seq(MessageSet)]
    BY <2>2, <2>3
  <2>5. asked' \in [Inst -> BOOLEAN]
    BY <2>3, Zenon
  <2> QED
    BY <1>6, <2>4, <2>5 DEF AskProposal
<1>7. ASSUME NEW i \in Inst, CastProposal(i)
      PROVE  Types'
  <2>1. PICK m : m = [ask |-> "broadcast", view |-> view[i], payload |-> answer[i]]
    OBVIOUS
  <2>2. m \in MessageSet
    BY <2>1 DEF MessageSet
  <2>3. mailbox' = [mailbox EXCEPT ![i] = Append(@, m)]
    BY <1>7, <2>1 DEF CastProposal
  <2>4. mailbox' \in [Inst -> Seq(MessageSet)]
    BY <2>2, <2>3
  <2>5. /\ answer' = [answer EXCEPT ![i] = NoBlock] /\ proposed' = proposed \cup {<<i, answer[i]>>}
        /\ UNCHANGED <<pool, arrivals, now, view, asked, task, built>>
    BY <1>7 DEF CastProposal
  <2> QED
    BY <1>1, <2>4, <2>5
<1>8. ASSUME NEW i \in Inst, RefuseAnswer(i)
      PROVE  Types'
  BY <1>1, <1>8 DEF RefuseAnswer
<1>9. ASSUME NEW i \in Inst, HandlePropose(i)
      PROVE  Types'
  <2>1. PICK v \in View : v = Head(mailbox[i]).view
    <3>1. mailbox[i] \in Seq(MessageSet) /\ mailbox[i] # << >>
      BY <1>9 DEF HandlePropose, Message
    <3>2. Head(mailbox[i]) \in MessageSet
      BY <3>1
    <3> QED
      BY <3>2 DEF MessageSet
  <2>2. PICK x : x = [phase |-> "parent", txs |-> PickUp(0), first |-> Len(PickUp(0))]
    OBVIOUS
  <2>3. 0 \in 0 .. MaxBlock
    OBVIOUS
  <2>4. PickUp(0) \in Seq(Txs) /\ Len(PickUp(0)) \in Nat /\ Len(PickUp(0)) <= MaxBlock /\ Rest(0) \in Seq(Txs)
    <3>1. PICK m \in 0 .. Len(pool) : /\ m <= MaxBlock - 0
                                      /\ PickUp(0) \in Seq(Txs) /\ Len(PickUp(0)) = m
                                      /\ Rest(0) \in Seq(Txs)
      BY <2>3, PickUpSplits, Zenon
    <3> QED
      BY <3>1
  <2>5. x \in TaskSet
    BY <2>2, <2>4 DEF TaskSet, Phases
  <2>6. task' = [task EXCEPT ![i][v] = x] /\ pool' = Rest(0) /\ mailbox' = [mailbox EXCEPT ![i] = Tail(@)]
    BY <1>9, <2>1, <2>2 DEF HandlePropose, Consume
  <2>7. mailbox' \in [Inst -> Seq(MessageSet)]
    BY <1>9, <2>6 DEF HandlePropose, Message
  <2>8. task' \in [Inst -> [View -> TaskSet]]
    BY <2>5, <2>6
  <2>9. UNCHANGED <<arrivals, now, view, asked, answer, built, proposed>>
    BY <1>9 DEF HandlePropose
  <2> QED
    BY <2>4, <2>6, <2>7, <2>8, <2>9
<1>10. ASSUME NEW i \in Inst, HandleBroadcast(i)
      PROVE  Types'
  BY <1>10 DEF HandleBroadcast, Message, Consume
<1>11. ASSUME NEW i \in Inst, NEW v \in View, ParentArrives(i, v)
      PROVE  Types'
  <2>1. PICK x \in TaskSet : x = task[i][v]
    OBVIOUS
  <2>2. [x EXCEPT !.phase = "sleep"] \in TaskSet
    BY DEF TaskSet, Phases
  <2>3. task' = [task EXCEPT ![i][v] = [x EXCEPT !.phase = "sleep"]]
    BY <1>11, <2>1 DEF ParentArrives
  <2>4. task' \in [Inst -> [View -> TaskSet]]
    BY <2>2, <2>3
  <2> QED
    BY <1>2, <1>11, <2>4 DEF ParentArrives
<1>12. ASSUME NEW i \in Inst, NEW v \in View, Abort(i, v)
      PROVE  Types'
  BY <1>1, <1>12 DEF Abort
<1>13. ASSUME NEW i \in Inst, NEW v \in View, SecondPickup(i, v)
      PROVE  Types'
  <2>1. PICK x \in TaskSet : x = task[i][v]
    OBVIOUS
  <2>2. PICK n \in 0 .. MaxBlock : n = Len(x.txs)
    BY DEF TaskSet
  <2>3. PickUp(n) \in Seq(Txs) /\ Len(PickUp(n)) <= MaxBlock - n /\ Rest(n) \in Seq(Txs)
    BY PickUpSplits
  <2>4. x.txs \o PickUp(n) \in Seq(Txs) /\ Len(x.txs \o PickUp(n)) <= MaxBlock
    <3>1. x.txs \in Seq(Txs)
      BY DEF TaskSet
    <3>2. PICK s \in Seq(Txs), y \in Seq(Txs) : s = PickUp(n) /\ y = x.txs
      BY <2>3, <3>1
    <3>3. Len(s) <= MaxBlock - n /\ Len(y) = n
      BY <2>2, <2>3, <3>2
    <3>4. y \o s \in Seq(Txs) /\ Len(y \o s) = Len(y) + Len(s) /\ Len(s) \in Nat
      OBVIOUS
    <3>5. Len(y \o s) <= MaxBlock
      BY <3>3, <3>4
    <3> QED
      BY <3>2, <3>4, <3>5
  <2>5. [x EXCEPT !.phase = "rebuild", !.txs = @ \o PickUp(n)] \in TaskSet
    BY <2>4 DEF TaskSet, Phases
  <2>6. /\ pool' = Rest(n)
        /\ task' = [task EXCEPT ![i][v].phase = "rebuild", ![i][v].txs = @ \o PickUp(n)]
        /\ UNCHANGED <<arrivals, now, view, asked, answer, mailbox, built, proposed>>
    BY <1>13, <2>1, <2>2 DEF SecondPickup
  <2>7. task' = [task EXCEPT ![i][v] = [x EXCEPT !.phase = "rebuild", !.txs = @ \o PickUp(n)]]
    BY <2>1, <2>6
  <2>8. task' \in [Inst -> [View -> TaskSet]]
    BY <2>5, <2>7
  <2> QED
    BY <2>3, <2>6, <2>8
<1>14. ASSUME NEW i \in Inst, NEW v \in View, Rebuild(i, v)
      PROVE  Types'
  <2>1. PICK x \in TaskSet : x = task[i][v]
    OBVIOUS
  <2>2. [x EXCEPT !.phase = "respond"] \in TaskSet
    BY DEF TaskSet, Phases
  <2>3. task' = [task EXCEPT ![i][v] = [x EXCEPT !.phase = "respond"]]
    BY <1>14, <2>1 DEF Rebuild
  <2>4. task' \in [Inst -> [View -> TaskSet]]
    BY <2>2, <2>3
  <2> QED
    BY <1>2, <1>14, <2>4 DEF Rebuild
<1>15. ASSUME NEW i \in Inst, NEW v \in View, Respond(i, v)
      PROVE  Types'
  BY <1>1, <1>2, <1>15 DEF Respond
<1>16. CASE UNCHANGED vars
  BY <1>16 DEF vars
<1> QED
  BY <1>3, <1>4, <1>5, <1>6, <1>7, <1>8, <1>9, <1>10, <1>11, <1>12, <1>13, <1>14, <1>15, <1>16, Zenon
  DEF Next, Handle, TaskStep

-----------------------------------------------------------------------------
(* What the steps of a propose task do to it. *)

\* The task of <<i, v>> becomes one with the phase and transactions given;
\* the other tasks stay.
Becomes(i, v, phase, txs) ==
  /\ task'[i][v].phase = phase /\ task'[i][v].txs = txs
  /\ \A j \in Inst, w \in View : <<j, w>> # <<i, v>> => task'[j][w] = task[j][w]

\* What each step of a propose task does to its phase and transactions.
LEMMA TaskMoves ==
  ASSUME Types, NEW i \in Inst, NEW v \in View
  PROVE  /\ HandlePropose(i) /\ Head(mailbox[i]).view = v => Becomes(i, v, "parent", PickUp(0))
         /\ ParentArrives(i, v) => Becomes(i, v, "sleep", task[i][v].txs)
         /\ Abort(i, v) \/ Respond(i, v) => Becomes(i, v, "done", << >>)
         /\ SecondPickup(i, v) =>
              Becomes(i, v, "rebuild", task[i][v].txs \o PickUp(Len(task[i][v].txs)))
         /\ Rebuild(i, v) => Becomes(i, v, "respond", task[i][v].txs)
<1>1. task \in [Inst -> [View -> TaskSet]] /\ task[i] \in [View -> TaskSet] /\ task[i][v] \in TaskSet
  BY DEF Types
<1>2. HandlePropose(i) /\ Head(mailbox[i]).view = v => Becomes(i, v, "parent", PickUp(0))
  BY <1>1 DEF HandlePropose, Becomes
<1>3. ParentArrives(i, v) => Becomes(i, v, "sleep", task[i][v].txs)
  BY <1>1 DEF ParentArrives, Becomes, TaskSet
<1>4. Abort(i, v) \/ Respond(i, v) => Becomes(i, v, "done", << >>)
  BY <1>1 DEF Abort, Respond, Becomes, Done, Idle
<1>5. SecondPickup(i, v) =>
        Becomes(i, v, "rebuild", task[i][v].txs \o PickUp(Len(task[i][v].txs)))
  <2> SUFFICES ASSUME SecondPickup(i, v)
               PROVE  Becomes(i, v, "rebuild", task[i][v].txs \o PickUp(Len(task[i][v].txs)))
    OBVIOUS
  <2>1. PICK s : s = PickUp(Len(task[i][v].txs))
    OBVIOUS
  <2>2. task' = [task EXCEPT ![i][v].phase = "rebuild", ![i][v].txs = @ \o s]
    BY <2>1 DEF SecondPickup
  <2> QED
    BY <1>1, <2>1, <2>2 DEF Becomes, TaskSet
<1>6. Rebuild(i, v) => Becomes(i, v, "respond", task[i][v].txs)
  BY <1>1 DEF Rebuild, Becomes, TaskSet
<1> QED
  BY <1>2, <1>3, <1>4, <1>5, <1>6

-----------------------------------------------------------------------------
(* Once per view, and in time. *)

\* What a step that leaves them alone does to the requests and the proposals.
LEMMA SameRequests ==
  ASSUME NEW i \in Inst, NEW v \in View
  PROVE  /\ mailbox'[i] = mailbox[i] => Asking(i, v)' = Asking(i, v)
         /\ UNCHANGED proposed => ProposedIn(i, v)' = ProposedIn(i, v)
BY DEF Asking, ProposedIn

\* A proposal's target is a slot number.
LEMMA TargetType ==
  ASSUME NEW i \in Inst, NEW v \in View
  PROVE  Target(i, v) \in Nat
<1>1. v \in Nat /\ K \in Nat /\ i \in Nat
  BY ProposalsAssumption DEF View, Inst
<1>2. v * K \in Nat
  BY <1>1
<1> QED
  BY <1>1, <1>2 DEF Target

\* A step of one task, by the phase it ends in.
LEMMA OneTaskCasts ==
  ASSUME Types, Casting, NEW i \in Inst, NEW v \in View, NEW phase, NEW txs,
         Becomes(i, v, phase, txs), phase # "idle", task[i][v].phase # "idle", task[i][v].phase # "done",
         phase \in {"rebuild", "respond"} => now >= Target(i, v),
         UNCHANGED <<now, view, asked, answer, mailbox, proposed>>
  PROVE  Casting'
<1>1. /\ task'[i][v].phase = phase
      /\ \A j \in Inst, w \in View : <<j, w>> # <<i, v>> => task'[j][w] = task[j][w]
  BY DEF Becomes
<1>2. Named'
  BY DEF Casting, Named
<1>3. ASSUME NEW j \in Inst, NEW w \in View
      PROVE  OnceEach(j, w)' /\ InTime(j, w)'
  <2>1. OnceEach(j, w) /\ InTime(j, w)
    BY DEF Casting
  <2>2. Asking(j, w)' = Asking(j, w) /\ ProposedIn(j, w)' = ProposedIn(j, w)
    BY SameRequests
  <2>3. CASE <<j, w>> = <<i, v>>
    <3>1. j = i /\ w = v
      BY <2>3
    <3>2. OnceEach(j, w)'
      BY <1>1, <2>1, <2>2, <3>1 DEF OnceEach
    <3>3. InTime(j, w)'
      BY <1>1, <2>1, <2>2, <3>1 DEF InTime, Target
    <3> QED
      BY <3>2, <3>3
  <2>4. CASE <<j, w>> # <<i, v>>
    <3>1. task'[j][w] = task[j][w]
      BY <1>1, <2>4
    <3>2. OnceEach(j, w)'
      BY <2>1, <2>2, <3>1 DEF OnceEach
    <3>3. InTime(j, w)'
      BY <2>1, <2>2, <3>1 DEF InTime, Target
    <3> QED
      BY <3>2, <3>3
  <2> QED
    BY <2>3, <2>4
<1> QED
  BY <1>2, <1>3 DEF Casting

\* The voter asks once per view.
LEMMA AskCasts ==
  ASSUME Types, Casting, NEW i \in Inst, AskProposal(i)
  PROVE  Casting'
<1>1. PICK m : m = [ask |-> "propose", view |-> view[i], payload |-> NoBlock]
  OBVIOUS
<1>2. /\ ~asked[i] /\ asked' = [asked EXCEPT ![i] = TRUE]
      /\ mailbox' = [mailbox EXCEPT ![i] = Append(@, m)]
      /\ UNCHANGED <<now, view, answer, task, proposed>>
  BY <1>1 DEF AskProposal
<1>3. Named'
  BY <1>2 DEF Casting, Named
<1>4. ASSUME NEW j \in Inst, NEW w \in View
      PROVE  OnceEach(j, w)' /\ InTime(j, w)'
  <2>1. OnceEach(j, w) /\ InTime(j, w)
    BY DEF Casting
  <2>2. ProposedIn(j, w)' = ProposedIn(j, w)
    BY <1>2, SameRequests
  <2>3. InTime(j, w)'
    BY <1>2, <2>1, <2>2 DEF InTime, Target
  <2>4. CASE j # i
    <3>1. mailbox'[j] = mailbox[j] /\ (asked'[j] <=> asked[j])
      BY <1>2, <2>4 DEF Types
    <3>2. Asking(j, w)' = Asking(j, w)
      BY <3>1, SameRequests
    <3> QED
      BY <1>2, <2>1, <2>2, <2>3, <3>1, <3>2 DEF OnceEach
  <2>5. CASE j = i
    <3>1. /\ mailbox[i] \in Seq(MessageSet) /\ m \in MessageSet
      <4>1. NoBlock \in BlockSet /\ view[i] \in View
        BY ProposalsAssumption DEF NoBlock, BlockSet, Types
      <4> QED
        BY <1>1, <4>1 DEF MessageSet, Types
    <3>2. PICK n \in Nat : n = Len(mailbox[i])
      BY <3>1
    <3>3. /\ Len(mailbox'[i]) = n + 1 /\ mailbox'[i][n + 1] = m
          /\ \A k \in 1 .. n : mailbox'[i][k] = mailbox[i][k]
      BY <1>2, <3>1, <3>2 DEF Types
    <3>4. CASE w # view[i]
      <4>1. Asking(j, w)' = Asking(j, w)
        BY <1>1, <2>5, <3>2, <3>3, <3>4 DEF Asking
      <4> QED
        BY <1>2, <2>1, <2>2, <2>3, <2>5, <3>4, <4>1 DEF OnceEach
    <3>5. CASE w = view[i]
      <4>1. Asking(j, w) = {} /\ task[j][w].phase = "idle"
        BY <1>2, <2>1, <2>5, <3>5 DEF OnceEach
      <4>2. Asking(j, w)' = {n + 1}
        BY <1>1, <2>5, <3>2, <3>3, <3>5, <4>1 DEF Asking
      <4>3. asked'[j] /\ w \in Nat
        BY <1>2, <2>5 DEF Types, View
      <4>4. ~(w > view'[j])
        BY <1>2, <2>5, <3>5, <4>3
      <4> QED
        BY <1>2, <2>1, <2>2, <2>3, <4>1, <4>2, <4>3, <4>4 DEF OnceEach
    <3> QED
      BY <3>4, <3>5
  <2> QED
    BY <2>4, <2>5
<1> QED
  BY <1>3, <1>4 DEF Casting

\* A message leaves the mailbox.
LEMMA AskingOfTail ==
  ASSUME Types, NEW i \in Inst, mailbox[i] # << >>, Consume(i)
  PROVE  /\ \A j \in Inst : j # i => mailbox'[j] = mailbox[j]
         /\ \A w \in View : /\ Asking(i, w)' = { k \in 1 .. Len(mailbox[i]) - 1 : k + 1 \in Asking(i, w) }
                            /\ Asking(i, w) \subseteq 1 .. Len(mailbox[i])
<1>1. mailbox[i] \in Seq(MessageSet)
  BY DEF Types
<1>2. mailbox'[i] = Tail(mailbox[i]) /\ \A j \in Inst : j # i => mailbox'[j] = mailbox[j]
  BY DEF Consume, Types
<1>3. /\ Len(mailbox'[i]) = Len(mailbox[i]) - 1 /\ Len(mailbox[i]) \in Nat \ {0}
      /\ \A k \in 1 .. Len(mailbox[i]) - 1 : mailbox'[i][k] = mailbox[i][k + 1]
  BY <1>1, <1>2
<1>4. ASSUME NEW w \in View
      PROVE  /\ Asking(i, w)' = { k \in 1 .. Len(mailbox[i]) - 1 : k + 1 \in Asking(i, w) }
             /\ Asking(i, w) \subseteq 1 .. Len(mailbox[i])
  BY <1>3 DEF Asking
<1> QED
  BY <1>2, <1>4

\* The request goes from the mailbox to the task.
LEMMA ProposeCasts ==
  ASSUME Types, Casting, NEW i \in Inst, HandlePropose(i)
  PROVE  Casting'
<1>1. /\ mailbox[i] # << >> /\ Head(mailbox[i]).ask = "propose" /\ Consume(i)
      /\ UNCHANGED <<now, view, asked, answer, proposed>>
  BY DEF HandlePropose, Message
<1>2. mailbox[i] \in Seq(MessageSet) /\ Head(mailbox[i]) = mailbox[i][1] /\ Len(mailbox[i]) \in Nat \ {0}
  BY <1>1 DEF Types
<1>3. PICK v \in View : v = Head(mailbox[i]).view
  <2>1. Head(mailbox[i]) \in MessageSet
    BY <1>1, <1>2
  <2> QED
    BY <2>1 DEF MessageSet
<1>4. PICK s : Becomes(i, v, "parent", s)
  BY <1>3, TaskMoves
<1>5. 1 \in Asking(i, v)
  BY <1>1, <1>2, <1>3 DEF Asking
<1>6. Named'
  BY <1>1 DEF Casting, Named
<1>7. ASSUME NEW j \in Inst, NEW w \in View
      PROVE  OnceEach(j, w)' /\ InTime(j, w)'
  <2>1. OnceEach(j, w) /\ InTime(j, w)
    BY DEF Casting
  <2>2. ProposedIn(j, w)' = ProposedIn(j, w)
    BY <1>1, SameRequests
  <2>3. CASE <<j, w>> = <<i, v>>
    <3>1. j = i /\ w = v
      BY <2>3
    <3>2. \A k \in Asking(i, v) : k = 1
      BY <1>5, <2>1, <3>1 DEF OnceEach
    <3>3. Asking(j, w)' = {}
      <4>1. \A k \in 1 .. Len(mailbox[i]) - 1 : k + 1 # 1
        BY <1>2
      <4> QED
        BY <1>1, <3>1, <3>2, <4>1, AskingOfTail
    <3>4. task[i][v].phase = "idle" /\ task'[i][v].phase = "parent"
      BY <1>4, <1>5, <2>1, <3>1 DEF OnceEach, Becomes
    <3>5. OnceEach(j, w)'
      BY <1>1, <1>5, <2>1, <2>2, <3>1, <3>3, <3>4 DEF OnceEach
    <3>6. InTime(j, w)'
      BY <1>1, <2>1, <2>2, <3>1, <3>4 DEF InTime, Target
    <3> QED
      BY <3>5, <3>6
  <2>4. CASE <<j, w>> # <<i, v>>
    <3>1. task'[j][w] = task[j][w]
      BY <1>4, <2>4 DEF Becomes
    <3>2. InTime(j, w)'
      BY <1>1, <2>1, <2>2, <3>1 DEF InTime, Target
    <3>3. /\ Asking(j, w) = {} => Asking(j, w)' = {}
          /\ Asking(j, w)' # {} => Asking(j, w) # {}
          /\ \A k, l \in Asking(j, w)' : k = l
      <4>1. CASE j # i
        <5>1. Asking(j, w)' = Asking(j, w)
          BY <1>1, <4>1, AskingOfTail, SameRequests
        <5> QED
          BY <2>1, <5>1 DEF OnceEach
      <4>2. CASE j = i
        <5>1. Asking(j, w)' = { k \in 1 .. Len(mailbox[i]) - 1 : k + 1 \in Asking(i, w) }
          BY <1>1, <4>2, AskingOfTail
        <5>2. \A k, l \in Asking(i, w) : k = l
          BY <2>1, <4>2 DEF OnceEach
        <5>3. \A k, l \in Asking(j, w)' : k = l
          BY <1>2, <5>1, <5>2
        <5> QED
          BY <4>2, <5>1, <5>3
      <4> QED
        BY <4>1, <4>2
    <3>4. OnceEach(j, w)'
      BY <1>1, <2>1, <2>2, <3>1, <3>3 DEF OnceEach
    <3> QED
      BY <3>2, <3>4
  <2> QED
    BY <2>3, <2>4
<1> QED
  BY <1>6, <1>7 DEF Casting

\* Another message leaves the mailbox.
LEMMA BroadcastCasts ==
  ASSUME Types, Casting, NEW i \in Inst, HandleBroadcast(i)
  PROVE  Casting'
<1>1. /\ mailbox[i] # << >> /\ Head(mailbox[i]).ask = "broadcast" /\ Consume(i)
      /\ UNCHANGED <<now, view, asked, answer, task, proposed>>
  BY DEF HandleBroadcast, Message
<1>2. mailbox[i] \in Seq(MessageSet) /\ Head(mailbox[i]) = mailbox[i][1] /\ Len(mailbox[i]) \in Nat \ {0}
  BY <1>1 DEF Types
<1>3. Named'
  BY <1>1 DEF Casting, Named
<1>4. ASSUME NEW j \in Inst, NEW w \in View
      PROVE  OnceEach(j, w)' /\ InTime(j, w)'
  <2>1. OnceEach(j, w) /\ InTime(j, w)
    BY DEF Casting
  <2>2. ProposedIn(j, w)' = ProposedIn(j, w)
    BY <1>1, SameRequests
  <2>3. InTime(j, w)'
    BY <1>1, <2>1, <2>2 DEF InTime, Target
  <2>4. /\ Asking(j, w) = {} => Asking(j, w)' = {}
        /\ Asking(j, w)' # {} => Asking(j, w) # {}
        /\ \A k, l \in Asking(j, w)' : k = l
    <3>1. CASE j # i
      <4>1. Asking(j, w)' = Asking(j, w)
        BY <1>1, <3>1, AskingOfTail, SameRequests
      <4> QED
        BY <2>1, <4>1 DEF OnceEach
    <3>2. CASE j = i
      <4>1. Asking(j, w)' = { k \in 1 .. Len(mailbox[i]) - 1 : k + 1 \in Asking(i, w) }
        BY <1>1, <3>2, AskingOfTail
      <4>2. \A k, l \in Asking(i, w) : k = l
        BY <2>1, <3>2 DEF OnceEach
      <4>3. \A k, l \in Asking(j, w)' : k = l
        BY <1>2, <4>1, <4>2
      <4> QED
        BY <3>2, <4>1, <4>3
    <3> QED
      BY <3>1, <3>2
  <2>5. OnceEach(j, w)'
    BY <1>1, <2>1, <2>2, <2>4 DEF OnceEach
  <2> QED
    BY <2>3, <2>5
<1> QED
  BY <1>3, <1>4 DEF Casting

\* The answer becomes the proposal of its view.
LEMMA CastCasts ==
  ASSUME Types, Casting, NEW i \in Inst, CastProposal(i)
  PROVE  Casting'
<1>0. PICK b \in BlockSet : b = answer[i]
  BY DEF Types
<1>1. PICK m : m = [ask |-> "broadcast", view |-> view[i], payload |-> answer[i]] /\ b = answer[i]
  BY <1>0
<1>2. /\ b # NoBlock /\ proposed' = proposed \cup {<<i, b>>}
      /\ mailbox' = [mailbox EXCEPT ![i] = Append(@, m)]
      /\ answer' = [answer EXCEPT ![i] = NoBlock]
      /\ UNCHANGED <<now, view, asked, task>>
  BY <1>1 DEF CastProposal
<1>3. b.view \in View
  <2>1. b.view \in 0 .. MaxView /\ b.view # 0
    BY <1>1, <1>2 DEF BlockSet, Casting, Named
  <2> QED
    BY <2>1, ProposalsAssumption DEF View
<1>4. answer'[i].view = 0 /\ answer'[i] = NoBlock /\ \A j \in Inst : j # i => answer'[j] = answer[j]
  BY <1>2 DEF Types, NoBlock
<1>5. Named'
  BY <1>2, <1>3, <1>4 DEF Casting, Named
<1>6. ASSUME NEW j \in Inst, NEW w \in View
      PROVE  OnceEach(j, w)' /\ InTime(j, w)'
  <2>1. OnceEach(j, w) /\ InTime(j, w)
    BY DEF Casting
  <2>2. Asking(j, w)' = Asking(j, w)
    <3>1. CASE j # i
      BY <1>2, <3>1, SameRequests DEF Types
    <3>2. CASE j = i
      <4>1. mailbox[i] \in Seq(MessageSet) /\ m \in MessageSet
        BY <1>1 DEF MessageSet, Types
      <4>2. PICK n \in Nat : n = Len(mailbox[i])
        BY <4>1
      <4>3. /\ Len(mailbox'[i]) = n + 1 /\ mailbox'[i][n + 1] = m
            /\ \A k \in 1 .. n : mailbox'[i][k] = mailbox[i][k]
        BY <1>2, <4>1, <4>2 DEF Types
      <4> QED
        BY <1>1, <3>2, <4>2, <4>3 DEF Asking
    <3> QED
      BY <3>1, <3>2
  <2>3. ProposedIn(j, w)' = IF j = i /\ w = b.view THEN ProposedIn(j, w) \cup {<<i, b>>} ELSE ProposedIn(j, w)
    BY <1>2 DEF ProposedIn
  <2>4. CASE j = i /\ w = b.view
    <3>1. ProposedIn(j, w)' = {<<i, b>>} /\ task[j][w].phase = "done" /\ now >= Target(j, w) /\ w = view[j]
      BY <1>1, <2>1, <2>3, <2>4 DEF OnceEach, InTime
    <3>2. w # 0 /\ w \in Nat
      BY DEF View
    <3>3. answer'[j].view # w
      BY <1>4, <2>4, <3>2
    <3>4. OnceEach(j, w)'
      BY <1>2, <2>1, <2>2, <3>1, <3>3 DEF OnceEach
    <3>5. InTime(j, w)'
      BY <1>2, <2>1, <3>1, <3>3 DEF InTime, Target
    <3> QED
      BY <3>4, <3>5
  <2>5. CASE ~(j = i /\ w = b.view)
    <3>1. ProposedIn(j, w)' = ProposedIn(j, w)
      BY <2>3, <2>5
    <3>2. w # 0
      BY DEF View
    <3>3. answer'[j].view = w => answer[j].view = w
      BY <1>4, <3>2
    <3>4. OnceEach(j, w)'
      BY <1>2, <2>1, <2>2, <3>1, <3>3 DEF OnceEach
    <3>5. InTime(j, w)'
      BY <1>2, <2>1, <3>1, <3>3 DEF InTime, Target
    <3> QED
      BY <3>4, <3>5
  <2> QED
    BY <2>4, <2>5
<1> QED
  BY <1>5, <1>6 DEF Casting

\* The task answers the voter, or nobody.
LEMMA RespondCasts ==
  ASSUME Types, Casting, NEW i \in Inst, NEW v \in View, Respond(i, v)
  PROVE  Casting'
<1>1. /\ task[i][v].phase = "respond"
      /\ answer' = IF Open(i, v) THEN [answer EXCEPT ![i] = Block(i, v)] ELSE answer
      /\ UNCHANGED <<now, view, asked, mailbox, proposed>>
  BY DEF Respond
<1>2. Becomes(i, v, "done", << >>)
  BY TaskMoves
<1>3. v # 0 /\ Block(i, v).view = v
  BY DEF View, Block
<1>4. \A j \in Inst : \/ answer'[j] = answer[j]
                      \/ j = i /\ view[i] = v /\ answer'[j].view = v
  BY <1>1, <1>3 DEF Open, Types
<1>5. Named'
  BY <1>1, <1>3, <1>4 DEF Casting, Named
<1>6. ASSUME NEW j \in Inst, NEW w \in View
      PROVE  OnceEach(j, w)' /\ InTime(j, w)'
  <2>1. OnceEach(j, w) /\ InTime(j, w)
    BY DEF Casting
  <2>2. Asking(j, w)' = Asking(j, w) /\ ProposedIn(j, w)' = ProposedIn(j, w)
    BY <1>1, SameRequests
  <2>3. CASE j = i /\ w = v
    <3>1. task'[j][w].phase = "done" /\ task[j][w].phase = "respond"
      BY <1>1, <1>2, <2>3 DEF Becomes
    <3>2. ProposedIn(j, w) = {} /\ now >= Target(j, w) /\ answer[j].view # w
      BY <2>1, <3>1 DEF OnceEach, InTime
    <3>3. answer'[j].view = w => view[j] = w
      BY <1>4, <2>3, <3>2
    <3>4. OnceEach(j, w)'
      BY <1>1, <2>1, <2>2, <3>1, <3>2, <3>3 DEF OnceEach
    <3>5. InTime(j, w)'
      BY <1>1, <2>2, <3>1, <3>2 DEF InTime, Target
    <3> QED
      BY <3>4, <3>5
  <2>4. CASE ~(j = i /\ w = v)
    <3>1. task'[j][w] = task[j][w]
      BY <1>2, <2>4 DEF Becomes
    <3>2. answer'[j].view = w => answer[j].view = w
      BY <1>4, <2>4
    <3>3. OnceEach(j, w)'
      BY <1>1, <2>1, <2>2, <3>1, <3>2 DEF OnceEach
    <3>4. InTime(j, w)'
      BY <1>1, <2>1, <2>2, <3>1, <3>2 DEF InTime, Target
    <3> QED
      BY <3>3, <3>4
  <2> QED
    BY <2>3, <2>4
<1> QED
  BY <1>5, <1>6 DEF Casting

\* The voter leaves its view, or refuses the answer: the answer is gone.
LEMMA DropCasts ==
  ASSUME Types, Casting, NEW i \in Inst, EnterView(i) \/ RefuseAnswer(i)
  PROVE  Casting'
<1>1. /\ answer' = [answer EXCEPT ![i] = NoBlock]
      /\ UNCHANGED <<now, mailbox, task, proposed>>
  BY DEF EnterView, RefuseAnswer
<1>2. \A j \in Inst : \/ UNCHANGED <<view[j], asked[j]>>
                      \/ j = i /\ view'[j] > view[j] /\ view'[j] \in View
  BY DEF EnterView, RefuseAnswer, Types
<1>3. answer'[i] = NoBlock /\ NoBlock.view = 0 /\ \A j \in Inst : j # i => answer'[j] = answer[j]
  BY <1>1 DEF Types, NoBlock
<1>4. Named'
  BY <1>1, <1>3 DEF Casting, Named
<1>5. ASSUME NEW j \in Inst, NEW w \in View
      PROVE  OnceEach(j, w)' /\ InTime(j, w)'
  <2>1. OnceEach(j, w) /\ InTime(j, w)
    BY DEF Casting
  <2>2. Asking(j, w)' = Asking(j, w) /\ ProposedIn(j, w)' = ProposedIn(j, w)
    BY <1>1, SameRequests
  <2>3. answer'[j].view = w => answer[j].view = w /\ j # i
    BY <1>3 DEF View
  <2>4. InTime(j, w)'
    BY <1>1, <2>1, <2>2, <2>3 DEF InTime, Target
  <2>5. w > view'[j] \/ (w = view'[j] /\ ~asked'[j]) => w > view[j] \/ (w = view[j] /\ ~asked[j])
    <3>1. w \in Nat /\ view[j] \in Nat /\ view'[j] \in Nat
      BY <1>2 DEF Types, View
    <3> QED
      BY <1>2, <3>1
  <2>6. OnceEach(j, w)'
    BY <1>1, <1>2, <2>1, <2>2, <2>3, <2>5 DEF OnceEach
  <2> QED
    BY <2>4, <2>6
<1> QED
  BY <1>4, <1>5 DEF Casting

\* Every step keeps the invariant on the casting of proposals.
LEMMA NextCasting ==
  ASSUME Types, Casting, [Next]_vars
  PROVE  Casting'
<1>1. ASSUME NEW i \in Inst, NEW v \in View, ParentArrives(i, v) \/ Abort(i, v) \/ SecondPickup(i, v) \/ Rebuild(i, v)
      PROVE  Casting'
  <2>1. /\ task[i][v].phase # "idle" /\ task[i][v].phase # "done"
        /\ UNCHANGED <<now, view, asked, answer, mailbox, proposed>>
    BY <1>1 DEF ParentArrives, Abort, SecondPickup, Rebuild
  <2>2. PICK phase, txs : /\ Becomes(i, v, phase, txs) /\ phase # "idle"
                          /\ phase \in {"rebuild", "respond"} => now >= Target(i, v)
    <3>1. CASE ParentArrives(i, v)
      BY <3>1, TaskMoves
    <3>2. CASE Abort(i, v)
      BY <3>2, TaskMoves
    <3>3. CASE SecondPickup(i, v)
      BY <3>3, TaskMoves DEF SecondPickup
    <3>4. CASE Rebuild(i, v)
      <4>1. now >= Target(i, v)
        BY <3>4 DEF Rebuild, Casting, InTime
      <4> QED
        BY <3>4, <4>1, TaskMoves
    <3> QED
      BY <1>1, <3>1, <3>2, <3>3, <3>4
  <2> QED
    BY <2>1, <2>2, OneTaskCasts
<1>2. ASSUME UNCHANGED <<view, asked, answer, mailbox, task, proposed>>, now' \in Nat, now' >= now
      PROVE  Casting'
  <2>1. Named'
    BY <1>2 DEF Casting, Named
  <2>2. ASSUME NEW j \in Inst, NEW w \in View
        PROVE  OnceEach(j, w)' /\ InTime(j, w)'
    <3>1. OnceEach(j, w) /\ InTime(j, w)
      BY DEF Casting
    <3>2. Asking(j, w)' = Asking(j, w) /\ ProposedIn(j, w)' = ProposedIn(j, w)
      BY <1>2, SameRequests
    <3>3. Target(j, w)' = Target(j, w) /\ now >= Target(j, w) => now' >= Target(j, w)
      BY <1>2, TargetType DEF Types, Target
    <3>4. Target(j, w)' = Target(j, w)
      BY DEF Target
    <3>5. OnceEach(j, w)'
      BY <1>2, <3>1, <3>2 DEF OnceEach
    <3>6. InTime(j, w)'
      BY <1>2, <3>1, <3>2, <3>3, <3>4 DEF InTime
    <3> QED
      BY <3>5, <3>6
  <2> QED
    BY <2>1, <2>2 DEF Casting
<1>3. ASSUME Tick \/ UNCHANGED vars \/ \E t \in Txs : Submit(t)
      PROVE  UNCHANGED <<view, asked, answer, mailbox, task, proposed>> /\ now' \in Nat /\ now' >= now
  BY <1>3 DEF Tick, vars, Submit, Types
<1> QED
  BY <1>1, <1>2, <1>3, AskCasts, ProposeCasts, BroadcastCasts, CastCasts, RespondCasts, DropCasts, Zenon
  DEF Next, Handle, TaskStep

-----------------------------------------------------------------------------
(* The order of arrival. *)

\* What has arrived in some order has, when more arrives.
LEMMA MoreArrives ==
  ASSUME Types, NEW t, arrivals' = Append(arrivals, t) \/ arrivals' = arrivals, arrivals' \in Seq(Txs)
  PROVE  /\ \A x, y : Precedes(x, y) => Precedes(x, y)'
         /\ \A s : Ordered(s) => Ordered(s)'
         /\ \A s : Arrived(s) => Arrived(s)'
<1>1. /\ Len(arrivals) \in Nat /\ Len(arrivals') \in Nat /\ Len(arrivals) <= Len(arrivals')
      /\ \A j \in 1 .. Len(arrivals) : arrivals'[j] = arrivals[j]
  BY DEF Types
<1>2. 1 .. Len(arrivals) \subseteq 1 .. Len(arrivals')
  BY <1>1
<1>3. \A x, y : Precedes(x, y) => Precedes(x, y)'
  BY <1>1, <1>2 DEF Precedes
<1>4. \A s : Ordered(s) => Ordered(s)'
  BY <1>3 DEF Ordered
<1>5. \A s : Arrived(s) => Arrived(s)'
  BY <1>1, <1>2 DEF Arrived, InSeq
<1> QED
  BY <1>3, <1>4, <1>5

\* Every arrival comes after those before it.
LEMMA LastArrival ==
  ASSUME Types, NEW t \in Txs, arrivals' = Append(arrivals, t), NEW x, InSeq(x, arrivals)
  PROVE  Precedes(x, t)' /\ InSeq(t, arrivals')
<1>1. /\ Len(arrivals) \in Nat /\ Len(arrivals') = Len(arrivals) + 1 /\ arrivals'[Len(arrivals) + 1] = t
      /\ \A j \in 1 .. Len(arrivals) : arrivals'[j] = arrivals[j]
  BY DEF Types
<1>2. PICK j \in 1 .. Len(arrivals) : arrivals[j] = x
  BY DEF InSeq
<1>3. PICK k : k = Len(arrivals) + 1
  OBVIOUS
<1>4. j \in 1 .. Len(arrivals') /\ k \in 1 .. Len(arrivals') /\ j < k /\ arrivals'[j] = x /\ arrivals'[k] = t
  BY <1>1, <1>2, <1>3
<1> QED
  BY <1>4 DEF Precedes, InSeq

\* A new transaction goes behind all others.
LEMMA SubmitInOrder ==
  ASSUME Types, Types', InOrder, NEW t \in Txs, Submit(t)
  PROVE  InOrder'
<1>1. /\ pool' = Append(pool, t) /\ arrivals' = Append(arrivals, t)
      /\ UNCHANGED <<task, answer, proposed>>
  BY DEF Submit
<1>2. /\ Len(pool) \in Nat /\ Len(pool') = Len(pool) + 1 /\ pool'[Len(pool) + 1] = t
      /\ \A j \in 1 .. Len(pool) : pool'[j] = pool[j]
  BY <1>1 DEF Types
<1>3. /\ \A x, y : Precedes(x, y) => Precedes(x, y)'
      /\ \A s : Ordered(s) => Ordered(s)'
      /\ \A s : Arrived(s) => Arrived(s)'
  BY <1>1, MoreArrives DEF Types
<1>4. \A x : InSeq(x, arrivals) => Precedes(x, t)'
  BY <1>1, LastArrival
<1>5. InSeq(t, arrivals')
  <2>1. /\ Len(arrivals) \in Nat /\ Len(arrivals') = Len(arrivals) + 1 /\ arrivals'[Len(arrivals) + 1] = t
    BY <1>1 DEF Types
  <2> QED
    BY <2>1 DEF InSeq
<1>6. \A k \in 1 .. Len(pool') : k \in 1 .. Len(pool) \/ k = Len(pool) + 1
  BY <1>2
<1>7. Ordered(pool)'
  <2> SUFFICES ASSUME NEW j \in 1 .. Len(pool'), NEW k \in 1 .. Len(pool'), j < k
               PROVE  Precedes(pool[j], pool[k])'
    BY DEF Ordered
  <2>1. j \in 1 .. Len(pool)
    BY <1>2
  <2>2. CASE k \in 1 .. Len(pool)
    BY <1>2, <1>3, <2>1, <2>2 DEF InOrder, Ordered
  <2>3. CASE k = Len(pool) + 1
    BY <1>2, <1>4, <2>1, <2>3 DEF InOrder, Arrived
  <2> QED
    BY <1>6, <2>2, <2>3
<1>8. Arrived(pool)'
  <2> SUFFICES ASSUME NEW k \in 1 .. Len(pool')
               PROVE  InSeq(pool[k], arrivals)'
    BY DEF Arrived
  <2>1. CASE k \in 1 .. Len(pool)
    BY <1>2, <1>3, <2>1 DEF InOrder, Arrived
  <2>2. CASE k = Len(pool) + 1
    BY <1>2, <1>5, <2>2
  <2> QED
    BY <1>6, <2>1, <2>2
<1>9. \A s : Arrived(s) /\ AheadOfPool(s) => AheadOfPool(s)'
  <2> SUFFICES ASSUME NEW s, Arrived(s), AheadOfPool(s), NEW j \in 1 .. Len(s), NEW k \in 1 .. Len(pool')
               PROVE  Precedes(s[j], pool[k])'
    BY DEF AheadOfPool
  <2>1. CASE k \in 1 .. Len(pool)
    BY <1>2, <1>3, <2>1 DEF AheadOfPool
  <2>2. CASE k = Len(pool) + 1
    BY <1>2, <1>4, <2>2 DEF Arrived
  <2> QED
    BY <1>6, <2>1, <2>2
<1> QED
  BY <1>1, <1>3, <1>7, <1>8, <1>9 DEF InOrder

\* A pickup leaves the order as it was: what it takes is ordered and ahead of
\* what it leaves.
LEMMA PickUpInOrder ==
  ASSUME Types, Ordered(pool), Arrived(pool), NEW n \in 0 .. MaxBlock
  PROVE  /\ Ordered(PickUp(n)) /\ Arrived(PickUp(n)) /\ Ordered(Rest(n)) /\ Arrived(Rest(n))
         /\ \A j \in 1 .. Len(PickUp(n)), k \in 1 .. Len(Rest(n)) : Precedes(PickUp(n)[j], Rest(n)[k])
         /\ \A s : AheadOfPool(s) =>
              /\ \A j \in 1 .. Len(s), k \in 1 .. Len(PickUp(n)) : Precedes(s[j], PickUp(n)[k])
              /\ \A j \in 1 .. Len(s), k \in 1 .. Len(Rest(n)) : Precedes(s[j], Rest(n)[k])
<1>1. Len(pool) \in Nat
  BY DEF Types
<1>2. PICK m \in 0 .. Len(pool) :
        /\ Len(PickUp(n)) = m
        /\ \A j \in 1 .. m : PickUp(n)[j] = pool[j]
        /\ Len(Rest(n)) = Len(pool) - m
        /\ \A j \in 1 .. Len(pool) - m : Rest(n)[j] = pool[j + m]
  BY PickUpSplits, Zenon DEF Types
<1>3. /\ \A j \in 1 .. m : j \in 1 .. Len(pool)
      /\ \A j \in 1 .. Len(pool) - m : j + m \in 1 .. Len(pool)
      /\ \A j \in 1 .. m, k \in 1 .. Len(pool) - m : j < k + m
      /\ \A j, k \in 1 .. Len(pool) - m : j < k => j + m < k + m
  BY <1>1
<1>4. Ordered(PickUp(n)) /\ Arrived(PickUp(n))
  BY <1>2, <1>3 DEF Ordered, Arrived
<1>5. Ordered(Rest(n)) /\ Arrived(Rest(n))
  BY <1>2, <1>3 DEF Ordered, Arrived
<1>6. \A j \in 1 .. Len(PickUp(n)), k \in 1 .. Len(Rest(n)) : Precedes(PickUp(n)[j], Rest(n)[k])
  BY <1>2, <1>3 DEF Ordered
<1>7. \A s : AheadOfPool(s) =>
        /\ \A j \in 1 .. Len(s), k \in 1 .. Len(PickUp(n)) : Precedes(s[j], PickUp(n)[k])
        /\ \A j \in 1 .. Len(s), k \in 1 .. Len(Rest(n)) : Precedes(s[j], Rest(n)[k])
  BY <1>2, <1>3 DEF AheadOfPool
<1> QED
  BY <1>4, <1>5, <1>6, <1>7

\* A pickup by the task of <<i, v>>, to what it has already.
LEMMA TaskPicksUp ==
  ASSUME Types, InOrder, NEW i \in Inst, NEW v \in View, NEW n \in 0 .. MaxBlock,
         NEW s \in Seq(Txs), Ordered(s), Arrived(s), AheadOfPool(s),
         NEW phase, Becomes(i, v, phase, s \o PickUp(n)), pool' = Rest(n),
         UNCHANGED <<arrivals, answer, proposed>>
  PROVE  InOrder'
<1>1. PICK p \in Seq(Txs), r \in Seq(Txs) : p = PickUp(n) /\ r = Rest(n)
  BY PickUpSplits DEF Types
<1>2. /\ Ordered(p) /\ Arrived(p) /\ Ordered(r) /\ Arrived(r)
      /\ \A j \in 1 .. Len(p), k \in 1 .. Len(r) : Precedes(p[j], r[k])
      /\ \A q : AheadOfPool(q) =>
           /\ \A j \in 1 .. Len(q), k \in 1 .. Len(p) : Precedes(q[j], p[k])
           /\ \A j \in 1 .. Len(q), k \in 1 .. Len(r) : Precedes(q[j], r[k])
  BY <1>1, PickUpInOrder, Zenon DEF InOrder
<1>3. /\ \A x, y : Precedes(x, y)' <=> Precedes(x, y)
      /\ \A q : Ordered(q)' <=> Ordered(q)
      /\ \A q : Arrived(q)' <=> Arrived(q)
  BY DEF Precedes, Ordered, Arrived, InSeq
<1>4. Ordered(pool)' /\ Arrived(pool)'
  <2>1. Ordered(r)' /\ Arrived(r)'
    BY <1>2, <1>3
  <2> QED
    BY <1>1, <2>1
<1>5. \A q : AheadOfPool(q) => AheadOfPool(q)'
  BY <1>1, <1>2, <1>3 DEF AheadOfPool
<1>6. PICK z : z = s \o p
  OBVIOUS
<1>7. /\ Len(s) \in Nat /\ Len(p) \in Nat /\ Len(z) = Len(s) + Len(p)
      /\ \A j \in 1 .. Len(z) : \/ j \in 1 .. Len(s) /\ z[j] = s[j]
                                \/ \E k \in 1 .. Len(p) : j = Len(s) + k /\ z[j] = p[k]
  <2>1. Len(s) \in Nat /\ Len(p) \in Nat /\ Len(z) = Len(s) + Len(p)
    BY <1>6
  <2>2. \A j \in 1 .. Len(s) : z[j] = s[j]
    BY <1>6
  <2>3. \A k \in 1 .. Len(p) : z[Len(s) + k] = p[k]
    BY <1>6
  <2>4. \A j \in 1 .. Len(z) : j \in 1 .. Len(s) \/ (j - Len(s) \in 1 .. Len(p) /\ j = Len(s) + (j - Len(s)))
    BY <2>1
  <2> QED
    BY <2>1, <2>2, <2>3, <2>4
<1>8. Ordered(z)
  <2> SUFFICES ASSUME NEW j \in 1 .. Len(z), NEW k \in 1 .. Len(z), j < k
               PROVE  Precedes(z[j], z[k])
    BY DEF Ordered
  <2>1. CASE k \in 1 .. Len(s) /\ z[k] = s[k]
    <3>1. j \in 1 .. Len(s) /\ z[j] = s[j]
      BY <1>7, <2>1
    <3> QED
      BY <2>1, <3>1 DEF Ordered
  <2>2. CASE \E b \in 1 .. Len(p) : k = Len(s) + b /\ z[k] = p[b]
    <3>1. PICK b \in 1 .. Len(p) : k = Len(s) + b /\ z[k] = p[b]
      BY <2>2
    <3>2. CASE j \in 1 .. Len(s) /\ z[j] = s[j]
      BY <1>2, <3>1, <3>2
    <3>3. CASE \E a \in 1 .. Len(p) : j = Len(s) + a /\ z[j] = p[a]
      <4>1. PICK a \in 1 .. Len(p) : j = Len(s) + a /\ z[j] = p[a]
        BY <3>3
      <4>2. a < b
        BY <1>7, <3>1, <4>1
      <4> QED
        BY <1>2, <3>1, <4>1, <4>2 DEF Ordered
    <3> QED
      BY <1>7, <3>2, <3>3
  <2> QED
    BY <1>7, <2>1, <2>2
<1>9. Arrived(z) /\ \A j \in 1 .. Len(z), k \in 1 .. Len(r) : Precedes(z[j], r[k])
  <2>1. ASSUME NEW j \in 1 .. Len(z)
        PROVE  InSeq(z[j], arrivals) /\ \A k \in 1 .. Len(r) : Precedes(z[j], r[k])
    <3>1. CASE j \in 1 .. Len(s) /\ z[j] = s[j]
      BY <1>2, <3>1 DEF Arrived
    <3>2. CASE \E a \in 1 .. Len(p) : j = Len(s) + a /\ z[j] = p[a]
      BY <1>2, <3>2 DEF Arrived
    <3> QED
      BY <1>7, <3>1, <3>2
  <2> QED
    BY <2>1 DEF Arrived
<1>10. AheadOfPool(z)'
  BY <1>1, <1>3, <1>9 DEF AheadOfPool
<1>11. ASSUME NEW j \in Inst, NEW w \in View
       PROVE  (Ordered(task[j][w].txs) /\ Arrived(task[j][w].txs) /\ AheadOfPool(task[j][w].txs))'
  <2>1. CASE <<j, w>> = <<i, v>>
    <3>1. task'[j][w].txs = z
      BY <1>1, <1>6, <2>1 DEF Becomes
    <3>2. Ordered(z)' /\ Arrived(z)' /\ AheadOfPool(z)'
      BY <1>3, <1>8, <1>9, <1>10
    <3> QED
      BY <3>1, <3>2
  <2>2. CASE <<j, w>> # <<i, v>>
    <3>1. PICK y : y = task[j][w].txs
      OBVIOUS
    <3>2. task'[j][w].txs = y
      BY <2>2, <3>1 DEF Becomes
    <3>3. Ordered(y)' /\ Arrived(y)' /\ AheadOfPool(y)'
      BY <1>3, <1>5, <3>1 DEF InOrder
    <3> QED
      BY <3>2, <3>3
  <2> QED
    BY <2>1, <2>2
<1>12. \A j \in Inst : Ordered(answer[j].txs)'
  BY <1>3 DEF InOrder
<1>13. \A q \in proposed' : Ordered(q[2].txs)'
  BY <1>3 DEF InOrder
<1> QED
  BY <1>4, <1>11, <1>12, <1>13 DEF InOrder

\* A step of a task that leaves the pool alone.
LEMMA TaskStaysInOrder ==
  ASSUME Types, InOrder, NEW i \in Inst, NEW v \in View, NEW phase, NEW s,
         Becomes(i, v, phase, s), s = task[i][v].txs \/ s = << >>,
         UNCHANGED <<pool, arrivals, proposed>>,
         \A j \in Inst : answer'[j] = answer[j] \/ answer'[j].txs = task[i][v].txs
  PROVE  InOrder'
<1>1. /\ \A q : Ordered(q)' <=> Ordered(q)
      /\ \A q : Arrived(q)' <=> Arrived(q)
      /\ \A q : AheadOfPool(q)' <=> AheadOfPool(q)
  BY DEF Precedes, Ordered, Arrived, InSeq, AheadOfPool
<1>2. Ordered(s) /\ Arrived(s) /\ AheadOfPool(s)
  BY DEF InOrder, Ordered, Arrived, AheadOfPool
<1>3. ASSUME NEW j \in Inst, NEW w \in View
      PROVE  (Ordered(task[j][w].txs) /\ Arrived(task[j][w].txs) /\ AheadOfPool(task[j][w].txs))'
  <2>1. PICK y : y = task'[j][w].txs
    OBVIOUS
  <2>2. y = s \/ y = task[j][w].txs
    BY <2>1 DEF Becomes
  <2>3. Ordered(y)' /\ Arrived(y)' /\ AheadOfPool(y)'
    BY <1>1, <1>2, <2>2 DEF InOrder
  <2> QED
    BY <2>1, <2>3
<1>4. ASSUME NEW j \in Inst
      PROVE  Ordered(answer[j].txs)'
  <2>1. PICK y : y = answer'[j].txs
    OBVIOUS
  <2>2. Ordered(y)
    BY <2>1 DEF InOrder
  <2> QED
    BY <1>1, <2>1, <2>2
<1>5. Ordered(pool)' /\ Arrived(pool)' /\ \A q \in proposed' : Ordered(q[2].txs)'
  BY <1>1 DEF InOrder
<1> QED
  BY <1>3, <1>4, <1>5 DEF InOrder

\* Every step keeps the invariant on the order of arrival.
LEMMA NextInOrder ==
  ASSUME Types, Types', InOrder, [Next]_vars
  PROVE  InOrder'
<1>1. ASSUME NEW i \in Inst, HandlePropose(i)
      PROVE  InOrder'
  <2>1. PICK v \in View : v = Head(mailbox[i]).view
    <3>1. mailbox[i] \in Seq(MessageSet) /\ mailbox[i] # << >>
      BY <1>1 DEF HandlePropose, Message, Types
    <3>2. Head(mailbox[i]) \in MessageSet
      BY <3>1
    <3> QED
      BY <3>2 DEF MessageSet
  <2>2. Becomes(i, v, "parent", PickUp(0)) /\ pool' = Rest(0) /\ UNCHANGED <<arrivals, answer, proposed>>
    BY <1>1, <2>1, TaskMoves DEF HandlePropose
  <2>3. 0 \in 0 .. MaxBlock
    BY ProposalsAssumption
  <2>4. PickUp(0) \in Seq(Txs)
    BY <2>3, PickUpSplits DEF Types
  <2>5. << >> \in Seq(Txs) /\ << >> \o PickUp(0) = PickUp(0)
    BY <2>4
  <2>6. Ordered(<< >>) /\ Arrived(<< >>) /\ AheadOfPool(<< >>)
    BY DEF Ordered, Arrived, AheadOfPool
  <2> QED
    BY <2>2, <2>3, <2>5, <2>6, TaskPicksUp
<1>2. ASSUME NEW i \in Inst, NEW v \in View, SecondPickup(i, v)
      PROVE  InOrder'
  <2>0. task[i][v] \in TaskSet
    BY DEF Types
  <2>1. PICK s \in Seq(Txs) : s = task[i][v].txs /\ Len(s) \in 0 .. MaxBlock
    <3>1. PICK x \in TaskSet : x = task[i][v]
      BY <2>0
    <3>2. x.txs \in Seq(Txs) /\ Len(x.txs) <= MaxBlock
      BY <3>1 DEF TaskSet
    <3>3. Len(x.txs) \in 0 .. MaxBlock
      BY <3>2, ProposalsAssumption
    <3> QED
      BY <3>1, <3>2, <3>3
  <2>2. /\ Becomes(i, v, "rebuild", s \o PickUp(Len(s))) /\ pool' = Rest(Len(s))
        /\ UNCHANGED <<arrivals, answer, proposed>>
    BY <1>2, <2>1, TaskMoves DEF SecondPickup
  <2>3. Ordered(s) /\ Arrived(s) /\ AheadOfPool(s)
    BY <2>1 DEF InOrder
  <2> QED
    BY <2>1, <2>2, <2>3, TaskPicksUp
<1>3. ASSUME NEW i \in Inst, NEW v \in View, ParentArrives(i, v) \/ Abort(i, v) \/ Rebuild(i, v) \/ Respond(i, v)
      PROVE  InOrder'
  <2>1. PICK phase, s : Becomes(i, v, phase, s) /\ (s = task[i][v].txs \/ s = << >>)
    BY <1>3, TaskMoves
  <2>2. UNCHANGED <<pool, arrivals, proposed>>
    BY <1>3 DEF ParentArrives, Abort, Rebuild, Respond
  <2>3. \A j \in Inst : answer'[j] = answer[j] \/ answer'[j].txs = task[i][v].txs
    BY <1>3 DEF ParentArrives, Abort, Rebuild, Respond, Types, Block
  <2> QED
    BY <2>1, <2>2, <2>3, TaskStaysInOrder
<1>4. ASSUME UNCHANGED <<pool, arrivals, task>>,
             \A j \in Inst : answer'[j] = answer[j] \/ answer'[j] = NoBlock,
             \A p \in proposed' : p \in proposed \/ \E j \in Inst : p[2] = answer[j]
      PROVE  InOrder'
  <2>1. /\ \A q : Ordered(q)' <=> Ordered(q)
        /\ \A q : Arrived(q)' <=> Arrived(q)
        /\ \A q : AheadOfPool(q)' <=> AheadOfPool(q)
    BY <1>4 DEF Precedes, Ordered, Arrived, InSeq, AheadOfPool
  <2>2. ASSUME NEW j \in Inst
        PROVE  Ordered(answer[j].txs)'
    <3>1. PICK y : y = answer'[j].txs
      OBVIOUS
    <3>2. Ordered(y)
      BY <1>4, <3>1 DEF InOrder, NoBlock, Ordered
    <3> QED
      BY <2>1, <3>1, <3>2
  <2>3. \A p \in proposed' : Ordered(p[2].txs)'
    BY <1>4, <2>1 DEF InOrder
  <2> QED
    BY <1>4, <2>1, <2>2, <2>3 DEF InOrder
<1>5. ASSUME NEW i \in Inst, EnterView(i) \/ AskProposal(i) \/ CastProposal(i) \/ RefuseAnswer(i) \/ HandleBroadcast(i)
      PROVE  /\ UNCHANGED <<pool, arrivals, task>>
             /\ \A j \in Inst : answer'[j] = answer[j] \/ answer'[j] = NoBlock
             /\ \A p \in proposed' : p \in proposed \/ \E j \in Inst : p[2] = answer[j]
  BY <1>5 DEF EnterView, AskProposal, CastProposal, RefuseAnswer, HandleBroadcast, Types
<1>6. CASE Tick \/ UNCHANGED vars
  BY <1>4, <1>6 DEF Tick, vars
<1> QED
  BY <1>1, <1>2, <1>3, <1>4, <1>5, <1>6, SubmitInOrder, Zenon DEF Next, Handle, TaskStep

-----------------------------------------------------------------------------
(* Every step, and what follows. *)

\* The invariant is inductive.
LEMMA NextIInv == IInv /\ [Next]_vars => IInv'
<1> SUFFICES ASSUME IInv, [Next]_vars
             PROVE  IInv'
  OBVIOUS
<1>1. Types /\ Casting /\ InOrder
  BY DEF IInv
<1> QED
  BY <1>1, NextTypes, NextCasting, NextInOrder DEF IInv

\* What the invariant gives.
LEMMA IInvImplies == IInv => TypeOK /\ ProposedInArrivalOrder /\ OneTimelyProposalPerView
<1> SUFFICES ASSUME IInv
             PROVE  TypeOK /\ ProposedInArrivalOrder /\ OneTimelyProposalPerView
  OBVIOUS
<1>1. \A b \in BlockSet : BlockType(b)
  BY DEF BlockSet, BlockType
<1>2. \A i \in Inst, v \in View : BlockType(Block(i, v))
  <2> SUFFICES ASSUME NEW i \in Inst, NEW v \in View
               PROVE  BlockType(Block(i, v))
    OBVIOUS
  <2>1. PICK x \in TaskSet : x = task[i][v]
    BY DEF IInv, Types
  <2>2. x.txs \in Seq(Txs) /\ Len(x.txs) <= MaxBlock
    BY <2>1 DEF TaskSet
  <2>3. Block(i, v) = [view |-> v, txs |-> x.txs]
    BY <2>1 DEF Block
  <2>4. v \in 0 .. MaxView
    BY ProposalsAssumption DEF View
  <2>5. Block(i, v).view = v /\ Block(i, v).txs = x.txs
    BY <2>3
  <2> QED
    BY <2>2, <2>4, <2>5 DEF BlockType
<1>3. TypeOK
  BY <1>1, <1>2 DEF IInv, Types, TypeOK
<1>4. ProposedInArrivalOrder
  BY DEF IInv, InOrder, Ordered, ProposedInArrivalOrder
<1>5. ASSUME NEW p \in proposed, NEW q \in proposed
      PROVE  /\ now >= Target(p[1], p[2].view)
             /\ p[1] = q[1] /\ p[2].view = q[2].view => p = q
  <2>1. p[1] \in Inst /\ p[2].view \in View
    BY DEF IInv, Types, Casting, Named
  <2>2. p \in ProposedIn(p[1], p[2].view)
    BY DEF ProposedIn
  <2>3. p[1] = q[1] /\ p[2].view = q[2].view => q \in ProposedIn(p[1], p[2].view)
    BY DEF ProposedIn
  <2>4. OnceEach(p[1], p[2].view) /\ InTime(p[1], p[2].view)
    BY <2>1 DEF IInv, Casting
  <2> QED
    BY <2>2, <2>3, <2>4 DEF OnceEach, InTime
<1>6. OneTimelyProposalPerView
  BY <1>5 DEF OneTimelyProposalPerView
<1> QED
  BY <1>3, <1>4, <1>6

\* The invariant holds in every state of every execution.
THEOREM Invariant == Spec => []IInv
<1>1. Init => IInv
  BY InitIInv
<1>2. IInv /\ [Next]_vars => IInv'
  BY NextIInv
<1> QED
  BY <1>1, <1>2, PTL DEF Spec

\* Type correctness: in particular no block holds more than
\* MAX_BLOCK_TRANSACTIONS, although it is filled in two pickups.
THEOREM TypeCorrect == Spec => []TypeOK
<1>1. IInv => TypeOK
  BY IInvImplies
<1> QED
  BY <1>1, Invariant, PTL

\* A proposal lists its transactions in the order in which the pool got them,
\* whatever the other tasks take between its two pickups.
THEOREM ArrivalOrder == Spec => []ProposedInArrivalOrder
<1>1. IInv => ProposedInArrivalOrder
  BY IInvImplies
<1> QED
  BY <1>1, Invariant, PTL

\* One proposal per instance and view, and not before tproposal.
THEOREM OneProposal == Spec => []OneTimelyProposalPerView
<1>1. IInv => OneTimelyProposalPerView
  BY IInvImplies
<1> QED
  BY <1>1, Invariant, PTL

-----------------------------------------------------------------------------
(* One place per arrival. *)

\* Sizes of sets that differ by an element.
LEMMA Sizes ==
  ASSUME NEW A, IsFiniteSet(A), NEW B, NEW x
  PROVE  /\ Cardinality(A) \in Nat
         /\ B \subseteq A \cup {x} => Cardinality(B) \in Nat /\ Cardinality(B) <= Cardinality(A) + 1
         /\ B \subseteq A => Cardinality(B) <= Cardinality(A)
         /\ B \subseteq A \ {x} /\ x \in A => Cardinality(B) + 1 <= Cardinality(A)
<1>1. Cardinality(A) \in Nat
  BY FS_CardinalityType
<1>2. ASSUME NEW S, IsFiniteSet(S), B \subseteq S
      PROVE  Cardinality(B) \in Nat /\ Cardinality(S) \in Nat /\ Cardinality(B) <= Cardinality(S)
  <2>1. IsFiniteSet(B) /\ Cardinality(B) <= Cardinality(S)
    BY <1>2, FS_Subset
  <2> QED
    BY <1>2, <2>1, FS_CardinalityType
<1>3. ASSUME B \subseteq A \cup {x}
      PROVE  Cardinality(B) \in Nat /\ Cardinality(B) <= Cardinality(A) + 1
  <2>1. IsFiniteSet(A \cup {x}) /\ Cardinality(A \cup {x}) <= Cardinality(A) + 1
    BY <1>1, FS_AddElement
  <2>2. /\ Cardinality(B) \in Nat /\ Cardinality(A \cup {x}) \in Nat
        /\ Cardinality(B) <= Cardinality(A \cup {x})
    BY <1>2, <1>3, <2>1
  <2> QED
    BY <1>1, <2>1, <2>2
<1>4. ASSUME B \subseteq A \ {x}, x \in A
      PROVE  Cardinality(B) + 1 <= Cardinality(A)
  <2>1. IsFiniteSet(A \ {x}) /\ Cardinality(A \ {x}) = Cardinality(A) - 1
    BY <1>4, FS_RemoveElement
  <2>2. Cardinality(B) \in Nat /\ Cardinality(B) <= Cardinality(A \ {x})
    BY <1>2, <1>4, <2>1
  <2> QED
    BY <1>1, <2>1, <2>2
<1> QED
  BY <1>1, <1>2, <1>3, <1>4

\* How often an element is in a sequence is a number.
LEMMA TimesIsNat ==
  ASSUME NEW s \in Seq(Txs), NEW t
  PROVE  /\ IsFiniteSet({ j \in 1 .. Len(s) : s[j] = t })
         /\ Times(t, s) \in Nat
<1>1. IsFiniteSet(1 .. Len(s))
  BY FS_Interval
<1>2. IsFiniteSet({ j \in 1 .. Len(s) : s[j] = t })
  BY <1>1, FS_Subset
<1> QED
  BY <1>2, FS_CardinalityType DEF Times

\* One more element at the end.
LEMMA TimesAppend ==
  ASSUME NEW s \in Seq(Txs), NEW u \in Txs, NEW t
  PROVE  Times(t, Append(s, u)) = IF u = t THEN Times(t, s) + 1 ELSE Times(t, s)
<1> DEFINE A == { j \in 1 .. Len(s) : s[j] = t }
           B == { j \in 1 .. Len(Append(s, u)) : Append(s, u)[j] = t }
<1>1. /\ Len(s) \in Nat /\ Len(Append(s, u)) = Len(s) + 1 /\ Append(s, u)[Len(s) + 1] = u
      /\ \A j \in 1 .. Len(s) : Append(s, u)[j] = s[j]
  BY AppendProperties, LenProperties
<1>2. B = IF u = t THEN A \cup {Len(s) + 1} ELSE A
  BY <1>1
<1>3. Len(s) + 1 \notin A
  BY <1>1
<1>4. IsFiniteSet(A)
  BY TimesIsNat
<1>5. Cardinality(A \cup {Len(s) + 1}) = Cardinality(A) + 1
  BY <1>3, <1>4, FS_AddElement
<1> QED
  BY <1>2, <1>5 DEF Times

\* What a pickup takes is not in the rest.
LEMMA TimesTaken ==
  ASSUME pool \in Seq(Txs), NEW n \in 0 .. MaxBlock, NEW t
  PROVE  /\ Times(t, Rest(n)) \in Nat /\ Times(t, Rest(n)) <= Times(t, pool)
         /\ InSeq(t, PickUp(n)) => Times(t, Rest(n)) + 1 <= Times(t, pool)
<1>1. PICK m \in 0 .. Len(pool) :
           /\ m <= MaxBlock - n
           /\ PickUp(n) \in Seq(Txs) /\ Len(PickUp(n)) = m
           /\ \A j \in 1 .. m : PickUp(n)[j] = pool[j]
           /\ Rest(n) \in Seq(Txs) /\ Len(Rest(n)) = Len(pool) - m
           /\ \A j \in 1 .. Len(pool) - m : Rest(n)[j] = pool[j + m]
  BY PickUpSplits
<1> DEFINE A == { j \in 1 .. Len(pool) : pool[j] = t }
           B == { j \in 1 .. Len(Rest(n)) : Rest(n)[j] = t }
           f == [j \in B |-> j + m]
<1>2. m \in Nat /\ Len(pool) \in Nat
  OBVIOUS
<1>3. /\ IsFiniteSet(A) /\ Cardinality(A) = Times(t, pool) /\ Times(t, pool) \in Nat
      /\ Cardinality(B) = Times(t, Rest(n)) /\ Times(t, Rest(n)) \in Nat
  BY <1>1, TimesIsNat DEF Times
<1>4. \A j \in B : j \in Nat /\ j + m \in A /\ j + m > m
  BY <1>1, <1>2
<1>5. f \in Injection(B, A)
  BY <1>1, <1>4 DEF Injection, IsInjective
<1>6. Cardinality(B) <= Cardinality(A)
  BY <1>3, <1>5, FS_Injection
<1>7. ASSUME InSeq(t, PickUp(n))
      PROVE  Cardinality(B) + 1 <= Cardinality(A)
  <2>1. PICK k \in 1 .. m : pool[k] = t
    BY <1>1, <1>7 DEF InSeq
  <2>2. k \in A
    BY <1>1, <2>1
  <2>3. f \in Injection(B, A \ {k})
    BY <1>1, <1>4, <2>1 DEF Injection, IsInjective
  <2>4. IsFiniteSet(A \ {k}) /\ Cardinality(A \ {k}) = Cardinality(A) - 1
    BY <1>3, <2>2, FS_RemoveElement
  <2>5. Cardinality(B) <= Cardinality(A \ {k})
    BY <2>3, <2>4, FS_Injection
  <2> QED
    BY <1>3, <2>4, <2>5
<1> QED
  BY <1>3, <1>6, <1>7

\* What is in neither sequence is not in their concatenation.
LEMMA InNeither ==
  ASSUME NEW s \in Seq(Txs), NEW q \in Seq(Txs), NEW t, ~InSeq(t, s), ~InSeq(t, q)
  PROVE  ~InSeq(t, s \o q)
<1>1. SUFFICES ASSUME NEW j \in 1 .. Len(s \o q)
               PROVE  (s \o q)[j] # t
  BY DEF InSeq
<1>2. /\ Len(s) \in Nat /\ Len(q) \in Nat /\ Len(s \o q) = Len(s) + Len(q)
      /\ (s \o q)[j] = IF j <= Len(s) THEN s[j] ELSE q[j - Len(s)]
  BY ConcatProperties, LenProperties
<1>3. CASE j <= Len(s)
  BY <1>2, <1>3 DEF InSeq
<1>4. CASE ~(j <= Len(s))
  <2>1. j - Len(s) \in 1 .. Len(q)
    BY <1>2, <1>4
  <2> QED
    BY <1>2, <1>4, <2>1 DEF InSeq
<1> QED
  BY <1>3, <1>4

\* A pool that does not change holds t as often as before.
LEMMA PoolKept ==
  ASSUME Types, UNCHANGED pool, NEW t
  PROVE  Times(t, pool') <= Times(t, pool)
<1>1. Times(t, pool) \in Nat
  BY TimesIsNat DEF Types
<1>2. Times(t, pool') = Times(t, pool)
  OBVIOUS
<1> QED
  BY <1>1, <1>2

\* The sets counted are finite.
LEMMA Countable ==
  ASSUME Types, IsFiniteSet(proposed), NEW t
  PROVE  /\ IsFiniteSet(HeldBy(t)) /\ IsFiniteSet(Answers(t)) /\ IsFiniteSet(Carriers(t))
         /\ Cardinality(HeldBy(t)) \in Nat /\ Cardinality(Answers(t)) \in Nat
         /\ Cardinality(Carriers(t)) \in Nat
         /\ Times(t, pool) \in Nat /\ Times(t, arrivals) \in Nat
<1>1. IsFiniteSet(Inst) /\ IsFiniteSet(View)
  <2>1. K - 1 \in Int /\ MaxView \in Int
    BY ProposalsAssumption
  <2> QED
    BY <2>1, 0 \in Int, 1 \in Int, FS_Interval DEF Inst, View
<1>2. IsFiniteSet(Inst \X View)
  BY <1>1, FS_Product
<1>3. IsFiniteSet(HeldBy(t)) /\ IsFiniteSet(Answers(t)) /\ IsFiniteSet(Carriers(t))
  <2>1. HeldBy(t) \in SUBSET (Inst \X View) /\ Answers(t) \in SUBSET Inst /\ Carriers(t) \in SUBSET proposed
    BY DEF HeldBy, Answers, Carriers
  <2> QED
    BY <1>1, <1>2, <2>1, FS_Subset
<1> QED
  BY <1>3, FS_CardinalityType, TimesIsNat DEF Types

\* A step of one task moves what that task holds.
LEMMA HeldAfter ==
  ASSUME NEW i \in Inst, NEW v \in View, NEW phase, NEW s, Becomes(i, v, phase, s), NEW t
  PROVE  /\ HeldBy(t)' \subseteq HeldBy(t) \cup {<<i, v>>}
         /\ phase = "done" \/ ~InSeq(t, s) => HeldBy(t)' \subseteq HeldBy(t) \ {<<i, v>>}
<1>1. \A c \in Inst \X View : c # <<i, v>> => (c \in HeldBy(t)' => c \in HeldBy(t))
  BY DEF Becomes, HeldBy, Live, InSeq
<1>2. phase = "done" \/ ~InSeq(t, s) => <<i, v>> \notin HeldBy(t)'
  BY DEF Becomes, HeldBy, Live, InSeq
<1>3. HeldBy(t)' \subseteq Inst \X View
  BY DEF HeldBy
<1> QED
  BY <1>1, <1>2, <1>3

\* Where an arrival of t can be.
Places(t) ==
  Times(t, pool) + Cardinality(HeldBy(t)) + Cardinality(Answers(t)) + Cardinality(Carriers(t))

\* A step that moves t from one place to another, or drops it.
LEMMA MovesOne ==
  ASSUME Types, Types', IsFiniteSet(proposed), IsFiniteSet(proposed'), NEW t,
         Places(t) <= Times(t, arrivals), UNCHANGED arrivals,
         NEW c, NEW i, NEW p,
         Times(t, pool') <= Times(t, pool),
         \/ /\ HeldBy(t)' \subseteq HeldBy(t)
            /\ \/ Answers(t)' \subseteq Answers(t) /\ Carriers(t)' \subseteq Carriers(t)
               \/ /\ Answers(t)' \subseteq Answers(t) \ {i} /\ i \in Answers(t)
                  /\ Carriers(t)' \subseteq Carriers(t) \cup {p}
         \/ /\ HeldBy(t)' \subseteq HeldBy(t) \ {c} /\ c \in HeldBy(t)
            /\ Answers(t)' \subseteq Answers(t) \cup {i} /\ Carriers(t)' \subseteq Carriers(t)
         \/ /\ Times(t, pool') + 1 <= Times(t, pool)
            /\ HeldBy(t)' \subseteq HeldBy(t) \cup {c}
            /\ Answers(t)' \subseteq Answers(t) /\ Carriers(t)' \subseteq Carriers(t)
  PROVE  Places(t)' <= Times(t, arrivals')
<1>1. PICK P, H, A, C, R :
        /\ P = Times(t, pool) /\ H = Cardinality(HeldBy(t)) /\ A = Cardinality(Answers(t))
        /\ C = Cardinality(Carriers(t)) /\ R = Times(t, arrivals)
  OBVIOUS
<1>2. PICK Q, I, B, D :
        /\ Q = Times(t, pool') /\ I = Cardinality(HeldBy(t)') /\ B = Cardinality(Answers(t)')
        /\ D = Cardinality(Carriers(t)')
  OBVIOUS
<1>3. /\ P \in Nat /\ H \in Nat /\ A \in Nat /\ C \in Nat /\ R \in Nat
      /\ IsFiniteSet(HeldBy(t)) /\ IsFiniteSet(Answers(t)) /\ IsFiniteSet(Carriers(t))
  BY <1>1, Countable
<1>4. Q \in Nat /\ Q <= P
  BY <1>1, <1>2, TimesIsNat DEF Types
<1>5. /\ HeldBy(t)' \subseteq HeldBy(t) => I \in Nat /\ I <= H
      /\ HeldBy(t)' \subseteq HeldBy(t) \cup {c} => I \in Nat /\ I <= H + 1
      /\ HeldBy(t)' \subseteq HeldBy(t) \ {c} /\ c \in HeldBy(t) => I \in Nat /\ I + 1 <= H
  BY <1>1, <1>2, <1>3, Sizes
<1>6. /\ Answers(t)' \subseteq Answers(t) => B \in Nat /\ B <= A
      /\ Answers(t)' \subseteq Answers(t) \cup {i} => B \in Nat /\ B <= A + 1
      /\ Answers(t)' \subseteq Answers(t) \ {i} /\ i \in Answers(t) => B \in Nat /\ B + 1 <= A
  BY <1>1, <1>2, <1>3, Sizes
<1>7. /\ Carriers(t)' \subseteq Carriers(t) => D \in Nat /\ D <= C
      /\ Carriers(t)' \subseteq Carriers(t) \cup {p} => D \in Nat /\ D <= C + 1
  BY <1>1, <1>2, <1>3, Sizes
<1>8. P + H + A + C <= R
  BY <1>1 DEF Places
<1>9. Q + I + B + D <= R
  <2>1. CASE /\ HeldBy(t)' \subseteq HeldBy(t)
             /\ Answers(t)' \subseteq Answers(t) /\ Carriers(t)' \subseteq Carriers(t)
    BY <1>3, <1>4, <1>5, <1>6, <1>7, <1>8, <2>1
  <2>2. CASE /\ HeldBy(t)' \subseteq HeldBy(t)
             /\ Answers(t)' \subseteq Answers(t) \ {i} /\ i \in Answers(t)
             /\ Carriers(t)' \subseteq Carriers(t) \cup {p}
    BY <1>3, <1>4, <1>5, <1>6, <1>7, <1>8, <2>2
  <2>3. CASE /\ HeldBy(t)' \subseteq HeldBy(t) \ {c} /\ c \in HeldBy(t)
             /\ Answers(t)' \subseteq Answers(t) \cup {i} /\ Carriers(t)' \subseteq Carriers(t)
    BY <1>3, <1>4, <1>5, <1>6, <1>7, <1>8, <2>3
  <2>4. CASE /\ Times(t, pool') + 1 <= Times(t, pool)
             /\ HeldBy(t)' \subseteq HeldBy(t) \cup {c}
             /\ Answers(t)' \subseteq Answers(t) /\ Carriers(t)' \subseteq Carriers(t)
    <3>1. Q + 1 <= P
      BY <1>1, <1>2, <2>4
    <3> QED
      BY <1>3, <1>4, <1>5, <1>6, <1>7, <1>8, <2>4, <3>1
  <2> QED
    BY <2>1, <2>2, <2>3, <2>4
<1>10. Places(t)' = Q + I + B + D
  BY <1>2 DEF Places
<1> QED
  BY <1>1, <1>9, <1>10

\* A submission arrives in the pool.
LEMMA SubmitPlaces ==
  ASSUME Types, Types', IsFiniteSet(proposed), NEW u \in Txs, Submit(u), NEW t,
         Places(t) <= Times(t, arrivals)
  PROVE  Places(t)' <= Times(t, arrivals')
<1>1. /\ pool' = Append(pool, u) /\ arrivals' = Append(arrivals, u)
      /\ UNCHANGED <<task, answer, proposed>>
  BY DEF Submit
<1>2. HeldBy(t)' = HeldBy(t) /\ Answers(t)' = Answers(t) /\ Carriers(t)' = Carriers(t)
  BY <1>1 DEF HeldBy, Live, Answers, Carriers
<1>3. /\ Times(t, pool') = IF u = t THEN Times(t, pool) + 1 ELSE Times(t, pool)
      /\ Times(t, arrivals') = IF u = t THEN Times(t, arrivals) + 1 ELSE Times(t, arrivals)
  BY <1>1, TimesAppend DEF Types
<1>4. PICK P, H, A, C, R :
        /\ P = Times(t, pool) /\ H = Cardinality(HeldBy(t)) /\ A = Cardinality(Answers(t))
        /\ C = Cardinality(Carriers(t)) /\ R = Times(t, arrivals)
  OBVIOUS
<1>5. P \in Nat /\ H \in Nat /\ A \in Nat /\ C \in Nat /\ R \in Nat
  BY <1>4, Countable
<1>6. P + H + A + C <= R
  BY <1>4 DEF Places
<1>7. Places(t)' = Times(t, pool') + H + A + C
  BY <1>2, <1>4 DEF Places
<1> QED
  BY <1>3, <1>4, <1>5, <1>6, <1>7

\* A task takes transactions from the pool, on top of those it holds.
LEMMA PickUpPlaces ==
  ASSUME Types, Types', IsFiniteSet(proposed), NEW i \in Inst, NEW v \in View,
         NEW n \in 0 .. MaxBlock, NEW s \in Seq(Txs), NEW t,
         InSeq(t, s) => Live(i, v) /\ s = task[i][v].txs,
         NEW phase, Becomes(i, v, phase, s \o PickUp(n)), pool' = Rest(n),
         UNCHANGED <<arrivals, answer, proposed>>,
         Places(t) <= Times(t, arrivals)
  PROVE  Places(t)' <= Times(t, arrivals')
<1>1. Answers(t)' = Answers(t) /\ Carriers(t)' = Carriers(t)
  BY DEF Answers, Carriers
<1>2. /\ Times(t, pool') <= Times(t, pool)
      /\ InSeq(t, PickUp(n)) => Times(t, pool') + 1 <= Times(t, pool)
  BY TimesTaken DEF Types
<1>3. /\ HeldBy(t)' \subseteq HeldBy(t) \cup {<<i, v>>}
      /\ ~InSeq(t, s \o PickUp(n)) => HeldBy(t)' \subseteq HeldBy(t)
  BY HeldAfter
<1>4. ASSUME ~InSeq(t, PickUp(n))
      PROVE  HeldBy(t)' \subseteq HeldBy(t)
  <2>1. CASE InSeq(t, s)
    <3>1. Live(i, v) /\ s = task[i][v].txs
      BY <2>1
    <3>2. <<i, v>> \in HeldBy(t)
      BY <2>1, <3>1 DEF HeldBy
    <3> QED
      BY <1>3, <3>2
  <2>2. CASE ~InSeq(t, s)
    <3>1. PickUp(n) \in Seq(Txs)
      BY PickUpSplits DEF Types
    <3>2. ~InSeq(t, s \o PickUp(n))
      BY <1>4, <2>2, <3>1, InNeither
    <3> QED
      BY <1>3, <3>2
  <2> QED
    BY <2>1, <2>2
<1>5. CASE InSeq(t, PickUp(n))
  BY <1>1, <1>2, <1>3, <1>5, MovesOne
<1>6. CASE ~InSeq(t, PickUp(n))
  BY <1>1, <1>2, <1>4, <1>6, MovesOne
<1> QED
  BY <1>5, <1>6

\* A task moves on with what it holds, is given up, or answers.
LEMMA TaskPlaces ==
  ASSUME Types, Types', IsFiniteSet(proposed), NEW i \in Inst, NEW v \in View,
         ParentArrives(i, v) \/ Abort(i, v) \/ Rebuild(i, v) \/ Respond(i, v),
         NEW t, Places(t) <= Times(t, arrivals)
  PROVE  Places(t)' <= Times(t, arrivals')
<1>1. UNCHANGED <<pool, arrivals, proposed>> /\ Live(i, v)
  BY DEF ParentArrives, Abort, Rebuild, Respond, Live
<1>2. /\ Carriers(t)' = Carriers(t)
      /\ Times(t, pool') <= Times(t, pool)
  BY <1>1, PoolKept DEF Carriers
<1>3. InSeq(t, task[i][v].txs) => <<i, v>> \in HeldBy(t)
  BY <1>1 DEF HeldBy
<1>4. CASE ParentArrives(i, v) \/ Rebuild(i, v)
  <2>1. PICK phase : Becomes(i, v, phase, task[i][v].txs)
    BY <1>4, TaskMoves
  <2>2. HeldBy(t)' \subseteq HeldBy(t)
    BY <1>3, <2>1, HeldAfter
  <2>3. Answers(t)' = Answers(t)
    BY <1>4 DEF Answers, ParentArrives, Rebuild
  <2> QED
    BY <1>1, <1>2, <2>2, <2>3, MovesOne
<1>5. CASE Abort(i, v)
  <2>1. HeldBy(t)' \subseteq HeldBy(t)
    BY <1>5, TaskMoves, HeldAfter
  <2>2. Answers(t)' = Answers(t)
    BY <1>5 DEF Answers, Abort
  <2> QED
    BY <1>1, <1>2, <2>1, <2>2, MovesOne
<1>6. CASE Respond(i, v)
  <2>1. HeldBy(t)' \subseteq HeldBy(t) \ {<<i, v>>}
    BY <1>6, TaskMoves, HeldAfter
  <2>2. /\ \A j \in Inst : j # i => answer'[j] = answer[j]
        /\ answer'[i] = answer[i] \/ answer'[i].txs = task[i][v].txs
    BY <1>6 DEF Respond, Block, Types
  <2>3. CASE InSeq(t, task[i][v].txs)
    <3>1. Answers(t)' \subseteq Answers(t) \cup {i}
      BY <2>2 DEF Answers
    <3> QED
      BY <1>1, <1>2, <1>3, <2>1, <2>3, <3>1, MovesOne
  <2>4. CASE ~InSeq(t, task[i][v].txs)
    <3>1. Answers(t)' \subseteq Answers(t)
      BY <2>2, <2>4 DEF Answers
    <3> QED
      BY <1>1, <1>2, <2>1, <3>1, MovesOne
  <2> QED
    BY <2>3, <2>4
<1> QED
  BY <1>4, <1>5, <1>6

\* The voter casts an answer.
LEMMA CastPlaces ==
  ASSUME Types, Types', IsFiniteSet(proposed), IsFiniteSet(proposed'), NEW i \in Inst, CastProposal(i),
         NEW t, Places(t) <= Times(t, arrivals)
  PROVE  Places(t)' <= Times(t, arrivals')
<1>1. /\ UNCHANGED <<pool, arrivals, task>> /\ answer' = [answer EXCEPT ![i] = NoBlock]
      /\ proposed' = proposed \cup {<<i, answer[i]>>}
  BY DEF CastProposal
<1>2. /\ HeldBy(t)' = HeldBy(t) /\ Times(t, pool') <= Times(t, pool)
  BY <1>1, PoolKept DEF HeldBy, Live
<1>3. Answers(t)' \subseteq Answers(t) \ {i}
  <2>1. ~InSeq(t, NoBlock.txs)
    BY DEF InSeq, NoBlock
  <2>2. \A j \in Inst : answer'[j] = IF j = i THEN NoBlock ELSE answer[j]
    BY <1>1 DEF Types
  <2> QED
    BY <2>1, <2>2 DEF Answers
<1>4. Carriers(t)' \subseteq Carriers(t) \cup {<<i, answer[i]>>}
  BY <1>1 DEF Carriers
<1>5. CASE InSeq(t, answer[i].txs)
  <2>1. i \in Answers(t)
    BY <1>5 DEF Answers
  <2> QED
    BY <1>1, <1>2, <1>3, <1>4, <2>1, MovesOne
<1>6. CASE ~InSeq(t, answer[i].txs)
  <2>1. Carriers(t)' \subseteq Carriers(t)
    BY <1>1, <1>6 DEF Carriers
  <2> QED
    BY <1>1, <1>2, <1>3, <2>1, MovesOne
<1> QED
  BY <1>5, <1>6

Placed == IsFiniteSet(proposed) /\ OnePlacePerArrival

\* Every step keeps each arrival in one place.
LEMMA NextPlaced ==
  ASSUME Types, Types', Placed, [Next]_vars
  PROVE  Placed'
<1>1. IsFiniteSet(proposed')
  <2>1. proposed' = proposed \/ \E i \in Inst : proposed' = proposed \cup {<<i, answer[i]>>}
    BY DEF Next, Tick, Submit, EnterView, AskProposal, CastProposal, RefuseAnswer, Handle,
           HandlePropose, HandleBroadcast, TaskStep, ParentArrives, Abort, SecondPickup,
           Rebuild, Respond, vars
  <2> QED
    BY <2>1, FS_AddElement DEF Placed
<1>2. SUFFICES ASSUME NEW t \in Txs
               PROVE  Places(t)' <= Times(t, arrivals')
  BY <1>1 DEF Placed, OnePlacePerArrival, Places
<1>3. Places(t) <= Times(t, arrivals) /\ IsFiniteSet(proposed)
  BY DEF Placed, OnePlacePerArrival, Places
<1>4. ASSUME NEW i \in Inst, HandlePropose(i)
      PROVE  Places(t)' <= Times(t, arrivals')
  <2>1. PICK v \in View : v = Head(mailbox[i]).view
    <3>1. mailbox[i] \in Seq(MessageSet) /\ mailbox[i] # << >>
      BY <1>4 DEF HandlePropose, Message, Types
    <3>2. Head(mailbox[i]) \in MessageSet
      BY <3>1
    <3> QED
      BY <3>2 DEF MessageSet
  <2>2. Becomes(i, v, "parent", PickUp(0)) /\ pool' = Rest(0) /\ UNCHANGED <<arrivals, answer, proposed>>
    BY <1>4, <2>1, TaskMoves DEF HandlePropose
  <2>3. 0 \in 0 .. MaxBlock
    BY ProposalsAssumption
  <2>4. PickUp(0) \in Seq(Txs)
    BY <2>3, PickUpSplits DEF Types
  <2>5. PICK s \in Seq(Txs) : s = << >>
    BY EmptySeq
  <2>6. ~InSeq(t, s) /\ s \o PickUp(0) = PickUp(0)
    BY <2>4, <2>5, ConcatEmptySeq, EmptySeq DEF InSeq
  <2>7. Becomes(i, v, "parent", s \o PickUp(0))
    BY <2>2, <2>6
  <2> QED
    BY <1>3, <2>2, <2>3, <2>6, <2>7, PickUpPlaces
<1>5. ASSUME NEW i \in Inst, NEW v \in View, SecondPickup(i, v)
      PROVE  Places(t)' <= Times(t, arrivals')
  <2>1. PICK x \in TaskSet : x = task[i][v]
    BY DEF Types
  <2>2. x.txs \in Seq(Txs) /\ Len(x.txs) \in 0 .. MaxBlock
    BY ProposalsAssumption DEF TaskSet
  <2>3. /\ Becomes(i, v, "rebuild", x.txs \o PickUp(Len(x.txs))) /\ pool' = Rest(Len(x.txs))
        /\ UNCHANGED <<arrivals, answer, proposed>>
    BY <1>5, <2>1, TaskMoves DEF SecondPickup
  <2>4. Live(i, v) /\ x.txs = task[i][v].txs
    BY <1>5, <2>1 DEF SecondPickup, Live
  <2> QED
    BY <1>3, <2>2, <2>3, <2>4, PickUpPlaces
<1>6. ASSUME NEW i \in Inst, NEW v \in View, ParentArrives(i, v) \/ Abort(i, v) \/ Rebuild(i, v) \/ Respond(i, v)
      PROVE  Places(t)' <= Times(t, arrivals')
  BY <1>3, <1>6, TaskPlaces
<1>7. ASSUME NEW i \in Inst, CastProposal(i)
      PROVE  Places(t)' <= Times(t, arrivals')
  BY <1>1, <1>3, <1>7, CastPlaces
<1>8. ASSUME UNCHANGED <<pool, arrivals, task, proposed>>,
             \A j \in Inst : answer'[j] = answer[j] \/ answer'[j] = NoBlock
      PROVE  Places(t)' <= Times(t, arrivals')
  <2>1. HeldBy(t)' = HeldBy(t) /\ Carriers(t)' = Carriers(t) /\ Times(t, pool') <= Times(t, pool)
    BY <1>8, PoolKept DEF HeldBy, Live, Carriers
  <2>2. Answers(t)' \subseteq Answers(t)
    BY <1>8 DEF Answers, InSeq, NoBlock
  <2> QED
    BY <1>3, <1>8, <2>1, <2>2, MovesOne
<1>9. ASSUME NEW i \in Inst, EnterView(i) \/ AskProposal(i) \/ RefuseAnswer(i) \/ HandleBroadcast(i)
      PROVE  Places(t)' <= Times(t, arrivals')
  BY <1>8, <1>9 DEF EnterView, AskProposal, RefuseAnswer, HandleBroadcast, Types
<1>10. ASSUME NEW u \in Txs, Submit(u)
       PROVE  Places(t)' <= Times(t, arrivals')
  BY <1>3, <1>10, SubmitPlaces
<1>11. CASE Tick \/ UNCHANGED vars
  BY <1>8, <1>11 DEF Tick, vars
<1> QED
  BY <1>4, <1>5, <1>6, <1>7, <1>9, <1>10, <1>11, Zenon DEF Next, Handle, TaskStep

\* At the start nothing has arrived and nothing is anywhere.
LEMMA InitPlaced == Init => Placed
<1> SUFFICES ASSUME Init PROVE Placed
  OBVIOUS
<1>1. IsFiniteSet(proposed)
  BY FS_EmptySet DEF Init
<1>2. ASSUME NEW t \in Txs
      PROVE  Places(t) <= Times(t, arrivals)
  <2>1. HeldBy(t) = {} /\ Answers(t) = {} /\ Carriers(t) = {}
    BY DEF Init, HeldBy, Live, Answers, Carriers, InSeq, Idle, NoBlock
  <2>2. Times(t, << >>) = 0
    <3>1. { j \in 1 .. Len(<< >>) : << >>[j] = t } = {}
      BY EmptySeq
    <3> QED
      BY <3>1, FS_EmptySet DEF Times
  <2>3. pool = << >> /\ arrivals = << >>
    BY DEF Init
  <2>4. Places(t) = 0 + 0 + 0 + 0
    BY <2>1, <2>2, <2>3, FS_EmptySet DEF Places
  <2> QED
    BY <2>2, <2>3, <2>4
<1> QED
  BY <1>1, <1>2 DEF Placed, OnePlacePerArrival, Places

\* No transaction is proposed more often than it arrived, and none is in two
\* places at a time, however the tasks of the instances share the pool.
THEOREM OnePlace == Spec => []OnePlacePerArrival
<1>1. IInv /\ IInv' /\ Placed /\ [Next]_vars => Placed'
  BY NextPlaced DEF IInv
<1>2. Placed => OnePlacePerArrival
  BY DEF Placed
<1> QED
  BY <1>1, <1>2, InitPlaced, Invariant, PTL DEF Spec
=============================================================================
