--------------------- MODULE AncestorFinalizationProofs ----------------------
(***************************************************************************)
(* Proofs about AncestorFinalization and AncestorWire, for a chain of any  *)
(* length, any reports, peers and number of faults: nothing that counts as *)
(* seen is lost, nothing below a forwarded block is, no request leaks, and *)
(* no task is handed another block than it asked for.                      *)
(***************************************************************************)
EXTENDS AncestorFinalization, SequenceTheorems, TLAPS

-----------------------------------------------------------------------------
(* The codec. *)

\* The fields of a message with several items.
LEMMA Fields ==
  ASSUME NEW k, NEW i, NEW S, NEW items \in Seq(S),
         NEW f, f = <<k, i, Len(items)>> \o items
  PROVE  /\ Len(f) = 3 + Len(items)
         /\ f[1] = k /\ f[2] = i /\ f[3] = Len(items)
         /\ SubSeq(f, 4, Len(f)) = items
<1> DEFINE T == S \cup {k, i} \cup Nat
<1>1. Len(items) \in Nat
  OBVIOUS
<1>2. items \in Seq(T) /\ <<k, i, Len(items)>> \in Seq(T)
  <2>1. items \in Seq(T)
    OBVIOUS
  <2>2. Len(items) \in T /\ k \in T /\ i \in T
    BY <1>1
  <2> HIDE DEF T
  <2> QED
    BY <2>1, <2>2
<1> HIDE DEF T
<1>3. f \in Seq(T) /\ Len(f) = 3 + Len(items)
  BY <1>1, <1>2
<1>4. /\ f[1] = k /\ f[2] = i /\ f[3] = Len(items)
      /\ \A j \in 1 .. Len(items) : f[j + 3] = items[j]
  BY <1>1, <1>2
<1>5. /\ SubSeq(f, 4, Len(f)) \in Seq(T)
      /\ Len(SubSeq(f, 4, Len(f))) = Len(items)
      /\ \A j \in 1 .. Len(items) : SubSeq(f, 4, Len(f))[j] = f[j + 3]
  BY <1>1, <1>3
<1>6. SubSeq(f, 4, Len(f)) = items
  BY <1>2, <1>4, <1>5, SeqEqual
<1> QED
  BY <1>3, <1>4, <1>6

\* AncestorFetcher::decode reads every request that encode wrote.
THEOREM RequestRoundTrip ==
  ASSUME NEW i, NEW S, NEW digests \in Seq(S)
  PROVE  Decode(Encode(Request(i, digests))) = Request(i, digests)
<1> DEFINE f == <<0, i, Len(digests)>> \o digests
<1>1. Encode(Request(i, digests)) = f
  BY DEF Encode, Request
<1>2. /\ Len(f) = 3 + Len(digests) /\ f[1] = 0 /\ f[2] = i /\ f[3] = Len(digests)
      /\ SubSeq(f, 4, Len(f)) = digests
  BY Fields
<1>3. Len(digests) \in Nat /\ SubSeq(digests, 1, Len(digests)) = digests
  BY SubSeqFull
<1> HIDE DEF f
<1>4. Decode(f) = DecodeRequest(i, Len(digests), digests)
  <2>1. ~(Len(f) < 3 \/ f[1] \notin {0, 1})
    BY <1>2, <1>3
  <2> QED
    BY <1>2, <2>1, Zenon DEF Decode
<1>5. DecodeRequest(i, Len(digests), digests) = Request(i, digests)
  <2>1. Len(digests) <= Len(digests)
    BY <1>3
  <2> QED
    BY <1>3, <2>1, Zenon DEF DecodeRequest
<1> QED
  BY <1>1, <1>4, <1>5

\* And every response with one block, but none with several: Block::decode
\* does not leave the rest of the message to the next block.
THEOREM ResponseRoundTrip ==
  ASSUME NEW i, NEW S, NEW blocks \in Seq(S)
  PROVE  Decode(Encode(Response(i, blocks)))
           = IF Len(blocks) <= 1 THEN Response(i, blocks) ELSE DecodeError
<1> DEFINE f == <<1, i, Len(blocks)>> \o blocks
<1>1. Encode(Response(i, blocks)) = f
  BY DEF Encode, Response
<1>2. /\ Len(f) = 3 + Len(blocks) /\ f[1] = 1 /\ f[2] = i /\ f[3] = Len(blocks)
      /\ SubSeq(f, 4, Len(f)) = blocks
  BY Fields
<1>3. Len(blocks) \in Nat /\ (Len(blocks) = 0 => blocks = << >>)
  BY EmptySeq
<1> HIDE DEF f
<1>4. Decode(f) = DecodeResponse(i, Len(blocks), blocks)
  <2>1. ~(Len(f) < 3 \/ f[1] \notin {0, 1}) /\ f[1] # 0
    BY <1>2, <1>3
  <2> QED
    BY <1>2, <2>1, Zenon DEF Decode
<1>5. DecodeResponse(i, Len(blocks), blocks)
        = IF Len(blocks) <= 1 THEN Response(i, blocks) ELSE DecodeError
  <2>1. CASE Len(blocks) = 0
    <3>1. Len(blocks) <= 1 /\ blocks = << >>
      BY <1>3, <2>1
    <3> QED
      BY <2>1, <3>1, Zenon DEF DecodeResponse
  <2>2. CASE Len(blocks) = 1
    <3>1. Len(blocks) <= 1 /\ Len(blocks) # 0
      BY <2>2
    <3> QED
      BY <2>2, <3>1, Zenon DEF DecodeResponse
  <2>3. CASE Len(blocks) \notin {0, 1}
    <3>1. \A n \in Nat : n \notin {0, 1} => ~(n <= 1) /\ n # 0 /\ n # 1
      OBVIOUS
    <3>2. ~(Len(blocks) <= 1) /\ Len(blocks) # 0 /\ Len(blocks) # 1
      BY <1>3, <2>3, <3>1, Zenon
    <3> QED
      BY <3>2, Zenon DEF DecodeResponse
  <2> QED
    BY <2>1, <2>2, <2>3
<1> QED
  BY <1>1, <1>4, <1>5

-----------------------------------------------------------------------------
(* The invariant. *)

\* The types without the messages, and the messages: each carries one block.
Types ==
  /\ reported \subseteq Triggers
  /\ handling \in Triggers \cup {0}
  /\ store \subseteq 1 .. N
  /\ finalizedSeen \subseteq 1 .. N
  /\ task \in [Triggers -> Task]
  /\ nextId \in Nat
  /\ pendingReqs \subseteq [id: Nat, block: 1 .. N, task: Triggers]
  /\ faults \in 0 .. MaxFaults
  /\ gaveUp \subseteq Triggers
  /\ sent \subseteq 1 .. N

OneBlockEach ==
  \A m \in wire :
    /\ m[1] \in 0 .. NumPeers - 1
    /\ Decode(m[2]).kind \in {"request", "response"}
    /\ \E h \in 1 .. N : Decode(m[2]).items = <<h>>

\* Where the cursor of a task can be, by what the task is doing.
Placed(t, phase, cursor) ==
  /\ phase \in {"walk", "local", "fetch", "wait", "rebuild"} => cursor < t
  /\ phase \in {"local", "fetch", "wait"} => cursor # 0
  /\ phase \in {"send", "mark"} => cursor \in 1 .. t - 1
  /\ phase = "last" => cursor = t

CursorInPlace ==
  \A t \in Triggers :
    /\ Placed(t, task[t].phase, task[t].cursor)
    /\ task[t].phase = "mark" => task[t].cursor \in sent

\* Only reported blocks have tasks; the one about to be marked as seen has one
\* that runs or is through.
TasksReported ==
  /\ \A t \in Triggers : task[t].phase # "idle" => t \in reported
  /\ handling # 0 => Running(handling) \/ handling \in sent

\* A pending request asks for the block under the cursor of its task.
RequestsInPlace ==
  \A r \in pendingReqs : r.block = task[r.task].cursor

\* Every block up to h is forwarded, or will be by a task that runs.
Covered(h) ==
  \A k \in 1 .. h : k \in sent \/ \E t \in Triggers : Running(t) /\ k <= t /\ t <= h

\* A task that has not given up has found the blocks between its cursor and
\* its trigger; what is below an ancestor it sends is covered.
Walked(t, phase, cursor, found) ==
  /\ phase \in {"walk", "local", "fetch", "wait"} => cursor + 1 .. t - 1 \subseteq found
  /\ phase = "rebuild" =>
       \E s \in 0 .. cursor : (s = 0 \/ s \in finalizedSeen) /\ s + 1 .. t - 1 \subseteq found
  /\ phase \in {"send", "mark", "last"} => Covered(cursor - 1)

WalkedDown == \A t \in Triggers : Walked(t, task[t].phase, task[t].cursor, task[t].found)

SentCovered == \A h \in sent : Covered(h)

Base == Types /\ OneBlockEach /\ CursorInPlace /\ TasksReported
Requests == RequestsInPlace /\ NoLeakedRequest /\ AnsweredWithBlockAskedFor
Order == SeenIsAccountedFor /\ (gaveUp = {} => WalkedDown /\ SentCovered)
IInv == Base /\ Requests /\ Order

-----------------------------------------------------------------------------
(* The initial states. *)

\* The invariant holds when the actor has started.
LEMMA InitIInv == Init => IInv
<1> SUFFICES ASSUME Init PROVE IInv
  OBVIOUS
<1> USE ChainAssumption, PeersAssumption, BoundsAssumption DEF Init
<1>1. IdleTask \in Task
  BY DEF IdleTask, Task, Phases, Empty
<1>2. \A t \in Triggers : task[t].phase = "idle"
  BY DEF IdleTask
<1>3. Base
  BY <1>1, <1>2 DEF Base, Types, OneBlockEach, CursorInPlace, Placed, TasksReported
<1>4. Requests
  BY <1>2 DEF Requests, RequestsInPlace, NoLeakedRequest, AnsweredWithBlockAskedFor
<1>5. Order
  BY <1>2 DEF Order, SeenIsAccountedFor, WalkedDown, Walked, SentCovered
<1> QED
  BY <1>3, <1>4, <1>5 DEF IInv

-----------------------------------------------------------------------------
(* Types and cursors. *)

\* What the answer in a response means for each task.
LEMMA Answered ==
  ASSUME Types, NEW m \in wire, ReceiveResponse(m), NEW u \in Triggers
  PROVE  \/ task'[u] = task[u]
            /\ \A r \in pendingReqs : r.task = u /\ r.id = task[u].id => r.id # Decode(m[2]).id
         \/ \E r \in pendingReqs :
              /\ r.task = u /\ r.id = task[u].id /\ r.id = Decode(m[2]).id
              /\ task'[u] = [task[u] EXCEPT !.reply = r.block] \/ task'[u] = [task[u] EXCEPT !.reply = Closed]
<1> DEFINE response == Decode(m[2])
           asked == { r \in pendingReqs : r.id = response.id }
           OfTask(t) == { r \in asked : r.task = t /\ r.id = task[t].id }
           Reply(r) == IF \E j \in 1 .. Len(response.items) : response.items[j] = r.block
                       THEN r.block ELSE Closed
<1>1. task'[u] = IF OfTask(u) = {} THEN task[u]
                 ELSE [task[u] EXCEPT !.reply = Reply(CHOOSE r \in OfTask(u) : TRUE)]
  BY DEF ReceiveResponse
<1>2. CASE OfTask(u) = {}
  BY <1>1, <1>2
<1>3. CASE OfTask(u) # {}
  <2>1. PICK r : r = (CHOOSE q \in OfTask(u) : TRUE) /\ r \in OfTask(u)
    BY <1>3
  <2>2. Reply(r) \in {r.block, Closed}
    OBVIOUS
  <2>3. task'[u] = [task[u] EXCEPT !.reply = Reply(r)]
    BY <1>1, <1>3, <2>1
  <2>4. r \in pendingReqs /\ r.task = u /\ r.id = task[u].id /\ r.id = response.id
    BY <2>1
  <2> QED
    BY <2>2, <2>3, <2>4
<1> QED
  BY <1>2, <1>3

\* Every step keeps the types of the state.
LEMMA NextTypes ==
  ASSUME Types, CursorInPlace, OneBlockEach, [Next]_vars
  PROVE  Types'
<1> USE ChainAssumption, PeersAssumption, BoundsAssumption
<1> USE DEF Types, Task, Phases, Empty, Closed, requestVars
<1>1. /\ IdleTask \in Task
      /\ \A t \in Triggers : /\ t \in 1 .. N /\ t - 1 \in 0 .. N /\ NextPeer(t) \in 0 .. NumPeers - 1
                              /\ task[t] \in Task
      /\ 0 \in 0 .. N + 1 /\ 0 \in 0 .. N /\ 0 \in 0 .. NumPeers - 1 /\ N + 1 \in 0 .. N + 1
  BY DEF IdleTask, NextPeer
<1>2. ASSUME NEW t \in Triggers, HandleFinalized(t)
      PROVE  Types'
  <2>1. [IdleTask EXCEPT !.phase = "walk", !.cursor = t - 1] \in Task
    BY <1>1 DEF IdleTask
  <2> QED
    BY <1>1, <1>2, <2>1 DEF HandleFinalized
<1>3. ASSUME NEW t \in Triggers, WalkEnds(t)
      PROVE  Types'
  BY <1>1, <1>3 DEF WalkEnds, CursorInPlace, Placed, NoAnswer, PendingOf, Goto
<1>4. ASSUME NEW t \in Triggers, WalkDown(t)
      PROVE  Types'
  BY <1>1, <1>4 DEF WalkDown, CursorInPlace, Placed, NoAnswer, PendingOf, Goto
<1>5. ASSUME NEW t \in Triggers, LocalHit(t)
      PROVE  Types'
  BY <1>1, <1>5 DEF LocalHit, CursorInPlace, Placed, NoAnswer, PendingOf, Goto
<1>6. ASSUME NEW t \in Triggers, LocalMiss(t)
      PROVE  Types'
  <2>1. task' = [task EXCEPT ![t].phase = "fetch", ![t].peer = 0]
    BY <1>6 DEF LocalMiss
  <2>2. task' \in [Triggers -> Task]
    <3>1. PICK x \in Task : x = task[t]
      BY <1>1
    <3>2. [x EXCEPT !.phase = "fetch", !.peer = 0] \in Task
      BY <1>1, <3>1
    <3>3. task' = [task EXCEPT ![t] = [x EXCEPT !.phase = "fetch", !.peer = 0]]
      BY <2>1, <3>1
    <3> QED
      BY <3>2, <3>3
  <2>3. faults' \in 0 .. MaxFaults
    BY <1>6 DEF LocalMiss
  <2> QED
    BY <1>6, <2>2, <2>3 DEF LocalMiss
<1>7. ASSUME NEW t \in Triggers, GiveUp(t)
      PROVE  Types'
  <2>1. task' = [task EXCEPT ![t].phase = "rebuild", ![t].cursor = t - 1]
    BY <1>7 DEF GiveUp
  <2>2. task' \in [Triggers -> Task]
    <3>1. PICK x \in Task : x = task[t]
      BY <1>1
    <3>2. [x EXCEPT !.phase = "rebuild", !.cursor = t - 1] \in Task
      BY <1>1, <3>1
    <3>3. task' = [task EXCEPT ![t] = [x EXCEPT !.phase = "rebuild", !.cursor = t - 1]]
      BY <2>1, <3>1
    <3> QED
      BY <3>2, <3>3
  <2>3. faults' \in 0 .. MaxFaults
    BY <1>7 DEF GiveUp
  <2> QED
    BY <1>7, <2>2, <2>3 DEF GiveUp
<1>8. ASSUME NEW t \in Triggers, SendRequest(t)
      PROVE  Types'
  <2>1. task' = [task EXCEPT ![t].phase = "wait", ![t].id = nextId, ![t].reply = Empty]
    BY <1>8 DEF SendRequest
  <2>2. task' \in [Triggers -> Task]
    <3>1. PICK x \in Task : x = task[t]
      BY <1>1
    <3>2. [x EXCEPT !.phase = "wait", !.id = nextId, !.reply = Empty] \in Task
      BY <1>1, <3>1
    <3>3. task' = [task EXCEPT ![t] = [x EXCEPT !.phase = "wait", !.id = nextId, !.reply = Empty]]
      BY <2>1, <3>1
    <3> QED
      BY <3>2, <3>3
  <2>3. task[t].cursor \in 1 .. N
    BY <1>1, <1>8 DEF SendRequest, CursorInPlace, Placed
  <2>4. /\ nextId' = nextId + 1
        /\ pendingReqs' = pendingReqs \cup {[id |-> nextId, block |-> task[t].cursor, task |-> t]}
    BY <1>8 DEF SendRequest
  <2>5. pendingReqs' \subseteq [id: Nat, block: 1 .. N, task: Triggers] /\ nextId' \in Nat
    BY <2>3, <2>4
  <2> QED
    BY <1>8, <2>2, <2>5 DEF SendRequest
<1>9. ASSUME NEW t \in Triggers, SendFails(t)
      PROVE  Types'
  BY <1>1, <1>9 DEF SendFails, CursorInPlace, Placed, NoAnswer, PendingOf, Goto
<1>10. ASSUME NEW t \in Triggers, TakeAnswer(t)
      PROVE  Types'
  <2>0. task[t].cursor \in 1 .. N
    BY <1>1, <1>10 DEF TakeAnswer, CursorInPlace, Placed
  <2>1. task' = [task EXCEPT ![t].phase = "walk", ![t].cursor = t - 1,
                                ![t].found = @ \cup {task[t].cursor}]
    BY <1>10 DEF TakeAnswer
  <2>2. task' \in [Triggers -> Task]
    <3>1. PICK x \in Task : x = task[t]
      BY <1>1
    <3>2. [x EXCEPT !.phase = "walk", !.cursor = t - 1,
                                !.found = @ \cup {x.cursor}] \in Task
      BY <1>1, <3>1, <2>0
    <3>3. task' = [task EXCEPT ![t] = [x EXCEPT !.phase = "walk", !.cursor = t - 1,
                                !.found = @ \cup {x.cursor}]]
      BY <2>1, <3>1
    <3> QED
      BY <3>2, <3>3
  <2>3. store' \subseteq 1 .. N /\ pendingReqs' \subseteq pendingReqs
    BY <1>10, <2>0 DEF TakeAnswer
  <2> QED
    BY <1>10, <2>2, <2>3 DEF TakeAnswer
<1>11. ASSUME NEW t \in Triggers, TimeOut(t)
      PROVE  Types'
  <2>1. task' = [task EXCEPT ![t].phase = "fetch", ![t].peer = NextPeer(t)]
    BY <1>11 DEF TimeOut, NoAnswer
  <2>2. task' \in [Triggers -> Task]
    <3>1. PICK x \in Task : x = task[t]
      BY <1>1
    <3>2. [x EXCEPT !.phase = "fetch", !.peer = NextPeer(t)] \in Task
      BY <1>1, <3>1
    <3>3. task' = [task EXCEPT ![t] = [x EXCEPT !.phase = "fetch", !.peer = NextPeer(t)]]
      BY <2>1, <3>1
    <3> QED
      BY <3>2, <3>3
  <2>3. faults' \in 0 .. MaxFaults /\ pendingReqs' \subseteq pendingReqs
    BY <1>11 DEF TimeOut, NoAnswer
  <2> QED
    BY <1>11, <2>2, <2>3 DEF TimeOut
<1>12. ASSUME NEW t \in Triggers, ReplyClosed(t)
      PROVE  Types'
  BY <1>1, <1>12 DEF ReplyClosed, CursorInPlace, Placed, NoAnswer, PendingOf, Goto
<1>13. ASSUME NEW t \in Triggers, RebuildDown(t)
      PROVE  Types'
  BY <1>1, <1>13 DEF RebuildDown, CursorInPlace, Placed, NoAnswer, PendingOf, Goto
<1>14. ASSUME NEW t \in Triggers, RebuildEnds(t)
      PROVE  Types'
  BY <1>1, <1>14 DEF RebuildEnds, CursorInPlace, Placed, NoAnswer, PendingOf, Goto
<1>15. ASSUME NEW t \in Triggers, SendAncestor(t)
      PROVE  Types'
  BY <1>1, <1>15 DEF SendAncestor, CursorInPlace, Placed, NoAnswer, PendingOf, Goto
<1>16. ASSUME NEW t \in Triggers, MarkAncestor(t)
      PROVE  Types'
  BY <1>1, <1>16 DEF MarkAncestor, CursorInPlace, Placed, NoAnswer, PendingOf, Goto
<1>17. ASSUME NEW t \in Triggers, SendTrigger(t)
      PROVE  Types'
  BY <1>1, <1>17 DEF SendTrigger, CursorInPlace, Placed, NoAnswer, PendingOf, Goto
<1>18. ASSUME NEW m \in wire, PeerHandles(m)
      PROVE  Types'
  BY <1>18 DEF PeerHandles, OneBlockEach
<1>19. ASSUME NEW m \in wire, ReceiveResponse(m)
      PROVE  Types'
  <2>1. \A u \in Triggers : task'[u] \in Task
    <3> SUFFICES ASSUME NEW u \in Triggers
                 PROVE  task'[u] \in Task
      OBVIOUS
    <3>1. task[u] \in Task
      BY <1>1
    <3>2. \A r \in pendingReqs : r.block \in 0 .. N + 1
      OBVIOUS
    <3>3. \A b \in 0 .. N + 1 : [task[u] EXCEPT !.reply = b] \in Task
      BY <3>1
    <3>4. Closed \in 0 .. N + 1
      OBVIOUS
    <3> HIDE DEF Types, Task, Closed
    <3>5. \/ task'[u] = task[u]
          \/ \E r \in pendingReqs :
               task'[u] = [task[u] EXCEPT !.reply = r.block] \/ task'[u] = [task[u] EXCEPT !.reply = Closed]
      BY <1>19, Answered, Zenon
    <3> QED
      BY <3>1, <3>2, <3>3, <3>4, <3>5, Zenon
  <2>2. task' \in [Triggers -> Task]
    <3>1. task' = [u \in Triggers |-> task'[u]]
      BY <1>19 DEF ReceiveResponse
    <3> QED
      BY <2>1, <3>1
  <2> QED
    BY <1>19, <2>2 DEF ReceiveResponse
<1>20. CASE MarkReported
  BY <1>1, <1>20 DEF MarkReported
<1>21. CASE Restart
  BY <1>1, <1>21 DEF Restart
<1>22. CASE UNCHANGED vars
  BY <1>1, <1>22 DEF vars
<1> QED
  BY <1>2, <1>3, <1>4, <1>5, <1>6, <1>7, <1>8, <1>9, <1>10, <1>11, <1>12, <1>13, <1>14, <1>15, <1>16, <1>17, <1>18, <1>19, <1>20, <1>21, <1>22, Zenon
  DEF Next, TaskStep, Walk, Fetch, Finish, Deliver

-----------------------------------------------------------------------------
(* What the steps of a task do to it. *)

\* The task of t becomes one with the phase, cursor and found blocks given;
\* the other tasks stay.
Becomes(t, phase, cursor, found) ==
  /\ task'[t].phase = phase /\ task'[t].cursor = cursor /\ task'[t].found = found
  /\ \A u \in Triggers : u # t => task'[u] = task[u]

\* What a step of the backward walk does to its task: phase, cursor, blocks found.
LEMMA WalkMoves ==
  ASSUME Types, NEW t \in Triggers
  PROVE  /\ HandleFinalized(t) => Becomes(t, "walk", t - 1, {})
         /\ WalkEnds(t) => Becomes(t, "rebuild", t - 1, task[t].found)
         /\ WalkDown(t) => IF task[t].cursor \in task[t].found
                           THEN Becomes(t, "walk", task[t].cursor - 1, task[t].found)
                           ELSE Becomes(t, "local", task[t].cursor, task[t].found)
         /\ LocalHit(t) => Becomes(t, "walk", task[t].cursor - 1, task[t].found \cup {task[t].cursor})
         /\ LocalMiss(t) => Becomes(t, "fetch", task[t].cursor, task[t].found)
<1>1. task \in [Triggers -> Task] /\ task[t] \in Task
  BY DEF Types
<1>2. HandleFinalized(t) => Becomes(t, "walk", t - 1, {})
  BY <1>1 DEF HandleFinalized, Becomes, IdleTask
<1>3. WalkEnds(t) => Becomes(t, "rebuild", t - 1, task[t].found)
  BY <1>1 DEF WalkEnds, Becomes, Task
<1>4. WalkDown(t) => IF task[t].cursor \in task[t].found
                     THEN Becomes(t, "walk", task[t].cursor - 1, task[t].found)
                     ELSE Becomes(t, "local", task[t].cursor, task[t].found)
  BY <1>1 DEF WalkDown, Becomes, Task
<1>5. LocalHit(t) => Becomes(t, "walk", task[t].cursor - 1, task[t].found \cup {task[t].cursor})
  BY <1>1 DEF LocalHit, Becomes, Task
<1>6. LocalMiss(t) => Becomes(t, "fetch", task[t].cursor, task[t].found)
  BY <1>1 DEF LocalMiss, Becomes, Task
<1> QED
  BY <1>2, <1>3, <1>4, <1>5, <1>6

\* What a step of the fetch from peers does to its task.
LEMMA FetchMoves ==
  ASSUME Types, NEW t \in Triggers
  PROVE  /\ GiveUp(t) => Becomes(t, "rebuild", t - 1, task[t].found)
         /\ SendRequest(t) => /\ Becomes(t, "wait", task[t].cursor, task[t].found)
                              /\ task'[t].id = nextId /\ task'[t].reply = Empty
         /\ SendFails(t) => Becomes(t, "fetch", task[t].cursor, task[t].found)
         /\ TakeAnswer(t) => Becomes(t, "walk", t - 1, task[t].found \cup {task[t].cursor})
         /\ TimeOut(t) \/ ReplyClosed(t) => Becomes(t, "fetch", task[t].cursor, task[t].found)
<1>1. task \in [Triggers -> Task] /\ task[t] \in Task
  BY DEF Types
<1>2. GiveUp(t) => Becomes(t, "rebuild", t - 1, task[t].found)
  BY <1>1 DEF GiveUp, Becomes, Task
<1>3. SendRequest(t) => /\ Becomes(t, "wait", task[t].cursor, task[t].found)
                        /\ task'[t].id = nextId /\ task'[t].reply = Empty
  <2> SUFFICES ASSUME SendRequest(t)
               PROVE  /\ Becomes(t, "wait", task[t].cursor, task[t].found)
                      /\ task'[t].id = nextId /\ task'[t].reply = Empty
    OBVIOUS
  <2>1. task' = [task EXCEPT ![t].phase = "wait", ![t].id = nextId, ![t].reply = Empty]
    BY DEF SendRequest
  <2> QED
    BY <1>1, <2>1 DEF Becomes, Task
<1>4. SendFails(t) => Becomes(t, "fetch", task[t].cursor, task[t].found)
  BY <1>1 DEF SendFails, Becomes, Task
<1>5. TakeAnswer(t) => Becomes(t, "walk", t - 1, task[t].found \cup {task[t].cursor})
  <2> SUFFICES ASSUME TakeAnswer(t)
               PROVE  Becomes(t, "walk", t - 1, task[t].found \cup {task[t].cursor})
    OBVIOUS
  <2>1. task' = [task EXCEPT ![t].phase = "walk", ![t].cursor = t - 1,
                             ![t].found = @ \cup {task[t].cursor}]
    BY DEF TakeAnswer
  <2> QED
    BY <1>1, <2>1 DEF Becomes, Task
<1>6. TimeOut(t) \/ ReplyClosed(t) => Becomes(t, "fetch", task[t].cursor, task[t].found)
  BY <1>1 DEF TimeOut, ReplyClosed, NoAnswer, Becomes, Task
<1> QED
  BY <1>2, <1>3, <1>4, <1>5, <1>6

\* What a step of the reconstruction and the sending does to its task.
LEMMA FinishMoves ==
  ASSUME Types, NEW t \in Triggers
  PROVE  /\ RebuildDown(t) => Becomes(t, "rebuild", task[t].cursor - 1, task[t].found)
         /\ RebuildEnds(t) \/ MarkAncestor(t) =>
              Becomes(t, IF task[t].cursor + 1 < t THEN "send" ELSE "last",
                      task[t].cursor + 1, task[t].found)
         /\ SendAncestor(t) => Becomes(t, "mark", task[t].cursor, task[t].found)
         /\ SendTrigger(t) => Becomes(t, "done", 0, {})
<1>1. task \in [Triggers -> Task] /\ task[t] \in Task
  BY DEF Types
<1>2. RebuildDown(t) => Becomes(t, "rebuild", task[t].cursor - 1, task[t].found)
  BY <1>1 DEF RebuildDown, Becomes, Task
<1>3. RebuildEnds(t) \/ MarkAncestor(t) =>
        Becomes(t, IF task[t].cursor + 1 < t THEN "send" ELSE "last",
                task[t].cursor + 1, task[t].found)
  BY <1>1 DEF RebuildEnds, MarkAncestor, Becomes, Task
<1>4. SendAncestor(t) => Becomes(t, "mark", task[t].cursor, task[t].found)
  BY <1>1 DEF SendAncestor, Goto, Becomes, Task
<1>5. SendTrigger(t) => Becomes(t, "done", 0, {})
  BY <1>1 DEF SendTrigger, Becomes, IdleTask
<1> QED
  BY <1>2, <1>3, <1>4, <1>5

\* A response changes nothing but what its task has in resp_rx.
LEMMA ResponseMoves ==
  ASSUME Types, NEW m \in wire, ReceiveResponse(m), NEW u \in Triggers
  PROVE  /\ task'[u].phase = task[u].phase /\ task'[u].cursor = task[u].cursor
         /\ task'[u].found = task[u].found /\ task'[u].id = task[u].id
<1>1. task[u] \in Task
  BY DEF Types
<1>2. \/ task'[u] = task[u]
      \/ \E r \in pendingReqs :
           task'[u] = [task[u] EXCEPT !.reply = r.block] \/ task'[u] = [task[u] EXCEPT !.reply = Closed]
  BY Answered, Zenon
<1> QED
  BY <1>1, <1>2 DEF Task

-----------------------------------------------------------------------------
(* Messages, cursors and reports. *)

\* A request for one block, and the answer to it, are read as they were sent.
LEMMA NextOneBlockEach ==
  ASSUME Base, [Next]_vars
  PROVE  OneBlockEach'
<1> USE ChainAssumption, PeersAssumption
<1>1. ASSUME NEW t \in Triggers, SendRequest(t)
      PROVE  OneBlockEach'
  <2>1. task[t].cursor \in 1 .. N
    BY <1>1 DEF SendRequest, Base, Types, CursorInPlace, Placed, Task
  <2>2. task[t].peer \in 0 .. NumPeers - 1
    BY DEF Base, Types, Task
  <2>3. <<task[t].cursor>> \in Seq(1 .. N)
    BY <2>1
  <2>4. Decode(Encode(Request(nextId, <<task[t].cursor>>))) = Request(nextId, <<task[t].cursor>>)
    BY <2>3, RequestRoundTrip, Zenon
  <2>5. PICK m : m = <<task[t].peer, Encode(Request(nextId, <<task[t].cursor>>))>>
    OBVIOUS
  <2>6. /\ m[1] \in 0 .. NumPeers - 1
        /\ Decode(m[2]).kind \in {"request", "response"}
        /\ \E h \in 1 .. N : Decode(m[2]).items = <<h>>
    BY <2>1, <2>2, <2>4, <2>5 DEF Request
  <2>7. wire' \subseteq wire \cup {m}
    BY <1>1, <2>5 DEF SendRequest
  <2> QED
    BY <2>6, <2>7 DEF Base, OneBlockEach
<1>2. ASSUME NEW m \in wire, PeerHandles(m)
      PROVE  OneBlockEach'
  <2>1. PICK request : request = Decode(m[2])
    OBVIOUS
  <2>2. PICK h \in 1 .. N : request.items = <<h>>
    BY <2>1 DEF Base, OneBlockEach
  <2>3. <<h>> \in Seq(1 .. N) /\ Len(<<h>>) <= 1
    OBVIOUS
  <2>4. Decode(Encode(Response(request.id, <<h>>))) = Response(request.id, <<h>>)
    BY <2>3, ResponseRoundTrip, Zenon
  <2>5. PICK answer : answer = <<Self, Encode(Response(request.id, <<h>>))>>
    OBVIOUS
  <2>6. /\ answer[1] \in 0 .. NumPeers - 1
        /\ Decode(answer[2]).kind \in {"request", "response"}
        /\ \E k \in 1 .. N : Decode(answer[2]).items = <<k>>
    BY <2>4, <2>5 DEF Response
  <2>7. wire' \subseteq wire \cup {answer}
    BY <1>2, <2>1, <2>2, <2>5 DEF PeerHandles
  <2> QED
    BY <2>6, <2>7 DEF Base, OneBlockEach
<1>3. ASSUME NEW m \in wire, ReceiveResponse(m)
      PROVE  OneBlockEach'
  BY <1>3 DEF ReceiveResponse, Base, OneBlockEach
<1>4. ASSUME UNCHANGED wire
      PROVE  OneBlockEach'
  BY <1>4 DEF Base, OneBlockEach
<1>5. ASSUME NEW t \in Triggers, HandleFinalized(t) \/ Walk(t) \/ Finish(t)
      PROVE  UNCHANGED wire
  BY <1>5 DEF HandleFinalized, Walk, WalkEnds, WalkDown, LocalHit, LocalMiss, Finish,
              RebuildDown, RebuildEnds, SendAncestor, MarkAncestor, SendTrigger, requestVars
<1>6. ASSUME NEW t \in Triggers, GiveUp(t) \/ SendFails(t) \/ TakeAnswer(t) \/ TimeOut(t) \/ ReplyClosed(t)
      PROVE  UNCHANGED wire
  BY <1>6 DEF GiveUp, SendFails, TakeAnswer, TimeOut, ReplyClosed
<1>7. MarkReported \/ Restart \/ UNCHANGED vars => UNCHANGED wire
  BY DEF MarkReported, Restart, vars, requestVars
<1> QED
  BY <1>1, <1>2, <1>3, <1>4, <1>5, <1>6, <1>7, Zenon DEF Next, Deliver, TaskStep, Fetch

\* A step of one task, by what the task becomes.
LEMMA OneTaskPlaced ==
  ASSUME Base, NEW t \in Triggers, NEW phase, NEW cursor, NEW found,
         Becomes(t, phase, cursor, found), Placed(t, phase, cursor),
         phase # "idle", phase = "mark" => cursor \in sent', phase = "done" => t \in sent',
         task[t].phase # "idle", sent \subseteq sent', UNCHANGED <<handling, reported>>
  PROVE  CursorInPlace' /\ TasksReported'
<1>1. /\ task'[t].phase = phase /\ task'[t].cursor = cursor
      /\ \A u \in Triggers : u # t => task'[u] = task[u]
  BY DEF Becomes
<1>2. /\ \A u \in Triggers : /\ Placed(u, task[u].phase, task[u].cursor)
                             /\ task[u].phase = "mark" => task[u].cursor \in sent
      /\ \A u \in Triggers : task[u].phase # "idle" => u \in reported
      /\ handling # 0 => Running(handling) \/ handling \in sent
      /\ handling \in Triggers \cup {0}
  BY DEF Base, CursorInPlace, TasksReported, Types
<1>3. CursorInPlace'
  BY <1>1, <1>2 DEF CursorInPlace
<1>4. TasksReported'
  BY <1>1, <1>2 DEF TasksReported, Running
<1> QED
  BY <1>3, <1>4

\* Every step keeps the cursor of each task where its phase allows it, and
\* accounts for each task that has ended.
LEMMA NextPlace ==
  ASSUME Base, Types', [Next]_vars
  PROVE  CursorInPlace' /\ TasksReported'
<1>0. /\ Types /\ CursorInPlace /\ TasksReported
      /\ \A t \in Triggers : /\ t \in 1 .. N /\ task[t].cursor \in 0 .. N
                             /\ Placed(t, task[t].phase, task[t].cursor)
                             /\ task[t].phase = "mark" => task[t].cursor \in sent
  BY ChainAssumption DEF Base, Types, Task, CursorInPlace
<1>1. ASSUME NEW t \in Triggers, HandleFinalized(t)
      PROVE  CursorInPlace' /\ TasksReported'
  <2>1. /\ reported' = reported \cup {t} /\ handling' = t /\ UNCHANGED sent
        /\ Becomes(t, "walk", t - 1, {})
    BY <1>0, <1>1, WalkMoves DEF HandleFinalized
  <2>2. Placed(t, "walk", t - 1)
    BY <1>0 DEF Placed
  <2>3. CursorInPlace'
    BY <1>0, <2>1, <2>2 DEF CursorInPlace, Becomes
  <2>4. TasksReported'
    BY <1>0, <2>1 DEF TasksReported, Becomes, Running
  <2> QED
    BY <2>3, <2>4
<1>2. ASSUME NEW t \in Triggers, WalkEnds(t)
      PROVE  CursorInPlace' /\ TasksReported'
  <2>1. Becomes(t, "rebuild", t - 1, task[t].found)
    BY <1>0, <1>2, WalkMoves
  <2>2. Placed(t, "rebuild", t - 1) /\ task[t].phase # "idle"
    BY <1>0, <1>2 DEF WalkEnds, Placed
  <2>3. UNCHANGED <<sent, handling, reported>>
    BY <1>2 DEF WalkEnds, requestVars
  <2> QED
    BY <2>1, <2>2, <2>3, OneTaskPlaced
<1>3. ASSUME NEW t \in Triggers, WalkDown(t)
      PROVE  CursorInPlace' /\ TasksReported'
  <2>1. \/ Becomes(t, "walk", task[t].cursor - 1, task[t].found)
        \/ Becomes(t, "local", task[t].cursor, task[t].found)
    BY <1>0, <1>3, WalkMoves
  <2>2. /\ Placed(t, "walk", task[t].cursor - 1) /\ Placed(t, "local", task[t].cursor)
        /\ task[t].phase # "idle"
    BY <1>0, <1>3 DEF WalkDown, Placed
  <2>3. UNCHANGED <<sent, handling, reported>>
    BY <1>3 DEF WalkDown, requestVars
  <2> QED
    BY <2>1, <2>2, <2>3, OneTaskPlaced
<1>4. ASSUME NEW t \in Triggers, LocalHit(t)
      PROVE  CursorInPlace' /\ TasksReported'
  <2>1. Becomes(t, "walk", task[t].cursor - 1, task[t].found \cup {task[t].cursor})
    BY <1>0, <1>4, WalkMoves
  <2>2. Placed(t, "walk", task[t].cursor - 1) /\ task[t].phase # "idle"
    BY <1>0, <1>4 DEF LocalHit, Placed
  <2>3. UNCHANGED <<sent, handling, reported>>
    BY <1>4 DEF LocalHit, requestVars
  <2> QED
    BY <2>1, <2>2, <2>3, OneTaskPlaced
<1>5. ASSUME NEW t \in Triggers, LocalMiss(t)
      PROVE  CursorInPlace' /\ TasksReported'
  <2>1. Becomes(t, "fetch", task[t].cursor, task[t].found)
    BY <1>0, <1>5, WalkMoves
  <2>2. Placed(t, "fetch", task[t].cursor) /\ task[t].phase # "idle"
    BY <1>0, <1>5 DEF LocalMiss, Placed
  <2>3. UNCHANGED <<sent, handling, reported>>
    BY <1>5 DEF LocalMiss, requestVars
  <2> QED
    BY <2>1, <2>2, <2>3, OneTaskPlaced
<1>6. ASSUME NEW t \in Triggers, GiveUp(t)
      PROVE  CursorInPlace' /\ TasksReported'
  <2>1. Becomes(t, "rebuild", t - 1, task[t].found)
    BY <1>0, <1>6, FetchMoves
  <2>2. Placed(t, "rebuild", t - 1) /\ task[t].phase # "idle"
    BY <1>0, <1>6 DEF GiveUp, Placed
  <2>3. UNCHANGED <<sent, handling, reported>>
    BY <1>6 DEF GiveUp, requestVars
  <2> QED
    BY <2>1, <2>2, <2>3, OneTaskPlaced
<1>7. ASSUME NEW t \in Triggers, SendRequest(t)
      PROVE  CursorInPlace' /\ TasksReported'
  <2>1. Becomes(t, "wait", task[t].cursor, task[t].found)
    BY <1>0, <1>7, FetchMoves
  <2>2. Placed(t, "wait", task[t].cursor) /\ task[t].phase # "idle"
    BY <1>0, <1>7 DEF SendRequest, Placed
  <2>3. UNCHANGED <<sent, handling, reported>>
    BY <1>7 DEF SendRequest, requestVars
  <2> QED
    BY <2>1, <2>2, <2>3, OneTaskPlaced
<1>8. ASSUME NEW t \in Triggers, SendFails(t)
      PROVE  CursorInPlace' /\ TasksReported'
  <2>1. Becomes(t, "fetch", task[t].cursor, task[t].found)
    BY <1>0, <1>8, FetchMoves
  <2>2. Placed(t, "fetch", task[t].cursor) /\ task[t].phase # "idle"
    BY <1>0, <1>8 DEF SendFails, Placed
  <2>3. UNCHANGED <<sent, handling, reported>>
    BY <1>8 DEF SendFails, requestVars
  <2> QED
    BY <2>1, <2>2, <2>3, OneTaskPlaced
<1>9. ASSUME NEW t \in Triggers, TakeAnswer(t)
      PROVE  CursorInPlace' /\ TasksReported'
  <2>1. Becomes(t, "walk", t - 1, task[t].found \cup {task[t].cursor})
    BY <1>0, <1>9, FetchMoves
  <2>2. Placed(t, "walk", t - 1) /\ task[t].phase # "idle"
    BY <1>0, <1>9 DEF TakeAnswer, Placed
  <2>3. UNCHANGED <<sent, handling, reported>>
    BY <1>9 DEF TakeAnswer, requestVars
  <2> QED
    BY <2>1, <2>2, <2>3, OneTaskPlaced
<1>10. ASSUME NEW t \in Triggers, TimeOut(t) \/ ReplyClosed(t)
      PROVE  CursorInPlace' /\ TasksReported'
  <2>1. Becomes(t, "fetch", task[t].cursor, task[t].found)
    BY <1>0, <1>10, FetchMoves
  <2>2. Placed(t, "fetch", task[t].cursor) /\ task[t].phase # "idle"
    BY <1>0, <1>10 DEF TimeOut, ReplyClosed, Placed, NoAnswer
  <2>3. UNCHANGED <<sent, handling, reported>>
    BY <1>10 DEF TimeOut, ReplyClosed, requestVars
  <2> QED
    BY <2>1, <2>2, <2>3, OneTaskPlaced
<1>11. ASSUME NEW t \in Triggers, RebuildDown(t)
      PROVE  CursorInPlace' /\ TasksReported'
  <2>1. Becomes(t, "rebuild", task[t].cursor - 1, task[t].found)
    BY <1>0, <1>11, FinishMoves
  <2>2. Placed(t, "rebuild", task[t].cursor - 1) /\ task[t].phase # "idle"
    BY <1>0, <1>11 DEF RebuildDown, Placed
  <2>3. UNCHANGED <<sent, handling, reported>>
    BY <1>11 DEF RebuildDown, requestVars
  <2> QED
    BY <2>1, <2>2, <2>3, OneTaskPlaced
<1>12. ASSUME NEW t \in Triggers, RebuildEnds(t) \/ MarkAncestor(t)
      PROVE  CursorInPlace' /\ TasksReported'
  <2>1. Becomes(t, IF task[t].cursor + 1 < t THEN "send" ELSE "last", task[t].cursor + 1, task[t].found)
    BY <1>0, <1>12, FinishMoves
  <2>2. Placed(t, IF task[t].cursor + 1 < t THEN "send" ELSE "last", task[t].cursor + 1) /\ task[t].phase # "idle"
    BY <1>0, <1>12 DEF RebuildEnds, MarkAncestor, Placed
  <2>3. UNCHANGED <<sent, handling, reported>>
    BY <1>12 DEF RebuildEnds, MarkAncestor, requestVars
  <2> QED
    BY <2>1, <2>2, <2>3, OneTaskPlaced
<1>13. ASSUME NEW t \in Triggers, SendAncestor(t)
      PROVE  CursorInPlace' /\ TasksReported'
  <2>1. Becomes(t, "mark", task[t].cursor, task[t].found)
    BY <1>0, <1>13, FinishMoves
  <2>2. Placed(t, "mark", task[t].cursor) /\ task[t].phase # "idle"
    BY <1>0, <1>13 DEF SendAncestor, Placed
  <2>3. sent' = sent \cup {task[t].cursor} /\ UNCHANGED <<handling, reported>>
    BY <1>13 DEF SendAncestor
  <2> QED
    BY <2>1, <2>2, <2>3, OneTaskPlaced
<1>14. ASSUME NEW t \in Triggers, SendTrigger(t)
      PROVE  CursorInPlace' /\ TasksReported'
  <2>1. Becomes(t, "done", 0, {}) /\ task[t].phase # "idle"
    BY <1>0, <1>14, FinishMoves DEF SendTrigger
  <2>2. Placed(t, "done", 0)
    BY DEF Placed
  <2>3. sent' = sent \cup {t} /\ UNCHANGED <<handling, reported>>
    BY <1>14 DEF SendTrigger
  <2> QED
    BY <2>1, <2>2, <2>3, OneTaskPlaced
<1>15. ASSUME NEW m \in wire, ReceiveResponse(m)
      PROVE  CursorInPlace' /\ TasksReported'
  <2>1. UNCHANGED <<handling, reported, sent>>
    BY <1>15 DEF ReceiveResponse
  <2>2. \A u \in Triggers : task'[u].phase = task[u].phase /\ task'[u].cursor = task[u].cursor
    BY <1>0, <1>15, ResponseMoves
  <2> QED
    BY <1>0, <2>1, <2>2 DEF CursorInPlace, TasksReported, Running, Types
<1>16. ASSUME NEW m \in wire, PeerHandles(m)
      PROVE  CursorInPlace' /\ TasksReported'
  BY <1>0, <1>16 DEF PeerHandles, CursorInPlace, TasksReported, Running
<1>17. CASE MarkReported
  BY <1>0, <1>17 DEF MarkReported, CursorInPlace, TasksReported, Running, requestVars
<1>18. CASE UNCHANGED vars
  BY <1>0, <1>18 DEF vars, CursorInPlace, TasksReported, Running, requestVars
<1>19. CASE Restart
  <2>1. (\A t \in Triggers : task'[t] = IdleTask) /\ handling' = 0
    BY <1>19 DEF Restart
  <2>2. \A t \in Triggers : Placed(t, "idle", 0)
    BY DEF Placed
  <2> QED
    BY <2>1, <2>2 DEF CursorInPlace, TasksReported, IdleTask
<1> QED
  BY <1>1, <1>2, <1>3, <1>4, <1>5, <1>6, <1>7, <1>8, <1>9, <1>10, <1>11, <1>12,
     <1>13, <1>14, <1>15, <1>16, <1>17, <1>18, <1>19, Zenon
  DEF Next, TaskStep, Walk, Fetch, Finish, Deliver

-----------------------------------------------------------------------------
(* Requests. *)

\* A step that ends with its task waiting for nothing.
LEMMA OneTaskAsksNot ==
  ASSUME Base, Requests, NEW t \in Triggers, NEW phase, NEW cursor, NEW found,
         Becomes(t, phase, cursor, found), phase # "wait", pendingReqs' \subseteq pendingReqs,
         task[t].phase = "wait" => pendingReqs' = pendingReqs \ PendingOf(t)
  PROVE  Requests'
<1>1. /\ task'[t].phase = phase
      /\ \A u \in Triggers : u # t => task'[u] = task[u]
  BY DEF Becomes
<1>2. \A r \in pendingReqs' : r \in pendingReqs /\ r.task \in Triggers /\ r.task # t
  <2>1. \A r \in pendingReqs : r.task \in Triggers
    BY DEF Base, Types
  <2>2. \A r \in pendingReqs : r.task = t => task[t].phase = "wait" /\ r \in PendingOf(t)
    BY DEF Requests, NoLeakedRequest, PendingOf
  <2> QED
    BY <2>1, <2>2
<1>3. RequestsInPlace' /\ NoLeakedRequest'
  BY <1>1, <1>2 DEF Requests, RequestsInPlace, NoLeakedRequest
<1>4. AnsweredWithBlockAskedFor'
  BY <1>1 DEF Requests, AnsweredWithBlockAskedFor
<1> QED
  BY <1>3, <1>4 DEF Requests

\* Every step keeps the table of pending requests in line with the tasks
\* that wait.
LEMMA NextRequests ==
  ASSUME Base, Requests, Types', [Next]_vars
  PROVE  Requests'
<1>0. Types
  BY DEF Base
<1>1. ASSUME NEW t \in Triggers, HandleFinalized(t)
      PROVE  Requests'
  <2>1. Becomes(t, "walk", t - 1, {}) /\ UNCHANGED pendingReqs
    BY <1>0, <1>1, WalkMoves DEF HandleFinalized, requestVars
  <2>2. task[t].phase # "wait"
    BY <1>1 DEF HandleFinalized, Base, TasksReported
  <2> QED
    BY <2>1, <2>2, OneTaskAsksNot
<1>2. ASSUME NEW t \in Triggers, Walk(t)
      PROVE  Requests'
  <2>1. task[t].phase # "wait" /\ UNCHANGED pendingReqs
    BY <1>2 DEF Walk, WalkEnds, WalkDown, LocalHit, LocalMiss, requestVars
  <2>2. \/ Becomes(t, "rebuild", t - 1, task[t].found)
        \/ Becomes(t, "walk", task[t].cursor - 1, task[t].found)
        \/ Becomes(t, "local", task[t].cursor, task[t].found)
        \/ Becomes(t, "walk", task[t].cursor - 1, task[t].found \cup {task[t].cursor})
        \/ Becomes(t, "fetch", task[t].cursor, task[t].found)
    BY <1>0, <1>2, WalkMoves DEF Walk
  <2> QED
    BY <2>1, <2>2, OneTaskAsksNot
<1>3. ASSUME NEW t \in Triggers, Finish(t)
      PROVE  Requests'
  <2>1. task[t].phase # "wait" /\ UNCHANGED pendingReqs
    BY <1>3 DEF Finish, RebuildDown, RebuildEnds, SendAncestor, MarkAncestor, SendTrigger, requestVars
  <2>2. \/ Becomes(t, "rebuild", task[t].cursor - 1, task[t].found)
        \/ Becomes(t, IF task[t].cursor + 1 < t THEN "send" ELSE "last",
                   task[t].cursor + 1, task[t].found)
        \/ Becomes(t, "mark", task[t].cursor, task[t].found)
        \/ Becomes(t, "done", 0, {})
    BY <1>0, <1>3, FinishMoves DEF Finish
  <2> QED
    BY <2>1, <2>2, OneTaskAsksNot
<1>4. ASSUME NEW t \in Triggers, GiveUp(t) \/ SendFails(t)
      PROVE  Requests'
  <2>1. task[t].phase # "wait" /\ UNCHANGED pendingReqs
    BY <1>4 DEF GiveUp, SendFails
  <2>2. \/ Becomes(t, "rebuild", t - 1, task[t].found)
        \/ Becomes(t, "fetch", task[t].cursor, task[t].found)
    BY <1>0, <1>4, FetchMoves
  <2> QED
    BY <2>1, <2>2, OneTaskAsksNot
<1>5. ASSUME NEW t \in Triggers, TakeAnswer(t) \/ TimeOut(t) \/ ReplyClosed(t)
      PROVE  Requests'
  <2>1. pendingReqs' = pendingReqs \ PendingOf(t)
    BY <1>5 DEF TakeAnswer, TimeOut, ReplyClosed, NoAnswer
  <2>2. \/ Becomes(t, "walk", t - 1, task[t].found \cup {task[t].cursor})
        \/ Becomes(t, "fetch", task[t].cursor, task[t].found)
    BY <1>0, <1>5, FetchMoves
  <2> QED
    BY <2>1, <2>2, OneTaskAsksNot
<1>6. ASSUME NEW t \in Triggers, SendRequest(t)
      PROVE  Requests'
  <2>1. PICK q : q = [id |-> nextId, block |-> task[t].cursor, task |-> t]
    OBVIOUS
  <2>2. /\ Becomes(t, "wait", task[t].cursor, task[t].found)
        /\ task'[t].id = nextId /\ task'[t].reply = Empty
    BY <1>0, <1>6, FetchMoves
  <2>3. pendingReqs' = pendingReqs \cup {q}
    BY <1>6, <2>1 DEF SendRequest
  <2>4. \A r \in pendingReqs : r.task \in Triggers /\ r.task # t
    BY <1>6 DEF SendRequest, Base, Types, Requests, NoLeakedRequest
  <2>5. RequestsInPlace' /\ NoLeakedRequest'
    BY <2>1, <2>2, <2>3, <2>4 DEF Becomes, Requests, RequestsInPlace, NoLeakedRequest
  <2>6. AnsweredWithBlockAskedFor'
    BY <2>2 DEF Becomes, Requests, AnsweredWithBlockAskedFor
  <2> QED
    BY <2>5, <2>6 DEF Requests
<1>7. ASSUME NEW m \in wire, ReceiveResponse(m)
      PROVE  Requests'
  <2>1. pendingReqs' = { r \in pendingReqs : r.id # Decode(m[2]).id }
    BY <1>7 DEF ReceiveResponse
  <2>2. ASSUME NEW r \in pendingReqs'
        PROVE  /\ r \in pendingReqs /\ r.task \in Triggers
               /\ task'[r.task] = task[r.task]
    <3>1. /\ r \in pendingReqs /\ r.task \in Triggers /\ r.id = task[r.task].id
          /\ r.id # Decode(m[2]).id
      BY <2>1, <2>2 DEF Base, Types, Requests, NoLeakedRequest
    <3>2. PICK u \in Triggers : u = r.task
      BY <3>1
    <3>3. \/ task'[u] = task[u]
             /\ \A q \in pendingReqs : q.task = u /\ q.id = task[u].id => q.id # Decode(m[2]).id
          \/ \E q \in pendingReqs :
               /\ q.task = u /\ q.id = task[u].id /\ q.id = Decode(m[2]).id
               /\ task'[u] = [task[u] EXCEPT !.reply = q.block] \/ task'[u] = [task[u] EXCEPT !.reply = Closed]
      BY <1>0, <1>7, Answered, Zenon
    <3> QED
      BY <3>1, <3>2, <3>3
  <2>3. RequestsInPlace' /\ NoLeakedRequest'
    BY <2>2 DEF Requests, RequestsInPlace, NoLeakedRequest
  <2>4. ASSUME NEW u \in Triggers, task'[u].phase = "wait"
        PROVE  task'[u].reply \in {Empty, Closed, task'[u].cursor}
    <3>1. task'[u].cursor = task[u].cursor /\ task[u].phase = "wait" /\ task[u] \in Task
      BY <1>0, <1>7, <2>4, ResponseMoves DEF Types
    <3>2. CASE task'[u] = task[u]
      BY <3>1, <3>2 DEF Requests, AnsweredWithBlockAskedFor
    <3>3. CASE \E r \in pendingReqs :
                 /\ r.task = u
                 /\ task'[u] = [task[u] EXCEPT !.reply = r.block] \/ task'[u] = [task[u] EXCEPT !.reply = Closed]
      <4>1. \A r \in pendingReqs : r.task = u => r.block = task[u].cursor
        BY DEF Requests, RequestsInPlace
      <4> QED
        BY <3>1, <3>3, <4>1 DEF Task
    <3> QED
      BY <1>0, <1>7, <3>2, <3>3, Answered, Zenon
  <2>5. AnsweredWithBlockAskedFor'
    BY <2>4 DEF AnsweredWithBlockAskedFor, Empty, Closed
  <2> QED
    BY <2>3, <2>5 DEF Requests
<1>8. ASSUME UNCHANGED <<task, pendingReqs>>
      PROVE  Requests'
  BY <1>8 DEF Requests, RequestsInPlace, NoLeakedRequest, AnsweredWithBlockAskedFor
<1>9. CASE Restart
  <2>1. pendingReqs' = {} /\ \A t \in Triggers : task'[t].phase = "idle"
    BY <1>9 DEF Restart, IdleTask
  <2> QED
    BY <2>1 DEF Requests, RequestsInPlace, NoLeakedRequest, AnsweredWithBlockAskedFor
<1>10. \/ MarkReported \/ UNCHANGED vars
       \/ \E m \in wire : PeerHandles(m)
       => UNCHANGED <<task, pendingReqs>>
  BY DEF MarkReported, vars, PeerHandles, requestVars
<1> QED
  BY <1>1, <1>2, <1>3, <1>4, <1>5, <1>6, <1>7, <1>8, <1>9, <1>10, Zenon
  DEF Next, TaskStep, Fetch, Deliver

-----------------------------------------------------------------------------
(* What is sent and what counts as seen. *)

\* What is covered stays so while no task ends.
LEMMA CoveredStays ==
  ASSUME NEW h, Covered(h), sent \subseteq sent',
         \A t \in Triggers : Running(t) => Running(t)'
  PROVE  Covered(h)'
BY DEF Covered

\* A block that counts as seen is covered.
LEMMA SeenCovered ==
  ASSUME Base, SeenIsAccountedFor, SentCovered, NEW h \in finalizedSeen
  PROVE  Covered(h)
<1>1. h \in 1 .. N
  BY DEF Base, Types
<1>2. CASE h \in sent
  BY <1>2 DEF SentCovered
<1>3. CASE h \in Triggers /\ Running(h)
  BY <1>1, <1>3 DEF Covered
<1> QED
  BY <1>2, <1>3 DEF SeenIsAccountedFor

\* A step of a task that goes on, by what the task becomes.
LEMMA OneTaskOrdered ==
  ASSUME Base, Order, NEW t \in Triggers, NEW phase, NEW cursor, NEW found,
         Becomes(t, phase, cursor, found), phase \notin {"idle", "done"},
         finalizedSeen \subseteq finalizedSeen', finalizedSeen' \subseteq finalizedSeen \cup sent,
         gaveUp' = {} => gaveUp = {} /\ Walked(t, phase, cursor, found),
         UNCHANGED sent
  PROVE  Order'
<1>1. /\ task'[t].phase = phase /\ task'[t].cursor = cursor /\ task'[t].found = found
      /\ \A u \in Triggers : u # t => task'[u] = task[u]
  BY DEF Becomes
<1>2. \A u \in Triggers : Running(u) => Running(u)'
  BY <1>1 DEF Running
<1>3. SeenIsAccountedFor'
  BY <1>2 DEF Order, SeenIsAccountedFor
<1>4. ASSUME gaveUp' = {}
      PROVE  WalkedDown' /\ SentCovered'
  <2>1. gaveUp = {} /\ WalkedDown /\ SentCovered /\ Walked(t, phase, cursor, found)
    BY <1>4 DEF Order
  <2>2. \A h : Covered(h) => Covered(h)'
    BY <1>2, CoveredStays
  <2>3. \A u \in Triggers : \A p, c, f : Walked(u, p, c, f) => Walked(u, p, c, f)'
    BY <2>2 DEF Walked
  <2>4. WalkedDown'
    BY <1>1, <2>1, <2>3 DEF WalkedDown
  <2>5. SentCovered'
    BY <2>1, <2>2 DEF SentCovered
  <2> QED
    BY <2>4, <2>5
<1> QED
  BY <1>3, <1>4 DEF Order

\* While no task has given up, every step keeps each walk and each sent block
\* covered from below.
LEMMA NextOrder ==
  ASSUME Base, Order, AnsweredWithBlockAskedFor, [Next]_vars
  PROVE  Order'
<1>0. /\ Types
      /\ \A t \in Triggers : /\ t \in 1 .. N /\ task[t].cursor \in 0 .. N
                             /\ Placed(t, task[t].phase, task[t].cursor)
      /\ gaveUp = {} => /\ SentCovered
                        /\ \A t \in Triggers : Walked(t, task[t].phase, task[t].cursor, task[t].found)
  BY ChainAssumption DEF Base, Types, Task, CursorInPlace, Order, WalkedDown
<1>1. ASSUME NEW t \in Triggers, HandleFinalized(t)
      PROVE  Order'
  <2>1. Becomes(t, "walk", t - 1, {}) /\ UNCHANGED <<finalizedSeen, gaveUp, sent>>
    BY <1>0, <1>1, WalkMoves DEF HandleFinalized, requestVars
  <2>2. Walked(t, "walk", t - 1, {})
    BY <1>0 DEF Walked
  <2> QED
    BY <2>1, <2>2, OneTaskOrdered
<1>2. ASSUME NEW t \in Triggers, WalkEnds(t)
      PROVE  Order'
  <2>1. Becomes(t, "rebuild", t - 1, task[t].found) /\ UNCHANGED <<finalizedSeen, gaveUp, sent>>
    BY <1>0, <1>2, WalkMoves DEF WalkEnds, requestVars
  <2>2. /\ task[t].phase = "walk" /\ task[t].cursor \in 0 .. t - 1
        /\ task[t].cursor = 0 \/ task[t].cursor \in finalizedSeen
    BY <1>0, <1>2 DEF WalkEnds, Placed
  <2>3. ASSUME gaveUp = {}
        PROVE  Walked(t, "rebuild", t - 1, task[t].found)
    <3>1. task[t].cursor + 1 .. t - 1 \subseteq task[t].found
      BY <1>0, <2>2, <2>3 DEF Walked
    <3> QED
      BY <2>2, <3>1 DEF Walked
  <2> QED
    BY <2>1, <2>3, OneTaskOrdered
<1>3. ASSUME NEW t \in Triggers, WalkDown(t)
      PROVE  Order'
  <2>1. /\ \/ task[t].cursor \in task[t].found /\ Becomes(t, "walk", task[t].cursor - 1, task[t].found)
           \/ Becomes(t, "local", task[t].cursor, task[t].found)
        /\ task[t].phase = "walk" /\ task[t].cursor # 0
        /\ UNCHANGED <<finalizedSeen, gaveUp, sent>>
    BY <1>0, <1>3, WalkMoves DEF WalkDown, requestVars
  <2>2. gaveUp = {} => /\ task[t].cursor \in task[t].found => Walked(t, "walk", task[t].cursor - 1, task[t].found)
                       /\ Walked(t, "local", task[t].cursor, task[t].found)
    BY <1>0, <2>1 DEF Walked
  <2> QED
    BY <2>1, <2>2, OneTaskOrdered
<1>4. ASSUME NEW t \in Triggers, LocalHit(t)
      PROVE  Order'
  <2>1. /\ Becomes(t, "walk", task[t].cursor - 1, task[t].found \cup {task[t].cursor})
        /\ task[t].phase = "local"
        /\ UNCHANGED <<finalizedSeen, gaveUp, sent>>
    BY <1>0, <1>4, WalkMoves DEF LocalHit, requestVars
  <2>2. gaveUp = {} => Walked(t, "walk", task[t].cursor - 1, task[t].found \cup {task[t].cursor})
    BY <1>0, <2>1 DEF Walked
  <2> QED
    BY <2>1, <2>2, OneTaskOrdered
<1>5. ASSUME NEW t \in Triggers, LocalMiss(t)
      PROVE  Order'
  <2>1. /\ Becomes(t, "fetch", task[t].cursor, task[t].found) /\ task[t].phase = "local"
        /\ UNCHANGED <<finalizedSeen, gaveUp, sent>>
    BY <1>0, <1>5, WalkMoves DEF LocalMiss
  <2>2. gaveUp = {} => Walked(t, "fetch", task[t].cursor, task[t].found)
    BY <1>0, <2>1 DEF Walked
  <2> QED
    BY <2>1, <2>2, OneTaskOrdered
<1>6. ASSUME NEW t \in Triggers, GiveUp(t)
      PROVE  Order'
  <2>1. /\ Becomes(t, "rebuild", t - 1, task[t].found) /\ gaveUp' # {}
        /\ UNCHANGED <<finalizedSeen, sent>>
    BY <1>0, <1>6, FetchMoves DEF GiveUp
  <2> QED
    BY <2>1, OneTaskOrdered
<1>7. ASSUME NEW t \in Triggers, SendRequest(t)
      PROVE  Order'
  <2>1. /\ Becomes(t, "wait", task[t].cursor, task[t].found) /\ task[t].phase = "fetch"
        /\ UNCHANGED <<finalizedSeen, gaveUp, sent>>
    BY <1>0, <1>7, FetchMoves DEF SendRequest
  <2>2. gaveUp = {} => Walked(t, "wait", task[t].cursor, task[t].found)
    BY <1>0, <2>1 DEF Walked
  <2> QED
    BY <2>1, <2>2, OneTaskOrdered
<1>8. ASSUME NEW t \in Triggers, SendFails(t) \/ TimeOut(t) \/ ReplyClosed(t)
      PROVE  Order'
  <2>1. /\ Becomes(t, "fetch", task[t].cursor, task[t].found) /\ task[t].phase \in {"fetch", "wait"}
        /\ UNCHANGED <<finalizedSeen, gaveUp, sent>>
    BY <1>0, <1>8, FetchMoves DEF SendFails, TimeOut, ReplyClosed
  <2>2. gaveUp = {} => Walked(t, "fetch", task[t].cursor, task[t].found)
    BY <1>0, <2>1 DEF Walked
  <2> QED
    BY <2>1, <2>2, OneTaskOrdered
<1>9. ASSUME NEW t \in Triggers, TakeAnswer(t)
      PROVE  Order'
  <2>1. /\ Becomes(t, "walk", t - 1, task[t].found \cup {task[t].cursor})
        /\ UNCHANGED <<finalizedSeen, gaveUp, sent>>
    BY <1>0, <1>9, FetchMoves DEF TakeAnswer
  <2>2. Walked(t, "walk", t - 1, task[t].found \cup {task[t].cursor})
    BY <1>0 DEF Walked
  <2> QED
    BY <2>1, <2>2, OneTaskOrdered
<1>10. ASSUME NEW t \in Triggers, RebuildDown(t)
      PROVE  Order'
  <2>1. /\ Becomes(t, "rebuild", task[t].cursor - 1, task[t].found) /\ task[t].phase = "rebuild"
        /\ task[t].cursor # 0 /\ task[t].cursor \notin finalizedSeen
        /\ UNCHANGED <<finalizedSeen, gaveUp, sent>>
    BY <1>0, <1>10, FinishMoves DEF RebuildDown, requestVars
  <2>2. ASSUME gaveUp = {}
        PROVE  Walked(t, "rebuild", task[t].cursor - 1, task[t].found)
    <3>1. PICK s \in 0 .. task[t].cursor :
            (s = 0 \/ s \in finalizedSeen) /\ s + 1 .. t - 1 \subseteq task[t].found
      BY <1>0, <2>1, <2>2 DEF Walked
    <3>2. s \in 0 .. task[t].cursor - 1
      BY <1>0, <2>1, <3>1
    <3> QED
      BY <3>1, <3>2 DEF Walked
  <2> QED
    BY <2>1, <2>2, OneTaskOrdered
<1>11. ASSUME NEW t \in Triggers, RebuildEnds(t)
      PROVE  Order'
  <2>1. /\ Becomes(t, IF task[t].cursor + 1 < t THEN "send" ELSE "last",
                   task[t].cursor + 1, task[t].found)
        /\ task[t].phase = "rebuild"
        /\ task[t].cursor = 0 \/ task[t].cursor \in finalizedSeen \/ task[t].cursor \notin task[t].found
        /\ UNCHANGED <<finalizedSeen, gaveUp, sent>>
    BY <1>0, <1>11, FinishMoves DEF RebuildEnds, requestVars
  <2>2. ASSUME gaveUp = {}
        PROVE  Covered(task[t].cursor)
    <3>1. PICK s \in 0 .. task[t].cursor :
            (s = 0 \/ s \in finalizedSeen) /\ s + 1 .. t - 1 \subseteq task[t].found
      BY <1>0, <2>1, <2>2 DEF Walked
    <3>2. task[t].cursor < t
      BY <1>0, <2>1 DEF Placed
    <3>3. task[t].cursor = 0 \/ task[t].cursor \in finalizedSeen
      BY <1>0, <2>1, <3>1, <3>2
    <3>4. Covered(0)
      BY DEF Covered
    <3> QED
      BY <1>0, <2>2, <3>3, <3>4, SeenCovered DEF Order
  <2>3. ASSUME gaveUp = {}
        PROVE  Walked(t, IF task[t].cursor + 1 < t THEN "send" ELSE "last",
                      task[t].cursor + 1, task[t].found)
    <3>1. PICK c : c = task[t].cursor + 1 /\ c - 1 = task[t].cursor
      BY <1>0
    <3>2. Covered(c - 1)
      BY <2>2, <2>3, <3>1
    <3>3. Walked(t, "send", c, task[t].found) /\ Walked(t, "last", c, task[t].found)
      BY <3>2 DEF Walked
    <3> QED
      BY <3>1, <3>3
  <2> QED
    BY <2>1, <2>3, OneTaskOrdered
<1>12. ASSUME NEW t \in Triggers, MarkAncestor(t)
      PROVE  Order'
  <2>1. /\ Becomes(t, IF task[t].cursor + 1 < t THEN "send" ELSE "last",
                   task[t].cursor + 1, task[t].found)
        /\ task[t].phase = "mark" /\ finalizedSeen' = finalizedSeen \cup {task[t].cursor}
        /\ UNCHANGED <<gaveUp, sent>>
    BY <1>0, <1>12, FinishMoves DEF MarkAncestor, requestVars
  <2>2. task[t].cursor \in sent
    BY <2>1 DEF Base, CursorInPlace
  <2>3. gaveUp = {} => Covered(task[t].cursor)
    BY <1>0, <2>2 DEF SentCovered
  <2>4. ASSUME gaveUp = {}
        PROVE  Walked(t, IF task[t].cursor + 1 < t THEN "send" ELSE "last",
                      task[t].cursor + 1, task[t].found)
    <3>1. PICK c : c = task[t].cursor + 1 /\ c - 1 = task[t].cursor
      BY <1>0
    <3>2. Covered(c - 1)
      BY <2>3, <2>4, <3>1
    <3>3. Walked(t, "send", c, task[t].found) /\ Walked(t, "last", c, task[t].found)
      BY <3>2 DEF Walked
    <3> QED
      BY <3>1, <3>3
  <2> QED
    BY <2>1, <2>2, <2>4, OneTaskOrdered
<1>13. ASSUME NEW t \in Triggers, SendAncestor(t)
      PROVE  Order'
  <2>1. PICK c, f : c \in 1 .. N /\ c = task[t].cursor /\ f = task[t].found
    BY <1>0, <1>13 DEF SendAncestor, Placed
  <2>2. /\ Becomes(t, "mark", c, f) /\ task[t].phase = "send"
        /\ sent' = sent \cup {c} /\ UNCHANGED <<finalizedSeen, gaveUp>>
    BY <1>0, <1>13, <2>1, FinishMoves DEF SendAncestor, requestVars
  <2>3. \A u \in Triggers : Running(u) => Running(u)'
    BY <2>2 DEF Becomes, Running
  <2>4. SeenIsAccountedFor'
    BY <2>2, <2>3 DEF Order, SeenIsAccountedFor
  <2>5. ASSUME gaveUp' = {}
        PROVE  WalkedDown' /\ SentCovered'
    <3>1. gaveUp = {} /\ Covered(c - 1)
      BY <1>0, <2>1, <2>2, <2>5 DEF Walked
    <3>2. \A h : Covered(h) => Covered(h)'
      BY <2>2, <2>3, CoveredStays
    <3>3. Covered(c)'
      <4>1. Covered(c - 1)' /\ c \in sent'
        BY <2>2, <3>1, <3>2
      <4>2. \A k \in 1 .. c : k = c \/ k \in 1 .. c - 1
        BY <2>1
      <4>3. \A u \in Triggers : u \in Nat /\ (u <= c - 1 => u <= c)
        BY <1>0, <2>1
      <4> QED
        BY <4>1, <4>2, <4>3 DEF Covered
    <3>4. WalkedDown'
      <4>1. Walked(t, "mark", c, f)'
        BY <3>1, <3>2 DEF Walked
      <4>2. \A u \in Triggers : \A p, d, g : Walked(u, p, d, g) => Walked(u, p, d, g)'
        BY <2>2, <3>2 DEF Walked
      <4> QED
        BY <1>0, <2>2, <3>1, <4>1, <4>2 DEF WalkedDown, Becomes
    <3>5. SentCovered'
      BY <1>0, <2>2, <3>1, <3>2, <3>3 DEF SentCovered
    <3> QED
      BY <3>4, <3>5
  <2> QED
    BY <2>4, <2>5 DEF Order
<1>14. ASSUME NEW t \in Triggers, SendTrigger(t)
      PROVE  Order'
  <2>1. /\ Becomes(t, "done", 0, {}) /\ task[t].phase = "last"
        /\ sent' = sent \cup {t} /\ UNCHANGED <<finalizedSeen, gaveUp>>
    BY <1>0, <1>14, FinishMoves DEF SendTrigger, requestVars
  <2>2. \A u \in Triggers : u # t => (Running(u)' <=> Running(u))
    BY <2>1 DEF Becomes, Running
  <2>3. SeenIsAccountedFor'
    BY <2>1, <2>2 DEF Order, SeenIsAccountedFor
  <2>4. ASSUME gaveUp' = {}
        PROVE  WalkedDown' /\ SentCovered'
    <3>1. gaveUp = {} /\ Covered(t - 1)
      BY <1>0, <2>1, <2>4 DEF Walked, Placed
    <3>2. ASSUME NEW h \in 0 .. N, Covered(h)
          PROVE  Covered(h)'
      <4> SUFFICES ASSUME NEW k \in 1 .. h
                   PROVE  k \in sent' \/ \E u \in Triggers : Running(u)' /\ k <= u /\ u <= h
        BY DEF Covered
      <4>1. CASE k \in sent
        BY <2>1, <4>1
      <4>2. CASE \E u \in Triggers : Running(u) /\ k <= u /\ u <= h
        <5>1. PICK u \in Triggers : Running(u) /\ k <= u /\ u <= h
          BY <4>2
        <5>2. CASE u # t
          BY <2>2, <5>1, <5>2
        <5>3. CASE u = t /\ k = t
          BY <2>1, <5>3
        <5>4. CASE u = t /\ k # t
          <6>1. k \in 1 .. t - 1 /\ t <= h
            BY <1>0, <5>1, <5>4
          <6>2. k \in sent \/ \E w \in Triggers : Running(w) /\ k <= w /\ w <= t - 1
            BY <3>1, <6>1 DEF Covered
          <6>3. \A w \in Triggers : w <= t - 1 => w # t /\ w <= h
            BY <1>0, <6>1
          <6> QED
            BY <2>1, <2>2, <6>2, <6>3
        <5> QED
          BY <5>2, <5>3, <5>4
      <4> QED
        BY <3>2, <4>1, <4>2 DEF Covered
    <3>3. Covered(t)'
      <4>1. Covered(t - 1)'
        <5>1. PICK h \in 0 .. N : h = t - 1
          BY <1>0, ChainAssumption
        <5>2. Covered(h)'
          BY <3>1, <3>2, <5>1
        <5> QED
          BY <5>1, <5>2
      <4>2. t \in sent' /\ \A k \in 1 .. t : k = t \/ k \in 1 .. t - 1
        BY <1>0, <2>1
      <4>3. \A u \in Triggers : u <= t - 1 => u <= t
        BY <1>0
      <4> QED
        BY <4>1, <4>2, <4>3 DEF Covered
    <3>4. WalkedDown'
      <4> SUFFICES ASSUME NEW u \in Triggers
                   PROVE  Walked(u, task[u].phase, task[u].cursor, task[u].found)'
        BY DEF WalkedDown
      <4>1. CASE u = t
        BY <2>1, <4>1 DEF Becomes, Walked
      <4>2. CASE u # t
        <5>1. task'[u] = task[u] /\ Walked(u, task[u].phase, task[u].cursor, task[u].found)
          BY <1>0, <2>1, <3>1, <4>2 DEF Becomes
        <5>2. ASSUME task[u].phase \in {"send", "mark", "last"}
              PROVE  task[u].cursor - 1 \in 0 .. N
          <6>1. Placed(u, task[u].phase, task[u].cursor) /\ u \in 1 .. N
            BY <1>0
          <6> QED
            BY <5>2, <6>1, ChainAssumption DEF Placed
        <5>3. task[u].phase \in {"send", "mark", "last"} => Covered(task[u].cursor - 1)'
          BY <3>2, <5>1, <5>2 DEF Walked
        <5> QED
          BY <2>1, <5>1, <5>3 DEF Walked
      <4> QED
        BY <4>1, <4>2
    <3>5. SentCovered'
      <4>1. \A h \in sent : h \in 0 .. N /\ Covered(h)
        BY <1>0, <3>1 DEF SentCovered, Types
      <4> QED
        BY <2>1, <3>2, <3>3, <4>1 DEF SentCovered
    <3> QED
      BY <3>4, <3>5
  <2> QED
    BY <2>3, <2>4 DEF Order
<1>15. ASSUME NEW m \in wire, ReceiveResponse(m)
      PROVE  Order'
  <2>1. /\ \A u \in Triggers : /\ task'[u].phase = task[u].phase /\ task'[u].cursor = task[u].cursor
                               /\ task'[u].found = task[u].found
        /\ UNCHANGED <<finalizedSeen, gaveUp, sent>>
    BY <1>0, <1>15, ResponseMoves DEF ReceiveResponse
  <2>2. \A u \in Triggers : Running(u)' <=> Running(u)
    BY <2>1 DEF Running
  <2>3. \A h : Covered(h) => Covered(h)'
    BY <2>1, <2>2, CoveredStays
  <2>4. SeenIsAccountedFor'
    BY <2>1, <2>2 DEF Order, SeenIsAccountedFor
  <2>5. \A u \in Triggers : \A p, c, f : Walked(u, p, c, f) => Walked(u, p, c, f)'
    BY <2>1, <2>3 DEF Walked
  <2> QED
    BY <2>1, <2>3, <2>4, <2>5 DEF Order, WalkedDown, SentCovered
<1>16. ASSUME UNCHANGED <<task, finalizedSeen, gaveUp, sent>>
      PROVE  Order'
  BY <1>16 DEF Order, SeenIsAccountedFor, WalkedDown, Walked, SentCovered, Covered, Running
<1>17. CASE Restart
  <2>1. /\ finalizedSeen' = {} /\ sent' = {}
        /\ \A t \in Triggers : task'[t].phase = "idle"
    BY <1>17 DEF Restart, IdleTask
  <2> QED
    BY <2>1 DEF Order, SeenIsAccountedFor, WalkedDown, Walked, SentCovered
<1>18. CASE MarkReported
  <2>1. /\ finalizedSeen' = finalizedSeen \cup {handling} /\ handling \in Triggers
        /\ Running(handling) \/ handling \in sent
        /\ UNCHANGED <<task, gaveUp, sent>>
    BY <1>0, <1>18 DEF MarkReported, Types, Base, TasksReported, requestVars
  <2>2. SeenIsAccountedFor'
    BY <2>1 DEF Order, SeenIsAccountedFor, Running
  <2>3. \A h : Covered(h) => Covered(h)'
    BY <2>1 DEF Covered, Running
  <2>4. \A u \in Triggers : \A p, c, f : Walked(u, p, c, f) => Walked(u, p, c, f)'
    BY <2>1, <2>3 DEF Walked
  <2> QED
    BY <2>1, <2>2, <2>3, <2>4 DEF Order, WalkedDown, SentCovered
<1>19. UNCHANGED vars \/ (\E m \in wire : PeerHandles(m)) => UNCHANGED <<task, finalizedSeen, gaveUp, sent>>
  BY DEF vars, PeerHandles, requestVars
<1> QED
  BY <1>1, <1>2, <1>3, <1>4, <1>5, <1>6, <1>7, <1>8, <1>9, <1>10, <1>11, <1>12,
     <1>13, <1>14, <1>15, <1>16, <1>17, <1>18, <1>19, Zenon
  DEF Next, TaskStep, Walk, Fetch, Finish, Deliver

-----------------------------------------------------------------------------
(* Every step, and what follows. *)

\* The invariant is inductive.
LEMMA NextIInv == IInv /\ [Next]_vars => IInv'
<1> SUFFICES ASSUME IInv, [Next]_vars
             PROVE  IInv'
  OBVIOUS
<1>1. Types /\ CursorInPlace /\ OneBlockEach /\ Base /\ Requests /\ Order /\ AnsweredWithBlockAskedFor
  BY DEF IInv, Base, Requests
<1>2. Types'
  BY <1>1, NextTypes
<1>3. CursorInPlace' /\ TasksReported' /\ OneBlockEach'
  BY <1>1, <1>2, NextPlace, NextOneBlockEach
<1>4. Requests' /\ Order'
  BY <1>1, <1>2, NextRequests, NextOrder
<1> QED
  BY <1>2, <1>3, <1>4 DEF IInv, Base

\* The invariant holds in every state of every execution.
THEOREM Invariant == Spec => []IInv
<1>1. Init => IInv
  BY InitIInv
<1>2. IInv /\ [Next]_vars => IInv'
  BY NextIInv
<1> QED
  BY <1>1, <1>2, PTL DEF Spec

\* Type correctness: in particular whatever is on the wire can be decoded.
THEOREM TypeCorrect == Spec => []TypeOK
<1>1. OneBlockEach => \A m \in wire : m[1] \in 0 .. NumPeers - 1 /\ Decode(m[2]) # DecodeError
  BY DEF OneBlockEach, DecodeError
<1>2. IInv => TypeOK
  BY <1>1 DEF IInv, Base, Types, TypeOK
<1> QED
  BY <1>2, Invariant, PTL

\* Nothing that counts as seen is lost: a block in finalized_seen is with
\* run_buffer or its own task is on the way to sending it.
THEOREM NothingSeenIsLost == Spec => []SeenIsAccountedFor
<1>1. IInv => SeenIsAccountedFor
  BY DEF IInv, Order
<1> QED
  BY <1>1, Invariant, PTL

\* While no task runs out of MAX_TOTAL_FETCH_MS, the forwarded blocks have no
\* hole below them that is not being closed.
THEOREM NoHole == Spec => []NoHoleBelowSent
<1>1. ASSUME IInv, gaveUp = {}, NEW h \in sent, NEW k \in 1 .. h - 1
      PROVE  k \in sent \/ \E t \in Triggers : Running(t) /\ k <= t /\ t <= h
  <2>1. h \in 1 .. N /\ Covered(h)
    BY <1>1 DEF IInv, Base, Types, Order, SentCovered
  <2>2. k \in 1 .. h
    BY <2>1
  <2> QED
    BY <2>1, <2>2 DEF Covered
<1>2. IInv => NoHoleBelowSent
  BY <1>1 DEF NoHoleBelowSent
<1> QED
  BY <1>2, Invariant, PTL

\* pending_ancestor_requests holds what a task waits for and nothing else,
\* through timeouts, late answers, failed sends and restarts.
THEOREM NoRequestLeaks == Spec => []NoLeakedRequest
<1>1. IInv => NoLeakedRequest
  BY DEF IInv, Requests
<1> QED
  BY <1>1, Invariant, PTL

\* The request id may be one of an earlier run of the process; the block a
\* task is handed is still the one it asked for.
THEOREM AnswersFit == Spec => []AnsweredWithBlockAskedFor
<1>1. IInv => AnsweredWithBlockAskedFor
  BY DEF IInv, Requests
<1> QED
  BY <1>1, Invariant, PTL

=============================================================================
