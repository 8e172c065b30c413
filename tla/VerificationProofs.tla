------------------------- MODULE VerificationProofs --------------------------
(***************************************************************************)
(* Proofs about Verification, for any number of validators and any leader  *)
(* schedule: the notarized blocks form chains, and a notarized block is    *)
(* kept.  Both rest on what a vote of a validator that is not the leader   *)
(* says about the block.                                                   *)
(***************************************************************************)
EXTENDS Verification, FiniteSetTheorems, TLAPS

\* The block of v is in n's storage or on the way there.
Kept(n, v) == proposal[v].block \in stored[n] \/ <<v, proposal[v].block>> \in queued[n]

\* The block of v is a child of its parent.
Child(v) == Extends(proposal[v].block, proposal[v].parent)

\* A view without a proposal has no task, vote or certificate.
Unproposed ==
  \A v \in View : ~Proposed(v) =>
    v \notin certified /\ \A n \in Honest : task[n][v] = "none" /\ <<n, v>> \notin votes

\* A proposal names a parent that is genesis or notarized.
ParentKnown ==
  \A v \in View : Proposed(v) =>
    /\ proposal[v].block \in Blocks
    /\ \/ proposal[v].pview = 0 /\ proposal[v].parent = Genesis
       \/ /\ proposal[v].pview \in certified /\ proposal[v].pview < v
          /\ proposal[v].parent = proposal[proposal[v].pview].block

\* A task that has handed its block over has checked it.
TasksChecked ==
  \A n \in Honest, v \in View : task[n][v] \in {"persisted", "true"} => Child(v) /\ Kept(n, v)

\* A vote for the block of another validator comes from such a task.
VotesChecked ==
  \A n \in Honest, v \in View :
    <<n, v>> \in votes /\ n # Leader[v] => Child(v) /\ (n \in crashed \/ Kept(n, v))

\* Only the finalization of a notarized view is reported.
Reported ==
  \A n \in Honest, v \in View : <<n, v>> \in finalized \/ pusher[n][v] # "none" => v \in certified

EnoughVotes == \A v \in certified : Cardinality(Voters(v)) + MaxFaulty >= Quorum

IInv == TypeOK /\ Unproposed /\ ParentKnown /\ TasksChecked /\ VotesChecked /\ Reported /\ EnoughVotes

-----------------------------------------------------------------------------
(* The initial states. *)

\* The invariant holds when the validators have started.
LEMMA InitIInv == Init => IInv
<1> SUFFICES ASSUME Init PROVE IInv
  OBVIOUS
<1> USE VerificationAssumption DEF Init
<1>1. TypeOK
  <2>1. NoProposal \in Proposal
    BY DEF NoProposal, Proposal, All
  <2>2. 1 \in View
    BY DEF View
  <2> QED
    BY <2>1, <2>2 DEF TypeOK
<1>2. \A v \in View : ~Proposed(v)
  BY DEF Proposed
<1>3. Unproposed /\ ParentKnown
  BY <1>2 DEF Unproposed, ParentKnown
<1>4. TasksChecked /\ VotesChecked /\ Reported /\ EnoughVotes
  BY DEF TasksChecked, VotesChecked, Reported, EnoughVotes
<1> QED
  BY <1>1, <1>3, <1>4 DEF IInv

-----------------------------------------------------------------------------
(* Types. *)

\* What a leader proposes, taken apart.
LEMMA ProposedFrom ==
  ASSUME NEW v \in View, Propose(v)
  PROVE  /\ \E p \in Parents(v), b \in Blocks :
              proposal' = [proposal EXCEPT ![v] = [block |-> b, pview |-> p[1], parent |-> p[2]]]
         /\ \E b \in Blocks :
              memory' = [n \in Honest |-> memory[n] \cup IF n = Leader[v] THEN {b} ELSE {}]
BY Zenon DEF Propose

\* Every step keeps the types of the state.
LEMMA NextTypeOK ==
  ASSUME TypeOK, Unproposed, ParentKnown, Reported, [Next]_vars
  PROVE  TypeOK'
<1>0. /\ \A v \in View : Proposed(v) => proposal[v].block \in Blocks
      /\ \A n \in Honest, v \in View : task[n][v] # "none" => Proposed(v)
      /\ \A n \in Honest, v \in View : pusher[n][v] # "none" => Proposed(v)
  BY DEF ParentKnown, Unproposed, Reported
<1> USE VerificationAssumption DEF TypeOK, taskVars
<1>1. ASSUME NEW v \in View, Propose(v)
      PROVE  TypeOK'
  <2>1. PICK p \in Parents(v), b \in Blocks :
          proposal' = [proposal EXCEPT ![v] = [block |-> b, pview |-> p[1], parent |-> p[2]]]
    BY <1>1, ProposedFrom
  <2>2. votes' = votes \cup ({Leader[v]} \cap Honest) \X {v}
    BY <1>1 DEF Propose
  <2>3. p[1] \in 0 .. MaxView /\ p[2] \in All
    <3>1. CASE p = <<0, Genesis>>
      BY <3>1 DEF All
    <3>2. CASE p \in { <<u, proposal[u].block>> : u \in certified \cap (1 .. v - 1) }
      <4>1. PICK u \in View : p = <<u, proposal[u].block>>
        BY <3>2
      <4>2. proposal[u].block \in All
        BY DEF Proposal
      <4> QED
        BY <4>1, <4>2 DEF View
    <3> QED
      BY <3>1, <3>2 DEF Parents
  <2>4. [block |-> b, pview |-> p[1], parent |-> p[2]] \in Proposal
    BY <2>3 DEF Proposal, All
  <2>5. proposal' \in [View -> Proposal]
    BY <2>1, <2>4
  <2>6. memory' \in [Honest -> SUBSET Blocks]
    <3>1. PICK c \in Blocks : memory' = [n \in Honest |-> memory[n] \cup IF n = Leader[v] THEN {c} ELSE {}]
      BY <1>1, ProposedFrom
    <3> QED
      BY <3>1
  <2>7. votes' \subseteq Honest \X View
    BY <2>2
  <2> QED
    BY <1>1, <2>5, <2>6, <2>7 DEF Propose
<1>2. ASSUME NEW v \in View, Certify(v)
      PROVE  TypeOK'
  BY <1>2 DEF Certify
<1>3. ASSUME NEW n \in Honest, EnterView(n)
      PROVE  TypeOK'
  <2>1. view[n] + 1 \in View /\ view[n] \in View
    BY <1>3 DEF EnterView, View
  <2>2. view' \in [Honest -> View]
    BY <1>3, <2>1 DEF EnterView
  <2>3. task' \in [Honest -> [View -> {"none", "waiting", "persisted", "true", "done"}]]
    BY <1>3, <2>1 DEF EnterView
  <2> QED
    BY <1>3, <2>2, <2>3 DEF EnterView
<1>4. ASSUME NEW n \in Honest, Store(n)
      PROVE  TypeOK'
  BY <1>4 DEF Store
<1>5. ASSUME NEW n \in Honest, Crash(n)
      PROVE  TypeOK'
  BY <1>5 DEF Crash
<1>6. ASSUME NEW n \in Honest, NEW v \in View, BlockArrives(n, v)
      PROVE  TypeOK'
  BY <1>0, <1>6 DEF BlockArrives
<1>7. ASSUME NEW n \in Honest, NEW v \in View, AskVerify(n, v)
      PROVE  TypeOK'
  BY <1>7 DEF AskVerify
<1>8. ASSUME NEW n \in Honest, NEW v \in View, Vote(n, v)
      PROVE  TypeOK'
  BY <1>8 DEF Vote
<1>9. ASSUME NEW n \in Honest, NEW v \in View, Check(n, v)
      PROVE  TypeOK'
  BY <1>0, <1>9 DEF Check
<1>10. ASSUME NEW n \in Honest, NEW v \in View, Answer(n, v)
      PROVE  TypeOK'
  BY <1>10 DEF Answer
<1>11. ASSUME NEW n \in Honest, NEW v \in View, Abort(n, v)
      PROVE  TypeOK'
  BY <1>11 DEF Abort
<1>12. ASSUME NEW n \in Honest, NEW v \in View, ReportFinalization(n, v)
      PROVE  TypeOK'
  BY <1>12 DEF ReportFinalization
<1>13. ASSUME NEW n \in Honest, NEW v \in View, PushFinalized(n, v)
      PROVE  TypeOK'
  BY <1>0, <1>13 DEF PushFinalized
<1>14. ASSUME NEW n \in Honest, NEW v \in View, HandleFinalized(n, v)
      PROVE  TypeOK'
  BY <1>0, <1>14 DEF HandleFinalized
<1>15. CASE Tick
  BY <1>15 DEF Tick
<1>16. CASE UNCHANGED vars
  BY <1>16 DEF vars
<1> QED
  BY <1>1, <1>2, <1>3, <1>4, <1>5, <1>6, <1>7, <1>8, <1>9, <1>10, <1>11, <1>12, <1>13, <1>14, <1>15, <1>16, Zenon DEF Next

-----------------------------------------------------------------------------
(* The other parts, by the actions that disturb them. *)

\* What a step that leaves the variables of a part alone does to it.
LEMMA Frame ==
  ASSUME IInv
  PROVE  /\ UNCHANGED <<proposal, certified, task, votes>> => Unproposed'
         /\ UNCHANGED <<proposal, certified>> => ParentKnown'
         /\ UNCHANGED <<proposal, task, stored, queued>> => TasksChecked'
         /\ UNCHANGED <<proposal, votes, crashed, stored, queued>> => VotesChecked'
         /\ UNCHANGED <<certified, finalized, pusher>> => Reported'
         /\ UNCHANGED <<certified, votes>> => EnoughVotes'
BY DEF IInv, Unproposed, ParentKnown, TasksChecked, VotesChecked, Reported, EnoughVotes,
       Proposed, Child, Kept, Voters

\* A view gets its proposal once, before anything else happens in it.
LEMMA ProposeStep ==
  ASSUME IInv, NEW v \in View, Propose(v)
  PROVE  /\ Unproposed' /\ ParentKnown' /\ TasksChecked' /\ VotesChecked' /\ Reported' /\ EnoughVotes'
<1> USE DEF IInv
<1>1. /\ ~Proposed(v)
      /\ votes' = votes \cup ({Leader[v]} \cap Honest) \X {v}
      /\ UNCHANGED <<certified, task, queued, finalized, pusher, stored, crashed>>
  BY DEF Propose
<1>2. PICK q \in Parents(v), b \in Blocks :
        proposal' = [proposal EXCEPT ![v] = [block |-> b, pview |-> q[1], parent |-> q[2]]]
  BY Zenon DEF Propose
<1>3. proposal \in [View -> Proposal]
  BY DEF TypeOK
<1>4. /\ \A u \in View : u # v => proposal'[u] = proposal[u]
      /\ proposal'[v] = [block |-> b, pview |-> q[1], parent |-> q[2]]
  BY <1>2, <1>3
<1>5. b # Genesis
  BY VerificationAssumption DEF Genesis
<1>6. /\ \A u \in View : u # v => (Proposed(u)' <=> Proposed(u))
      /\ Proposed(v)'
  BY <1>4, <1>5 DEF Proposed, NoProposal
<1>7. v \notin certified /\ \A n \in Honest : task[n][v] = "none" /\ <<n, v>> \notin votes
  BY <1>1 DEF Unproposed
<1>8. Unproposed'
  BY <1>1, <1>6 DEF Unproposed
<1>9. ParentKnown'
  <2>1. ASSUME NEW u \in View, Proposed(u)', u # v
        PROVE  /\ proposal'[u].block \in Blocks
               /\ \/ proposal'[u].pview = 0 /\ proposal'[u].parent = Genesis
                  \/ /\ proposal'[u].pview \in certified' /\ proposal'[u].pview < u
                     /\ proposal'[u].parent = proposal'[proposal'[u].pview].block
    <3>1. Proposed(u) /\ proposal'[u] = proposal[u]
      BY <1>4, <1>6, <2>1
    <3>2. proposal[u].pview \in certified => proposal[u].pview # v /\ proposal[u].pview \in View
      BY <1>7 DEF TypeOK
    <3> QED
      BY <1>1, <1>4, <3>1, <3>2 DEF ParentKnown
  <2>2. \/ q[1] = 0 /\ q[2] = Genesis
        \/ q[1] \in certified /\ q[1] < v /\ q[2] = proposal[q[1]].block
    <3>1. CASE q = <<0, Genesis>>
      BY <3>1
    <3>2. CASE q \in { <<u, proposal[u].block>> : u \in certified \cap (1 .. v - 1) }
      BY <3>2 DEF View
    <3> QED
      BY <3>1, <3>2 DEF Parents
  <2>3. q[1] \in certified => q[1] \in View /\ q[1] # v
    BY <1>7 DEF TypeOK
  <2>4. /\ proposal'[v].block \in Blocks
        /\ \/ proposal'[v].pview = 0 /\ proposal'[v].parent = Genesis
           \/ /\ proposal'[v].pview \in certified' /\ proposal'[v].pview < v
              /\ proposal'[v].parent = proposal'[proposal'[v].pview].block
    BY <1>1, <1>4, <2>2, <2>3
  <2> QED
    BY <2>1, <2>4 DEF ParentKnown
<1>10. TasksChecked'
  BY <1>1, <1>4, <1>7 DEF TasksChecked, Child, Kept
<1>11. VotesChecked'
  <2> SUFFICES ASSUME NEW n \in Honest, NEW u \in View, <<n, u>> \in votes', n # Leader[u]
               PROVE  (Child(u) /\ (n \in crashed \/ Kept(n, u)))'
    BY DEF VotesChecked
  <2>1. <<n, u>> \in votes
    BY <1>1
  <2>2. u # v
    BY <1>7, <2>1
  <2> QED
    BY <1>1, <1>4, <2>1, <2>2 DEF VotesChecked, Child, Kept
<1>12. Reported'
  BY <1>1 DEF Reported
<1>13. EnoughVotes'
  <2>1. \A u \in View : u # v => Voters(u)' = Voters(u)
    BY <1>1 DEF Voters
  <2>2. certified \subseteq View
    BY DEF TypeOK
  <2> QED
    BY <1>1, <1>7, <2>1, <2>2 DEF EnoughVotes
<1> QED
  BY <1>8, <1>9, <1>10, <1>11, <1>12, <1>13

\* Votes are cast by tasks that are through, and more of them do no harm.
LEMMA VoteStep ==
  ASSUME IInv, NEW n \in Honest, NEW v \in View, Vote(n, v)
  PROVE  /\ Unproposed' /\ ParentKnown' /\ TasksChecked' /\ VotesChecked' /\ Reported' /\ EnoughVotes'
<1> USE DEF IInv
<1>1. /\ task[n][v] = "true"
      /\ task' = [task EXCEPT ![n][v] = "done"]
      /\ votes' = votes \cup {<<n, v>>}
      /\ UNCHANGED <<proposal, certified, queued, finalized, pusher, stored, crashed>>
  BY DEF Vote
<1>2. \A m \in Honest, u \in View : task'[m][u] = IF m = n /\ u = v THEN "done" ELSE task[m][u]
  BY <1>1 DEF TypeOK
<1>3. Child(v) /\ Kept(n, v)
  BY <1>1 DEF TasksChecked
<1>4. Proposed(v)
  BY <1>1 DEF Unproposed
<1>5. Unproposed'
  BY <1>1, <1>2, <1>4 DEF Unproposed, Proposed
<1>6. TasksChecked'
  BY <1>1, <1>2 DEF TasksChecked, Child, Kept
<1>7. VotesChecked'
  BY <1>1, <1>3 DEF VotesChecked, Child, Kept
<1>8. EnoughVotes'
  <2> SUFFICES ASSUME NEW u \in certified'
               PROVE  (Cardinality(Voters(u)) + MaxFaulty >= Quorum)'
    BY DEF EnoughVotes
  <2>1. Voters(u) \subseteq Voters(u)' /\ Voters(u)' \subseteq Honest
    BY <1>1 DEF Voters
  <2>2. IsFiniteSet(Voters(u)')
    BY <2>1, VerificationAssumption, FS_Subset
  <2>3. Cardinality(Voters(u)) <= Cardinality(Voters(u)')
    BY <2>1, <2>2, FS_Subset
  <2>4. Cardinality(Voters(u)) \in Nat /\ Cardinality(Voters(u)') \in Nat
    BY <2>1, <2>2, FS_Subset, FS_CardinalityType
  <2>5. Cardinality(Voters(u)) + MaxFaulty >= Quorum
    BY <1>1 DEF EnoughVotes
  <2> HIDE DEF IInv
  <2> QED
    BY <2>3, <2>4, <2>5, VerificationAssumption
<1>9. ParentKnown' /\ Reported'
  BY <1>1, Frame
<1> QED
  BY <1>5, <1>6, <1>7, <1>8, <1>9

\* Only valid blocks go to marshal, and the answer comes after that.
LEMMA CheckStep ==
  ASSUME IInv, NEW n \in Honest, NEW v \in View, Check(n, v)
  PROVE  Unproposed' /\ TasksChecked' /\ VotesChecked'
<1> USE DEF IInv
<1>1. /\ task[n][v] = "waiting"
      /\ task' = [task EXCEPT ![n][v] = IF Valid(proposal[v].block, proposal[v].parent)
                                        THEN "persisted" ELSE "done"]
      /\ queued' = [queued EXCEPT ![n] = @ \cup IF Valid(proposal[v].block, proposal[v].parent)
                                                THEN {<<v, proposal[v].block>>} ELSE {}]
      /\ UNCHANGED <<proposal, certified, votes, stored, crashed>>
  BY DEF Check
<1>2. \A m \in Honest, u \in View : m # n \/ u # v => task'[m][u] = task[m][u]
  BY <1>1 DEF TypeOK
<1>3. task'[n][v] = "persisted" =>
        Valid(proposal[v].block, proposal[v].parent) /\ <<v, proposal[v].block>> \in queued'[n]
  BY <1>1 DEF TypeOK
<1>4. task'[n][v] \in {"persisted", "done"}
  BY <1>1 DEF TypeOK
<1>5. \A m \in Honest : queued[m] \subseteq queued'[m]
  BY <1>1 DEF TypeOK
<1>6. \A m \in Honest, u \in View : Kept(m, u) => Kept(m, u)'
  BY <1>1, <1>5 DEF Kept
<1>7. Proposed(v)
  BY <1>1 DEF Unproposed
<1>8. Unproposed'
  BY <1>1, <1>2, <1>7 DEF Unproposed, Proposed
<1>9. TasksChecked'
  <2>1. task'[n][v] \in {"persisted", "true"} => Child(v)' /\ Kept(n, v)'
    BY <1>1, <1>3, <1>4 DEF Valid, Child, Kept
  <2>2. \A m \in Honest, u \in View :
          (m # n \/ u # v) /\ task'[m][u] \in {"persisted", "true"} => Child(u)' /\ Kept(m, u)'
    BY <1>1, <1>2, <1>6 DEF TasksChecked, Child
  <2> QED
    BY <2>1, <2>2 DEF TasksChecked
<1>10. VotesChecked'
  BY <1>1, <1>6 DEF VotesChecked, Child
<1> QED
  BY <1>8, <1>9, <1>10

\* What marshal takes from its queue it stores.
LEMMA StoreStep ==
  ASSUME IInv, NEW n \in Honest, Store(n)
  PROVE  TasksChecked' /\ VotesChecked'
<1> USE DEF IInv
<1>1. PICK m \in queued[n] : /\ queued' = [queued EXCEPT ![n] = @ \ {m}]
                             /\ stored' = [stored EXCEPT ![n] = @ \cup {m[2]}]
                             /\ UNCHANGED <<proposal, task, votes, crashed>>
  BY Zenon DEF Store
<1>2. \A k \in Honest, u \in View : Kept(k, u) => Kept(k, u)'
  <2> SUFFICES ASSUME NEW k \in Honest, NEW u \in View, Kept(k, u)
               PROVE  Kept(k, u)'
    OBVIOUS
  <2>1. CASE k # n
    BY <1>1, <2>1 DEF Kept, TypeOK
  <2>2. CASE k = n
    <3>1. stored'[n] = stored[n] \cup {m[2]} /\ queued'[n] = queued[n] \ {m}
      BY <1>1 DEF TypeOK
    <3>2. CASE m = <<u, proposal[u].block>>
      BY <1>1, <2>2, <3>1, <3>2 DEF Kept
    <3>3. CASE m # <<u, proposal[u].block>>
      BY <1>1, <2>2, <3>1, <3>3 DEF Kept
    <3> QED
      BY <3>2, <3>3
  <2> QED
    BY <2>1, <2>2
<1> QED
  BY <1>1, <1>2 DEF TasksChecked, VotesChecked, Child

\* A crash takes the tasks with it; the votes stay.
LEMMA CrashStep ==
  ASSUME IInv, NEW n \in Honest, Crash(n)
  PROVE  Unproposed' /\ TasksChecked' /\ VotesChecked' /\ Reported'
<1> USE DEF IInv
<1>1. /\ crashed' = crashed \cup {n}
      /\ task' = [task EXCEPT ![n] = [v \in View |-> "none"]]
      /\ pusher' = [pusher EXCEPT ![n] = [v \in View |-> IF <<n, v>> \in finalized
                                                        THEN "waiting" ELSE "none"]]
      /\ queued' = [queued EXCEPT ![n] = {}]
      /\ UNCHANGED <<proposal, certified, votes, finalized, stored>>
  BY DEF Crash
<1>2. \A m \in Honest, u \in View : task'[m][u] = IF m = n THEN "none" ELSE task[m][u]
  BY <1>1 DEF TypeOK
<1>3. \A m \in Honest, u \in View : m # n /\ Kept(m, u) => Kept(m, u)'
  BY <1>1 DEF Kept, TypeOK
<1>4. Unproposed' /\ Reported'
  <2>1. \A m \in Honest, u \in View :
          pusher'[m][u] # "none" => pusher[m][u] # "none" \/ <<m, u>> \in finalized
    BY <1>1 DEF TypeOK
  <2> QED
    BY <1>1, <1>2, <2>1 DEF Unproposed, Proposed, Reported
<1>5. TasksChecked'
  BY <1>1, <1>2, <1>3 DEF TasksChecked, Child
<1>6. VotesChecked'
  BY <1>1, <1>3 DEF VotesChecked, Child
<1> QED
  BY <1>4, <1>5, <1>6

-----------------------------------------------------------------------------
(* Every step. *)

\* The invariant is inductive.
LEMMA NextIInv == IInv /\ [Next]_vars => IInv'
<1> SUFFICES ASSUME IInv, [Next]_vars
             PROVE  IInv'
  OBVIOUS
<1>1. TypeOK'
  BY NextTypeOK DEF IInv
<1> SUFFICES Unproposed' /\ ParentKnown' /\ TasksChecked' /\ VotesChecked' /\ Reported' /\ EnoughVotes'
  BY <1>1 DEF IInv
<1>2. ASSUME NEW v \in View, Propose(v)
      PROVE  Unproposed' /\ ParentKnown' /\ TasksChecked' /\ VotesChecked' /\ Reported' /\ EnoughVotes'
  BY <1>2, ProposeStep
<1>3. ASSUME NEW v \in View, Certify(v)
      PROVE  Unproposed' /\ ParentKnown' /\ TasksChecked' /\ VotesChecked' /\ Reported' /\ EnoughVotes'
  <2>1. /\ Proposed(v) /\ certified' = certified \cup {v}
        /\ Cardinality(Voters(v)) + MaxFaulty >= Quorum
        /\ UNCHANGED <<proposal, task, votes, queued, stored, crashed, finalized, pusher>>
    BY <1>3 DEF Certify, taskVars
  <2>2. Unproposed'
    BY <2>1 DEF IInv, Unproposed, Proposed
  <2>3. ParentKnown'
    BY <2>1 DEF IInv, ParentKnown, Proposed
  <2>4. Reported'
    BY <2>1 DEF IInv, Reported
  <2>5. EnoughVotes'
    BY <2>1 DEF IInv, EnoughVotes, Voters
  <2> QED
    BY <2>1, <2>2, <2>3, <2>4, <2>5, Frame
<1>4. ASSUME NEW n \in Honest, EnterView(n)
      PROVE  Unproposed' /\ ParentKnown' /\ TasksChecked' /\ VotesChecked' /\ Reported' /\ EnoughVotes'
  <2>1. /\ task' = [task EXCEPT ![n][view[n]] = IF @ = "true" THEN "done" ELSE @]
        /\ UNCHANGED <<proposal, certified, votes, queued, stored, crashed, finalized, pusher>>
    BY <1>4 DEF EnterView
  <2>2. \A m \in Honest, u \in View :
          task'[m][u] = task[m][u] \/ (task[m][u] = "true" /\ task'[m][u] = "done")
    BY <2>1 DEF IInv, TypeOK
  <2>3. Unproposed'
    BY <2>1, <2>2 DEF IInv, Unproposed, Proposed
  <2>4. TasksChecked'
    BY <2>1, <2>2 DEF IInv, TasksChecked, Child, Kept
  <2> QED
    BY <2>1, <2>3, <2>4, Frame
<1>5. ASSUME NEW n \in Honest, Store(n)
      PROVE  Unproposed' /\ ParentKnown' /\ TasksChecked' /\ VotesChecked' /\ Reported' /\ EnoughVotes'
  <2>1. UNCHANGED <<proposal, certified, task, votes, finalized, pusher>>
    BY <1>5 DEF Store
  <2> QED
    BY <1>5, <2>1, StoreStep, Frame
<1>6. ASSUME NEW n \in Honest, Crash(n)
      PROVE  Unproposed' /\ ParentKnown' /\ TasksChecked' /\ VotesChecked' /\ Reported' /\ EnoughVotes'
  <2>1. UNCHANGED <<proposal, certified, votes>>
    BY <1>6 DEF Crash
  <2> QED
    BY <1>6, <2>1, CrashStep, Frame
<1>7. ASSUME NEW n \in Honest, NEW v \in View, AskVerify(n, v)
      PROVE  Unproposed' /\ ParentKnown' /\ TasksChecked' /\ VotesChecked' /\ Reported' /\ EnoughVotes'
  <2>1. /\ Proposed(v) /\ task' = [task EXCEPT ![n][v] = "waiting"]
        /\ UNCHANGED <<proposal, certified, votes, queued, stored, crashed, finalized, pusher>>
    BY <1>7 DEF AskVerify
  <2>2. \A m \in Honest, u \in View :
          task'[m][u] = IF m = n /\ u = v THEN "waiting" ELSE task[m][u]
    BY <2>1 DEF IInv, TypeOK
  <2>3. Unproposed'
    BY <2>1, <2>2 DEF IInv, Unproposed, Proposed
  <2>4. TasksChecked'
    BY <2>1, <2>2 DEF IInv, TasksChecked, Child, Kept
  <2> QED
    BY <2>1, <2>3, <2>4, Frame
<1>8. ASSUME NEW n \in Honest, NEW v \in View, Vote(n, v)
      PROVE  Unproposed' /\ ParentKnown' /\ TasksChecked' /\ VotesChecked' /\ Reported' /\ EnoughVotes'
  BY <1>8, VoteStep
<1>9. ASSUME NEW n \in Honest, NEW v \in View, Check(n, v)
      PROVE  Unproposed' /\ ParentKnown' /\ TasksChecked' /\ VotesChecked' /\ Reported' /\ EnoughVotes'
  <2>1. UNCHANGED <<proposal, certified, votes, finalized, pusher>>
    BY <1>9 DEF Check
  <2> QED
    BY <1>9, <2>1, CheckStep, Frame
<1>10. ASSUME NEW n \in Honest, NEW v \in View, Answer(n, v) \/ Abort(n, v)
      PROVE  Unproposed' /\ ParentKnown' /\ TasksChecked' /\ VotesChecked' /\ Reported' /\ EnoughVotes'
  <2>1. /\ \/ task[n][v] = "persisted" /\ task' = [task EXCEPT ![n][v] = IF view[n] = v THEN "true" ELSE "done"]
           \/ task[n][v] = "waiting" /\ task' = [task EXCEPT ![n][v] = "done"]
        /\ UNCHANGED <<proposal, certified, votes, queued, stored, crashed, finalized, pusher>>
    BY <1>10 DEF Answer, Abort
  <2>2. \A m \in Honest, u \in View :
          \/ task'[m][u] = task[m][u]
          \/ task'[m][u] = "done" /\ task[m][u] # "none"
          \/ task'[m][u] = "true" /\ task[m][u] = "persisted"
    BY <2>1 DEF IInv, TypeOK
  <2>3. Unproposed'
    BY <2>1, <2>2 DEF IInv, Unproposed, Proposed
  <2>4. TasksChecked'
    BY <2>1, <2>2 DEF IInv, TasksChecked, Child, Kept
  <2> QED
    BY <2>1, <2>3, <2>4, Frame
<1>11. ASSUME NEW n \in Honest, NEW v \in View,
              ReportFinalization(n, v) \/ PushFinalized(n, v) \/ HandleFinalized(n, v)
      PROVE  Unproposed' /\ ParentKnown' /\ TasksChecked' /\ VotesChecked' /\ Reported' /\ EnoughVotes'
  <2>1. /\ \/ v \in certified /\ finalized' = finalized \cup {<<n, v>>}
              /\ pusher' = [pusher EXCEPT ![n][v] = "waiting"]
           \/ pusher[n][v] # "none" /\ finalized' = finalized
              /\ \E s \in {"sent", "handled"} : pusher' = [pusher EXCEPT ![n][v] = s]
        /\ UNCHANGED <<proposal, certified, task, votes, stored, crashed>>
    BY <1>11 DEF ReportFinalization, PushFinalized, HandleFinalized
  <2>2. \A m \in Honest, u \in View :
          <<m, u>> \in finalized' \/ pusher'[m][u] # "none"
            => <<m, u>> \in finalized \/ pusher[m][u] # "none" \/ (u = v /\ v \in certified)
    BY <2>1 DEF IInv, TypeOK
  <2>3. Reported'
    BY <2>1, <2>2 DEF IInv, Reported
  <2>4. \A m \in Honest : queued[m] \subseteq queued'[m]
    BY <1>11 DEF ReportFinalization, PushFinalized, HandleFinalized, IInv, TypeOK
  <2>5. \A m \in Honest, u \in View : Kept(m, u) => Kept(m, u)'
    BY <2>1, <2>4 DEF Kept
  <2>6. TasksChecked' /\ VotesChecked'
    BY <2>1, <2>5 DEF IInv, TasksChecked, VotesChecked, Child
  <2> QED
    BY <2>1, <2>3, <2>6, Frame
<1>12. CASE \/ Tick \/ UNCHANGED vars
            \/ \E n \in Honest, v \in View : BlockArrives(n, v)
  <2>1. UNCHANGED <<proposal, certified, task, votes, queued, stored, crashed, finalized, pusher>>
    BY <1>12 DEF Tick, BlockArrives, vars, taskVars
  <2> QED
    BY <2>1, Frame
<1> QED
  BY <1>2, <1>3, <1>4, <1>5, <1>6, <1>7, <1>8, <1>9, <1>10, <1>11, <1>12, Zenon DEF Next

-----------------------------------------------------------------------------
(* What follows from the invariant. *)

\* Every certificate holds the vote of an honest validator that is not the
\* leader, and with few crashes of one that has not crashed.
LEMMA Verifier ==
  ASSUME IInv, NEW v \in certified
  PROVE  /\ \E n \in Voters(v) : n # Leader[v]
         /\ Cardinality(crashed) < Persisters(v)
              => \E n \in Voters(v) : n # Leader[v] /\ n \notin crashed
<1> DEFINE L == {Leader[v]} \cap Honest
           V == Voters(v)
<1>1. IsFiniteSet(Honest) /\ V \subseteq Honest /\ L \subseteq Honest /\ crashed \subseteq Honest
  BY VerificationAssumption DEF Voters, IInv, TypeOK
<1>2. IsFiniteSet(V) /\ IsFiniteSet(L) /\ IsFiniteSet(crashed)
  BY <1>1, FS_Subset
<1>3. Cardinality(L) \in {0, 1}
  <2>1. L = {} \/ L = {Leader[v]}
    OBVIOUS
  <2> QED
    BY <2>1, FS_EmptySet, FS_Singleton
<1>4. Cardinality(V) \in Nat /\ Cardinality(crashed) \in Nat
  BY <1>2, FS_CardinalityType
<1>5. Cardinality(V) + MaxFaulty >= Quorum
  BY DEF IInv, EnoughVotes
<1>6. MaxFaulty \in Nat /\ Quorum \in Nat /\ Quorum > MaxFaulty + 1
  BY VerificationAssumption, QuorumAssumption
<1>7. \E n \in V : n # Leader[v]
  <2> SUFFICES ASSUME \A n \in V : n = Leader[v]
               PROVE  FALSE
    OBVIOUS
  <2>1. V \subseteq L
    BY <1>1
  <2>2. Cardinality(V) <= Cardinality(L)
    BY <1>2, <2>1, FS_Subset
  <2> HIDE DEF V, L
  <2> QED
    BY <1>3, <1>4, <1>5, <1>6, <2>2
<1>8. ASSUME Cardinality(crashed) < Persisters(v)
      PROVE  \E n \in V : n # Leader[v] /\ n \notin crashed
  <2> SUFFICES ASSUME \A n \in V : n = Leader[v] \/ n \in crashed
               PROVE  FALSE
    OBVIOUS
  <2>1. V \subseteq L \cup crashed
    BY <1>1
  <2>2. /\ IsFiniteSet(L \cup crashed)
        /\ Cardinality(L \cup crashed) = Cardinality(L) + Cardinality(crashed) - Cardinality(L \cap crashed)
    BY <1>2, FS_Union
  <2>3. Cardinality(L \cap crashed) \in Nat
    BY <1>2, FS_Intersection, FS_CardinalityType
  <2>4. Cardinality(V) <= Cardinality(L \cup crashed)
    BY <2>1, <2>2, FS_Subset
  <2>5. Persisters(v) = Quorum - MaxFaulty - Cardinality(L)
    BY DEF Persisters
  <2> HIDE DEF V, L
  <2> QED
    BY <1>3, <1>4, <1>5, <1>6, <1>8, <2>2, <2>3, <2>4, <2>5
<1> QED
  BY <1>7, <1>8

\* What the invariant gives.
LEMMA IInvImplies == IInv => CertifiedChain /\ CertifiedBlockKept
<1> SUFFICES ASSUME IInv, NEW v \in certified
             PROVE  /\ Child(v)
                    /\ \/ proposal[v].pview = 0 /\ proposal[v].parent = Genesis
                       \/ /\ proposal[v].pview \in certified /\ proposal[v].pview < v
                          /\ proposal[v].parent = proposal[proposal[v].pview].block
                    /\ Cardinality(crashed) < Persisters(v) => \E n \in Honest : Kept(n, v)
  BY DEF CertifiedChain, CertifiedBlockKept, Child, Extends, Kept
<1>1. v \in View /\ Proposed(v)
  BY DEF IInv, TypeOK, Unproposed
<1>2. \A n \in Voters(v) : n # Leader[v] => n \in Honest /\ Child(v) /\ (n \in crashed \/ Kept(n, v))
  BY <1>1 DEF IInv, VotesChecked, Voters
<1>3. ParentKnown
  BY DEF IInv
<1> QED
  BY <1>1, <1>2, <1>3, Verifier DEF ParentKnown

\* The invariant holds in every state of every execution.
THEOREM Invariant == Spec => []IInv
<1>1. Init => IInv
  BY InitIInv
<1>2. IInv /\ [Next]_vars => IInv'
  BY NextIInv
<1> QED
  BY <1>1, <1>2, PTL DEF Spec

\* Type correctness, for any validators, leaders and blocks.
THEOREM TypeCorrect == Spec => []TypeOK
<1>1. IInv => TypeOK
  BY DEF IInv
<1> QED
  BY <1>1, Invariant, PTL

\* Whatever a faulty leader proposes, a notarized block is the child of the
\* notarized block, or of genesis, that its proposal names: Message::Verify
\* compares digest, height and time with the parent before it answers.
THEOREM ChainsAreSound == Spec => []CertifiedChain
<1>1. IInv => CertifiedChain
  BY IInvImplies
<1> QED
  BY <1>1, Invariant, PTL

\* A notarized block survives as many crashes as it has verifying votes less
\* one: Message::Verify calls marshal.verified before it answers.
THEOREM NotarizedBlockKept == Spec => []CertifiedBlockKept
<1>1. IInv => CertifiedBlockKept
  BY IInvImplies
<1> QED
  BY <1>1, Invariant, PTL

=============================================================================
